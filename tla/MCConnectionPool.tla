-------------------------- MODULE MCConnectionPool --------------------------
(* ConnectionPool with more workers than connections.                       *)
EXTENDS ConnectionPool
=============================================================================
