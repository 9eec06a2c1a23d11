---------------------------- MODULE GameManager -----------------------------
(***************************************************************************)
(* One match of the game manager (game_manager/game_manager.cpp) with the  *)
(* requests that reach it (http_handler/game_handler.cpp): the end of      *)
(* CreateSession, the moves, the polls for changes, and the end of the     *)
(* match. The requests run on the threads of one io_context and interleave *)
(* between any two of the steps below.                                     *)
(*                                                                         *)
(* The match is a count of accepted moves and whether it has a result: the *)
(* Session itself is module GameSession. The two maps of the manager have  *)
(* no lock of their own; a single operation on one is taken to be atomic.  *)
(*                                                                         *)
(* FinishSession destroys the mutex other moves wait for, and its caller   *)
(* unlocks it once more. The memory of the destroyed mutex stays a mutex   *)
(* to those who have a reference to it, and the last unlock frees it under *)
(* whoever holds it, or does nothing; whose else the memory may become is  *)
(* left out. Who asks for the match's mutex after that is given a new one. *)
(***************************************************************************)
EXTENDS Integers, FiniteSets, SessionStateNotifier

CONSTANTS P1, P2,      \* the players, in the order they are notified
          UserOf,      \* the user a connection belongs to
          Movers,      \* the connections moves come on
          NoMover,     \* the value of a free mutex
          PlayerOf,    \* the player a mover's connection belongs to
          MaxVersion   \* bound on the accepted moves

ASSUME PlayersAssumption == P1 \in Users /\ P2 \in Users /\ P1 # P2
ASSUME UserOfAssumption == UserOf \in [Conns -> Users]
ASSUME PlayerOfAssumption == PlayerOf \in [Movers -> {P1, P2}]
ASSUME NoMoverAssumption == NoMover \notin Movers
ASSUME MaxVersionAssumption == MaxVersion \in Nat

VARIABLES creator,   \* where CreateSession stands
          session,   \* sessions_ has the match's Session
          version,   \* the moves the Session has accepted
          over,      \* its scoreboard_ is not empty
          placed,    \* the mutex that session_mutex_ has for the match
          owner,     \* the mover that has locked a mutex, or NoMover
          mine,      \* the mutex a mover's unique_lock refers to
          pc,        \* where a mover's request stands
          lines,     \* the calls of AddLine for the match
          row,       \* the sessions table has the match's result
          notifier,  \* the SessionStateNotifier's data for the match
          owed,      \* the answers a poll connection waits for
          refused,   \* connections whose poll was refused, not answered yet
          seen,      \* history: the version a user was last told
          since,     \* history: the version at SessionCreated, or -1
          sent,      \* history: the answers of the last step
          crashed    \* an exception left a worker: std::terminate

mutexVars == <<placed, owner, mine>>
gmVars == <<creator, session, version, over, mutexVars, lines, row>>
pollVars == <<notifier, owed, refused, seen, since>>
vars == <<gmVars, pc, pollVars, sent, crashed>>

\* Where a move stands: before GameManager::HasPlayer(id, sid), in it, before
\* ApiMove, before it finds its mutex and locks it, with the mutex at each call,
\* behind FinishSession's unlock at what is left of it, and refused.
Entering == {"contains", "at", "check", "find", "lock"}
Locked == {"move", "notify", "results", "record", "unsubscribe", "erase", "unlock"}
Leaving == {"destroy", "release"}
PC == {"idle", "define"} \cup Entering \cup Locked \cup Leaving

\* The mutex the match has from the first move on, and the one that
\* session_mutex_[sid] makes when that one was erased.
Mutexes == {"first", "second"}

Init == /\ creator = "notify1"
        /\ session = TRUE
        /\ version = 0 /\ over = FALSE
        /\ placed = "first"
        /\ owner = [x \in Mutexes |-> NoMover]
        /\ mine = [m \in Movers |-> "first"]
        /\ pc = [m \in Movers |-> "idle"]
        /\ lines = 0 /\ row = FALSE
        /\ notifier = NoSubscribers
        /\ owed = [c \in Conns |-> 0] /\ refused = {}
        /\ seen = [u \in Users |-> 0] /\ since = -1
        /\ sent = {} /\ crashed = FALSE

\* A player knows the session id once the queue notifier was told; anyone may
\* watch then.
Knows(u) == creator # "notify1" /\ (u = P2 => creator # "notify2")

-----------------------------------------------------------------------------
(* Answers. *)

\* What GetPublicLine finds decides between the two answers for a match that
\* is not there.
GetPublicLine == IF row THEN "finished" ELSE "wrong_session"

\* Mutant: the responser passes NotRelevant on.
ReplyRaw(a) == a

\* ChangePoll's responser answers NotRelevant with what GetPublicLine finds.
Reply(a) == [conn |-> a.conn,
             status |-> IF a.status # "not_relevant" THEN a.status ELSE GetPublicLine]

AnsweredOn(c, answers) == Cardinality({a \in answers : a.conn = c})

\* The responsers run; `asked' is the connection whose request this step is.
Answer(result, asked) ==
    /\ notifier' = result.n
    /\ owed' = [c \in Conns |-> owed[c] + (IF c \in asked THEN 1 ELSE 0)
                                 - AnsweredOn(c, result.answers)]
    /\ sent' = {Reply(a) : a \in result.answers}
    /\ seen' = [u \in Users |->
                  IF \/ \E a \in result.answers : a.status = "ok" /\ UserOf[a.conn] = u
                     \/ /\ notifier.responser[u] = Absent  \* a spectator has read the state
                        /\ result.n.responser[u] # Absent
                        /\ u \notin {P1, P2}
                  THEN version ELSE seen[u]]

-----------------------------------------------------------------------------
(* GameManager::CreateSession, from the session's Init on. *)
NotifyQueue ==
    /\ creator' = CASE creator = "notify1" -> "notify2"
                    [] creator = "notify2" -> "created"
    /\ sent' = {}
    /\ UNCHANGED <<session, version, over, mutexVars, lines, row, pc, pollVars, crashed>>

CreateSubscribers ==
    /\ creator = "created"
    /\ creator' = "done"
    /\ notifier' = SessionCreated(notifier, P1, P2)
    /\ since' = version
    /\ sent' = {}
    /\ UNCHANGED <<session, version, over, mutexVars, lines, row, pc, owed, refused, seen, crashed>>

Create == (creator \in {"notify1", "notify2"} /\ NotifyQueue) \/ CreateSubscribers

-----------------------------------------------------------------------------
(* GameHandler::ApiMove, GameManager::ApiMove, CheckStatus, FinishSession. *)

\* The move goes on at `to'; answering it ends the request.
Goto(m, from, to) ==
    /\ pc[m] = from
    /\ pc' = [pc EXCEPT ![m] = to]
    /\ sent' = {}

StartMove(m) ==
    /\ Knows(PlayerOf[m])
    /\ Goto(m, "idle", "contains")
    /\ UNCHANGED <<gmVars, pollVars, crashed>>

\* sessions_.contains in HasPlayer and in ApiMove.
Contains(m) ==
    /\ \/ Goto(m, "contains", IF session THEN "at" ELSE "define")
       \/ Goto(m, "check", IF session THEN "find" ELSE "define")
    /\ UNCHANGED <<gmVars, pollVars, crashed>>

\* sessions_.at in HasPlayer: throws when the match was erased meanwhile.
At(m) ==
    /\ Goto(m, "at", "check")
    /\ crashed' = ~session
    /\ UNCHANGED <<gmVars, pollVars>>

\* session_mutex_[sid], which makes a mutex where there is none.
FindMutex(m) ==
    /\ Goto(m, "find", "lock")
    /\ mine' = [mine EXCEPT ![m] = placed]
    /\ UNCHANGED <<creator, session, version, over, placed, owner, lines, row, pollVars, crashed>>

\* Mutant: every move locks a mutex of its own.
LockNothing(m) ==
    /\ Goto(m, "lock", "move")
    /\ owner' = [owner EXCEPT ![mine[m]] = m]
    /\ UNCHANGED <<creator, session, version, over, placed, mine, lines, row, pollVars, crashed>>

Lock(m) ==
    /\ owner[mine[m]] = NoMover
    /\ Goto(m, "lock", "move")
    /\ owner' = [owner EXCEPT ![mine[m]] = m]
    /\ UNCHANGED <<creator, session, version, over, placed, mine, lines, row, pollVars, crashed>>

\* ApiMove returns, and its unique_lock unlocks.
Unlock(m, from) ==
    /\ Goto(m, from, "idle")
    /\ owner' = [owner EXCEPT ![mine[m]] = NoMover]
    /\ UNCHANGED <<placed, mine>>

\* sessions_.at(sid)->ApiMove(id, data): refused by the validators, or
\* accepted, whether or not it, or its timer, ends the match.
Move(m) ==
    /\ \/ /\ ~session
          /\ Goto(m, "move", "move")
          /\ crashed' = TRUE
          /\ UNCHANGED <<version, over, mutexVars>>
       \/ /\ session
          /\ Unlock(m, "move")
          /\ UNCHANGED <<version, over, crashed>>
       \/ /\ session
          /\ version < MaxVersion
          /\ Goto(m, "move", "notify")
          /\ version' = version + 1
          /\ over' \in {over, TRUE}
          /\ UNCHANGED <<mutexVars, crashed>>
    /\ UNCHANGED <<creator, session, lines, row, pollVars>>

\* SessionStateNotifier::Notify.
NotifyMove(m) ==
    /\ pc[m] = "notify"
    /\ pc' = [pc EXCEPT ![m] = "results"]
    /\ Answer(Notify(notifier), {})
    /\ UNCHANGED <<gmVars, refused, since, crashed>>

\* Mutant: the mutex is released by hand on one path only.
GetResultsStillLocked(m) ==
    /\ \/ over /\ Goto(m, "results", "record")
       \/ ~over /\ Goto(m, "results", "idle")
    /\ UNCHANGED <<gmVars, pollVars, crashed>>

\* GetResults: no result lets the match go on.
GetResults(m) ==
    /\ \/ over /\ Goto(m, "results", "record") /\ UNCHANGED mutexVars
       \/ ~over /\ Unlock(m, "results")
    /\ UNCHANGED <<creator, session, version, over, lines, row, pollVars, crashed>>

\* SessionManagerPostgres::AddLine, whose failure is ignored.
AddLine == lines' = lines + 1 /\ row' \in {row, TRUE}

\* The users' lookups, which may fail, and AddLine.
Record(m) ==
    /\ \/ /\ Unlock(m, "record")
          /\ UNCHANGED <<lines, row>>
       \/ /\ Goto(m, "record", "unsubscribe")
          /\ AddLine
          /\ UNCHANGED mutexVars
    /\ UNCHANGED <<creator, session, version, over, pollVars, crashed>>

UnsubscribeAll(m) ==
    /\ pc[m] = "unsubscribe"
    /\ pc' = [pc EXCEPT ![m] = "erase"]
    /\ Answer(Unsubscribe(notifier), {})
    /\ UNCHANGED <<gmVars, refused, since, crashed>>

\* Mutant: a match that is over stays in sessions_.
EraseNothing(m) ==
    /\ Goto(m, "erase", "unlock")
    /\ UNCHANGED <<gmVars, pollVars, crashed>>

Erase(m) ==
    /\ Goto(m, "erase", "unlock")
    /\ session' = FALSE
    /\ UNCHANGED <<creator, version, over, mutexVars, lines, row, pollVars, crashed>>

\* session_mutex_[sid].unlock(), while the unique_lock still counts as locked.
UnlockEarly(m) ==
    /\ Goto(m, "unlock", "destroy")
    /\ owner' = [owner EXCEPT ![placed] = NoMover]
    /\ UNCHANGED <<creator, session, version, over, placed, mine, lines, row, pollVars, crashed>>

\* session_mutex_.erase(sid).
DestroyMutex(m) ==
    /\ Goto(m, "destroy", "release")
    /\ placed' = "second"
    /\ UNCHANGED <<creator, session, version, over, owner, mine, lines, row, pollVars, crashed>>

\* The unique_lock unlocks what was the mutex: this frees it, whoever has
\* locked it since, or touches memory that is no mutex any more.
ReleaseDestroyed(m) ==
    /\ Goto(m, "release", "idle")
    /\ owner' \in {owner, [owner EXCEPT ![mine[m]] = NoMover]}
    /\ UNCHANGED <<creator, session, version, over, placed, mine, lines, row, pollVars, crashed>>

\* DefineSessionState of a move.
DefineMove(m) ==
    /\ Goto(m, "define", "idle")
    /\ UNCHANGED <<gmVars, pollVars, crashed>>

MoveStep(m) == \/ Contains(m) \/ At(m) \/ FindMutex(m) \/ Lock(m) \/ Move(m) \/ NotifyMove(m)
               \/ GetResults(m) \/ Record(m) \/ UnsubscribeAll(m) \/ Erase(m) \/ UnlockEarly(m)
               \/ DestroyMutex(m) \/ ReleaseDestroyed(m) \/ DefineMove(m)

-----------------------------------------------------------------------------
(* GameHandler::ApiSessionStateChange. *)
Poll(c) ==
    LET result == ChangePoll(notifier, UserOf[c], c, session) IN
    /\ owed[c] = 0
    /\ Knows(UserOf[c])
    /\ Answer(result, {c})
    /\ refused' = IF result.found THEN refused ELSE refused \cup {c}
    /\ UNCHANGED <<gmVars, pc, since, crashed>>

\* DefineSessionState of a poll.
DefinePoll(c) ==
    /\ c \in refused
    /\ refused' = refused \ {c}
    /\ owed' = [owed EXCEPT ![c] = @ - 1]
    /\ sent' = {[conn |-> c, status |-> GetPublicLine]}
    /\ UNCHANGED <<gmVars, pc, notifier, seen, since, crashed>>

-----------------------------------------------------------------------------
Next == /\ ~crashed
        /\ \/ Create
           \/ \E m \in Movers : StartMove(m) \/ MoveStep(m)
           \/ \E c \in Conns : Poll(c) \/ DefinePoll(c)

\* The threads run, and the system lets a blocked mover have the mutex in the
\* end (strong fairness: the other moves can take it in between).
Fairness == /\ WF_vars(~crashed /\ Create)
            /\ \A m \in Movers : SF_vars(~crashed /\ MoveStep(m))
            /\ \A c \in Conns : WF_vars(~crashed /\ DefinePoll(c))

Spec == Init /\ [][Next]_vars /\ Fairness

-----------------------------------------------------------------------------
(* The fields are of their types. *)
TypeOK ==
    /\ creator \in {"notify1", "notify2", "created", "done"}
    /\ version \in 0..MaxVersion /\ lines \in Nat /\ since \in -1..MaxVersion
    /\ session \in BOOLEAN /\ over \in BOOLEAN /\ row \in BOOLEAN /\ crashed \in BOOLEAN
    /\ placed \in Mutexes /\ mine \in [Movers -> Mutexes]
    /\ owner \in [Mutexes -> Movers \cup {NoMover}]
    /\ pc \in [Movers -> PC]
    /\ notifier \in [known : BOOLEAN, responser : [Users -> Conns \cup {Absent, Nullopt}],
                     waiting : SUBSET Users, closing : SUBSET Users]
    /\ owed \in [Conns -> Int] /\ refused \subseteq Conns
    /\ seen \in [Users -> Nat]
    /\ sent \subseteq [conn : Conns,
                       status : {"ok", "poll_closed", "finished", "wrong_session"}]

(* The moves of a match exclude each other. Only when the match is erased may
   two be behind their lock at once, as its end unlocks the mutex, destroys it
   and unlocks it again while others take it, or a new one: then all but one are
   about to find the match gone, and none acts on it (game_manager.cpp:63,
   :87-89). *)
OneMoveAtATime ==
    \A m, o \in Movers :
        m # o /\ {pc[m], pc[o]} \subseteq Locked \cup Leaving
            => ~session /\ "move" \in {pc[m], pc[o]}

(* A match gets at most one result, however many moves wait for its mutex and
   however often the users' lookups failed before (FinishSession,
   game_manager.cpp:77). *)
OneResult == lines <= 1

(* The match is erased after its subscribers are: while the notifier has them,
   GetEvents finds the session and its `at' cannot throw (game_manager.cpp:55,
   :85-87). Users subscribed before the first move. *)
EventsReachable == notifier.known /\ since = 0 => session

(* A poll is owed exactly one answer until it gets it: its responser is in the
   notifier, or its refusal is being answered, and never both
   (session_state_notifier.cpp:33-105). *)
AnsweredOnce ==
    \A c \in Conns :
        /\ owed[c] \in {0, 1}
        /\ owed[c] = 1 <=> c \in refused \/ notifier.responser[UserOf[c]] = c
        /\ ~(c \in refused /\ notifier.responser[UserOf[c]] = c)

(* No update is lost: a user whose poll is open has been told the last move,
   except while the move's Notify is still to come, whatever polls and moves
   crossed each other (session_state_notifier.cpp:52, :85). Users subscribed
   before the first move. *)
NoLostUpdate ==
    since = 0 /\ (\A m \in Movers : pc[m] # "notify") =>
        \A u \in Polling(notifier) : seen[u] = version

(* A player's poll finds the match gone, refused or answered as not relevant,
   only after the player was told its last move, and after its result was
   recorded (Unsubscribe, session_state_notifier.cpp:33). Users subscribed
   before the first move. *)
LastMoveFirst ==
    [][LET gone == {c \in Conns \ refused :
                      c \in refused' \/ \E a \in sent' : /\ a.conn = c
                                                        /\ a.status \in {"finished", "wrong_session"}}
       IN  since = 0 => \A c \in gone : UserOf[c] \in {P1, P2} =>
               seen[UserOf[c]] = version /\ lines = 1]_vars

(* A poll that is open, or refused, while a move was made and not notified yet
   gets its answer, if the subscribers were there before the notification. *)
PollAnswered ==
    \A c \in Conns :
        owed[c] = 1 /\ since # -1 /\ (\E m \in Movers : pc[m] = "notify")
            ~> owed[c] = 0 \/ crashed

(* A move's request is answered, unless the server dies. *)
MoveAnswered == \A m \in Movers : pc[m] # "idle" ~> pc[m] = "idle" \/ crashed

(* The notifier keeps the promise of UpdateMailbox; poll_waiting and
   send_and_close_ are one mailbox. *)
Mailbox == INSTANCE UpdateMailbox
             WITH members <- Subscribed(notifier), polling <- Polling(notifier),
                  fresh <- notifier.waiting \cup notifier.closing
KeepsMailbox == Mailbox!Spec

(* http_api.md:404 says a request about a session that is finished is answered
   session_finished: a move is, it does not end the server. *)
FinishedMoveIsAnswered == ~crashed

(* http_api.md:396 says wrong_sessionId means that the session does not exist:
   a poll that is told so asked about a match that is no longer there. *)
WrongSessionIsTrue ==
    [][\A a \in sent' : a.status = "wrong_session" => ~session]_vars

=============================================================================
