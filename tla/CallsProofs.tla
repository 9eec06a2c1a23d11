---------------------------- MODULE CallsProofs ----------------------------
(***************************************************************************)
(* The locks are taken in one order, so workers never wait in a circle:    *)
(* for every number of workers, connections and matches, and every program *)
(* that satisfies the assumptions of Calls.                                *)
(***************************************************************************)
EXTENDS Calls, SequenceTheorems, TLAPS

Things == UNION {Needs[m][s] : m \in Methods, s \in Subjects}
Targets == UNION {UNION {Program[m][p].yes \cup Program[m][p].no : p \in DOMAIN Program[m]} :
                    m \in Methods}
Places == Targets \cup Results \cup {"enter", "start"}
Frames == [method : Methods, at : Places, has : SUBSET Things]

TypeInv == /\ stack \in [Workers -> Seq(Frames)]
           /\ about \in [Workers -> Subjects]

\* What a frame owns it needs, and nothing before it entered.
Owning(frames, s) ==
    \A i \in 1..Len(frames) :
       /\ frames[i].has \subseteq Needs[frames[i].method][s]
       /\ frames[i].at = "enter" => frames[i].has = {} /\ Needs[frames[i].method][s] # {}

\* Of two frames the later is higher, strictly if the other may own something.
Before(f, g, s) ==
    /\ f.at \in DOMAIN Program[f.method]
    /\ Level[f.method] <= Level[g.method]
    /\ Needs[f.method][s] # {} => Level[f.method] < Level[g.method]
Ordered(frames, s) ==
    \A i, j \in 1..Len(frames) : i < j => Before(frames[i], frames[j], s)

\* The inductive invariant.
Nested == /\ TypeInv
          /\ \A w \in Workers : Owning(stack[w], about[w]) /\ Ordered(stack[w], about[w])

-----------------------------------------------------------------------------
(* Lemmas about the frames of one worker.                                   *)

\* The frame a call makes owns nothing, and waits only for what it needs.
LEMMA NewFrame ==
    ASSUME NEW m \in Methods, NEW s \in Subjects
    PROVE  /\ Frame(m, s) \in Frames /\ Frame(m, s).has = {} /\ Frame(m, s).method = m
           /\ Frame(m, s).at = "enter" => Needs[m][s] # {}
BY DEF Frame, Frames, Places

\* The last frame goes on: the others stay, and it keeps its method.
LEMMA GoneOnFrames ==
    ASSUME NEW frames \in Seq(Frames), frames # <<>>, NEW to
    PROVE  LET new == GoneOn(frames, to)
               n == Len(frames)
           IN  /\ Len(new) = n /\ n \in 1..n /\ n \in Nat \ {0}
               /\ \A i \in 1..n : i # n => new[i] = frames[i]
               /\ new[n].method = frames[n].method /\ new[n].at = to
<1>1. Len(frames) \in Nat \ {0} /\ \A i \in 1..Len(frames) : frames[i] \in Frames
  OBVIOUS
<1> QED BY <1>1 DEF GoneOn, Frames

\* What the frames before the last are.
LEMMA PoppedFrames ==
    ASSUME NEW frames \in Seq(Frames), frames # <<>>
    PROVE  LET new == Popped(frames)
               n == Len(frames)
           IN  new \in Seq(Frames) /\ Len(new) = n - 1 /\ \A i \in 1..(n - 1) : new[i] = frames[i]
<1> DEFINE n == Len(frames)
           new == Popped(frames)
<1>1. n \in Nat \ {0} /\ \A i \in 1..n : frames[i] \in Frames
  OBVIOUS
<1>2. /\ new \in Seq(Frames) /\ Len(new) = n - 1
      /\ \A i \in 1..(n - 1) : new[i] = frames[i]
  <2>1. n - 1 \in Int /\ 1 \in Int /\ \A i \in 1..(n - 1) : frames[i] \in Frames
    BY <1>1
  <2> DEFINE k == n - 1
  <2> HIDE DEF n, k
  <2>2. /\ SubSeq(frames, 1, k) \in Seq(Frames)
        /\ Len(SubSeq(frames, 1, k)) = IF 1 <= k THEN k - 1 + 1 ELSE 0
        /\ \A i \in 1..(k - 1 + 1) : SubSeq(frames, 1, k)[i] = frames[1 + i - 1]
    BY <2>1, SubSeqProperties DEF k
  <2>3. k \in Nat /\ k = n - 1
    BY <1>1 DEF n, k
  <2>4. Len(SubSeq(frames, 1, k)) = k
    BY <2>2, <2>3
  <2>5. ASSUME NEW i \in 1..k
        PROVE  SubSeq(frames, 1, k)[i] = frames[i]
    <3>1. i \in 1..(k - 1 + 1) /\ 1 + i - 1 = i
      BY <2>3
    <3> QED BY <2>2, <3>1
  <2>6. new = SubSeq(frames, 1, k)
    BY <2>3 DEF Popped, n
  <2> QED BY <2>2, <2>3, <2>4, <2>5, <2>6
<1> QED BY <1>2

\* Who the frames and the subjects of the others belong to.
LEMMA RunsOthers ==
    ASSUME TypeInv, NEW w \in Workers, NEW frames, Runs(w, frames)
    PROVE  /\ stack'[w] = frames /\ about' = about
           /\ \A v \in Workers : v # w => stack'[v] = stack[v] /\ about'[v] = about[v]
BY DEF TypeInv, Runs

\* A frame on top of one that stands at a call.
LEMMA Pushed ==
    ASSUME NEW frames \in Seq(Frames), NEW s \in Subjects, frames # <<>>,
           Owning(frames, s), Ordered(frames, s),
           NEW m, NEW p, m = frames[Len(frames)].method, p = frames[Len(frames)].at,
           p \in DOMAIN Program[m], Program[m][p].call # "none"
    PROVE  LET new == Append(frames, Frame(Program[m][p].call, s))
           IN  new \in Seq(Frames) /\ Owning(new, s) /\ Ordered(new, s)
<1> DEFINE n == Len(frames)
           c == Program[m][p].call
           new == Append(frames, Frame(c, s))
<1>1. n \in Nat \ {0} /\ \A i \in 1..n : frames[i] \in Frames
  OBVIOUS
<1>2. m \in Methods /\ \A i \in 1..n : frames[i].method \in Methods
  BY <1>1 DEF Frames
<1>3. /\ c \in Methods
      /\ Level[m] <= Level[c]
      /\ Needs[m][s] # {} => Level[m] < Level[c]
  BY <1>2, ProgramAssumption
<1>4. /\ Frame(c, s) \in Frames /\ Frame(c, s).has = {} /\ Frame(c, s).method = c
      /\ Frame(c, s).at = "enter" => Needs[c][s] # {}
  BY <1>3, NewFrame
<1> DEFINE top == Frame(c, s)
<1> HIDE DEF c, top
<1>5. /\ new \in Seq(Frames) /\ Len(new) = n + 1 /\ new[n + 1] = top
      /\ \A i \in 1..n : new[i] = frames[i]
  BY <1>4 DEF top
<1> HIDE DEF new
<1>6. top.has = {} /\ top.method = c /\ (top.at = "enter" => Needs[c][s] # {})
  BY <1>4 DEF top
<1>7. Owning(new, s)
  <2> SUFFICES ASSUME NEW i \in 1..(n + 1)
               PROVE  /\ new[i].has \subseteq Needs[new[i].method][s]
                      /\ new[i].at = "enter" => new[i].has = {} /\ Needs[new[i].method][s] # {}
    BY <1>5 DEF Owning
  <2>1. CASE i \in 1..n
    <3>1. new[i] = frames[i]
      BY <2>1, <1>5
    <3> QED BY <2>1, <3>1 DEF Owning
  <2>2. CASE i = n + 1
    <3>1. new[i] = top
      BY <2>2, <1>5
    <3> QED BY <3>1, <1>6
  <2> QED BY <1>1, <2>1, <2>2
<1>8. Ordered(new, s)
  <2> SUFFICES ASSUME NEW i \in 1..(n + 1), NEW j \in 1..(n + 1), i < j
               PROVE  Before(new[i], new[j], s)
    BY <1>5 DEF Ordered
  <2>1. CASE j \in 1..n
    <3>1. i \in 1..n /\ new[i] = frames[i] /\ new[j] = frames[j]
      BY <2>1, <1>1, <1>5
    <3> QED BY <3>1, <2>1 DEF Ordered
  <2>2. CASE j = n + 1 /\ i = n
    <3>1. new[i] = frames[n] /\ new[j] = top
      BY <2>2, <1>1, <1>5
    <3> QED BY <3>1, <1>3, <1>6 DEF Before
  <2>3. CASE j = n + 1 /\ i < n
    <3>1. i \in 1..n /\ n \in 1..n /\ new[i] = frames[i] /\ new[j] = top
      BY <2>3, <1>1, <1>5
    <3>2. Before(frames[i], frames[n], s)
      BY <3>1, <2>3 DEF Ordered
    <3>3. Level[frames[i].method] \in 0..5 /\ Level[m] \in 0..5 /\ Level[c] \in 0..5
      BY <3>1, <1>2, <1>3, LevelAssumption
    <3> QED BY <3>1, <3>2, <3>3, <1>3, <1>6 DEF Before
  <2> QED BY <1>1, <2>1, <2>2, <2>3
<1> QED BY <1>5, <1>7, <1>8 DEF c, top, new

\* The last frame goes on.
LEMMA WentOn ==
    ASSUME NEW frames \in Seq(Frames), NEW s \in Subjects, frames # <<>>,
           Owning(frames, s), Ordered(frames, s), NEW to \in Places, to # "enter"
    PROVE  LET new == GoneOn(frames, to)
           IN  new \in Seq(Frames) /\ Owning(new, s) /\ Ordered(new, s)
<1> DEFINE n == Len(frames)
           new == GoneOn(frames, to)
<1>1. n \in Nat \ {0} /\ \A i \in 1..n : frames[i] \in Frames
  OBVIOUS
<1>2. [frames[n] EXCEPT !.at = to] \in Frames
  BY <1>1 DEF Frames
<1>3. /\ new \in Seq(Frames) /\ Len(new) = n
      /\ \A i \in 1..n : i # n => new[i] = frames[i]
      /\ new[n].method = frames[n].method /\ new[n].has = frames[n].has /\ new[n].at = to
  BY <1>1, <1>2 DEF GoneOn, Frames
<1> HIDE DEF new
<1>4. Owning(new, s)
  BY <1>1, <1>3 DEF Owning
<1>5. ASSUME NEW i \in 1..n, NEW j \in 1..n, i < j
      PROVE  Before(new[i], new[j], s)
  <2>1. Before(frames[i], frames[j], s)
    BY <1>5 DEF Ordered
  <2>2. new[i] = frames[i] /\ new[j].method = frames[j].method
    BY <1>1, <1>3, <1>5
  <2> QED BY <2>1, <2>2 DEF Before
<1>6. Ordered(new, s)
  BY <1>3, <1>5 DEF Ordered
<1> QED BY <1>3, <1>4, <1>6 DEF new

\* The last frame is given what it waited for.
LEMMA WentIn ==
    ASSUME NEW frames \in Seq(Frames), NEW s \in Subjects, frames # <<>>,
           Owning(frames, s), Ordered(frames, s),
           NEW u \in Needs[frames[Len(frames)].method][s]
    PROVE  LET new == [frames EXCEPT ![Len(frames)] = [@ EXCEPT !.at = "start", !.has = {u}]]
           IN  new \in Seq(Frames) /\ Owning(new, s) /\ Ordered(new, s)
<1> DEFINE n == Len(frames)
           new == [frames EXCEPT ![n] = [@ EXCEPT !.at = "start", !.has = {u}]]
<1>1. n \in Nat \ {0} /\ \A i \in 1..n : frames[i] \in Frames
  OBVIOUS
<1>2. u \in Things
  BY <1>1 DEF Things, Frames
<1>3. [frames[n] EXCEPT !.at = "start", !.has = {u}] \in Frames
  <2>1. n \in 1..n /\ {u} \in SUBSET Things /\ "start" \in Places
    BY <1>1, <1>2 DEF Places
  <2> QED BY <1>1, <2>1 DEF Frames
<1>4. /\ new \in Seq(Frames) /\ Len(new) = n
      /\ \A i \in 1..n : i # n => new[i] = frames[i]
      /\ new[n].method = frames[n].method /\ new[n].has = {u} /\ new[n].at = "start"
  BY <1>1, <1>3 DEF Frames
<1> HIDE DEF new
<1>5. Owning(new, s)
  BY <1>1, <1>4 DEF Owning
<1>6. ASSUME NEW i \in 1..n, NEW j \in 1..n, i < j
      PROVE  Before(new[i], new[j], s)
  <2>1. Before(frames[i], frames[j], s)
    BY <1>6 DEF Ordered
  <2>2. new[i] = frames[i] /\ new[j].method = frames[j].method
    BY <1>1, <1>4, <1>6
  <2> QED BY <2>1, <2>2 DEF Before
<1>7. Ordered(new, s)
  BY <1>4, <1>6 DEF Ordered
<1> QED BY <1>4, <1>5, <1>7 DEF new

\* The last frame is gone.
LEMMA WentBack ==
    ASSUME NEW frames \in Seq(Frames), NEW s \in Subjects, frames # <<>>,
           Owning(frames, s), Ordered(frames, s)
    PROVE  LET new == Popped(frames)
           IN  new \in Seq(Frames) /\ Len(new) = Len(frames) - 1 /\ Owning(new, s) /\ Ordered(new, s)
<1> DEFINE n == Len(frames)
           new == Popped(frames)
<1>1. n \in Nat \ {0} /\ \A i \in 1..n : frames[i] \in Frames
  OBVIOUS
<1>2. /\ new \in Seq(Frames) /\ Len(new) = n - 1
      /\ \A i \in 1..(n - 1) : new[i] = frames[i]
  BY PoppedFrames
<1> HIDE DEF new
<1>3. Owning(new, s)
  <2> SUFFICES ASSUME NEW i \in 1..(n - 1)
               PROVE  /\ new[i].has \subseteq Needs[new[i].method][s]
                      /\ new[i].at = "enter" => new[i].has = {} /\ Needs[new[i].method][s] # {}
    BY <1>2 DEF Owning
  <2>1. i \in 1..n /\ new[i] = frames[i]
    BY <1>1, <1>2
  <2> QED BY <2>1 DEF Owning
<1>4. ASSUME NEW i \in 1..(n - 1), NEW j \in 1..(n - 1), i < j
      PROVE  Before(new[i], new[j], s)
  <2>1. i \in 1..n /\ j \in 1..n
    BY <1>1
  <2> QED BY <1>2, <1>4, <2>1 DEF Ordered
<1>5. Ordered(new, s)
  BY <1>2, <1>4 DEF Ordered
<1> QED BY <1>2, <1>3, <1>5 DEF new

-----------------------------------------------------------------------------
(* The invariant is inductive.                                              *)

\* A step that changes the frames of one worker keeps the invariant if its new
\* frames are as the invariant wants them.
LEMMA Kept ==
    ASSUME Nested, NEW w \in Workers, NEW frames, Runs(w, frames), frames \in Seq(Frames),
           Owning(frames, about[w]), Ordered(frames, about[w])
    PROVE  Nested'
<1>1. /\ stack' = [stack EXCEPT ![w] = frames] /\ about' = about
      /\ stack \in [Workers -> Seq(Frames)] /\ about \in [Workers -> Subjects]
  BY DEF Runs, Nested, TypeInv
<1>2. TypeInv'
  BY <1>1 DEF TypeInv
<1>3. ASSUME NEW v \in Workers
      PROVE  Owning(stack'[v], about'[v]) /\ Ordered(stack'[v], about'[v])
  <2>1. stack'[v] = IF v = w THEN frames ELSE stack[v]
    BY <1>1
  <2>2. about'[v] = about[v]
    BY <1>1
  <2>3. CASE v = w
    BY <2>1, <2>2, <2>3
  <2>4. CASE v # w
    <3>1. stack'[v] = stack[v]
      BY <2>1, <2>4
    <3>2. Owning(stack[v], about[v]) /\ Ordered(stack[v], about[v])
      BY DEF Nested
    <3> QED BY <2>2, <3>1, <3>2
  <2> QED BY <2>3, <2>4
<1> QED BY <1>2, <1>3 DEF Nested

\* What is known of a busy worker.
LEMMA OfBusy ==
    ASSUME Nested, NEW w \in Workers, w \in Busy
    PROVE  /\ stack[w] \in Seq(Frames) /\ stack[w] # <<>> /\ about[w] \in Subjects
           /\ Owning(stack[w], about[w]) /\ Ordered(stack[w], about[w])
           /\ Len(stack[w]) \in Nat \ {0}
           /\ \A i \in 1..Len(stack[w]) : stack[w][i] \in Frames
           /\ Top(w) = stack[w][Len(stack[w])]
           /\ Top(w) \in Frames /\ Top(w).method \in Methods
<1>1. /\ stack[w] \in Seq(Frames) /\ stack[w] # <<>> /\ about[w] \in Subjects
      /\ Owning(stack[w], about[w]) /\ Ordered(stack[w], about[w])
  BY DEF Nested, TypeInv, Busy
<1>2. /\ Len(stack[w]) \in Nat \ {0}
      /\ \A i \in 1..Len(stack[w]) : stack[w][i] \in Frames
  BY <1>1
<1>3. Top(w) = stack[w][Len(stack[w])] /\ Top(w) \in Frames
  BY <1>2 DEF Top
<1> QED BY <1>1, <1>2, <1>3 DEF Frames

\* The targets of a point.
LEMMA OfPoint ==
    ASSUME NEW m \in Methods, NEW p \in DOMAIN Program[m]
    PROVE  Program[m][p].yes \cup Program[m][p].no \subseteq Places \ {"enter"}
BY ProgramAssumption DEF Places, Targets

\* No worker has a frame at the beginning.
LEMMA NestedInit == CallsInit => Nested
<1> SUFFICES ASSUME CallsInit PROVE Nested
  OBVIOUS
<1>1. TypeInv
  BY DEF CallsInit, TypeInv
<1>2. \A w \in Workers : stack[w] = <<>> /\ Len(<<>>) = 0
  BY DEF CallsInit
<1> QED BY <1>1, <1>2 DEF Nested, Owning, Ordered

\* A call is the only step that adds a frame, and it leads up in the order
\* (ProgramAssumption).
LEMMA NestedNext == Nested /\ [CallsNext]_callVars => Nested'
<1> SUFFICES ASSUME Nested, [CallsNext]_callVars PROVE Nested'
  OBVIOUS
<1>1. ASSUME NEW w \in Workers, NEW m \in Methods, NEW s \in Subjects, Begin(w, m, s)
      PROVE  Nested'
  <2> DEFINE frames == <<Frame(m, s)>>
  <2>1. /\ frames \in Seq(Frames) /\ Len(frames) = 1 /\ frames[1].has = {}
        /\ frames[1].method = m /\ (frames[1].at = "enter" => Needs[m][s] # {})
    BY NewFrame
  <2> HIDE DEF frames
  <2>2. Owning(frames, s) /\ Ordered(frames, s)
    BY <2>1 DEF Owning, Ordered
  <2>3. /\ stack' = [stack EXCEPT ![w] = frames] /\ about' = [about EXCEPT ![w] = s]
        /\ stack \in [Workers -> Seq(Frames)] /\ about \in [Workers -> Subjects]
    BY <1>1 DEF Begin, Nested, TypeInv, frames
  <2>4. TypeInv'
    BY <2>1, <2>3 DEF TypeInv
  <2>5. ASSUME NEW v \in Workers
        PROVE  Owning(stack'[v], about'[v]) /\ Ordered(stack'[v], about'[v])
    <3>1. CASE v = w
      <4>1. stack'[v] = frames /\ about'[v] = s
        BY <2>3, <3>1
      <4> QED BY <2>2, <4>1
    <3>2. CASE v # w
      <4>1. stack'[v] = stack[v] /\ about'[v] = about[v]
        BY <2>3, <3>2
      <4>2. Owning(stack[v], about[v]) /\ Ordered(stack[v], about[v])
        BY DEF Nested
      <4> QED BY <4>1, <4>2
    <3> QED BY <3>1, <3>2
  <2> QED BY <2>4, <2>5 DEF Nested
<1>2. ASSUME NEW w \in Workers, NEW u, Enter(w, u)
      PROVE  Nested'
  <2>1. w \in Busy /\ u \in Needs[Top(w).method][about[w]]
    BY <1>2 DEF Enter, Entering, Wanted
  <2>2. PICK frames : /\ frames = [stack[w] EXCEPT ![Len(stack[w])] =
                                     [@ EXCEPT !.at = "start", !.has = {u}]]
                      /\ Runs(w, frames)
    BY <1>2 DEF Enter
  <2>3. /\ frames \in Seq(Frames)
        /\ Owning(frames, about[w]) /\ Ordered(frames, about[w])
    BY <2>1, <2>2, OfBusy, WentIn
  <2> QED BY <2>2, <2>3, Kept
<1>3. ASSUME NEW w \in Workers, NEW to, Decide(w, to)
      PROVE  Nested'
  <2>1. w \in Busy /\ to \in Places /\ to # "enter"
    BY <1>3, OfBusy, OfPoint DEF Decide, AtPoint, Point
  <2>2. Runs(w, GoneOn(stack[w], to))
    BY <1>3 DEF Decide
  <2>3. /\ GoneOn(stack[w], to) \in Seq(Frames)
        /\ Owning(GoneOn(stack[w], to), about[w]) /\ Ordered(GoneOn(stack[w], to), about[w])
    BY <2>1, OfBusy, WentOn
  <2> QED BY <2>2, <2>3, Kept
<1>4. ASSUME NEW w \in Workers, NEW to, Return(w, to)
      PROVE  Nested'
  <2>1. w \in Busy /\ Top(w).at \in Results
    BY <1>4 DEF Return, Continuations
  <2> DEFINE frames == Popped(stack[w])
  <2>2. CASE Len(stack[w]) = 1
    <3>1. Runs(w, <<>>) /\ <<>> \in Seq(Frames) /\ Len(<<>>) = 0
      BY <1>4, <2>2 DEF Return
    <3>2. Owning(<<>>, about[w]) /\ Ordered(<<>>, about[w])
      BY <3>1 DEF Owning, Ordered
    <3> QED BY <3>1, <3>2, Kept
  <2>3. CASE Len(stack[w]) # 1
    <3>1. /\ frames \in Seq(Frames) /\ Len(frames) = Len(stack[w]) - 1
          /\ Owning(frames, about[w]) /\ Ordered(frames, about[w])
      BY <2>1, OfBusy, WentBack
    <3>2. Len(stack[w]) - 1 \in 1..Len(stack[w]) /\ Len(stack[w]) \in 1..Len(stack[w])
      <4>1. PICK k \in Nat \ {0} : k = Len(stack[w])
        BY <2>1, OfBusy
      <4>2. k # 1
        BY <2>3, <4>1
      <4>3. k - 1 \in 1..k /\ k \in 1..k
        BY <4>2
      <4> QED BY <4>1, <4>3
    <3>3. Before(Caller(w), Top(w), about[w])
      BY <2>1, <3>2, OfBusy DEF Ordered, Caller
    <3>4. Caller(w).method \in Methods /\ Caller(w).at \in DOMAIN Program[Caller(w).method]
      <4>1. \A i \in 1..Len(stack[w]) : stack[w][i] \in Frames
        BY <2>1, OfBusy
      <4>2. Caller(w) \in Frames
        BY <3>2, <4>1 DEF Caller
      <4> QED BY <3>3, <4>2 DEF Before, Frames
    <3>5. to \in Places /\ to # "enter"
      <4>1. to \in Program[Caller(w).method][Caller(w).at][Top(w).at]
        BY <1>4, <2>1, <2>3 DEF Return, Continuations
      <4>2. to \in Program[Caller(w).method][Caller(w).at].yes
                   \cup Program[Caller(w).method][Caller(w).at].no
        BY <2>1, <4>1 DEF Results
      <4> QED BY <3>4, <4>2, OfPoint
    <3>6. frames # <<>>
      <4> HIDE DEF frames
      <4>1. Len(frames) \in 1..Len(stack[w])
        BY <3>1, <3>2
      <4> QED BY <4>1
    <3>7. Runs(w, GoneOn(frames, to))
      BY <1>4, <2>3 DEF Return
    <3> HIDE DEF frames
    <3>8. /\ GoneOn(frames, to) \in Seq(Frames)
          /\ Owning(GoneOn(frames, to), about[w]) /\ Ordered(GoneOn(frames, to), about[w])
      BY <2>1, <3>1, <3>5, <3>6, OfBusy, WentOn
    <3> QED BY <3>7, <3>8, Kept
  <2> QED BY <2>2, <2>3
<1>5. ASSUME NEW w \in Workers, Enters(w)
      PROVE  Nested'
  <2>1. w \in Busy /\ Top(w).at \in DOMAIN Program[Top(w).method] /\ Point(w).call # "none"
    BY <1>5 DEF Enters, AtPoint
  <2>2. PICK frames : /\ frames = Append(stack[w], Frame(Point(w).call, about[w]))
                      /\ Runs(w, frames)
    BY <1>5 DEF Enters
  <2>3. /\ frames \in Seq(Frames)
        /\ Owning(frames, about[w]) /\ Ordered(frames, about[w])
    BY <2>1, <2>2, OfBusy, Pushed DEF Point
  <2> QED BY <2>2, <2>3, Kept
<1>6. ASSUME NEW w \in Workers, Answer(w)
      PROVE  Nested'
  <2>1. w \in Busy /\ Runs(w, GoneOn(stack[w], "yes")) /\ "yes" \in Places /\ "yes" # "enter"
    BY <1>6 DEF Answer, Places, Results
  <2>2. /\ GoneOn(stack[w], "yes") \in Seq(Frames)
        /\ Owning(GoneOn(stack[w], "yes"), about[w])
        /\ Ordered(GoneOn(stack[w], "yes"), about[w])
    BY <2>1, OfBusy, WentOn
  <2> QED BY <2>1, <2>2, Kept
<1>7. CASE Abort
  <2>1. stack' = [w \in Workers |-> <<>>] /\ about' = about /\ Len(<<>>) = 0
    BY <1>7 DEF Abort
  <2>2. TypeInv'
    BY <2>1 DEF Nested, TypeInv
  <2> QED BY <2>1, <2>2 DEF Nested, Owning, Ordered
<1>8. CASE UNCHANGED callVars
  BY <1>8 DEF callVars, Nested, TypeInv, Owning, Ordered
<1> QED BY <1>1, <1>2, <1>3, <1>4, <1>5, <1>6, <1>7, <1>8 DEF CallsNext

\* What the frames of a worker own is what their methods need, and the methods
\* of its frames rise in the order of the locks, strictly over one that owns
\* something (the nesting of Lock<T>, std::unique_lock and ConnectionWrapper).
THEOREM CallsNested == CallsSpec => []Nested
<1> QED BY NestedInit, NestedNext, PTL DEF CallsSpec

-----------------------------------------------------------------------------

\* A blocked worker waits for what a busy worker owns; if that one is blocked
\* too, it waits for something higher.
LEMMA WaitsForHigher ==
    ASSUME Nested, NEW w \in Workers, w \in Busy, Blocked(w),
           \A v \in Busy : Blocked(v)
    PROVE  \E v \in Workers : v \in Busy /\ Level[Top(w).method] < Level[Top(v).method]
<1>1. PICK v \in Workers, u \in Wanted(w) : u \in Owns(v)
  <2>1. Wanted(w) # {}
    <3>1. /\ Len(stack[w]) \in 1..Len(stack[w]) /\ Top(w) = stack[w][Len(stack[w])]
          /\ Owning(stack[w], about[w])
      BY OfBusy
    <3> QED BY <3>1 DEF Blocked, Entering, Owning, Wanted
  <2> QED BY <2>1 DEF Blocked, Owned
<1>2. PICK i \in DOMAIN stack[v] : u \in stack[v][i].has
  BY <1>1 DEF Owns
<1>3. /\ stack[v] \in Seq(Frames) /\ about[v] \in Subjects
      /\ Owning(stack[v], about[v]) /\ Ordered(stack[v], about[v])
  BY DEF Nested, TypeInv
<1> DEFINE n == Len(stack[v])
<1>4. i \in 1..n /\ n \in Nat /\ n \in 1..n /\ stack[v] # <<>>
  BY <1>2, <1>3
<1>5. v \in Busy
  BY <1>4 DEF Busy
<1>6. Top(v).has = {}
  BY <1>3, <1>4, <1>5 DEF Blocked, Entering, Owning, Top
<1>7. i < n
  BY <1>2, <1>4, <1>6 DEF Top
<1>8. u \in Needs[stack[v][i].method][about[v]]
  BY <1>2, <1>3, <1>4 DEF Owning
<1>9. Level[stack[v][i].method] < Level[Top(v).method]
  BY <1>3, <1>4, <1>7, <1>8 DEF Ordered, Before, Top
<1>10. Level[stack[v][i].method] = Level[Top(w).method]
  <2>1. stack[v][i] \in Frames
    BY <1>3, <1>4
  <2>3. stack[v][i].method \in Methods /\ Top(w).method \in Methods /\ about[w] \in Subjects
    BY <2>1, OfBusy DEF Frames
  <2>2. u \in Needs[Top(w).method][about[w]]
    BY <1>1 DEF Wanted
  <2> QED BY <1>3, <1>8, <2>3, <2>2, LevelAssumption
<1> QED BY <1>5, <1>9, <1>10

\* Were all busy workers blocked, each would wait for a higher one, and there
\* are six levels only.
LEMMA NestedNoDeadlock == Nested => NoDeadlock
<1> SUFFICES ASSUME Nested, NEW w0 \in Busy, \A w \in Busy : Blocked(w)
             PROVE  FALSE
  BY DEF NoDeadlock
<1> DEFINE L(w) == Level[Top(w).method]
<1>1. ASSUME NEW w \in Busy
      PROVE  w \in Workers /\ L(w) \in 0..5
  <2>1. w \in Workers
    BY DEF Busy
  <2> QED BY <2>1, OfBusy, LevelAssumption
<1>2. \A w \in Busy : \E v \in Busy : L(w) < L(v)
  BY <1>1, WaitsForHigher
<1> HIDE DEF L
<1>3. PICK w1 \in Busy : L(w0) < L(w1)
  BY <1>2
<1>4. PICK w2 \in Busy : L(w1) < L(w2)
  BY <1>2
<1>5. PICK w3 \in Busy : L(w2) < L(w3)
  BY <1>2
<1>6. PICK w4 \in Busy : L(w3) < L(w4)
  BY <1>2
<1>7. PICK w5 \in Busy : L(w4) < L(w5)
  BY <1>2
<1>8. PICK w6 \in Busy : L(w5) < L(w6)
  BY <1>2
<1> QED BY <1>1, <1>3, <1>4, <1>5, <1>6, <1>7, <1>8

\* Whatever the workers do, while a request is handled some worker can go on
\* (the mutexes of game_manager.cpp:63, matchmaking_balancer.cpp:23 and
\* thread_lock.hpp:9, the pool of postgres_connection_pool.cpp:15).
THEOREM CallsNoDeadlock == CallsSpec => []NoDeadlock
<1> QED BY CallsNested, NestedNoDeadlock, PTL

=============================================================================
