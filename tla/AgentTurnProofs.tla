--------------------------- MODULE AgentTurnProofs ---------------------------
(* Proofs about AgentTurn, for any machines and any bounds: what the model   *)
(* reads of its turn, what the store holds of it at every moment, and where  *)
(* the model is called.                                                      *)
EXTENDS AgentTurn, FiniteSetTheorems, TLAPS

\* Nothing of a sequence of messages straddles its position k.
Cut(s, k) ==
    /\ k \in 0 .. Len(s)
    /\ \A i \in 1 .. k : s[i].k = "calls" => i + s[i].n <= k

\* The messages of a turn under way: what follows a message with calls is their
\* results as far as they are in, a result follows its call, and nothing comes
\* after the answer.
Shaped(s) ==
    \A i \in 1 .. Len(s) :
        /\ s[i].k = "calls" => \A j \in 1 .. s[i].n : i + j <= Len(s) => s[i + j].k = "result"
        /\ s[i].k = "result" => \E j \in 1 .. i - 1 : s[j].k = "calls" /\ i <= j + s[j].n
        /\ s[i].k = "answer" => i = Len(s)

\* The points the run is at before its end is known.
Running == out = "none"

\* How pc, the end and the counters go together.
AtPoint ==
    /\ ~Running <=> pc \in {"rewrite", "over"} \/ (pc = "flush" /\ then = "rewrite")
    /\ pc = "flush" => Session
    /\ pc \in {"skills", "tools"} => attempt = 0
    /\ pc \in {"server", "machine", "hand", "pending", "aside", "wait", "gather"} => step < MaxIterations /\ attempt > 0
    /\ pc = "choose" /\ attempt > 0 => step < MaxIterations
    /\ pc = "wait" => attempt < Attempts

\* The route: a machine the run is about to call is one that has not failed
\* it, and a run that requires one has one.
Route ==
    /\ pc \in {"skills", "tools"} => route.excluded = cfg.excluded
    /\ pc \in {"machine", "hand", "pending", "aside", "wait"} => route.machine \in Machines
    /\ pc = "server" => route.machine = None
    /\ Running /\ pc # "choose" => route.machine \notin route.excluded
    /\ cfg.mode = "require" /\ cfg.run # "scheduled" =>
        /\ None \notin where
        /\ Running /\ pc \notin {"skills", "tools", "choose"} => route.machine # None

\* The step whose results are gathered is the last of the turn.
Gathering ==
    LET p == Len(turn) - got IN
    /\ got < Len(futs)
    /\ p \in 1 .. Len(turn)
    /\ Cut(turn, p - 1)
    /\ turn[p].k = "calls" /\ turn[p].n = Len(futs)
    /\ \A i \in p + 1 .. Len(turn) : turn[i].k = "result"

\* The turn is shaped as the model's answers make it; between steps it is whole.
Log ==
    /\ Shaped(turn)
    /\ Running => \A i \in 1 .. Len(turn) : turn[i].k # "answer"
    /\ IF pc = "gather" THEN Gathering ELSE Cut(turn, Len(turn))

\* The store holds a prefix of the turn, cut between two steps, and all the run
\* knows written; a write that may still land starts at or before what the run
\* knows written, and ends between two steps.
Prefix ==
    /\ \E k \in 0 .. Len(turn) : rows = 1 .. k /\ persisted <= k /\ Cut(turn, k)
    /\ \A w \in late : \E a \in 0 .. persisted, b \in 0 .. Len(turn) : w = a + 1 .. b /\ Cut(turn, b)

\* The write that would make up for a failed one, and what was spent on it.
Spent ==
    /\ Session /\ pc \in {"skills", "tools"} => turn = <<>>
    /\ Session /\ out \in {"refused", "error"} => turn = <<>>
    /\ Session /\ pc = "rewrite" /\ faults = 0 /\ ~stopped => rows = 1 .. Len(turn)

IInv == TypeOK /\ AtPoint /\ Route /\ Log /\ Prefix /\ Spent /\ ReadsTurnOnce /\ StoredWhole

-----------------------------------------------------------------------------
(* The operators of the model.                                              *)

LEMMA IntervalSize ==
    ASSUME NEW a \in Nat, NEW b \in Nat, a <= b
    PROVE  IsFiniteSet(a + 1 .. b) /\ Cardinality(a + 1 .. b) = b - a
<1>1. a + 1 \in Int /\ b \in Int
  OBVIOUS
<1>2. /\ IsFiniteSet(a + 1 .. b)
      /\ Cardinality(a + 1 .. b) = IF a + 1 > b THEN 0 ELSE b - (a + 1) + 1
  BY <1>1, FS_Interval
<1> QED BY <1>2

\* An interval sorted is its numbers one after the other.
LEMMA SortedInterval ==
    ASSUME NEW a \in Nat, NEW b \in Nat, a <= b
    PROVE  Sorted(a + 1 .. b) = [i \in 1 .. b - a |-> a + i]
<1> DEFINE S == a + 1 .. b
           Rank(x) == Cardinality({y \in S : y <= x})
<1>1. Cardinality(S) = b - a
  BY IntervalSize
<1>2. ASSUME NEW x \in S
      PROVE  Rank(x) = x - a
  <2>1. {y \in S : y <= x} = a + 1 .. x
    OBVIOUS
  <2>2. x \in Nat /\ a <= x
    OBVIOUS
  <2> QED BY <2>1, <2>2, IntervalSize
<1>3. ASSUME NEW i \in 1 .. b - a
      PROVE  (CHOOSE x \in S : Rank(x) = i) = a + i
  <2>1. a + i \in S
    OBVIOUS
  <2>2. \A x \in S : Rank(x) = i <=> x = a + i
    <3> TAKE x \in S
    <3>1. Rank(x) = x - a
      BY <1>2
    <3> HIDE DEF Rank
    <3> QED BY <3>1
  <2> HIDE DEF Rank, S
  <2> QED BY <2>1, <2>2
<1>4. Sorted(S) = [i \in 1 .. b - a |-> CHOOSE x \in S : Rank(x) = i]
  BY <1>1 DEF Sorted
<1> HIDE DEF Rank, S
<1>5. Sorted(S) = [i \in 1 .. b - a |-> a + i]
  BY <1>3, <1>4
<1> QED BY <1>5 DEF S

\* conversation: rows, then the tail they lack, are the turn, once and in order.
LEMMA ConversationIsTurn ==
    ASSUME TypeOK, Prefix
    PROVE  Conversation = [i \in 1 .. Len(turn) |-> i]
<1> DEFINE n == Len(turn)
<1>1. n \in Nat /\ persisted \in 0 .. n
  BY DEF TypeOK
<1>2. Sorted(1 .. n) = [i \in 1 .. n |-> i]
  <2>0. 0 \in Nat /\ n \in Nat /\ 0 <= n
    BY <1>1
  <2>1. Sorted(0 + 1 .. n) = [i \in 1 .. n - 0 |-> 0 + i]
    BY <2>0, SortedInterval, Zenon
  <2>2. 0 + 1 .. n = 1 .. n /\ [i \in 1 .. n - 0 |-> 0 + i] = [i \in 1 .. n |-> i]
    BY <1>1
  <2> QED BY <2>1, <2>2
<1>3. PICK k \in 0 .. n : rows = 1 .. k /\ persisted <= k
  BY DEF Prefix
<1>4. Pending \ rows = k + 1 .. n
  BY <1>1, <1>3 DEF Pending
<1>5. Sorted(rows) = [i \in 1 .. k |-> i]
  <2>0. 0 \in Nat /\ k \in Nat /\ 0 <= k
    BY <1>3
  <2>1. Sorted(0 + 1 .. k) = [i \in 1 .. k - 0 |-> 0 + i]
    BY <2>0, SortedInterval, Zenon
  <2>2. 0 + 1 .. k = 1 .. k /\ [i \in 1 .. k - 0 |-> 0 + i] = [i \in 1 .. k |-> i]
    BY <1>3
  <2> QED BY <2>1, <2>2, <1>3
<1>6. Sorted(Pending \ rows) = [i \in 1 .. n - k |-> k + i]
  <2>0. k \in Nat /\ n \in Nat /\ k <= n
    BY <1>1, <1>3
  <2>1. Sorted(k + 1 .. n) = [i \in 1 .. n - k |-> k + i]
    BY <2>0, SortedInterval, Zenon
  <2> QED BY <2>1, <1>4
<1>7. [i \in 1 .. k |-> i] \o [i \in 1 .. n - k |-> k + i] = [i \in 1 .. n |-> i]
  <2> DEFINE s == [i \in 1 .. k |-> i]
             t == [i \in 1 .. n - k |-> k + i]
  <2>1. s \in Seq(Nat) /\ Len(s) = k /\ t \in Seq(Nat) /\ Len(t) = n - k
    BY <1>1, <1>3
  <2>2. s \o t = [i \in 1 .. Len(s) + Len(t) |-> IF i <= Len(s) THEN s[i] ELSE t[i - Len(s)]]
    BY <2>1
  <2>3. Len(s) + Len(t) = n
    BY <2>1, <1>1, <1>3
  <2>4. \A i \in 1 .. n : (IF i <= k THEN s[i] ELSE t[i - k]) = i
    BY <1>1, <1>3
  <2> HIDE DEF s, t
  <2> QED BY <2>1, <2>2, <2>3, <2>4
<1> QED BY <1>2, <1>5, <1>6, <1>7 DEF Conversation

LEMMA EntryFields ==
    ASSUME NEW s \in Seq(Entries)
    PROVE  \A i \in 1 .. Len(s) : s[i].n \in Nat
<1> TAKE i \in 1 .. Len(s)
<1>1. s[i] \in Entries
  OBVIOUS
<1> QED BY <1>1 DEF Entries

\* What lies between two cuts of a turn is a step, or several, whole.
LEMMA BetweenCuts ==
    ASSUME NEW s \in Seq(Entries), Shaped(s), NEW k \in Nat, NEW m \in Nat,
           Cut(s, k), Cut(s, m), k < m
    PROVE  TT!Whole(SubSeq(SubSeq(s, 1, m), k + 1, m))
<1> DEFINE w == SubSeq(SubSeq(s, 1, m), k + 1, m)
<1>1. k <= Len(s) /\ m <= Len(s) /\ Len(s) \in Nat
  BY DEF Cut
<1>2. SubSeq(s, 1, m) \in Seq(Entries) /\ Len(SubSeq(s, 1, m)) = m
      /\ \A i \in 1 .. m : SubSeq(s, 1, m)[i] = s[i]
  BY <1>1
<1>3. w \in Seq(Entries) /\ Len(w) = m - k /\ \A i \in 1 .. m - k : w[i] = s[k + i]
  BY <1>1, <1>2
<1>4. \A i \in 1 .. Len(s) : s[i].n \in Nat
  BY EntryFields
<1> HIDE DEF w
<1>5. ASSUME NEW i \in DOMAIN w, w[i].k = "calls"
      PROVE  i + w[i].n <= Len(w) /\ \A j \in 1 .. w[i].n : w[i + j].k = "result"
  <2>0. i \in 1 .. m - k /\ w[i] = s[k + i]
    BY <1>3
  <2>1. PICK c \in 1 .. m : c = k + i /\ i \in 1 .. m - k /\ w[i] = s[c] /\ c \in 1 .. Len(s)
    BY <1>1, <2>0
  <2>2. PICK n \in Nat : n = s[c].n
    BY <1>4, <2>1
  <2>3. c + n <= m
    BY <1>5, <2>1, <2>2 DEF Cut
  <2>4. \A j \in 1 .. n : s[c + j].k = "result"
    <3> TAKE j \in 1 .. n
    <3>1. c + j <= Len(s)
      BY <1>1, <2>1, <2>3
    <3> QED BY <1>5, <2>1, <2>2, <3>1 DEF Shaped
  <2>5. ASSUME NEW j \in 1 .. n
        PROVE  w[i + j].k = "result"
    <3>1. i + j \in 1 .. m - k /\ k + (i + j) = c + j
      BY <2>1, <2>2, <2>3
    <3>2. w[i + j] = s[k + (i + j)]
      BY <1>3, <3>1
    <3>3. s[c + j].k = "result"
      BY <2>4
    <3> QED BY <3>1, <3>2, <3>3
  <2>6. i + n <= Len(w)
    BY <1>3, <2>1, <2>3
  <2> QED BY <2>1, <2>2, <2>5, <2>6
<1>6. ASSUME NEW i \in DOMAIN w, w[i].k = "result"
      PROVE  \E j \in 1 .. i - 1 : w[j].k = "calls" /\ i - j <= w[j].n
  <2>0. i \in 1 .. m - k /\ w[i] = s[k + i]
    BY <1>3
  <2>1. PICK c \in 1 .. Len(s) : c = k + i /\ i \in 1 .. m - k /\ w[i] = s[c]
    BY <1>1, <2>0
  <2>2. PICK j \in 1 .. c - 1 : s[j].k = "calls" /\ c <= j + s[j].n
    BY <1>6, <2>1 DEF Shaped
  <2>3. PICK n \in Nat : n = s[j].n
    BY <1>4, <2>1, <2>2
  <2>4. j > k
    BY <2>1, <2>2, <2>3 DEF Cut
  <2>5. PICK d \in 1 .. i - 1 : d = j - k /\ w[d] = s[k + d] /\ k + d = j
    <3>1. j - k \in 1 .. i - 1 /\ j - k \in 1 .. m - k /\ k + (j - k) = j
      BY <2>1, <2>4
    <3>2. w[j - k] = s[k + (j - k)]
      BY <1>3, <3>1
    <3> QED BY <3>1, <3>2
  <2>6. i - d <= w[d].n /\ w[d].k = "calls"
    BY <2>1, <2>2, <2>3, <2>5
  <2> QED BY <2>6
<1>7. ASSUME NEW i \in DOMAIN w, w[i].k = "answer"
      PROVE  i = Len(w)
  <2>0. i \in 1 .. m - k /\ w[i] = s[k + i]
    BY <1>3
  <2>1. PICK c \in 1 .. Len(s) : c = k + i /\ i \in 1 .. m - k /\ w[i] = s[c]
    BY <1>1, <2>0
  <2>2. c = Len(s)
    BY <1>7, <2>1 DEF Shaped
  <2> QED BY <1>1, <1>3, <2>1, <2>2
<1> QED BY <1>5, <1>6, <1>7 DEF TT!Whole, w

\* A cut stays one when the turn goes on.
LEMMA CutKept ==
    ASSUME NEW s \in Seq(Entries), NEW e \in Entries, NEW k \in Nat, Cut(s, k)
    PROVE  Cut(Append(s, e), k)
<1>1. Len(Append(s, e)) = Len(s) + 1 /\ \A i \in 1 .. Len(s) : Append(s, e)[i] = s[i]
  OBVIOUS
<1> QED BY <1>1 DEF Cut

-----------------------------------------------------------------------------
(* The moves of the workflow between its blocking points.                   *)

\* The part of the state that control is made of.
TypeCtl ==
    /\ pc \in {"skills", "tools", "choose", "top", "server", "machine", "hand", "pending",
               "aside", "wait", "gather", "flush", "rewrite", "over"}
    /\ then \in {"top", "rewrite"} /\ shield \in BOOLEAN
    /\ route \in [machine : Machines \cup {None}, excluded : SUBSET Machines, unreached : SUBSET Machines]
    /\ route.unreached \subseteq route.excluded
    /\ attempt \in 0 .. Attempts /\ step \in 0 .. MaxIterations
    /\ out \in {"none", "cancelled", "failed", "answered", "exhausted", "refused", "error"}

\* A move that keeps control sound, to a point inside the loop or to the
\* write that ends the run.
Moved ==
    /\ TypeCtl' /\ AtPoint' /\ Route'
    /\ pc' \notin {"gather", "skills", "tools", "over"}
    /\ out' \notin {"refused", "error"}
    /\ pc' = "rewrite" => ~Session \/ persisted >= Len(turn')

\* A run that requires a machine has not called the server's key.
WhereOK == cfg.mode = "require" /\ cfg.run # "scheduled" => None \notin where

LEMMA EndMoves ==
    ASSUME IInv, NEW o \in {"cancelled", "failed", "answered", "exhausted"},
           EndWith(o, turn'), UNCHANGED <<cfg, step, attempt, route>>, where' = where \/ WhereOK',
           persisted \in Nat, Len(turn') \in Nat
    PROVE  Moved
<1>1. TypeOK /\ AtPoint /\ Route
  BY DEF IInv
<1>2. /\ out' = o /\ then' \in {"top", "rewrite"} /\ shield' \in BOOLEAN
      /\ \/ pc' = "flush" /\ then' = "rewrite" /\ Session
         \/ pc' = "rewrite" /\ (~Session \/ persisted >= Len(turn'))
  BY <1>1 DEF EndWith, FlushThen, TypeOK, writing
<1>3. TypeCtl'
  BY <1>1, <1>2 DEF TypeCtl, TypeOK
<1>4. AtPoint'
  BY <1>1, <1>2 DEF AtPoint, Running, Session
<1>5. Route'
  BY <1>1, <1>2 DEF Route, Running, WhereOK
<1> QED BY <1>2, <1>3, <1>4, <1>5 DEF Moved

\* A machine the call lost is excluded: the server's key, or another machine.
LEMMA ExcludingMoves ==
    ASSUME IInv, NEW u \in BOOLEAN, pc \in {"machine", "hand", "pending", "aside"}, Excluding(u),
           UNCHANGED <<cfg, step, attempt, where, turn>>
    PROVE  Moved
<1>1. TypeOK /\ AtPoint /\ Route /\ Running
  BY DEF IInv, AtPoint
<1>2. /\ route' = [machine |-> IF cfg.mode = "require" THEN route.machine ELSE None,
                   excluded |-> route.excluded \cup {route.machine},
                   unreached |-> IF u THEN route.unreached \cup {route.machine} ELSE route.unreached]
      /\ pc' = (IF cfg.mode = "require" THEN "choose" ELSE "server")
      /\ UNCHANGED <<then, shield, out>>
  BY <1>1 DEF Excluding, Exclude, TypeOK, writing
<1>3. route.machine \in Machines /\ route.excluded \subseteq Machines /\ route.unreached \subseteq route.excluded
  BY <1>1 DEF Route, TypeOK
<1>4. TypeCtl'
  BY <1>1, <1>2, <1>3 DEF TypeCtl, TypeOK
<1>5. AtPoint'
  BY <1>1, <1>2 DEF AtPoint, Running, Session
<1>6. Route'
  BY <1>1, <1>2, <1>3, ConstantsOK DEF Route, Running
<1> QED BY <1>1, <1>2, <1>4, <1>5, <1>6 DEF Moved, Running

\* The server's key, for a run that does not require a machine.
LEMMA ServerMoves ==
    ASSUME IInv, pc \in {"machine", "hand", "pending"}, OnServer, cfg.mode # "require",
           UNCHANGED <<cfg, step, attempt, where, turn>>
    PROVE  Moved
<1>1. TypeOK /\ AtPoint /\ Route /\ Running
  BY DEF IInv, AtPoint
<1>2. /\ route' = [machine |-> None, excluded |-> route.excluded, unreached |-> route.unreached]
      /\ pc' = "server" /\ UNCHANGED <<then, shield, out>>
  BY <1>1 DEF OnServer, TypeOK, writing
<1>3. route.excluded \subseteq Machines /\ route.unreached \subseteq route.excluded
  BY <1>1 DEF TypeOK
<1>4. TypeCtl'
  BY <1>1, <1>2, <1>3 DEF TypeCtl, TypeOK
<1>5. AtPoint'
  BY <1>1, <1>2 DEF AtPoint, Running, Session
<1>6. Route'
  BY <1>1, <1>2, <1>3, ConstantsOK DEF Route, Running
<1> QED BY <1>1, <1>2, <1>4, <1>5, <1>6 DEF Moved, Running

\* machineFailure, whatever the failure.
Failures == {"final", "worker", "passing", "aside", "lost", "unreached", "refused"}

LEMMA FailureMoves ==
    ASSUME IInv, pc \in {"machine", "hand", "pending"}, NEW kind \in Failures, MachineFailure(kind),
           UNCHANGED <<cfg, step, attempt, where, turn>>
    PROVE  Moved
<1>1. TypeOK /\ AtPoint /\ Route /\ Running /\ persisted \in Nat /\ Len(turn') \in Nat
  BY DEF IInv, AtPoint, TypeOK
<1>2. CASE \E o \in {"cancelled", "failed"} : EndWith(o, turn) /\ UNCHANGED route
  BY <1>1, <1>2, EndMoves
<1>3. CASE OnServer /\ cfg.mode # "require"
  BY <1>3, ServerMoves
<1>4. CASE pc' \in {"aside", "wait"} /\ (pc' = "wait" => attempt < Attempts) /\ UNCHANGED <<writing, out, route>>
  <2>1. TypeCtl'
    BY <1>1, <1>4 DEF TypeCtl, TypeOK, writing
  <2>2. AtPoint'
    BY <1>1, <1>4 DEF AtPoint, Running, Session, writing
  <2>3. Route'
    BY <1>1, <1>4 DEF Route, Running
  <2> QED BY <1>1, <1>4, <2>1, <2>2, <2>3 DEF Moved, Running
<1>5. CASE \E u \in BOOLEAN : Excluding(u)
  BY <1>5, ExcludingMoves
<1> HIDE DEF Moved
<1>6. \/ \E o \in {"cancelled", "failed"} : EndWith(o, turn) /\ UNCHANGED route
      \/ OnServer /\ cfg.mode # "require"
      \/ pc' \in {"aside", "wait"} /\ (pc' = "wait" => attempt < Attempts) /\ UNCHANGED <<writing, out, route>>
      \/ \E u \in BOOLEAN : Excluding(u)
  BY <1>1 DEF MachineFailure, Failures, Final, Stops, WorkerCannot, Passing, MachineLost
<1> QED BY <1>2, <1>3, <1>4, <1>5, <1>6

-----------------------------------------------------------------------------
(* The steps that leave the turn and the store alone.                       *)

MachType == mach \in [Machines -> [linked : BOOLEAN, seen : BOOLEAN, offered : BOOLEAN, key : BOOLEAN, aside : BOOLEAN]]

\* Any of them, when its control is sound.
LEMMA QuietStep ==
    ASSUME IInv, UNCHANGED <<cfg, turn, persisted, rows, late, seen, asked, where, replied>>,
           TypeCtl', AtPoint', Route', MachType', stopped' \in BOOLEAN,
           futs' \in Seq({"open", "asking", "done"}), Len(futs') = Len(futs), got' = got,
           pc' = pc \/ (pc # "gather" /\ pc' # "gather"),
           Running' => Running, stopped => stopped',
           faults' = faults \/ Fault,
           pc' \in {"skills", "tools"} => pc \in {"skills", "tools"},
           pc' = "rewrite" => \/ pc = "rewrite" \/ ~Session \/ persisted >= Len(turn)
                              \/ stopped' \/ faults' > 0,
           pc' = "over" => pc = "over",
           out' \in {"refused", "error"} => out' = out \/ pc \in {"skills", "tools"}
    PROVE  IInv'
<1>1. TypeOK /\ Log
  BY DEF IInv
<1>2. faults <= faults' /\ faults' \in 0 .. MaxFaults /\ faults \in Nat
  BY <1>1, ConstantsOK DEF TypeOK, Fault
<1>3. Len(turn) \in Nat /\ persisted \in 0 .. Len(turn)
  BY <1>1 DEF TypeOK
<1>4. TypeOK'
  BY <1>1, <1>2 DEF TypeOK, TypeCtl, MachType
<1>5. Log'
  <2>1. CASE pc' = pc
    BY <1>1, <2>1 DEF Log, Gathering, Cut, Shaped
  <2>2. CASE pc # "gather" /\ pc' # "gather"
    BY <1>1, <2>2 DEF Log, Cut, Shaped
  <2> QED BY <2>1, <2>2
<1>6. Prefix'
  BY DEF IInv, Prefix, Cut
<1>7. ReadsTurnOnce'
  BY DEF IInv, ReadsTurnOnce
<1>8. persisted >= Len(turn) => rows = 1 .. Len(turn)
  BY <1>3 DEF IInv, Prefix
<1>9. Spent'
  BY <1>2, <1>8 DEF IInv, Spent, Session
<1>10. StoredWhole'
  BY <1>2 DEF IInv, StoredWhole, Session
<1> QED BY <1>4, <1>5, <1>6, <1>7, <1>9, <1>10 DEF IInv

\* A move of the workflow, as the lemmas above describe them.
LEMMA MovedStep ==
    ASSUME IInv, Moved, pc \notin {"gather", "rewrite", "over"}, Running,
           UNCHANGED <<cfg, turn, persisted, rows, late, seen, asked, where, replied, futs, got, stopped>>,
           MachType', faults' = faults \/ Fault
    PROVE  IInv'
<1>1. stopped \in BOOLEAN /\ futs \in Seq({"open", "asking", "done"})
  BY DEF IInv, TypeOK
<1> QED BY <1>1, QuietStep DEF Moved

LEMMA MachTypeNow ==
    ASSUME IInv
    PROVE  MachType /\ (mach' = mach => MachType')
  BY DEF IInv, TypeOK, MachType

LEMMA LoadSkillsStep == IInv /\ LoadSkills => IInv'
<1> SUFFICES ASSUME IInv, LoadSkills PROVE IInv'
  OBVIOUS
<1>1. TypeOK /\ AtPoint /\ Route
  BY DEF IInv
<1>2. TypeCtl'
  BY <1>1 DEF LoadSkills, TypeOK, TypeCtl, writing
<1>3. AtPoint'
  BY <1>1 DEF LoadSkills, AtPoint, Running, Session, writing
<1>4. Route'
  BY <1>1 DEF LoadSkills, Route, Running, talk
<1>5. /\ UNCHANGED <<cfg, turn, persisted, rows, late, seen, asked, where, replied, futs, got, stopped, mach, faults, out>>
      /\ pc = "skills" /\ pc' = "tools"
  BY DEF LoadSkills, store, talk, tools
<1>6. stopped \in BOOLEAN /\ futs \in Seq({"open", "asking", "done"})
  BY <1>1 DEF TypeOK
<1> QED BY <1>2, <1>3, <1>4, <1>5, <1>6, MachTypeNow, QuietStep DEF Running

LEMMA StartEnds ==
    ASSUME IInv, NEW o \in {"cancelled", "error", "refused"}, EndBare(o), pc \in {"skills", "tools"},
           UNCHANGED <<cfg, turn, persisted, rows, late, route, attempt, step, futs, got, mach, seen, asked, replied, where, stopped>>,
           faults' = faults \/ Fault
    PROVE  IInv'
<1>1. TypeOK /\ AtPoint /\ Route /\ Spent
  BY DEF IInv
<1>2. pc' = "rewrite" /\ out' = o /\ UNCHANGED <<then, shield>>
  BY DEF EndBare, writing
<1>3. TypeCtl'
  BY <1>1, <1>2 DEF TypeOK, TypeCtl
<1>4. AtPoint'
  BY <1>1, <1>2 DEF AtPoint, Running, Session
<1>5. Route'
  BY <1>1, <1>2 DEF Route, Running
<1>6. Session => persisted >= Len(turn)
  BY <1>1 DEF Spent, TypeOK
<1>7. stopped \in BOOLEAN /\ futs \in Seq({"open", "asking", "done"})
  BY <1>1 DEF TypeOK
<1> QED BY <1>2, <1>3, <1>4, <1>5, <1>6, <1>7, MachTypeNow, QuietStep DEF Running

LEMMA StartFailsStep == IInv /\ StartFails => IInv'
<1> SUFFICES ASSUME IInv, StartFails PROVE IInv'
  OBVIOUS
<1>1. \E o \in {"cancelled", "error", "refused"} : EndBare(o)
  BY DEF StartFails
<1>2. faults' = faults \/ Fault
  BY DEF StartFails, Failing
<1>3. pc \in {"skills", "tools"} /\ UNCHANGED <<cfg, turn, persisted, rows, late, route, attempt, step, futs, got, mach, seen, asked, replied, where, stopped>>
  BY DEF StartFails, store, tools, talk
<1> QED BY <1>1, <1>2, <1>3, StartEnds

LEMMA AgentNotOpenStep == IInv /\ AgentNotOpen => IInv'
<1> SUFFICES ASSUME IInv, AgentNotOpen PROVE IInv'
  OBVIOUS
<1>1. pc = "tools" /\ EndBare("refused") /\ UNCHANGED <<cfg, turn, persisted, rows, late, route, attempt, step, futs, got, mach, seen, asked, replied, where, stopped, faults>>
  BY DEF AgentNotOpen, store, tools, talk
<1> QED BY <1>1, StartEnds

LEMMA ListToolsStep == IInv /\ ListTools => IInv'
<1> SUFFICES ASSUME IInv, ListTools PROVE IInv'
  OBVIOUS
<1>1. TypeOK /\ AtPoint /\ Route /\ cfg \in Configs
  BY DEF IInv, TypeOK
<1>2. /\ pc = "tools" /\ UNCHANGED <<then, shield, attempt, step, out>>
      /\ UNCHANGED <<cfg, turn, persisted, rows, late, seen, asked, where, replied, futs, got, stopped, mach, faults>>
  BY DEF ListTools, store, talk, tools, writing
<1>3. \/ pc' = "choose" /\ route' = route /\ Routed
      \/ /\ pc' = "top"
         /\ route' = [machine |-> IF Routed THEN cfg.machine ELSE None, excluded |-> route.excluded, unreached |-> route.unreached]
         /\ Routed => cfg.machine # None
  BY <1>1 DEF ListTools, StartLLMRoute, TypeOK
<1>4. /\ cfg.machine \in Machines \cup {None} /\ cfg.machine \notin cfg.excluded
      /\ route.excluded \subseteq Machines /\ route.unreached \subseteq route.excluded /\ route.excluded = cfg.excluded
  BY <1>1, <1>2 DEF Configs, TypeOK, Route
<1>5. TypeCtl'
  BY <1>1, <1>2, <1>3, <1>4 DEF TypeOK, TypeCtl
<1>6. AtPoint'
  BY <1>1, <1>2, <1>3 DEF AtPoint, Running, Session
<1>7. Route'
  BY <1>1, <1>2, <1>3, <1>4, ConstantsOK DEF Route, Running, Routed
<1>8. Running /\ out' = "none"
  BY <1>1, <1>2 DEF AtPoint, Running
<1> QED BY <1>2, <1>3, <1>5, <1>6, <1>7, <1>8, MachTypeNow, MovedStep DEF Moved

LEMMA ChooseMachineStep == IInv /\ ChooseMachine => IInv'
<1> SUFFICES ASSUME IInv, ChooseMachine PROVE IInv'
  OBVIOUS
<1>1. TypeOK /\ AtPoint /\ Route
  BY DEF IInv
<1>2. /\ pc = "choose" /\ step' = step
      /\ UNCHANGED <<cfg, turn, persisted, rows, late, seen, asked, where, replied, futs, got, stopped, mach, faults>>
  BY DEF ChooseMachine, store, talk, tools
<1>3. Running /\ out = "none" /\ persisted \in Nat /\ Len(turn') \in Nat
  BY <1>1, <1>2 DEF AtPoint, Running, TypeOK
<1>4. PICK m \in Machines \ route.excluded : route' = [route EXCEPT !.machine = m] /\ GoOn
  BY DEF ChooseMachine, ChooseLLMMachine
<1>5. /\ route' = [machine |-> m, excluded |-> route.excluded, unreached |-> route.unreached]
      /\ route.excluded \subseteq Machines /\ route.unreached \subseteq route.excluded
  BY <1>1, <1>4 DEF TypeOK
<1>6. /\ then' \in {"top", "rewrite"} /\ shield' \in BOOLEAN
      /\ \/ /\ UNCHANGED <<then, shield, out>>
            /\ \/ attempt = 0 /\ pc' = "top" /\ attempt' = attempt
               \/ attempt > 0 /\ attempt < Attempts /\ pc' = "machine" /\ attempt' = attempt + 1
         \/ /\ attempt' = attempt /\ out' \in {"cancelled", "failed"}
            /\ \/ pc' = "flush" /\ then' = "rewrite" /\ Session
               \/ pc' = "rewrite" /\ (~Session \/ persisted >= Len(turn))
  BY <1>1, <1>3, <1>4, ConstantsOK DEF GoOn, EndWith, FlushThen, writing, TypeOK
<1>7. TypeCtl'
  BY <1>1, <1>2, <1>3, <1>5, <1>6, ConstantsOK DEF TypeOK, TypeCtl
<1>8. AtPoint'
  BY <1>1, <1>2, <1>3, <1>6, ConstantsOK DEF AtPoint, Running, Session, TypeOK
<1>9. Route'
  BY <1>1, <1>2, <1>3, <1>5, <1>6, ConstantsOK DEF Route, Running
<1>10. Moved
  BY <1>2, <1>3, <1>6, <1>7, <1>8, <1>9 DEF Moved
<1> QED BY <1>2, <1>3, <1>10, MachTypeNow, MovedStep

LEMMA ChooseNoneStep == IInv /\ ChooseNone => IInv'
<1> SUFFICES ASSUME IInv, ChooseNone PROVE IInv'
  OBVIOUS
<1>1. TypeOK /\ AtPoint /\ Route
  BY DEF IInv
<1>2. /\ pc = "choose" /\ step' = step /\ attempt' = attempt
      /\ UNCHANGED <<cfg, turn, persisted, rows, late, seen, asked, where, replied, futs, got, stopped, mach>>
      /\ faults' = faults \/ Fault
  BY DEF ChooseNone, store, talk, tools, Failing
<1>3. Running /\ out = "none" /\ persisted \in Nat /\ Len(turn') \in Nat
  BY <1>1, <1>2 DEF AtPoint, Running, TypeOK
<1>4. /\ route' = [machine |-> None, excluded |-> route.excluded, unreached |-> route.unreached]
      /\ route.excluded \subseteq Machines /\ route.unreached \subseteq route.excluded
  BY <1>1 DEF TypeOK, ChooseNone
<1>5. /\ then' \in {"top", "rewrite"} /\ shield' \in BOOLEAN
      /\ \/ UNCHANGED <<then, shield, out>> /\ pc' = "top" /\ cfg.mode # "require"
         \/ /\ out' \in {"cancelled", "failed", "answered"}
            /\ \/ pc' = "flush" /\ then' = "rewrite" /\ Session
               \/ pc' = "rewrite" /\ (~Session \/ persisted >= Len(turn) \/ stopped)
  BY <1>1, <1>3 DEF ChooseNone, NoMachine, EndWith, EndBare, FlushThen, writing, TypeOK
<1>6. TypeCtl'
  BY <1>1, <1>2, <1>3, <1>4, <1>5 DEF TypeOK, TypeCtl
<1>7. AtPoint'
  BY <1>1, <1>2, <1>3, <1>5 DEF AtPoint, Running, Session
<1>8. Route'
  BY <1>1, <1>2, <1>3, <1>4, <1>5, ConstantsOK DEF Route, Running
<1>9. stopped \in BOOLEAN /\ futs \in Seq({"open", "asking", "done"})
  BY <1>1 DEF TypeOK
<1> QED BY <1>2, <1>3, <1>5, <1>6, <1>7, <1>8, <1>9, MachTypeNow, QuietStep

LEMMA CallFailsStep == IInv /\ CallFails => IInv'
<1> SUFFICES ASSUME IInv, CallFails PROVE IInv'
  OBVIOUS
<1>1. TypeOK /\ AtPoint
  BY DEF IInv
<1>2. /\ pc = "server" /\ UNCHANGED <<route, step, attempt>>
      /\ UNCHANGED <<cfg, turn, persisted, rows, late, seen, asked, where, replied, futs, got, stopped, mach>>
      /\ faults' = faults \/ Fault
      /\ \E o \in {"cancelled", "failed", "answered", "exhausted"} : EndWith(o, turn')
  BY DEF CallFails, store, talk, tools, Failing
<1>3. Running /\ persisted \in Nat /\ Len(turn') \in Nat
  BY <1>1, <1>2 DEF AtPoint, Running, TypeOK
<1>4. Moved
  BY <1>2, <1>3, EndMoves
<1> QED BY <1>2, <1>3, <1>4, MachTypeNow, MovedStep

\* The top of the loop changes replied too, which nothing above speaks of.
LEMMA LoopTopStep == IInv /\ LoopTop => IInv'
<1> SUFFICES ASSUME IInv, LoopTop PROVE IInv'
  OBVIOUS
<1>1. TypeOK /\ AtPoint /\ Route /\ Log /\ Prefix /\ Spent /\ ReadsTurnOnce
  BY DEF IInv
<1>2. /\ pc = "top" /\ UNCHANGED <<route, step>> /\ replied' = FALSE
      /\ UNCHANGED <<cfg, turn, persisted, rows, late, seen, asked, where, futs, got, stopped, mach, faults>>
  BY DEF LoopTop, store, tools
<1>3. Running /\ out = "none" /\ persisted \in Nat /\ Len(turn') \in Nat
  BY <1>1, <1>2 DEF AtPoint, Running, TypeOK
<1>4. Moved
  <2>1. CASE step = MaxIterations /\ EndWith("exhausted", turn) /\ UNCHANGED attempt
    BY <1>2, <1>3, <2>1, EndMoves
  <2>2. CASE EndWith("cancelled", turn) /\ UNCHANGED attempt
    BY <1>2, <1>3, <2>2, EndMoves
  <2>3. CASE /\ step < MaxIterations /\ attempt' = 1 /\ UNCHANGED <<writing, out>>
             /\ pc' = (IF route.machine = None THEN "server" ELSE "machine")
    <3>1. TypeCtl'
      BY <1>1, <1>2, <2>3, ConstantsOK DEF TypeOK, TypeCtl, writing
    <3>2. AtPoint'
      BY <1>1, <1>2, <1>3, <2>3 DEF AtPoint, Running, Session, writing
    <3>3. Route'
      BY <1>1, <1>2, <1>3, <2>3 DEF Route, Running, TypeOK
    <3> QED BY <1>3, <2>3, <3>1, <3>2, <3>3 DEF Moved, Running
  <2> QED BY <2>1, <2>2, <2>3 DEF LoopTop
<1>5. TypeOK'
  BY <1>1, <1>2, <1>4 DEF TypeOK, TypeCtl, Moved
<1>6. Log'
  BY <1>1, <1>2, <1>3, <1>4 DEF Log, Cut, Shaped, Moved, Running
<1>7. Prefix'
  BY <1>1, <1>2 DEF Prefix, Cut
<1>8. persisted >= Len(turn) => rows = 1 .. Len(turn)
  BY <1>1 DEF TypeOK, Prefix
<1>9. Spent'
  BY <1>1, <1>2, <1>4, <1>8 DEF Spent, Session, Moved
<1>10. ReadsTurnOnce' /\ StoredWhole'
  BY <1>1, <1>2, <1>4 DEF ReadsTurnOnce, StoredWhole, Moved
<1> QED BY <1>4, <1>5, <1>6, <1>7, <1>9, <1>10 DEF IInv, Moved

LEMMA RetryWaitStep == IInv /\ RetryWait => IInv'
<1> SUFFICES ASSUME IInv, RetryWait PROVE IInv'
  OBVIOUS
<1>1. TypeOK /\ AtPoint /\ Route
  BY DEF IInv
<1>2. /\ pc = "wait" /\ UNCHANGED <<route, step>>
      /\ UNCHANGED <<cfg, turn, persisted, rows, late, seen, asked, where, replied, futs, got, stopped, mach, faults>>
  BY DEF RetryWait, store, tools, talk
<1>3. Running /\ out = "none" /\ persisted \in Nat /\ Len(turn') \in Nat
  BY <1>1, <1>2 DEF AtPoint, Running, TypeOK
<1>4. Moved
  <2>1. CASE EndWith("cancelled", turn) /\ UNCHANGED attempt
    BY <1>2, <1>3, <2>1, EndMoves
  <2>2. CASE pc' = "machine" /\ attempt' = attempt + 1 /\ UNCHANGED <<writing, out>>
    <3>1. TypeCtl'
      BY <1>1, <1>2, <2>2, ConstantsOK DEF TypeOK, TypeCtl, writing, AtPoint
    <3>2. AtPoint'
      BY <1>1, <1>2, <1>3, <2>2 DEF AtPoint, Running, Session, writing, TypeOK
    <3>3. Route'
      BY <1>1, <1>2, <1>3, <2>2 DEF Route, Running, TypeOK
    <3> QED BY <1>3, <2>2, <3>1, <3>2, <3>3 DEF Moved, Running
  <2> QED BY <2>1, <2>2 DEF RetryWait
<1> QED BY <1>2, <1>3, <1>4, MachTypeNow, MovedStep

\* A call on a machine that fails, and what is left alone.
LEMMA FailureStep ==
    ASSUME IInv, pc \in {"machine", "hand", "pending"}, NEW kind \in Failures, MachineFailure(kind),
           UNCHANGED <<cfg, store, attempt, step, tools, talk, stopped>>, MachType',
           faults' = faults \/ Fault
    PROVE  IInv'
<1>1. Running
  BY DEF IInv, AtPoint, Running
<1>2. UNCHANGED <<turn, persisted, rows, late, seen, asked, where, replied, futs, got>>
  BY DEF store, talk, tools
<1>3. Moved
  BY <1>2, FailureMoves
<1> QED BY <1>1, <1>2, <1>3, MovedStep

LEMMA NotCreatedStep == IInv /\ NotCreated => IInv'
<1>1. ASSUME NotCreated
      PROVE  \E kind \in Failures : MachineFailure(kind) /\ (faults' = faults \/ Fault)
  BY <1>1 DEF NotCreated, Failures
<1> QED BY <1>1, FailureStep, MachTypeNow DEF NotCreated

LEMMA NotHandedStep == IInv /\ NotHanded => IInv'
<1>1. ASSUME NotHanded
      PROVE  \E kind \in Failures : MachineFailure(kind) /\ (faults' = faults \/ Fault)
  BY <1>1 DEF NotHanded, Failures
<1> QED BY <1>1, FailureStep, MachTypeNow DEF NotHanded

LEMMA ModelRefusesStep == IInv /\ ModelRefuses => IInv'
<1>1. ASSUME ModelRefuses
      PROVE  \E kind \in Failures : MachineFailure(kind)
  BY <1>1 DEF ModelRefuses, Failures
<1> QED BY <1>1, FailureStep, MachTypeNow DEF ModelRefuses

LEMMA CallLostStep == IInv /\ CallLost => IInv'
<1>1. ASSUME CallLost
      PROVE  \E kind \in Failures : MachineFailure(kind)
  BY <1>1 DEF CallLost, Failures
<1> QED BY <1>1, FailureStep, MachTypeNow DEF CallLost

LEMMA ModelFailsStep == IInv /\ ModelFails => IInv'
<1> SUFFICES ASSUME IInv, ModelFails PROVE IInv'
  OBVIOUS
<1>1. \E kind \in Failures : MachineFailure(kind) /\ (faults' = faults \/ Fault)
  BY DEF ModelFails, Failures
<1>2. Model \in Machines
  BY DEF IInv, Route, Model, ModelFails
<1>3. MachType'
  <2>1. CASE mach' = mach
    BY <2>1, MachTypeNow
  <2>2. CASE mach' = [mach EXCEPT ![Model].key = FALSE]
    BY <1>2, <2>2, MachTypeNow DEF MachType
  <2> QED BY <2>1, <2>2 DEF ModelFails
<1> QED BY <1>1, <1>3, FailureStep DEF ModelFails

LEMMA SetMachineAsideStep == IInv /\ SetMachineAside => IInv'
<1> SUFFICES ASSUME IInv, SetMachineAside PROVE IInv'
  OBVIOUS
<1>1. pc = "aside" /\ Running /\ route.machine \in Machines
  BY DEF IInv, AtPoint, Route, SetMachineAside, Running
<1>2. MachType'
  BY <1>1, MachTypeNow DEF SetMachineAside, MachType
<1>3. /\ Excluding(FALSE)
      /\ UNCHANGED <<cfg, turn, persisted, rows, late, attempt, step, futs, got, seen, asked, where, replied, stopped>>
  BY DEF SetMachineAside, store, tools, talk
<1>4. Moved
  BY <1>1, <1>3, ExcludingMoves, FALSE \in BOOLEAN
<1>5. faults' = faults \/ Fault
  BY DEF SetMachineAside, Failing
<1> QED BY <1>1, <1>2, <1>3, <1>4, <1>5, MovedStep

LEMMA DeliverStep == IInv /\ DeliverLLM => IInv'
<1> SUFFICES ASSUME IInv, DeliverLLM PROVE IInv'
  OBVIOUS
<1>1. TypeOK /\ AtPoint /\ Route
  BY DEF IInv
<1>2. /\ pc = "hand" /\ pc' = "pending" /\ UNCHANGED <<then, shield, route, attempt, step, out>>
      /\ UNCHANGED <<cfg, turn, persisted, rows, late, seen, asked, where, replied, futs, got, stopped, mach, faults>>
  BY DEF DeliverLLM, writing, store, tools, talk
<1>3. TypeCtl'
  BY <1>1, <1>2 DEF TypeOK, TypeCtl
<1>4. AtPoint'
  BY <1>1, <1>2 DEF AtPoint, Running, Session
<1>5. Route'
  BY <1>1, <1>2 DEF Route, Running
<1>6. Moved /\ Running
  BY <1>1, <1>2, <1>3, <1>4, <1>5 DEF Moved, AtPoint, Running
<1> QED BY <1>2, <1>6, MachTypeNow, MovedStep

LEMMA ToolStep == ASSUME IInv, NEW j \in DOMAIN futs, ToolEnds(j) \/ AskUser(j) PROVE IInv'
<1>1. TypeOK /\ AtPoint /\ Route
  BY DEF IInv
<1>2. /\ UNCHANGED <<pc, then, shield, route, attempt, step, out>>
      /\ UNCHANGED <<cfg, turn, persisted, rows, late, seen, asked, where, replied, got, stopped, mach, faults>>
      /\ futs' = [futs EXCEPT ![j] = "done"]
  BY DEF ToolEnds, AskUser, writing, store, talk
<1>3. futs' \in Seq({"open", "asking", "done"}) /\ Len(futs') = Len(futs)
  BY <1>1, <1>2 DEF TypeOK
<1>4. TypeCtl'
  BY <1>1, <1>2 DEF TypeOK, TypeCtl
<1>5. AtPoint'
  BY <1>1, <1>2 DEF AtPoint, Running, Session
<1>6. Route'
  BY <1>1, <1>2 DEF Route, Running
<1>7. stopped \in BOOLEAN
  BY <1>1 DEF TypeOK
<1> QED BY <1>2, <1>3, <1>4, <1>5, <1>6, <1>7, MachTypeNow, QuietStep DEF Running

\* A stop, a machine's troubles: nothing of the run moves.
LEMMA OutsideStep ==
    ASSUME IInv, MachType', stopped' \in BOOLEAN, stopped => stopped', pc = "rewrite" => stopped' = stopped,
           faults' = faults \/ Fault,
           UNCHANGED <<cfg, pc, writing, store, route, attempt, step, tools, talk, out>>
    PROVE  IInv'
<1>1. TypeOK /\ AtPoint /\ Route
  BY DEF IInv
<1>2. UNCHANGED <<then, shield, turn, persisted, rows, late, seen, asked, where, replied, futs, got>>
  BY DEF writing, store, talk, tools
<1>3. TypeCtl'
  BY <1>1, <1>2 DEF TypeOK, TypeCtl
<1>4. AtPoint'
  BY <1>1, <1>2 DEF AtPoint, Running, Session
<1>5. Route'
  BY <1>1, <1>2 DEF Route, Running
<1>6. futs' \in Seq({"open", "asking", "done"})
  BY <1>1, <1>2 DEF TypeOK
<1> QED BY <1>2, <1>3, <1>4, <1>5, <1>6, QuietStep DEF Running

LEMMA StopStep == IInv /\ Stop => IInv'
<1>1. ASSUME IInv, Stop
      PROVE  MachType' /\ faults' = faults
  BY <1>1, MachTypeNow DEF Stop
<1> QED BY <1>1, OutsideStep DEF Stop

LEMMA MachineStep ==
    ASSUME IInv, NEW m \in Machines, MachineGone(m) \/ MachineUnseen(m) \/ KeyRefused(m) \/ MachineBack(m)
    PROVE  IInv'
<1>1. MachType /\ stopped \in BOOLEAN
  BY MachTypeNow DEF IInv, TypeOK
<1>2. faults' = faults \/ Fault
  BY DEF MachineGone, MachineUnseen, KeyRefused, MachineBack
<1>3. UNCHANGED <<cfg, pc, writing, store, route, attempt, step, tools, talk, out, stopped>>
  BY DEF MachineGone, MachineUnseen, KeyRefused, MachineBack
<1>4. MachType'
  <2>1. CASE MachineGone(m)
    BY <1>1, <2>1 DEF MachineGone, MachType
  <2>2. CASE MachineUnseen(m)
    BY <1>1, <2>2 DEF MachineUnseen, MachType
  <2>3. CASE KeyRefused(m)
    BY <1>1, <2>3 DEF KeyRefused, MachType
  <2>4. CASE MachineBack(m)
    BY <1>1, <2>4 DEF MachineBack, MachType
  <2> QED BY <2>1, <2>2, <2>3, <2>4
<1> QED BY <1>1, <1>2, <1>3, <1>4, OutsideStep

-----------------------------------------------------------------------------
(* The steps that add to the turn.                                          *)

LEMMA ShapedAppend ==
    ASSUME NEW s \in Seq(Entries), NEW e \in Entries, Shaped(s),
           \A i \in 1 .. Len(s) : s[i].k # "answer",
           IF e.k = "result" THEN \E j \in 1 .. Len(s) : s[j].k = "calls" /\ Len(s) + 1 <= j + s[j].n
                             ELSE Cut(s, Len(s))
    PROVE  Shaped(Append(s, e))
<1> DEFINE t == Append(s, e)
<1>1. /\ Len(s) \in Nat /\ Len(t) = Len(s) + 1
      /\ \A i \in 1 .. Len(s) : t[i] = s[i]
      /\ t[Len(s) + 1] = e
  OBVIOUS
<1>2. \A i \in 1 .. Len(s) : s[i].n \in Nat
  BY EntryFields
<1> HIDE DEF t
<1>3. ASSUME NEW i \in 1 .. Len(t), t[i].k = "calls", NEW j \in 1 .. t[i].n, i + j <= Len(t)
      PROVE  t[i + j].k = "result"
  <2>0. e.n \in Nat
    BY DEF Entries
  <2>1. i \in 1 .. Len(s) /\ t[i] = s[i]
    BY <1>1, <1>3, <2>0
  <2>2. PICK n \in Nat : n = s[i].n
    BY <1>2, <2>1
  <2>3. CASE i + j <= Len(s)
    <3>1. s[i + j].k = "result"
      BY <1>3, <2>1, <2>2, <2>3 DEF Shaped
    <3>2. i + j \in 1 .. Len(s)
      BY <1>1, <2>1, <2>2, <2>3
    <3> QED BY <1>1, <3>1, <3>2
  <2>4. CASE i + j = Len(s) + 1
    <3>1. ~Cut(s, Len(s))
      BY <1>1, <1>3, <2>1, <2>2, <2>4 DEF Cut
    <3> QED BY <1>1, <2>4, <3>1
  <2> QED BY <1>1, <1>3, <2>1, <2>2, <2>3, <2>4
<1>4. ASSUME NEW i \in 1 .. Len(t), t[i].k = "result"
      PROVE  \E j \in 1 .. i - 1 : t[j].k = "calls" /\ i <= j + t[j].n
  <2>1. CASE i \in 1 .. Len(s)
    <3>1. PICK j \in 1 .. i - 1 : s[j].k = "calls" /\ i <= j + s[j].n
      BY <1>1, <1>4, <2>1 DEF Shaped
    <3>2. t[j] = s[j]
      BY <1>1, <2>1
    <3> QED BY <3>1, <3>2
  <2>2. CASE i = Len(s) + 1
    <3>1. PICK j \in 1 .. Len(s) : s[j].k = "calls" /\ Len(s) + 1 <= j + s[j].n
      BY <1>1, <1>4, <2>2
    <3>2. t[j] = s[j] /\ j \in 1 .. i - 1
      BY <1>1, <2>2
    <3> QED BY <3>1, <3>2, <2>2
  <2> QED BY <1>1, <2>1, <2>2
<1>5. ASSUME NEW i \in 1 .. Len(t), t[i].k = "answer"
      PROVE  i = Len(t)
  BY <1>1, <1>5
<1> QED BY <1>3, <1>4, <1>5 DEF Shaped, t

\* What the store holds is still a prefix when a message is added to the turn.
LEMMA PrefixAppend ==
    ASSUME TypeOK, Prefix, NEW e \in Entries, turn' = Append(turn, e), UNCHANGED <<persisted, rows, late>>
    PROVE  /\ Prefix' /\ turn' \in Seq(Entries) /\ Len(turn') = Len(turn) + 1
           /\ persisted \in 0 .. Len(turn') /\ rows \subseteq 1 .. Len(turn')
           /\ late \subseteq SUBSET (1 .. Len(turn'))
<1>1. turn \in Seq(Entries) /\ Len(turn) \in Nat
  BY DEF TypeOK
<1>2. turn' \in Seq(Entries) /\ Len(turn') = Len(turn) + 1
  BY <1>1
<1>3. PICK k \in 0 .. Len(turn) : rows = 1 .. k /\ persisted <= k /\ Cut(turn, k)
  BY DEF Prefix
<1>4. k \in 0 .. Len(turn') /\ Cut(turn', k)
  BY <1>1, <1>2, <1>3, CutKept
<1>5. ASSUME NEW w \in late
      PROVE  \E a \in 0 .. persisted, b \in 0 .. Len(turn') : w = a + 1 .. b /\ Cut(turn', b)
  <2>1. PICK a \in 0 .. persisted, b \in 0 .. Len(turn) : w = a + 1 .. b /\ Cut(turn, b)
    BY DEF Prefix
  <2>2. b \in 0 .. Len(turn') /\ Cut(turn', b)
    BY <1>1, <1>2, <2>1, CutKept
  <2> QED BY <2>1, <2>2
<1>6. Prefix'
  BY <1>3, <1>4, <1>5 DEF Prefix, Cut
<1>7. 1 .. Len(turn) \subseteq 1 .. Len(turn') /\ persisted \in 0 .. Len(turn')
  BY <1>1, <1>2 DEF TypeOK
<1> QED BY <1>2, <1>6, <1>7 DEF TypeOK

\* The model's answer, wherever it was called: the turn goes on by one message
\* or ends.
LEMMA AnsweredStep ==
    ASSUME IInv, pc \in {"server", "pending"}, Answered, ReadsTurnOnce',
           seen' \in Seq(Nat), asked' \in Nat, replied' \in BOOLEAN,
           where' \subseteq Machines \cup {None}, WhereOK',
           UNCHANGED <<cfg, persisted, rows, late, route, attempt, step, mach, stopped, faults>>
    PROVE  IInv'
<1>1. TypeOK /\ AtPoint /\ Route /\ Log /\ Prefix /\ Spent /\ Running /\ out = "none"
  BY DEF IInv, AtPoint, Running
<1>2. /\ turn \in Seq(Entries) /\ Len(turn) \in Nat /\ persisted \in 0 .. Len(turn) /\ persisted \in Nat
      /\ Shaped(turn) /\ Cut(turn, Len(turn)) /\ \A i \in 1 .. Len(turn) : turn[i].k # "answer"
  BY <1>1 DEF TypeOK, Log
<1>3. persisted >= Len(turn) => rows = 1 .. Len(turn)
  BY <1>1, <1>2 DEF Prefix
<1>4. CASE turn' = turn /\ EndWith("answered", turn') /\ UNCHANGED tools
  <2>1. Moved
    BY <1>2, <1>4, EndMoves
  <2>2. TypeOK'
    BY <1>1, <1>4, <2>1 DEF TypeOK, TypeCtl, Moved, tools
  <2>3. out' = "answered"
    BY <1>4 DEF EndWith
  <2>4. Log'
    BY <1>2, <1>4, <2>1, <2>3 DEF Log, Shaped, Cut, Moved, Running
  <2>5. Prefix'
    BY <1>1, <1>4 DEF Prefix, Cut
  <2>6. Spent' /\ StoredWhole'
    BY <1>1, <1>2, <1>3, <1>4, <2>1 DEF Spent, StoredWhole, Session, Moved
  <2> QED BY <2>1, <2>2, <2>4, <2>5, <2>6 DEF IInv, Moved
<1>5. CASE turn' = Append(turn, Entry("answer", 0)) /\ EndWith("answered", turn') /\ UNCHANGED tools
  <2> DEFINE e == Entry("answer", 0)
  <2>1. e \in Entries /\ e.k = "answer"
    BY DEF Entries, Entry
  <2>2. /\ Prefix' /\ turn' \in Seq(Entries) /\ Len(turn') = Len(turn) + 1
        /\ persisted \in 0 .. Len(turn') /\ rows \subseteq 1 .. Len(turn')
        /\ late \subseteq SUBSET (1 .. Len(turn'))
    BY <1>1, <1>5, <2>1, PrefixAppend
  <2>3. Moved
    BY <1>2, <1>5, <2>2, EndMoves
  <2>4. out' = "answered"
    BY <1>5 DEF EndWith
  <2>5. TypeOK'
    BY <1>1, <1>5, <2>2, <2>3 DEF TypeOK, TypeCtl, Moved, tools
  <2>6. Shaped(turn')
    BY <1>2, <1>5, <2>1, ShapedAppend
  <2>7. Cut(turn', Len(turn'))
    <3>1. \A i \in 1 .. Len(turn) : turn'[i] = turn[i]
      BY <1>2, <1>5
    <3>2. turn'[Len(turn) + 1].k = "answer"
      BY <1>2, <1>5, <2>1
    <3>3. \A i \in 1 .. Len(turn) : turn[i].n \in Nat
      BY <1>2, EntryFields
    <3>4. ASSUME NEW i \in 1 .. Len(turn'), turn'[i].k = "calls"
          PROVE  i + turn'[i].n <= Len(turn')
      <4>1. i \in 1 .. Len(turn) /\ turn'[i] = turn[i]
        BY <1>2, <2>2, <3>1, <3>2, <3>4
      <4>2. i + turn[i].n <= Len(turn) /\ turn[i].n \in Nat
        BY <1>2, <3>3, <3>4, <4>1 DEF Cut
      <4> QED BY <1>2, <2>2, <4>1, <4>2
    <3>5. Len(turn') \in 0 .. Len(turn')
      BY <1>2, <2>2
    <3> QED BY <3>4, <3>5 DEF Cut
  <2>8. Log'
    BY <2>3, <2>4, <2>6, <2>7 DEF Log, Moved, Running, Shaped, Cut
  <2>9. Spent' /\ StoredWhole'
    BY <1>1, <1>2, <2>2, <2>3 DEF Spent, StoredWhole, Session, Moved
  <2> QED BY <2>2, <2>3, <2>5, <2>8, <2>9 DEF IInv, Moved
<1>6. ASSUME NEW n \in 1 .. MaxCalls, NEW ks \in [1 .. n -> Kinds],
             turn' = Append(turn, Entry("calls", n)), futs' = [j \in 1 .. n |-> Dispatched(ks[j])],
             got' = 0, pc' = "gather", UNCHANGED <<writing, out>>
      PROVE  IInv'
  <2> DEFINE e == Entry("calls", n)
  <2>0. n \in Nat /\ n > 0
    BY ConstantsOK
  <2>1. e \in Entries /\ e.k = "calls" /\ e.n = n
    BY <2>0 DEF Entries, Entry
  <2>2. /\ Prefix' /\ turn' \in Seq(Entries) /\ Len(turn') = Len(turn) + 1
        /\ persisted \in 0 .. Len(turn') /\ rows \subseteq 1 .. Len(turn')
        /\ late \subseteq SUBSET (1 .. Len(turn'))
    BY <1>1, <1>6, <2>1, PrefixAppend
  <2>3. futs' \in Seq({"open", "asking", "done"}) /\ Len(futs') = n
    <3>1. \A j \in 1 .. n : Dispatched(ks[j]) \in {"open", "asking", "done"}
      BY DEF Dispatched
    <3> QED BY <1>6, <2>0, <3>1
  <2>4. TypeOK'
    BY <1>1, <1>6, <2>0, <2>2, <2>3 DEF TypeOK, writing
  <2>5. Shaped(turn')
    BY <1>2, <1>6, <2>1, ShapedAppend
  <2>6. /\ turn'[Len(turn) + 1] = e
        /\ \A i \in 1 .. Len(turn) : turn'[i] = turn[i]
    BY <1>2, <1>6
  <2>7. Cut(turn', Len(turn))
    BY <1>2, <1>6, <2>1, CutKept
  <2>8. Gathering'
    BY <1>2, <1>6, <2>0, <2>1, <2>2, <2>3, <2>6, <2>7 DEF Gathering, Cut
  <2>9. \A i \in 1 .. Len(turn') : turn'[i].k # "answer"
    <3> TAKE i \in 1 .. Len(turn')
    <3>1. i \in 1 .. Len(turn) \/ i = Len(turn) + 1
      BY <1>2, <2>2
    <3>2. CASE i \in 1 .. Len(turn)
      BY <1>2, <2>6, <3>2
    <3>3. CASE i = Len(turn) + 1
      BY <2>1, <2>6, <3>3
    <3> QED BY <3>1, <3>2, <3>3
  <2>10. Log'
    BY <1>6, <2>5, <2>8, <2>9 DEF Log, Shaped
  <2>11. AtPoint'
    BY <1>1, <1>6 DEF AtPoint, Running, Session, writing
  <2>12. Route'
    BY <1>1, <1>6 DEF Route, Running, WhereOK
  <2>13. Spent' /\ StoredWhole'
    BY <1>1, <1>6 DEF Spent, StoredWhole, Session
  <2> QED BY <2>2, <2>4, <2>10, <2>11, <2>12, <2>13 DEF IInv
<1> QED BY <1>4, <1>5, <1>6 DEF Answered

\* A call's request: the places it is made at, and what is read of the turn.
LEMMA RequestReads ==
    ASSUME IInv, NEW m, BuildRequest(m)
    PROVE  seen' = [i \in 1 .. asked' |-> i] /\ seen' \in Seq(Nat) /\ asked' = Len(turn) /\ asked' \in Nat
<1>1. Conversation = [i \in 1 .. Len(turn) |-> i] /\ Len(turn) \in Nat
  BY ConversationIsTurn DEF IInv, TypeOK
<1>2. seen' = [i \in 1 .. Len(turn) |-> i] /\ asked' = Len(turn)
  BY <1>1 DEF BuildRequest
<1> QED BY <1>1, <1>2

LEMMA CallLLMStep == IInv /\ CallLLM => IInv'
<1> SUFFICES ASSUME IInv, CallLLM PROVE IInv'
  OBVIOUS
<1>1. /\ pc = "server" /\ BuildRequest(None) /\ Answered /\ replied' = TRUE
      /\ UNCHANGED <<cfg, persisted, rows, late, route, attempt, step, mach, stopped, faults>>
  BY DEF CallLLM
<1>2. ReadsTurnOnce' /\ seen' \in Seq(Nat) /\ asked' \in Nat
  BY <1>1, RequestReads DEF ReadsTurnOnce
<1>3. where' \subseteq Machines \cup {None}
  BY <1>1 DEF BuildRequest, IInv, TypeOK
<1>4. WhereOK'
  BY <1>1 DEF WhereOK, IInv, Route, AtPoint, Running
<1> QED BY <1>1, <1>2, <1>3, <1>4, AnsweredStep

LEMMA ModelAnswersStep == IInv /\ ModelAnswers => IInv'
<1> SUFFICES ASSUME IInv, ModelAnswers PROVE IInv'
  OBVIOUS
<1>1. /\ pc = "pending" /\ Answered /\ replied' = TRUE
      /\ UNCHANGED <<cfg, persisted, rows, late, route, attempt, step, mach, stopped, faults>>
      /\ UNCHANGED <<seen, asked, where>>
  BY DEF ModelAnswers
<1>2. ReadsTurnOnce' /\ seen' \in Seq(Nat) /\ asked' \in Nat
  BY <1>1 DEF IInv, ReadsTurnOnce, TypeOK
<1>3. where' \subseteq Machines \cup {None} /\ WhereOK'
  BY <1>1 DEF IInv, TypeOK, Route, WhereOK
<1> QED BY <1>1, <1>2, <1>3, AnsweredStep

LEMMA CreateLLMDirectiveStep == IInv /\ CreateLLMDirective => IInv'
<1> SUFFICES ASSUME IInv, CreateLLMDirective PROVE IInv'
  OBVIOUS
<1>1. TypeOK /\ AtPoint /\ Route /\ Log /\ Prefix /\ Spent
  BY DEF IInv
<1>2. /\ pc = "machine" /\ pc' = "hand" /\ BuildRequest(route.machine)
      /\ UNCHANGED <<cfg, then, shield, turn, persisted, rows, late, route, attempt, step, futs, got, mach, replied, stopped, out, faults>>
  BY DEF CreateLLMDirective, writing, store, tools
<1>3. seen' = [i \in 1 .. asked' |-> i] /\ seen' \in Seq(Nat) /\ asked' \in Nat
  BY <1>2, RequestReads
<1>4. where' = where \cup {route.machine} /\ route.machine \in Machines
  BY <1>1, <1>2 DEF BuildRequest, Route
<1>5. TypeOK'
  BY <1>1, <1>2, <1>3, <1>4 DEF TypeOK
<1>6. AtPoint'
  BY <1>1, <1>2 DEF AtPoint, Running, Session
<1>7. Route'
  BY <1>1, <1>2, <1>4, ConstantsOK DEF Route, Running
<1>8. Log'
  BY <1>1, <1>2 DEF Log, Cut, Shaped, Running
<1>9. Prefix'
  BY <1>1, <1>2 DEF Prefix, Cut
<1>10. Spent' /\ StoredWhole' /\ ReadsTurnOnce'
  BY <1>1, <1>2, <1>3 DEF Spent, StoredWhole, Session, ReadsTurnOnce
<1> QED BY <1>5, <1>6, <1>7, <1>8, <1>9, <1>10 DEF IInv

\* A result of the step is appended; the last one makes the step whole.
LEMMA GatherStep == IInv /\ Gather => IInv'
<1> SUFFICES ASSUME IInv, Gather PROVE IInv'
  OBVIOUS
<1>1. TypeOK /\ AtPoint /\ Route /\ Log /\ Prefix /\ Spent /\ Running /\ out = "none"
  BY DEF IInv, AtPoint, Running, Gather
<1> DEFINE e == Entry("result", 0)
<1>2. /\ pc = "gather" /\ turn' = Append(turn, e) /\ got' = got + 1
      /\ UNCHANGED <<cfg, persisted, rows, late, route, futs, mach, stopped, out, faults>>
      /\ UNCHANGED <<seen, asked, replied, where>>
  BY DEF Gather, talk
<1>3. e \in Entries /\ e.k = "result"
  BY DEF Entries, Entry
<1> HIDE DEF e
<1>4. /\ Prefix' /\ turn' \in Seq(Entries) /\ Len(turn') = Len(turn) + 1
      /\ persisted \in 0 .. Len(turn') /\ rows \subseteq 1 .. Len(turn')
      /\ late \subseteq SUBSET (1 .. Len(turn'))
  BY <1>1, <1>2, <1>3, PrefixAppend
<1>5. /\ turn \in Seq(Entries) /\ Len(turn) \in Nat /\ got \in Nat /\ Len(futs) \in Nat
      /\ persisted \in Nat /\ Len(turn') \in Nat
      /\ Shaped(turn) /\ \A i \in 1 .. Len(turn) : turn[i].k # "answer"
  BY <1>1, <1>4 DEF TypeOK, Log
<1>6. PICK p \in 1 .. Len(turn) :
        /\ p = Len(turn) - got /\ got < Len(futs) /\ Cut(turn, p - 1)
        /\ turn[p].k = "calls" /\ turn[p].n = Len(futs)
        /\ \A i \in p + 1 .. Len(turn) : turn[i].k = "result"
  BY <1>1, <1>2 DEF Log, Gathering
<1>7. /\ turn'[Len(turn) + 1] = e
      /\ \A i \in 1 .. Len(turn) : turn'[i] = turn[i]
  BY <1>2, <1>5
<1>8. Shaped(turn')
  <2>1. Len(turn) + 1 <= p + turn[p].n
    BY <1>5, <1>6
  <2> QED BY <1>2, <1>3, <1>5, <1>6, <2>1, ShapedAppend
<1>9. \A i \in 1 .. Len(turn') : turn'[i].k # "answer"
  <2> TAKE i \in 1 .. Len(turn')
  <2>1. i \in 1 .. Len(turn) \/ i = Len(turn) + 1
    BY <1>4, <1>5
  <2> QED BY <1>3, <1>5, <1>7, <2>1
<1>10. \A i \in p + 1 .. Len(turn') : turn'[i].k = "result"
  <2> TAKE i \in p + 1 .. Len(turn')
  <2>1. i \in p + 1 .. Len(turn) \/ i = Len(turn) + 1
    <3>1. Len(turn') = Len(turn) + 1 /\ Len(turn) \in Nat
      BY <1>4, <1>5
    <3> QED BY <3>1
  <2>2. CASE i \in p + 1 .. Len(turn)
    BY <1>5, <1>6, <1>7, <2>2
  <2> QED BY <1>3, <1>7, <2>1, <2>2
<1>11. turn'[p] = turn[p] /\ Cut(turn', p - 1)
  <2>1. p - 1 \in Nat
    BY <1>5
  <2> QED BY <1>2, <1>3, <1>5, <1>6, <1>7, <2>1, CutKept
<1>12. step < MaxIterations /\ attempt \in 0 .. Attempts /\ step \in Nat
  BY <1>1, <1>2 DEF AtPoint, TypeOK
<1>13. ReadsTurnOnce'
  BY <1>2 DEF IInv, ReadsTurnOnce
<1>14. CASE got' = Len(futs)
  <2>1. /\ step' = step + 1 /\ attempt' = 0 /\ then' \in {"top", "rewrite"} /\ shield' \in BOOLEAN
        /\ \/ pc' = "flush" /\ then' = "top" /\ Session
           \/ pc' = "top" /\ UNCHANGED <<then, shield>>
    BY <1>1, <1>2, <1>14 DEF Gather, FlushThen, writing, TypeOK
  <2>2. TypeOK'
    BY <1>1, <1>2, <1>4, <1>5, <1>12, <1>14, <2>1, ConstantsOK DEF TypeOK
  <2>3. AtPoint'
    BY <1>1, <1>2, <2>1 DEF AtPoint, Running, Session
  <2>4. Route'
    BY <1>1, <1>2, <2>1 DEF Route, Running
  <2>5. Cut(turn', Len(turn'))
    <3>1. ASSUME NEW i \in 1 .. Len(turn'), turn'[i].k = "calls"
          PROVE  i + turn'[i].n <= Len(turn')
      <4>1. i <= p
        <5>1. i \notin p + 1 .. Len(turn')
          BY <1>10, <3>1
        <5>2. Len(turn') \in Nat
          BY <1>5
        <5> QED BY <5>1, <5>2
      <4>2. CASE i = p
        BY <1>2, <1>4, <1>5, <1>6, <1>11, <1>14, <4>2
      <4>3. CASE i \in 1 .. p - 1
        <5>1. i + turn'[i].n <= p - 1
          BY <1>11, <3>1, <4>3 DEF Cut
        <5>2. turn'[i].n \in Nat
          BY <1>4, EntryFields
        <5> QED BY <1>4, <1>5, <1>6, <5>1, <5>2
      <4> QED BY <1>5, <1>6, <4>1, <4>2, <4>3
    <3>2. Len(turn') \in 0 .. Len(turn')
      BY <1>5
    <3> QED BY <3>1, <3>2 DEF Cut
  <2>6. Log'
    BY <1>8, <1>9, <2>1, <2>5 DEF Log, Shaped, Cut
  <2>7. Spent' /\ StoredWhole'
    BY <1>1, <1>2, <2>1 DEF Spent, StoredWhole, Session
  <2> QED BY <1>4, <1>13, <2>2, <2>3, <2>4, <2>6, <2>7 DEF IInv
<1>15. CASE got' # Len(futs)
  <2>1. UNCHANGED <<pc, then, shield, step, attempt>>
    BY <1>2, <1>15 DEF Gather, writing
  <2>2. TypeOK'
    <3>1. got' \in 0 .. Len(futs)
      BY <1>2, <1>5, <1>6
    <3> QED BY <1>1, <1>2, <1>4, <2>1, <3>1 DEF TypeOK
  <2>3. AtPoint'
    BY <1>1, <1>2, <2>1 DEF AtPoint, Running, Session
  <2>4. Route'
    BY <1>1, <1>2, <2>1 DEF Route, Running
  <2>5. Gathering'
    <3>1. p = Len(turn') - got' /\ got' < Len(futs') /\ p \in 1 .. Len(turn')
      BY <1>2, <1>4, <1>5, <1>6, <1>15
    <3> QED BY <1>2, <1>6, <1>10, <1>11, <3>1 DEF Gathering, Cut
  <2>6. Log'
    BY <1>2, <1>8, <1>9, <2>1, <2>5 DEF Log, Shaped
  <2>7. Spent' /\ StoredWhole'
    BY <1>1, <1>2, <2>1 DEF Spent, StoredWhole, Session
  <2> QED BY <1>4, <1>13, <2>2, <2>3, <2>4, <2>6, <2>7 DEF IInv
<1> QED BY <1>14, <1>15

-----------------------------------------------------------------------------
(* The steps that write.                                                    *)

\* Any write that starts at or before what the store holds and ends between
\* two steps leaves a prefix there, no shorter than it was.
LEMMA WriteKeepsPrefix ==
    ASSUME TypeOK, Prefix, NEW a \in Nat, NEW b \in 0 .. Len(turn), a <= persisted, Cut(turn, b),
           UNCHANGED turn, rows' = rows \cup (a + 1 .. b), late' \subseteq late,
           persisted' = persisted \/ persisted' = b, persisted <= persisted'
    PROVE  /\ Prefix' /\ rows' \subseteq 1 .. Len(turn) /\ rows \subseteq rows'
           /\ late' \subseteq SUBSET (1 .. Len(turn))
           /\ (b = Len(turn) => rows' = 1 .. Len(turn))
<1>1. Len(turn) \in Nat /\ persisted \in 0 .. Len(turn)
  BY DEF TypeOK
<1>2. PICK k \in 0 .. Len(turn) : rows = 1 .. k /\ persisted <= k /\ Cut(turn, k)
  BY DEF Prefix
<1>3. PICK m \in 0 .. Len(turn) : m = (IF b > k THEN b ELSE k) /\ Cut(turn, m)
  BY <1>2
<1>4. rows' = 1 .. m
  BY <1>1, <1>2, <1>3
<1>5. persisted' <= m
  BY <1>1, <1>2, <1>3
<1>6. ASSUME NEW w \in late'
      PROVE  \E x \in 0 .. persisted', y \in 0 .. Len(turn) : w = x + 1 .. y /\ Cut(turn, y)
  <2>1. PICK x \in 0 .. persisted, y \in 0 .. Len(turn) : w = x + 1 .. y /\ Cut(turn, y)
    BY DEF Prefix
  <2>2. x \in 0 .. persisted'
    BY <1>1
  <2> QED BY <2>1, <2>2
<1>7. Prefix'
  BY <1>3, <1>4, <1>5, <1>6 DEF Prefix, Cut
<1>8. rows' \subseteq 1 .. Len(turn) /\ rows \subseteq rows'
  BY <1>1, <1>3, <1>4
<1>9. b = Len(turn) => rows' = 1 .. Len(turn)
  BY <1>1, <1>2, <1>3, <1>4
<1> QED BY <1>7, <1>8, <1>9 DEF TypeOK

LEMMA PersistContextStep == IInv /\ PersistContext => IInv'
<1> SUFFICES ASSUME IInv, PersistContext PROVE IInv'
  OBVIOUS
<1>1. TypeOK /\ AtPoint /\ Route /\ Log /\ Prefix /\ Spent
  BY DEF IInv
<1>2. /\ pc = "flush" /\ rows' = rows \cup (persisted + 1 .. Len(turn)) /\ persisted' = Len(turn) /\ pc' = then
      /\ UNCHANGED <<cfg, then, shield, turn, late, route, attempt, step, futs, got, mach>>
      /\ UNCHANGED <<seen, asked, replied, where, stopped, out, faults>>
  BY DEF PersistContext, AppendMessages, Pending, tools, talk
<1>3. /\ Len(turn) \in Nat /\ persisted \in Nat /\ persisted <= Len(turn) /\ Cut(turn, Len(turn))
      /\ Len(turn) \in 0 .. Len(turn) /\ then \in {"top", "rewrite"}
  BY <1>1, <1>2 DEF TypeOK, Log
<1>4. /\ Prefix' /\ rows' \subseteq 1 .. Len(turn)
      /\ late' \subseteq SUBSET (1 .. Len(turn)) /\ rows' = 1 .. Len(turn)
  BY <1>1, <1>2, <1>3, WriteKeepsPrefix
<1>5. TypeOK'
  BY <1>1, <1>2, <1>3, <1>4 DEF TypeOK
<1>6. AtPoint'
  BY <1>1, <1>2, <1>3 DEF AtPoint, Running, Session
<1>7. Route'
  BY <1>1, <1>2, <1>3 DEF Route, Running
<1>8. Log'
  BY <1>1, <1>2, <1>3 DEF Log, Cut, Shaped, Running
<1>9. Spent' /\ StoredWhole' /\ ReadsTurnOnce'
  BY <1>1, <1>2, <1>3, <1>4 DEF IInv, Spent, StoredWhole, ReadsTurnOnce, Session
<1> QED BY <1>4, <1>5, <1>6, <1>7, <1>8, <1>9 DEF IInv

LEMMA FlushFailsStep == IInv /\ FlushFails => IInv'
<1> SUFFICES ASSUME IInv, FlushFails PROVE IInv'
  OBVIOUS
<1>1. TypeOK /\ AtPoint /\ Route /\ Log /\ Prefix /\ Spent
  BY DEF IInv
<1>2. /\ pc = "flush" /\ pc' = then
      /\ UNCHANGED <<cfg, then, shield, turn, persisted, route, attempt, step, futs, got, mach>>
      /\ UNCHANGED <<seen, asked, replied, where, stopped, out>>
  BY DEF FlushFails, tools, talk
<1>3. /\ Len(turn) \in Nat /\ persisted \in Nat /\ persisted <= Len(turn) /\ Cut(turn, Len(turn))
      /\ Len(turn) \in 0 .. Len(turn) /\ then \in {"top", "rewrite"}
  BY <1>1, <1>2 DEF TypeOK, Log
<1>4. /\ faults' \in 0 .. MaxFaults
      /\ faults' > 0 \/ stopped
  BY <1>1, ConstantsOK DEF FlushFails, Fault, TypeOK
<1>5. /\ Prefix' /\ rows' \subseteq 1 .. Len(turn)
      /\ late' \subseteq SUBSET (1 .. Len(turn))
  <2>1. CASE rows' = rows \cup (persisted + 1 .. Len(turn)) /\ UNCHANGED late
    BY <1>1, <1>2, <1>3, <2>1, WriteKeepsPrefix
  <2>2. CASE UNCHANGED <<rows, late>>
    BY <1>1, <1>2, <2>2 DEF Prefix, Cut, TypeOK
  <2>3. CASE late' = late \cup {persisted + 1 .. Len(turn)} /\ UNCHANGED rows
    <3>1. persisted \in 0 .. persisted
      BY <1>3
    <3>2. \A w \in late' : \E a \in 0 .. persisted, b \in 0 .. Len(turn) : w = a + 1 .. b /\ Cut(turn, b)
      BY <1>1, <1>3, <2>3, <3>1 DEF Prefix
    <3>3. persisted + 1 .. Len(turn) \subseteq 1 .. Len(turn)
      BY <1>3
    <3> QED BY <1>1, <1>2, <2>3, <3>2, <3>3 DEF Prefix, Cut, TypeOK
  <2> QED BY <2>1, <2>2, <2>3 DEF FlushFails, AppendMessages, Pending
<1>6. TypeOK'
  BY <1>1, <1>2, <1>3, <1>4, <1>5 DEF TypeOK
<1>7. AtPoint'
  BY <1>1, <1>2, <1>3 DEF AtPoint, Running, Session
<1>8. Route'
  BY <1>1, <1>2, <1>3 DEF Route, Running
<1>9. Log'
  BY <1>1, <1>2, <1>3 DEF Log, Cut, Shaped, Running
<1>10. Spent' /\ StoredWhole' /\ ReadsTurnOnce'
  BY <1>1, <1>2, <1>3, <1>4 DEF IInv, Spent, StoredWhole, ReadsTurnOnce, Session
<1> QED BY <1>5, <1>6, <1>7, <1>8, <1>9, <1>10 DEF IInv

LEMMA LateWriteStep == IInv /\ LateWrite => IInv'
<1> SUFFICES ASSUME IInv, LateWrite PROVE IInv'
  OBVIOUS
<1>1. TypeOK /\ AtPoint /\ Route /\ Log /\ Prefix /\ Spent /\ StoredWhole
  BY DEF IInv
<1>2. PICK idx \in late : late' = late \ {idx} /\ rows' = rows \cup idx
  BY DEF LateWrite, AppendMessages
<1>3. /\ UNCHANGED <<cfg, pc, then, shield, turn, persisted, route, attempt, step, futs, got, mach>>
      /\ UNCHANGED <<seen, asked, replied, where, stopped, out, faults>>
  BY DEF LateWrite, writing, tools, talk
<1>4. PICK a \in 0 .. persisted, b \in 0 .. Len(turn) : idx = a + 1 .. b /\ Cut(turn, b)
  BY <1>1 DEF Prefix
<1>5. Len(turn) \in Nat /\ persisted \in Nat /\ a \in Nat /\ a <= persisted
  BY <1>1 DEF TypeOK
<1>6. /\ Prefix' /\ rows' \subseteq 1 .. Len(turn) /\ rows \subseteq rows'
      /\ late' \subseteq SUBSET (1 .. Len(turn))
  BY <1>1, <1>2, <1>3, <1>4, <1>5, WriteKeepsPrefix
<1>7. TypeOK'
  BY <1>1, <1>3, <1>6 DEF TypeOK
<1>8. AtPoint'
  BY <1>1, <1>3 DEF AtPoint, Running, Session
<1>9. Route'
  BY <1>1, <1>3 DEF Route, Running
<1>10. Log'
  BY <1>1, <1>3 DEF Log, Gathering, Cut, Shaped, Running
<1>11. rows = 1 .. Len(turn) => rows' = 1 .. Len(turn)
  BY <1>6
<1>12. Spent' /\ StoredWhole' /\ ReadsTurnOnce'
  BY <1>1, <1>3, <1>11 DEF IInv, Spent, StoredWhole, ReadsTurnOnce, Session
<1> QED BY <1>6, <1>7, <1>8, <1>9, <1>10, <1>12 DEF IInv

LEMMA RewriteStep == IInv /\ Rewrite => IInv'
<1> SUFFICES ASSUME IInv, Rewrite PROVE IInv'
  OBVIOUS
<1>1. TypeOK /\ AtPoint /\ Route /\ Log /\ Prefix /\ Spent
  BY DEF IInv
<1>2. /\ pc = "rewrite" /\ pc' = "over"
      /\ UNCHANGED <<cfg, then, shield, turn, persisted, late, route, attempt, step, futs, got, mach>>
      /\ UNCHANGED <<seen, asked, replied, where, stopped, out, faults>>
  BY DEF Rewrite, writing, tools, talk
<1>3. Len(turn) \in Nat /\ Cut(turn, Len(turn)) /\ Len(turn) \in 0 .. Len(turn) /\ 0 <= persisted /\ persisted \in Nat
  BY <1>1, <1>2 DEF TypeOK, Log
<1>4. /\ Prefix' /\ rows' \subseteq 1 .. Len(turn)
      /\ late \subseteq SUBSET (1 .. Len(turn))
      /\ Session => rows' = 1 .. Len(turn)
  <2>1. CASE Session /\ out \notin {"refused", "error"}
    <3>1. rows' = rows \cup (0 + 1 .. Len(turn))
      BY <2>1 DEF Rewrite, AppendMessages
    <3>2. 0 \in Nat /\ late' \subseteq late /\ persisted' = persisted /\ persisted <= persisted'
      BY <1>2, <1>3
    <3> QED BY <1>1, <1>2, <1>3, <3>1, <3>2, WriteKeepsPrefix
  <2>2. CASE ~(Session /\ out \notin {"refused", "error"})
    <3>1. rows' = rows
      BY <2>2 DEF Rewrite
    <3>2. ASSUME Session
          PROVE  rows = 1 .. Len(turn)
      <4>1. Len(turn) = 0
        BY <1>1, <2>2, <3>2 DEF Spent
      <4> QED BY <1>1, <4>1 DEF TypeOK
    <3> QED BY <1>1, <1>2, <3>1, <3>2 DEF Prefix, Cut, TypeOK
  <2> QED BY <2>1, <2>2
<1>5. TypeOK'
  BY <1>1, <1>2, <1>4 DEF TypeOK
<1>6. AtPoint'
  BY <1>1, <1>2 DEF AtPoint, Running, Session
<1>7. Route'
  BY <1>1, <1>2 DEF Route, Running, AtPoint
<1>8. Log'
  BY <1>1, <1>2 DEF Log, Cut, Shaped, Running
<1>9. Spent' /\ StoredWhole' /\ ReadsTurnOnce'
  BY <1>1, <1>2, <1>4 DEF IInv, Spent, StoredWhole, ReadsTurnOnce, Session
<1> QED BY <1>4, <1>5, <1>6, <1>7, <1>8, <1>9 DEF IInv

LEMMA RewriteFailsStep == IInv /\ RewriteFails => IInv'
<1> SUFFICES ASSUME IInv, RewriteFails PROVE IInv'
  OBVIOUS
<1>1. TypeOK /\ AtPoint /\ Route /\ Log /\ Prefix /\ Spent
  BY DEF IInv
<1>2. /\ pc = "rewrite" /\ pc' = "over" /\ Fault
      /\ UNCHANGED <<cfg, then, shield, turn, persisted, rows, late, route, attempt, step, futs, got, mach>>
      /\ UNCHANGED <<seen, asked, replied, where, stopped, out>>
  BY DEF RewriteFails, writing, store, tools, talk
<1>3. faults \in Nat /\ faults' = faults + 1 /\ faults' \in 0 .. MaxFaults
  BY <1>1, <1>2, ConstantsOK DEF Fault, TypeOK
<1>4. TypeOK'
  BY <1>1, <1>2, <1>3 DEF TypeOK
<1>5. AtPoint'
  BY <1>1, <1>2 DEF AtPoint, Running, Session
<1>6. Route'
  BY <1>1, <1>2 DEF Route, Running, AtPoint
<1>7. Log'
  BY <1>1, <1>2 DEF Log, Cut, Shaped, Running
<1>8. Prefix'
  BY <1>1, <1>2 DEF Prefix, Cut
<1>9. Spent' /\ StoredWhole' /\ ReadsTurnOnce'
  BY <1>1, <1>2, <1>3 DEF IInv, Spent, StoredWhole, ReadsTurnOnce, Session
<1> QED BY <1>4, <1>5, <1>6, <1>7, <1>8, <1>9 DEF IInv

-----------------------------------------------------------------------------
(* The theorems.                                                            *)

LEMMA InitInv == Init => IInv
<1> SUFFICES ASSUME Init PROVE IInv
  OBVIOUS
<1>1. /\ cfg \in Configs /\ cfg.excluded \subseteq Machines
      /\ turn \in Seq(Entries) /\ Len(turn) \in 0 .. 1
      /\ \A i \in 1 .. Len(turn) : turn[i].k = "user"
      /\ Session => turn = <<>>
  <2>1. cfg \in Configs /\ cfg.excluded \subseteq Machines
    BY DEF Init, Configs
  <2>2. CASE Session
    BY <2>1, <2>2 DEF Init
  <2>3. CASE ~Session
    <3>1. turn = <<Entry("user", 0)>> /\ Entry("user", 0) \in Entries /\ Entry("user", 0).k = "user"
      BY <2>3 DEF Init, Entries, Entry
    <3> QED BY <2>1, <2>3, <3>1
  <2> QED BY <2>2, <2>3
<1>2. TypeOK
  <2>1. route \in [machine : Machines \cup {None}, excluded : SUBSET Machines, unreached : SUBSET Machines]
        /\ route.unreached \subseteq route.excluded
    BY <1>1 DEF Init
  <2>2. mach \in [Machines -> [linked : BOOLEAN, seen : BOOLEAN, offered : BOOLEAN, key : BOOLEAN, aside : BOOLEAN]]
    BY DEF Init
  <2>3. futs \in Seq({"open", "asking", "done"}) /\ got \in 0 .. Len(futs) /\ seen \in Seq(Nat)
    BY DEF Init
  <2>4. persisted \in 0 .. Len(turn) /\ rows \subseteq 1 .. Len(turn) /\ late \subseteq SUBSET (1 .. Len(turn))
    BY <1>1 DEF Init
  <2>5. attempt \in 0 .. Attempts /\ step \in 0 .. MaxIterations /\ faults \in 0 .. MaxFaults /\ asked \in Nat
    BY ConstantsOK DEF Init
  <2> QED BY <1>1, <2>1, <2>2, <2>3, <2>4, <2>5 DEF Init, TypeOK
<1>3. AtPoint
  BY DEF Init, AtPoint, Running
<1>4. Route
  BY <1>1, ConstantsOK DEF Init, Route
<1>5. Log
  BY <1>1 DEF Init, Log, Shaped, Cut
<1>6. Prefix
  <2>1. rows = 1 .. 0 /\ persisted <= 0 /\ 0 \in 0 .. Len(turn) /\ Cut(turn, 0) /\ late = {}
    BY <1>1 DEF Init, Cut
  <2> QED BY <2>1 DEF Prefix
<1>7. Spent
  BY <1>1 DEF Init, Spent
<1>8. ReadsTurnOnce /\ StoredWhole
  BY DEF Init, ReadsTurnOnce, StoredWhole
<1> QED BY <1>2, <1>3, <1>4, <1>5, <1>6, <1>7, <1>8 DEF IInv

LEMMA StutterInv == IInv /\ UNCHANGED vars => IInv'
<1> SUFFICES ASSUME IInv, UNCHANGED vars PROVE IInv'
  OBVIOUS
<1>1. MachType' /\ stopped' \in BOOLEAN
  BY MachTypeNow DEF vars, IInv, TypeOK
<1>2. UNCHANGED <<cfg, pc, writing, store, route, attempt, step, tools, talk, out>> /\ faults' = faults /\ stopped' = stopped
  BY DEF vars, writing, store, tools, talk
<1> QED BY <1>1, <1>2, OutsideStep

LEMMA NextInv == IInv /\ [Next]_vars => IInv'
<1> SUFFICES ASSUME IInv, [Next]_vars PROVE IInv'
  OBVIOUS
<1>1. CASE Workflow
  BY <1>1, LoadSkillsStep, StartFailsStep, ListToolsStep, AgentNotOpenStep, ChooseMachineStep, ChooseNoneStep,
     LoopTopStep, CallLLMStep, CallFailsStep, NotCreatedStep, CreateLLMDirectiveStep, DeliverStep, NotHandedStep,
     SetMachineAsideStep, RetryWaitStep, GatherStep, PersistContextStep, FlushFailsStep, RewriteStep, RewriteFailsStep
     DEF Workflow
<1>2. CASE Machine
  BY <1>2, ModelAnswersStep, ModelFailsStep, ModelRefusesStep, CallLostStep DEF Machine
<1>3. CASE \E j \in DOMAIN futs : ToolEnds(j) \/ AskUser(j)
  BY <1>3, ToolStep
<1>4. CASE LateWrite \/ Stop
  BY <1>4, LateWriteStep, StopStep
<1>5. CASE \E m \in Machines : MachineGone(m) \/ MachineUnseen(m) \/ KeyRefused(m) \/ MachineBack(m)
  BY <1>5, MachineStep
<1>6. CASE UNCHANGED vars
  BY <1>6, StutterInv
<1> QED BY <1>1, <1>2, <1>3, <1>4, <1>5, <1>6 DEF Next

\* The inductive invariant: the shape of the turn, the prefix of it the store
\* holds, the route of the model and the points of the workflow.
THEOREM TurnInvariant == Spec => []IInv
<1>1. Init => IInv
  BY InitInv
<1>2. IInv /\ [Next]_vars => IInv'
  BY NextInv
<1> QED BY <1>1, <1>2, PTL DEF Spec

\* The types of AgentTurn hold in every run.
THEOREM TurnTypes == Spec => []TypeOK
<1>1. IInv => TypeOK
  BY DEF IInv
<1> QED BY <1>1, TurnInvariant, PTL

\* conversation gives a model every message of its turn once and in order,
\* whatever the writes of the turn came to.
THEOREM EveryCallReadsItsTurn == Spec => []ReadsTurnOnce
<1>1. IInv => ReadsTurnOnce
  BY DEF IInv
<1> QED BY <1>1, TurnInvariant, PTL

\* The turn is in the store whole at its end, unless its last write and its
\* participant's both failed.
THEOREM TurnIsStoredWhole == Spec => []StoredWhole
<1>1. IInv => StoredWhole
  BY DEF IInv
<1> QED BY <1>1, TurnInvariant, PTL

\* machineFailure and noMachine never bring a run that requires a machine to
\* the server's key, nor any run to a machine that failed it.
THEOREM CallsStayWhereAllowed == Spec => []CallsWhereAllowed
<1>1. IInv => CallsWhereAllowed
  BY DEF IInv, CallsWhereAllowed, Route, AtPoint, Running
<1> QED BY <1>1, TurnInvariant, PTL

-----------------------------------------------------------------------------
(* The turn implements Transcript.                                          *)

\* The rows as a conversation, when they are a prefix of the turn.
LEMMA StoredPrefix ==
    ASSUME TypeOK, NEW k \in 0 .. Len(turn), rows = 1 .. k
    PROVE  Stored = SubSeq(turn, 1, k)
<1>1. k \in Nat /\ 0 \in Nat /\ 0 <= k /\ 1 .. k = 0 + 1 .. k
  BY DEF TypeOK
<1>2. Cardinality(0 + 1 .. k) = k - 0
  BY <1>1, IntervalSize, Zenon
<1>3. Cardinality(rows) = k
  BY <1>1, <1>2
<1> QED BY <1>3 DEF Stored

\* A step takes no row away, and adds nothing to the turn, or a message at its end.
Grows == rows \subseteq rows' /\ (turn' = turn \/ (rows' = rows /\ \E e : turn' = Append(turn, e)))

LEMMA NextGrows == [Next]_vars => Grows
<1> SUFFICES ASSUME [Next]_vars PROVE Grows
  OBVIOUS
<1>1. CASE UNCHANGED store
  BY <1>1 DEF store, Grows
<1>2. CASE turn' = turn /\ \E idx : AppendMessages(idx)
  BY <1>2 DEF AppendMessages, Grows
<1>3. CASE Workflow
  <2>1. CASE CallLLM
    BY <2>1 DEF CallLLM, Answered, Grows
  <2>2. CASE Gather
    BY <2>2 DEF Gather, Grows
  <2>3. CASE PersistContext \/ FlushFails \/ Rewrite
    BY <2>3 DEF PersistContext, FlushFails, Rewrite, AppendMessages, Grows
  <2>4. CASE LoadSkills \/ StartFails \/ ListTools \/ AgentNotOpen \/ ChooseMachine \/ ChooseNone \/ LoopTop
             \/ CallFails \/ NotCreated \/ CreateLLMDirective \/ DeliverLLM \/ NotHanded \/ SetMachineAside
             \/ RetryWait \/ RewriteFails
    BY <1>1, <2>4 DEF LoadSkills, StartFails, ListTools, AgentNotOpen, ChooseMachine, ChooseNone, LoopTop,
       CallFails, NotCreated, CreateLLMDirective, DeliverLLM, NotHanded, SetMachineAside, RetryWait, RewriteFails
  <2> QED BY <1>3, <2>1, <2>2, <2>3, <2>4 DEF Workflow
<1>4. CASE Machine
  <2>1. CASE ModelAnswers
    BY <2>1 DEF ModelAnswers, Answered, Grows
  <2>2. CASE ModelFails \/ ModelRefuses \/ CallLost
    BY <1>1, <2>2 DEF ModelFails, ModelRefuses, CallLost
  <2> QED BY <1>4, <2>1, <2>2 DEF Machine
<1>5. CASE \E j \in DOMAIN futs : ToolEnds(j) \/ AskUser(j)
  BY <1>1, <1>5 DEF ToolEnds, AskUser
<1>6. CASE LateWrite \/ Stop
  BY <1>1, <1>6 DEF LateWrite, Stop, AppendMessages, Grows
<1>7. CASE \E m \in Machines : MachineGone(m) \/ MachineUnseen(m) \/ KeyRefused(m) \/ MachineBack(m)
  BY <1>1, <1>7 DEF MachineGone, MachineUnseen, KeyRefused, MachineBack
<1>8. CASE UNCHANGED vars
  BY <1>1, <1>8 DEF vars, store
<1> QED BY <1>3, <1>4, <1>5, <1>6, <1>7, <1>8 DEF Next

\* Every step of the run is a write of whole steps, or none, to who reads the store.
LEMMA StepWrites ==
    ASSUME IInv, IInv', [Next]_vars
    PROVE  [TT!Write]_Stored
<1>0. TypeOK /\ TypeOK'
  BY DEF IInv
<1>1. TypeOK /\ turn \in Seq(Entries) /\ turn' \in Seq(Entries) /\ Len(turn) \in Nat /\ Len(turn') \in Nat
  <2>1. turn \in Seq(Entries) /\ turn' \in Seq(Entries)
    BY <1>0 DEF TypeOK
  <2> QED BY <1>0, <2>1
<1>2. PICK k \in 0 .. Len(turn) : rows = 1 .. k /\ Cut(turn, k)
  BY DEF IInv, Prefix
<1>3. PICK m \in 0 .. Len(turn') : rows' = 1 .. m /\ Cut(turn', m)
  BY DEF IInv, Prefix, Cut
<1>4. Stored = SubSeq(turn, 1, k)
  BY <1>1, <1>2, StoredPrefix
<1>5. Stored' = SubSeq(turn', 1, m)
  <2>1. m \in Nat /\ 0 \in Nat /\ 0 <= m /\ 1 .. m = 0 + 1 .. m
    BY <1>1
  <2>2. Cardinality(0 + 1 .. m) = m - 0
    BY <2>1, IntervalSize, Zenon
  <2>3. Cardinality(rows') = m
    BY <1>3, <2>1, <2>2
  <2> QED BY <1>3, <2>3 DEF Stored
<1>6. Grows
  BY NextGrows
<1>7. /\ k <= m /\ k <= Len(turn')
      /\ \A i \in 1 .. k : turn'[i] = turn[i]
      /\ turn' = turn \/ k = m
  <2>1. k <= m
    BY <1>1, <1>2, <1>3, <1>6 DEF Grows
  <2>2. CASE turn' = turn
    BY <1>2, <2>1, <2>2
  <2>3. CASE rows' = rows /\ \E e : turn' = Append(turn, e)
    <3>1. k = m
      BY <1>1, <1>2, <1>3, <2>1, <2>3
    <3>2. PICK e : turn' = Append(turn, e)
      BY <2>3
    <3>3. \A i \in 1 .. Len(turn) : turn'[i] = turn[i]
      BY <1>1, <3>2
    <3> QED BY <1>1, <1>2, <1>3, <3>1, <3>3
  <2> QED BY <1>6, <2>2, <2>3 DEF Grows
<1>8. CASE k = m
  <2>1. SubSeq(turn, 1, k) = SubSeq(turn', 1, k)
    BY <1>1, <1>7
  <2> QED BY <1>4, <1>5, <1>8, <2>1
<1>9. CASE k < m
  <2>1. turn' = turn
    BY <1>1, <1>7, <1>9
  <2>2. Len(Stored) = k /\ Len(Stored') = m
    BY <1>1, <1>4, <1>5
  <2>3. SubSeq(Stored', 1, Len(Stored)) = Stored
    <3>1. SubSeq(SubSeq(turn, 1, m), 1, k) = SubSeq(turn, 1, k)
      BY <1>1, <1>9, <2>1
    <3> QED BY <1>4, <1>5, <2>1, <2>2, <3>1
  <2>4. TT!Whole(SubSeq(Stored', Len(Stored) + 1, Len(Stored')))
    <3>1. k \in Nat /\ m \in Nat /\ Shaped(turn) /\ Cut(turn, k) /\ Cut(turn, m)
      BY <1>1, <1>2, <1>3, <2>1 DEF IInv, Log
    <3>2. TT!Whole(SubSeq(SubSeq(turn, 1, m), k + 1, m))
      BY <1>1, <1>9, <3>1, BetweenCuts
    <3> QED BY <1>4, <1>5, <2>1, <2>2, <3>2
  <2>5. Len(Stored') > Len(Stored)
    BY <1>9, <2>2
  <2> QED BY <2>3, <2>4, <2>5 DEF TT!Write
<1> QED BY <1>1, <1>7, <1>8, <1>9

\* The store never shows half a step of a turn: AgentTurn implements Transcript.
THEOREM TurnImplementsTranscript == Spec => WritesWholeSteps
<1>1. Init => TT!Init
  <2> SUFFICES ASSUME Init PROVE TT!Init
    OBVIOUS
  <2>1. TypeOK /\ 0 \in 0 .. Len(turn) /\ rows = 1 .. 0
    BY InitInv DEF Init, IInv, TypeOK
  <2>2. Stored = SubSeq(turn, 1, 0)
    BY <2>1, StoredPrefix
  <2>3. SubSeq(turn, 1, 0) = <<>>
    BY <2>1 DEF TypeOK
  <2> QED BY <2>2, <2>3 DEF TT!Init
<1>2. IInv /\ IInv' /\ [Next]_vars => [TT!Write]_Stored
  BY StepWrites
<1> QED BY <1>1, <1>2, TurnInvariant, PTL DEF Spec, WritesWholeSteps, TT!Spec

=============================================================================
