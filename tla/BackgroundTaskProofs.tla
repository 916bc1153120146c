------------------------- MODULE BackgroundTaskProofs -------------------------
(* Proofs about BackgroundTask, for any tasks, participants and caps. *)
EXTENDS BackgroundTask, FiniteSetTheorems, TLAPS

\* What the row and the message of a task owe each other, along its launch.
Rows ==
  \A t \in Tasks :
    /\ gone => row[t].state = "absent"
    /\ launch[t] \in {"no", "register"} /\ row[t].state = "absent" /\ ~gone => accepted[t] = 0
    /\ row[t].state \notin Ends => row[t].by = ""
    /\ row[t].state = "running" => row[t].followUps = accepted[t]
    /\ message[t].state # "none" =>
         row[t].state \in Ends /\ message[t].followUps = accepted[t]

\* A task that ended by itself, or whose session is gone.
Wakeable(t) == gone \/ row[t].state \in {"done", "failed"}

\* Whoever is about to wake a participant, or did, does so for such a task.
Wakes ==
  \A t \in Tasks :
    /\ wf[t] = "wake" \/ t \in signalled => Wakeable(t)
    /\ sweep.waking = t \/ (sweep.phase = "wake" /\ t \in sweep.todo) => Wakeable(t)
    /\ sweep.phase = "end" /\ t \in sweep.todo => row[t].by # "sweep"
    /\ wf[t] = "record" => gone \/ t \in signalled \cup turnEnds \cup unwritten

\* A cancellation recorded as sent was sent.
Stops == \A t \in Tasks : row[t].cancelSent \/ stop[t] = "sent" => cancelReq[t]

IInv == TypeOK /\ Rows /\ Wakes /\ WokenWasTold /\ Stops /\ CapHeld

\* The state of each task as the promise names it.
Status == [t \in Tasks |-> IF row[t].state = "absent" THEN "none" ELSE row[t].state]

\* What a step may do: what the promise allows, and no end twice.
PromiseStep == Promise!Next \/ UNCHANGED <<Status, signalled, gone>>

EndsStep ==
  \A t \in Tasks : message[t].state # "none" =>
     \/ gone'
     \/ /\ message'[t] = message[t]
        /\ row'[t].state = row[t].state /\ row'[t].by = row[t].by

StepOK == PromiseStep /\ EndsStep

----------------------------------------------------------------------------
(* What the writes of a row do. *)

LEMMA RowFields ==
  ASSUME NEW r \in Row
  PROVE  /\ r.state \in Ends \cup {"absent", "running"} /\ r.by \in {"", "task", "sweep"}
         /\ r.cancelledBy \in BOOLEAN /\ r.cancelSent \in BOOLEAN /\ r.woken \in BOOLEAN
         /\ r.followUps \in 0..MaxFollowUps
  BY DEF Row

LEMMA AbsentFields ==
  /\ Absent.state = "absent" /\ Absent.by = "" /\ ~Absent.woken /\ ~Absent.cancelSent
  /\ LET r == [Absent EXCEPT !.state = "running"] IN
       r.state = "running" /\ r.by = "" /\ ~r.woken /\ ~r.cancelSent /\ r.followUps = 0
  BY DEF Absent

LEMMA AbsentRow == Absent \in Row /\ [Absent EXCEPT !.state = "running"] \in Row
<1>1. 0 \in 0..MaxFollowUps
  BY TaskAssumption
<1> QED BY <1>1 DEF Absent, Row, Ends

\* The row t alone is written.
RowWritten(t, r) == r \in Row /\ row' = [row EXCEPT ![t] = r]

LEMMA RowWrite ==
  ASSUME TypeOK, NEW t \in Tasks, NEW r, RowWritten(t, r)
  PROVE  /\ row' \in [Tasks -> Row] /\ row'[t] = r
         /\ \A u \in Tasks \ {t} : row'[u] = row[u]
  BY DEF TypeOK, RowWritten

LEMMA SetWokenRow ==
  ASSUME TypeOK, NEW t \in Tasks, SetWoken(t)
  PROVE  \/ row[t].state # "absent" /\ RowWritten(t, [row[t] EXCEPT !.woken = TRUE])
         \/ row[t].state = "absent" /\ row' = row
<1>1. row[t] \in Row
  BY DEF TypeOK
<1>2. [row[t] EXCEPT !.woken = TRUE] \in Row
  BY <1>1 DEF Row
<1> QED BY <1>2 DEF SetWoken, RowWritten

LEMMA SetCancelSentRow ==
  ASSUME TypeOK, NEW t \in Tasks, SetCancelSent(t)
  PROVE  RowWritten(t, [row[t] EXCEPT !.cancelSent = TRUE]) \/ row' = row
<1>1. row[t] \in Row
  BY DEF TypeOK
<1>2. [row[t] EXCEPT !.cancelSent = TRUE] \in Row
  BY <1>1 DEF Row
<1> QED BY <1>2 DEF SetCancelSent, RowWritten

\* Rows that keep their state, their instructions, and are marked woken or
\* sent only as allowed.
Marked(W, C) ==
  \A u \in Tasks :
    /\ row'[u].state = row[u].state /\ row'[u].followUps = row[u].followUps
    /\ row'[u].by = row[u].by
    /\ row'[u].woken => row[u].woken \/ u \in W
    /\ row'[u].cancelSent => row[u].cancelSent \/ u \in C

LEMMA WokenMarked ==
  ASSUME TypeOK, NEW t \in Tasks, SetWoken(t) \/ UNCHANGED row
  PROVE  row' \in [Tasks -> Row] /\ Marked({u \in {t} : row[u].state # "absent"}, {})
<1>1. CASE row' = row
  BY <1>1 DEF TypeOK, Marked
<1>2. CASE row[t].state # "absent" /\ RowWritten(t, [row[t] EXCEPT !.woken = TRUE])
  <2>1. row' \in [Tasks -> Row] /\ row'[t] = [row[t] EXCEPT !.woken = TRUE]
        /\ \A u \in Tasks \ {t} : row'[u] = row[u]
    BY <1>2, RowWrite
  <2>2. row[t] \in Row
    BY DEF TypeOK
  <2>3. /\ row'[t].state = row[t].state /\ row'[t].followUps = row[t].followUps
        /\ row'[t].cancelSent = row[t].cancelSent /\ row'[t].by = row[t].by
    BY <2>1, <2>2 DEF Row
  <2> QED BY <1>2, <2>1, <2>3 DEF Marked
<1> QED BY <1>1, <1>2, SetWokenRow

LEMMA SentMarked ==
  ASSUME TypeOK, NEW t \in Tasks, SetCancelSent(t) \/ UNCHANGED row
  PROVE  row' \in [Tasks -> Row] /\ Marked({}, {t})
<1>1. CASE row' = row
  BY <1>1 DEF TypeOK, Marked
<1>2. CASE RowWritten(t, [row[t] EXCEPT !.cancelSent = TRUE])
  <2>1. row' \in [Tasks -> Row] /\ row'[t] = [row[t] EXCEPT !.cancelSent = TRUE]
        /\ \A u \in Tasks \ {t} : row'[u] = row[u]
    BY <1>2, RowWrite
  <2>2. row[t] \in Row
    BY DEF TypeOK
  <2>3. /\ row'[t].state = row[t].state /\ row'[t].followUps = row[t].followUps
        /\ row'[t].woken = row[t].woken /\ row'[t].by = row[t].by
    BY <2>1, <2>2 DEF Row
  <2> QED BY <2>1, <2>3 DEF Marked
<1> QED BY <1>1, <1>2, SetCancelSentRow

\* EndTask: a running task gets its end and its message, one that does not
\* run keeps its own.
Message == [state : Ends \cup {"none"}, cancelledBy : BOOLEAN, followUps : 0..MaxFollowUps]

LEMMA EndTaskRow ==
  ASSUME TypeOK, NEW t \in Tasks, NEW by \in {"task", "sweep"}, NEW state \in Ends,
         EndTask(t, by, state)
  PROVE  /\ row' \in [Tasks -> Row] /\ message' \in [Tasks -> Message]
         /\ \A u \in Tasks \ {t} : row'[u] = row[u] /\ message'[u] = message[u]
         /\ \/ row' = row /\ message' = message /\ row[t].state # "running"
            \/ /\ row[t].state = "running" /\ row'[t].state = state /\ row'[t].by = by
               /\ row'[t].woken = row[t].woken /\ row'[t].cancelSent = row[t].cancelSent
               /\ message'[t].state = state /\ message'[t].followUps = row[t].followUps
<1> DEFINE stopped == row[t].cancelledBy /\ state = "cancelled"
           r == [row[t] EXCEPT !.state = state, !.by = by, !.cancelledBy = stopped]
           m == [state |-> state, cancelledBy |-> stopped, followUps |-> row[t].followUps]
<1>1. CASE ~Running(t)
  BY <1>1 DEF EndTask, Running, TypeOK, Message
<1>2. CASE Running(t)
  <2>1. row[t] \in Row /\ stopped \in BOOLEAN
    BY DEF TypeOK
  <2>2. r \in Row /\ m \in Message
    BY <2>1, RowFields DEF Row, Message
  <2>3. /\ r.state = state /\ r.by = by /\ r.woken = row[t].woken
        /\ r.cancelSent = row[t].cancelSent
        /\ m.state = state /\ m.followUps = row[t].followUps
    BY <2>1 DEF Row
  <2>4. row' = [row EXCEPT ![t] = r] /\ message' = [message EXCEPT ![t] = m]
    BY <1>2 DEF EndTask, Set
  <2> HIDE DEF r, m
  <2>5. /\ row' \in [Tasks -> Row] /\ row'[t] = r
        /\ \A u \in Tasks \ {t} : row'[u] = row[u]
    BY <2>2, <2>4, RowWrite DEF RowWritten
  <2>6. /\ message' \in [Tasks -> Message] /\ message'[t] = m
        /\ \A u \in Tasks \ {t} : message'[u] = message[u]
    BY <2>2, <2>4 DEF TypeOK, Message
  <2> QED BY <1>2, <2>3, <2>5, <2>6 DEF Running
<1> QED BY <1>1, <1>2

----------------------------------------------------------------------------
(* The parts of the invariant that a step leaves alone. *)

\* The cap holds on when no task begins to run.
LEMMA CapKeeps ==
  ASSUME IInv, \A t \in Tasks : row'[t].state = "running" => row[t].state = "running"
  PROVE  CapHeld'
<1> SUFFICES ASSUME NEW a \in Agents PROVE Cardinality(RunningOf(a)') <= MaxRunning
  BY DEF CapHeld
<1>1. RunningOf(a)' \subseteq RunningOf(a) /\ RunningOf(a) \subseteq Tasks
  BY DEF RunningOf, Running
<1>2. IsFiniteSet(RunningOf(a))
  BY <1>1, TaskAssumption, FS_Subset
<1>3. /\ Cardinality(RunningOf(a)') <= Cardinality(RunningOf(a))
      /\ Cardinality(RunningOf(a)) \in Nat /\ Cardinality(RunningOf(a)') \in Nat
  BY <1>1, <1>2, FS_Subset, FS_CardinalityType
<1>4. Cardinality(RunningOf(a)) <= MaxRunning
  BY DEF IInv, CapHeld
<1> QED BY <1>3, <1>4, TaskAssumption

\* Rows, when the tasks keep their states.
RowsKept(W, C) ==
  /\ Marked(W, C) /\ UNCHANGED <<message, accepted, gone>>
  /\ \A t \in Tasks : launch'[t] \in {"no", "register"} => launch[t] \in {"no", "register"}

LEMMA RowsKeep ==
  ASSUME IInv, NEW W, NEW C, RowsKept(W, C)
  PROVE  Rows' /\ CapHeld'
<1>1. \A u \in Tasks : /\ row'[u].state = row[u].state /\ row'[u].by = row[u].by
                        /\ row'[u].followUps = row[u].followUps
  BY DEF RowsKept, Marked
<1>2. Rows'
  BY <1>1 DEF IInv, Rows, RowsKept
<1>3. CapHeld'
  BY <1>1, CapKeeps
<1> QED BY <1>2, <1>3

\* Wakes, when no task that ended by itself changes, and what is new to wake
\* or woken is such a task.
KeepsWakes ==
  /\ gone => gone'
  /\ \A t \in Tasks :
       /\ row[t].state \in {"done", "failed"} => row'[t].state = row[t].state \/ gone'
       /\ wf'[t] = "wake" => wf[t] = "wake" \/ Wakeable(t)'
       /\ t \in signalled' => t \in signalled \/ Wakeable(t)'
       /\ sweep'.waking = t => sweep.waking = t \/ Wakeable(t)'
       /\ (sweep'.phase = "wake" /\ t \in sweep'.todo) =>
             (sweep.phase = "wake" /\ t \in sweep.todo) \/ Wakeable(t)'
       /\ sweep'.phase = "end" /\ t \in sweep'.todo => row'[t].by # "sweep"
       /\ wf'[t] = "record" =>
             wf[t] = "record" \/ gone' \/ t \in signalled' \cup turnEnds' \cup unwritten'
  /\ signalled \subseteq signalled' /\ turnEnds \subseteq turnEnds'
  /\ unwritten \subseteq unwritten'

LEMMA WakesKeep ==
  ASSUME IInv, KeepsWakes
  PROVE  Wakes'
<1>1. \A t \in Tasks : Wakeable(t) => Wakeable(t)'
  BY DEF Wakeable, KeepsWakes
<1> QED BY <1>1 DEF IInv, Wakes, KeepsWakes

SweepType == [phase : {"idle", "cancel", "end", "wake"}, todo : SUBSET Tasks,
              stopped : SUBSET Tasks, waking : Tasks \cup {NoTask}]

\* A step that only marks rows tells nothing, or tells of a task to wake.
LEMMA MarkStep ==
  ASSUME NEW W, NEW C, Marked(W, C), UNCHANGED <<message, gone>>,
         \/ signalled' = signalled
         \/ \E t \in Tasks : Wakeable(t) /\ signalled' = signalled \cup {t}
  PROVE  StepOK
<1>1. Status' = Status
  BY DEF Status, Marked
<1>2. EndsStep
  BY DEF EndsStep, Marked
<1>3. CASE signalled' = signalled
  BY <1>1, <1>2, <1>3 DEF StepOK, PromiseStep
<1>4. CASE \E t \in Tasks : Wakeable(t) /\ signalled' = signalled \cup {t}
  <2>1. PICK t \in Tasks : Wakeable(t) /\ signalled' = signalled \cup {t}
    BY <1>4
  <2>2. Status[t] \in {"done", "failed"} \/ gone
    BY <2>1 DEF Wakeable, Status
  <2>3. Promise!Tell(t)
    BY <1>1, <2>1, <2>2 DEF Promise!Tell, Status
  <2> QED BY <1>2, <2>3 DEF StepOK, PromiseStep, Promise!Next
<1> QED BY <1>3, <1>4

\* EndTask ends a task as the promise says, or does nothing.
LEMMA EndStep ==
  ASSUME IInv, NEW t \in Tasks, NEW by \in {"task", "sweep"}, NEW state \in Ends,
         EndTask(t, by, state), UNCHANGED <<signalled, gone>>
  PROVE  StepOK
<1>1. /\ \A u \in Tasks \ {t} : row'[u] = row[u] /\ message'[u] = message[u]
      /\ \/ row' = row /\ message' = message /\ row[t].state # "running"
         \/ row[t].state = "running" /\ row'[t].state = state
  BY EndTaskRow DEF IInv
<1>2. CASE row' = row /\ message' = message
  BY <1>2 DEF StepOK, PromiseStep, EndsStep, Status
<1>3. CASE row[t].state = "running" /\ row'[t].state = state
  <2>1. Status' = [Status EXCEPT ![t] = state] /\ Status[t] = "running"
    BY <1>1, <1>3 DEF Status, Ends
  <2>2. Promise!End(t)
    BY <2>1 DEF Promise!End, Promise!Ending, Ends, Status
  <2>3. message[t].state = "none"
    BY <1>3 DEF IInv, Rows, Ends
  <2>4. EndsStep
    BY <1>1, <2>3 DEF EndsStep
  <2> QED BY <2>2, <2>4 DEF StepOK, PromiseStep, Promise!Next
<1> QED BY <1>1, <1>2, <1>3

LEMMA InitIInv == Init => IInv
<1> SUFFICES ASSUME Init PROVE IInv
  OBVIOUS
<1> USE DEF Init
<1>1. TypeOK
  <2>1. row \in [Tasks -> Row]
    BY AbsentRow
  <2>2. message \in [Tasks -> Message]
    <3>1. NoMessage \in Message
      BY TaskAssumption DEF NoMessage, Message
    <3> QED BY <3>1
  <2>3. sweep \in [phase : {"idle", "cancel", "end", "wake"}, todo : SUBSET Tasks,
                  stopped : SUBSET Tasks, waking : Tasks \cup {NoTask}]
    BY DEF Idle
  <2>4. /\ launch \in [Tasks -> {"no", "register", "start", "dropping", "over"}]
        /\ wf \in [Tasks -> {"none", "tool", "post", "wake", "endTurn", "record", "closed"}]
        /\ cancelReq \in [Tasks -> BOOLEAN] /\ outcome \in [Tasks -> Ends]
        /\ stop \in [Tasks -> {"no", "recorded", "sent"}]
    BY DEF Ends
  <2>5. /\ age \in [Tasks -> 0..2] /\ endAge \in [Tasks -> 0..2]
        /\ faults \in 0..MaxFaults /\ stopsAsked \in 0..MaxStops /\ accepted \in [Tasks -> Nat]
    BY TaskAssumption
  <2> QED BY <2>1, <2>2, <2>3, <2>4, <2>5 DEF TypeOK, Message
<1>2. Rows
  BY DEF Rows, Absent, NoMessage
<1>3. Wakes
  BY TaskAssumption DEF Wakes, Idle
<1>4. WokenWasTold /\ Stops
  BY DEF WokenWasTold, Stops, Absent
<1>5. CapHeld
  <2>1. \A a \in Agents : RunningOf(a) = {}
    BY DEF RunningOf, Running, Absent
  <2> QED BY <2>1, FS_EmptySet, TaskAssumption DEF CapHeld
<1> QED BY <1>1, <1>2, <1>3, <1>4, <1>5 DEF IInv

LEMMA LaunchKeeps ==
  ASSUME NEW t \in Tasks, IInv, Launch(t)
  PROVE  IInv' /\ StepOK
<1> USE DEF Launch, Set, launcher, workflow, told, clock
<1>1. row' \in [Tasks -> Row] /\ Marked({}, {})
  BY DEF IInv, TypeOK, Marked
<1>2. TypeOK'
  <2>1. launch' \in [Tasks -> {"no", "register", "start", "dropping", "over"}]
    BY TaskAssumption DEF IInv, TypeOK
  <2> QED BY <1>1, <2>1 DEF IInv, TypeOK
<1>3. Rows' /\ CapHeld'
  <2>1. RowsKept({}, {})
    BY <1>1 DEF IInv, TypeOK, RowsKept
  <2> QED BY <2>1, RowsKeep
<1>4. Wakes'
  <2>1. KeepsWakes
    BY <1>1, TaskAssumption DEF IInv, TypeOK, KeepsWakes, Marked, Wakes, Wakeable, SweepType
  <2> QED BY <2>1, WakesKeep
<1>5. WokenWasTold'
  BY <1>1 DEF IInv, TypeOK, Rows, Wakes, WokenWasTold, Marked
<1>6. Stops'
  BY <1>1 DEF IInv, TypeOK, Stops, Marked
<1>7. StepOK
  BY <1>1, MarkStep
<1> QED BY <1>2, <1>3, <1>4, <1>5, <1>6, <1>7 DEF IInv

LEMMA StartTaskKeeps ==
  ASSUME NEW t \in Tasks, IInv, StartTask(t)
  PROVE  IInv' /\ StepOK
<1> USE DEF StartTask, Fault, Set, launcher, workflow, told, clock
<1>1. row' \in [Tasks -> Row] /\ Marked({}, {})
  BY DEF IInv, TypeOK, Marked
<1>2. TypeOK'
  <2>1. launch' \in [Tasks -> {"no", "register", "start", "dropping", "over"}]
    BY TaskAssumption DEF IInv, TypeOK
  <2>2. wf' \in [Tasks -> {"none", "tool", "post", "wake", "endTurn", "record", "closed"}]
    BY TaskAssumption DEF IInv, TypeOK
  <2>3. faults' \in 0..MaxFaults
    BY TaskAssumption DEF IInv, TypeOK
  <2> QED BY <1>1, <2>1, <2>2, <2>3 DEF IInv, TypeOK
<1>3. Rows' /\ CapHeld'
  <2>1. RowsKept({}, {})
    BY <1>1 DEF IInv, TypeOK, RowsKept
  <2> QED BY <2>1, RowsKeep
<1>4. Wakes'
  <2>1. KeepsWakes
    BY <1>1, TaskAssumption DEF IInv, TypeOK, KeepsWakes, Marked, Wakes, Wakeable, SweepType
  <2> QED BY <2>1, WakesKeep
<1>5. WokenWasTold'
  BY <1>1 DEF IInv, TypeOK, Rows, Wakes, WokenWasTold, Marked
<1>6. Stops'
  BY <1>1 DEF IInv, TypeOK, Stops, Marked
<1>7. StepOK
  BY <1>1, MarkStep
<1> QED BY <1>2, <1>3, <1>4, <1>5, <1>6, <1>7 DEF IInv

LEMMA ToolEndsKeeps ==
  ASSUME NEW t \in Tasks, IInv, ToolEnds(t)
  PROVE  IInv' /\ StepOK
<1> USE DEF ToolEnds, Fault, Set, launcher, workflow, told, clock
<1>1. row' \in [Tasks -> Row] /\ Marked({}, {})
  BY DEF IInv, TypeOK, Marked
<1>2. TypeOK'
  <2>1. wf' \in [Tasks -> {"none", "tool", "post", "wake", "endTurn", "record", "closed"}]
    BY TaskAssumption DEF IInv, TypeOK
  <2>2. outcome' \in [Tasks -> Ends]
    BY TaskAssumption DEF IInv, TypeOK
  <2>3. faults' \in 0..MaxFaults
    BY TaskAssumption DEF IInv, TypeOK
  <2> QED BY <1>1, <2>1, <2>2, <2>3 DEF IInv, TypeOK
<1>3. Rows' /\ CapHeld'
  <2>1. RowsKept({}, {})
    BY <1>1 DEF IInv, TypeOK, RowsKept
  <2> QED BY <2>1, RowsKeep
<1>4. Wakes'
  <2>1. KeepsWakes
    BY <1>1, TaskAssumption DEF IInv, TypeOK, KeepsWakes, Marked, Wakes, Wakeable, SweepType
  <2> QED BY <2>1, WakesKeep
<1>5. WokenWasTold'
  BY <1>1 DEF IInv, TypeOK, Rows, Wakes, WokenWasTold, Marked
<1>6. Stops'
  BY <1>1 DEF IInv, TypeOK, Stops, Marked
<1>7. StepOK
  BY <1>1, MarkStep
<1> QED BY <1>2, <1>3, <1>4, <1>5, <1>6, <1>7 DEF IInv

LEMMA WakeParticipantKeeps ==
  ASSUME NEW t \in Tasks, IInv, WakeParticipant(t)
  PROVE  IInv' /\ StepOK
<1> USE DEF WakeParticipant, Fault, Set, launcher, workflow, told, clock
<1>1. row' \in [Tasks -> Row] /\ Marked({}, {})
  BY DEF IInv, TypeOK, Marked
<1>2. TypeOK'
  <2>1. wf' \in [Tasks -> {"none", "tool", "post", "wake", "endTurn", "record", "closed"}]
    BY TaskAssumption DEF IInv, TypeOK
  <2>2. signalled' \in SUBSET Tasks
    BY TaskAssumption DEF IInv, TypeOK
  <2>3. faults' \in 0..MaxFaults
    BY TaskAssumption DEF IInv, TypeOK
  <2> QED BY <1>1, <2>1, <2>2, <2>3 DEF IInv, TypeOK
<1>3. Rows' /\ CapHeld'
  <2>1. RowsKept({}, {})
    BY <1>1 DEF IInv, TypeOK, RowsKept
  <2> QED BY <2>1, RowsKeep
<1>4. Wakes'
  <2>1. KeepsWakes
    BY <1>1, TaskAssumption DEF IInv, TypeOK, KeepsWakes, Marked, Wakes, Wakeable, SweepType
  <2> QED BY <2>1, WakesKeep
<1>5. WokenWasTold'
  BY <1>1 DEF IInv, TypeOK, Rows, Wakes, WokenWasTold, Marked
<1>6. Stops'
  BY <1>1 DEF IInv, TypeOK, Stops, Marked
<1>7. StepOK
  <2>1. Wakeable(t)
    BY DEF IInv, Wakes
  <2>2. signalled' = signalled \/ signalled' = signalled \cup {t}
    OBVIOUS
  <2> QED BY <1>1, <2>1, <2>2, MarkStep
<1> QED BY <1>2, <1>3, <1>4, <1>5, <1>6, <1>7 DEF IInv

LEMMA WakeGivenUpKeeps ==
  ASSUME NEW t \in Tasks, IInv, WakeGivenUp(t)
  PROVE  IInv' /\ StepOK
<1> USE DEF WakeGivenUp, Fault, Set, launcher, workflow, told, clock
<1>1. row' \in [Tasks -> Row] /\ Marked({}, {})
  BY DEF IInv, TypeOK, Marked
<1>2. TypeOK'
  <2>1. wf' \in [Tasks -> {"none", "tool", "post", "wake", "endTurn", "record", "closed"}]
    BY TaskAssumption DEF IInv, TypeOK
  <2>2. turnEnds' \in SUBSET Tasks
    BY TaskAssumption DEF IInv, TypeOK
  <2>3. unwritten' \in SUBSET Tasks
    BY TaskAssumption DEF IInv, TypeOK
  <2>4. faults' \in 0..MaxFaults
    BY TaskAssumption DEF IInv, TypeOK
  <2> QED BY <1>1, <2>1, <2>2, <2>3, <2>4 DEF IInv, TypeOK
<1>3. Rows' /\ CapHeld'
  <2>1. RowsKept({}, {})
    BY <1>1 DEF IInv, TypeOK, RowsKept
  <2> QED BY <2>1, RowsKeep
<1>4. Wakes'
  <2>1. KeepsWakes
    BY <1>1, TaskAssumption DEF IInv, TypeOK, KeepsWakes, Marked, Wakes, Wakeable, SweepType
  <2> QED BY <2>1, WakesKeep
<1>5. WokenWasTold'
  <2>1. row' = row /\ signalled' = signalled /\ turnEnds \subseteq turnEnds'
        /\ unwritten \subseteq unwritten'
    OBVIOUS
  <2> QED BY <2>1 DEF IInv, WokenWasTold
<1>6. Stops'
  BY <1>1 DEF IInv, TypeOK, Stops, Marked
<1>7. StepOK
  BY <1>1, MarkStep
<1> QED BY <1>2, <1>3, <1>4, <1>5, <1>6, <1>7 DEF IInv

LEMMA TaskWokenKeeps ==
  ASSUME NEW t \in Tasks, IInv, TaskWoken(t)
  PROVE  IInv' /\ StepOK
<1> USE DEF TaskWoken, Fault, Set, launcher, workflow, told, clock
<1>1. row' \in [Tasks -> Row] /\ Marked({u \in {t} : row[u].state # "absent"}, {})
  <2>1. SetWoken(t) \/ UNCHANGED row
    OBVIOUS
  <2> QED BY <2>1, WokenMarked DEF IInv
<1>2. TypeOK'
  <2>1. wf' \in [Tasks -> {"none", "tool", "post", "wake", "endTurn", "record", "closed"}]
    BY TaskAssumption DEF IInv, TypeOK
  <2>2. faults' \in 0..MaxFaults
    BY TaskAssumption DEF IInv, TypeOK
  <2> QED BY <1>1, <2>1, <2>2 DEF IInv, TypeOK
<1>3. Rows' /\ CapHeld'
  <2>1. RowsKept({u \in {t} : row[u].state # "absent"}, {})
    BY <1>1 DEF IInv, TypeOK, RowsKept
  <2> QED BY <2>1, RowsKeep
<1>4. Wakes'
  <2>1. KeepsWakes
    BY <1>1, TaskAssumption DEF IInv, TypeOK, KeepsWakes, Marked, Wakes, Wakeable, SweepType
  <2> QED BY <2>1, WakesKeep
<1>5. WokenWasTold'
  BY <1>1 DEF IInv, TypeOK, Rows, Wakes, WokenWasTold, Marked
<1>6. Stops'
  BY <1>1 DEF IInv, TypeOK, Stops, Marked
<1>7. StepOK
  BY <1>1, MarkStep
<1> QED BY <1>2, <1>3, <1>4, <1>5, <1>6, <1>7 DEF IInv

LEMMA TerminatedKeeps ==
  ASSUME NEW t \in Tasks, IInv, Terminated(t)
  PROVE  IInv' /\ StepOK
<1> USE DEF Terminated, Fault, Set, launcher, workflow, told, clock
<1>1. row' \in [Tasks -> Row] /\ Marked({}, {})
  BY DEF IInv, TypeOK, Marked
<1>2. TypeOK'
  <2>1. wf' \in [Tasks -> {"none", "tool", "post", "wake", "endTurn", "record", "closed"}]
    BY TaskAssumption DEF IInv, TypeOK
  <2>2. faults' \in 0..MaxFaults
    BY TaskAssumption DEF IInv, TypeOK
  <2> QED BY <1>1, <2>1, <2>2 DEF IInv, TypeOK
<1>3. Rows' /\ CapHeld'
  <2>1. RowsKept({}, {})
    BY <1>1 DEF IInv, TypeOK, RowsKept
  <2> QED BY <2>1, RowsKeep
<1>4. Wakes'
  <2>1. KeepsWakes
    BY <1>1, TaskAssumption DEF IInv, TypeOK, KeepsWakes, Marked, Wakes, Wakeable, SweepType
  <2> QED BY <2>1, WakesKeep
<1>5. WokenWasTold'
  BY <1>1 DEF IInv, TypeOK, Rows, Wakes, WokenWasTold, Marked
<1>6. Stops'
  BY <1>1 DEF IInv, TypeOK, Stops, Marked
<1>7. StepOK
  BY <1>1, MarkStep
<1> QED BY <1>2, <1>3, <1>4, <1>5, <1>6, <1>7 DEF IInv

LEMMA StopRecordKeeps ==
  ASSUME NEW t \in Tasks, IInv, StopRecord(t)
  PROVE  IInv' /\ StepOK
<1> USE DEF StopRecord, Set, launcher, workflow, told, clock
<1>1. row' \in [Tasks -> Row] /\ Marked({}, {})
  <2>1. row[t] \in Row /\ row[t].state = "running"
    BY DEF IInv, TypeOK, Running
  <2>2. RowWritten(t, [row[t] EXCEPT !.cancelledBy = TRUE])
    <3>1. [row[t] EXCEPT !.cancelledBy = TRUE] \in Row
      BY <2>1 DEF Row
    <3> QED BY <3>1 DEF SetCancelledBy, RowWritten
  <2>3. /\ row' \in [Tasks -> Row] /\ row'[t] = [row[t] EXCEPT !.cancelledBy = TRUE]
        /\ \A u \in Tasks \ {t} : row'[u] = row[u]
    BY <2>2, RowWrite DEF IInv
  <2>4. /\ row'[t].state = row[t].state /\ row'[t].followUps = row[t].followUps
        /\ row'[t].woken = row[t].woken /\ row'[t].cancelSent = row[t].cancelSent
        /\ row'[t].by = row[t].by
    BY <2>1, <2>3 DEF Row
  <2> QED BY <2>3, <2>4 DEF Marked
<1>2. TypeOK'
  <2>1. stop' \in [Tasks -> {"no", "recorded", "sent"}]
    BY TaskAssumption DEF IInv, TypeOK
  <2>2. stopsAsked' \in 0..MaxStops
    BY TaskAssumption DEF IInv, TypeOK
  <2> QED BY <1>1, <2>1, <2>2 DEF IInv, TypeOK
<1>3. Rows' /\ CapHeld'
  <2>1. RowsKept({}, {})
    BY <1>1 DEF IInv, TypeOK, RowsKept
  <2> QED BY <2>1, RowsKeep
<1>4. Wakes'
  <2>1. KeepsWakes
    BY <1>1, TaskAssumption DEF IInv, TypeOK, KeepsWakes, Marked, Wakes, Wakeable, SweepType
  <2> QED BY <2>1, WakesKeep
<1>5. WokenWasTold'
  BY <1>1 DEF IInv, TypeOK, Rows, Wakes, WokenWasTold, Marked
<1>6. Stops'
  BY <1>1 DEF IInv, TypeOK, Stops, Marked
<1>7. StepOK
  BY <1>1, MarkStep
<1> QED BY <1>2, <1>3, <1>4, <1>5, <1>6, <1>7 DEF IInv

LEMMA StopCancelKeeps ==
  ASSUME NEW t \in Tasks, IInv, StopCancel(t)
  PROVE  IInv' /\ StepOK
<1> USE DEF StopCancel, Fault, CancelWorkflow, Set, launcher, workflow, told, clock
<1>1. row' \in [Tasks -> Row] /\ Marked({}, {})
  BY DEF IInv, TypeOK, Marked
<1>2. TypeOK'
  <2>1. cancelReq' \in [Tasks -> BOOLEAN]
    BY TaskAssumption DEF IInv, TypeOK
  <2>2. stop' \in [Tasks -> {"no", "recorded", "sent"}]
    BY TaskAssumption DEF IInv, TypeOK
  <2>3. faults' \in 0..MaxFaults
    BY TaskAssumption DEF IInv, TypeOK
  <2> QED BY <1>1, <2>1, <2>2, <2>3 DEF IInv, TypeOK
<1>3. Rows' /\ CapHeld'
  <2>1. RowsKept({}, {})
    BY <1>1 DEF IInv, TypeOK, RowsKept
  <2> QED BY <2>1, RowsKeep
<1>4. Wakes'
  <2>1. KeepsWakes
    BY <1>1, TaskAssumption DEF IInv, TypeOK, KeepsWakes, Marked, Wakes, Wakeable, SweepType
  <2> QED BY <2>1, WakesKeep
<1>5. WokenWasTold'
  BY <1>1 DEF IInv, TypeOK, Rows, Wakes, WokenWasTold, Marked
<1>6. Stops'
  BY <1>1 DEF IInv, TypeOK, Stops, Marked
<1>7. StepOK
  BY <1>1, MarkStep
<1> QED BY <1>2, <1>3, <1>4, <1>5, <1>6, <1>7 DEF IInv

LEMMA StopSentKeeps ==
  ASSUME NEW t \in Tasks, IInv, StopSent(t)
  PROVE  IInv' /\ StepOK
<1> USE DEF StopSent, Fault, Set, launcher, workflow, told, clock
<1>1. row' \in [Tasks -> Row] /\ Marked({}, {t})
  <2>1. SetCancelSent(t) \/ UNCHANGED row
    OBVIOUS
  <2> QED BY <2>1, SentMarked DEF IInv
<1>2. TypeOK'
  <2>1. stop' \in [Tasks -> {"no", "recorded", "sent"}]
    BY TaskAssumption DEF IInv, TypeOK
  <2>2. faults' \in 0..MaxFaults
    BY TaskAssumption DEF IInv, TypeOK
  <2> QED BY <1>1, <2>1, <2>2 DEF IInv, TypeOK
<1>3. Rows' /\ CapHeld'
  <2>1. RowsKept({}, {t})
    BY <1>1 DEF IInv, TypeOK, RowsKept
  <2> QED BY <2>1, RowsKeep
<1>4. Wakes'
  <2>1. KeepsWakes
    BY <1>1, TaskAssumption DEF IInv, TypeOK, KeepsWakes, Marked, Wakes, Wakeable, SweepType
  <2> QED BY <2>1, WakesKeep
<1>5. WokenWasTold'
  BY <1>1 DEF IInv, TypeOK, Rows, Wakes, WokenWasTold, Marked
<1>6. Stops'
  BY <1>1 DEF IInv, TypeOK, Stops, Marked
<1>7. StepOK
  BY <1>1, MarkStep
<1> QED BY <1>2, <1>3, <1>4, <1>5, <1>6, <1>7 DEF IInv

LEMMA SweepBeginKeeps ==
  ASSUME IInv, SweepBegin
  PROVE  IInv' /\ StepOK
<1> USE DEF SweepBegin, Idle, Set, launcher, workflow, told, clock
<1>1. row' \in [Tasks -> Row] /\ Marked({}, {})
  BY DEF IInv, TypeOK, Marked
<1>2. TypeOK'
  <2>1. sweep' \in SweepType
    BY TaskAssumption DEF IInv, TypeOK, SweepType
  <2> QED BY <1>1, <2>1 DEF IInv, TypeOK, SweepType
<1>3. Rows' /\ CapHeld'
  <2>1. RowsKept({}, {})
    BY <1>1 DEF IInv, TypeOK, RowsKept
  <2> QED BY <2>1, RowsKeep
<1>4. Wakes'
  <2>1. KeepsWakes
    BY <1>1, TaskAssumption DEF IInv, TypeOK, KeepsWakes, Marked, Wakes, Wakeable, SweepType
  <2> QED BY <2>1, WakesKeep
<1>5. WokenWasTold'
  BY <1>1 DEF IInv, TypeOK, Rows, Wakes, WokenWasTold, Marked
<1>6. Stops'
  BY <1>1 DEF IInv, TypeOK, Stops, Marked
<1>7. StepOK
  BY <1>1, MarkStep
<1> QED BY <1>2, <1>3, <1>4, <1>5, <1>6, <1>7 DEF IInv

LEMMA ResendCancelKeeps ==
  ASSUME NEW t \in Tasks, IInv, ResendCancel(t)
  PROVE  IInv' /\ StepOK
<1> USE DEF ResendCancel, Took, Fault, Set, launcher, workflow, told, clock
<1>1. row' \in [Tasks -> Row] /\ Marked({}, {t})
  <2>1. SetCancelSent(t) \/ UNCHANGED row
    OBVIOUS
  <2> QED BY <2>1, SentMarked DEF IInv
<1>2. TypeOK'
  <2>1. cancelReq' \in [Tasks -> BOOLEAN]
    BY TaskAssumption DEF IInv, TypeOK
  <2>2. sweep' \in SweepType
    BY TaskAssumption DEF IInv, TypeOK, SweepType
  <2>3. faults' \in 0..MaxFaults
    BY TaskAssumption DEF IInv, TypeOK
  <2> QED BY <1>1, <2>1, <2>2, <2>3 DEF IInv, TypeOK, SweepType
<1>3. Rows' /\ CapHeld'
  <2>1. RowsKept({}, {t})
    BY <1>1 DEF IInv, TypeOK, RowsKept
  <2> QED BY <2>1, RowsKeep
<1>4. Wakes'
  <2>1. KeepsWakes
    BY <1>1, TaskAssumption DEF IInv, TypeOK, KeepsWakes, Marked, Wakes, Wakeable, SweepType
  <2> QED BY <2>1, WakesKeep
<1>5. WokenWasTold'
  BY <1>1 DEF IInv, TypeOK, Rows, Wakes, WokenWasTold, Marked
<1>6. Stops'
  BY <1>1 DEF IInv, TypeOK, Stops, Marked
<1>7. StepOK
  BY <1>1, MarkStep
<1> QED BY <1>2, <1>3, <1>4, <1>5, <1>6, <1>7 DEF IInv

LEMMA SweepListClosedKeeps ==
  ASSUME IInv, SweepListClosed
  PROVE  IInv' /\ StepOK
<1> USE DEF SweepListClosed, Idle, Set, launcher, workflow, told, clock
<1>1. row' \in [Tasks -> Row] /\ Marked({}, {})
  BY DEF IInv, TypeOK, Marked
<1>2. TypeOK'
  <2>1. sweep' \in SweepType
    BY TaskAssumption DEF IInv, TypeOK, SweepType
  <2> QED BY <1>1, <2>1 DEF IInv, TypeOK, SweepType
<1>3. Rows' /\ CapHeld'
  <2>1. RowsKept({}, {})
    BY <1>1 DEF IInv, TypeOK, RowsKept
  <2> QED BY <2>1, RowsKeep
<1>4. Wakes'
  <2>1. sweep'.waking = NoTask /\ sweep'.phase = "end"
    OBVIOUS
  <2>2. \A u \in sweep'.todo : row[u].state = "running"
    BY DEF Running
  <2>3. \A u \in Tasks : row[u].state = "running" => row[u].by = ""
    BY DEF IInv, Rows, Ends
  <2>4. KeepsWakes
    BY <2>1, <2>2, <2>3, TaskAssumption DEF KeepsWakes
  <2> QED BY <2>4, WakesKeep
<1>5. WokenWasTold'
  BY <1>1 DEF IInv, TypeOK, Rows, Wakes, WokenWasTold, Marked
<1>6. Stops'
  BY <1>1 DEF IInv, TypeOK, Stops, Marked
<1>7. StepOK
  BY <1>1, MarkStep
<1> QED BY <1>2, <1>3, <1>4, <1>5, <1>6, <1>7 DEF IInv

LEMMA SweepKeepKeeps ==
  ASSUME NEW t \in Tasks, IInv, SweepKeep(t)
  PROVE  IInv' /\ StepOK
<1> USE DEF SweepKeep, Took, Set, launcher, workflow, told, clock
<1>1. row' \in [Tasks -> Row] /\ Marked({}, {})
  BY DEF IInv, TypeOK, Marked
<1>2. TypeOK'
  <2>1. sweep' \in SweepType
    BY TaskAssumption DEF IInv, TypeOK, SweepType
  <2> QED BY <1>1, <2>1 DEF IInv, TypeOK, SweepType
<1>3. Rows' /\ CapHeld'
  <2>1. RowsKept({}, {})
    BY <1>1 DEF IInv, TypeOK, RowsKept
  <2> QED BY <2>1, RowsKeep
<1>4. Wakes'
  <2>1. KeepsWakes
    BY <1>1, TaskAssumption DEF IInv, TypeOK, KeepsWakes, Marked, Wakes, Wakeable, SweepType
  <2> QED BY <2>1, WakesKeep
<1>5. WokenWasTold'
  BY <1>1 DEF IInv, TypeOK, Rows, Wakes, WokenWasTold, Marked
<1>6. Stops'
  BY <1>1 DEF IInv, TypeOK, Stops, Marked
<1>7. StepOK
  BY <1>1, MarkStep
<1> QED BY <1>2, <1>3, <1>4, <1>5, <1>6, <1>7 DEF IInv

LEMMA SweepListUnwokenKeeps ==
  ASSUME IInv, SweepListUnwoken
  PROVE  IInv' /\ StepOK
<1> USE DEF SweepListUnwoken, Idle, Unwoken, Set, launcher, workflow, told, clock
<1>1. row' \in [Tasks -> Row] /\ Marked({}, {})
  BY DEF IInv, TypeOK, Marked
<1>2. TypeOK'
  <2>1. sweep' \in SweepType
    BY TaskAssumption DEF IInv, TypeOK, SweepType
  <2> QED BY <1>1, <2>1 DEF IInv, TypeOK, SweepType
<1>3. Rows' /\ CapHeld'
  <2>1. RowsKept({}, {})
    BY <1>1 DEF IInv, TypeOK, RowsKept
  <2> QED BY <2>1, RowsKeep
<1>4. Wakes'
  <2>1. KeepsWakes
    BY <1>1, TaskAssumption DEF IInv, TypeOK, KeepsWakes, Marked, Wakes, Wakeable, SweepType
  <2> QED BY <2>1, WakesKeep
<1>5. WokenWasTold'
  BY <1>1 DEF IInv, TypeOK, Rows, Wakes, WokenWasTold, Marked
<1>6. Stops'
  BY <1>1 DEF IInv, TypeOK, Stops, Marked
<1>7. StepOK
  BY <1>1, MarkStep
<1> QED BY <1>2, <1>3, <1>4, <1>5, <1>6, <1>7 DEF IInv

LEMMA SweepWakeEndedKeeps ==
  ASSUME NEW t \in Tasks, IInv, SweepWakeEnded(t)
  PROVE  IInv' /\ StepOK
<1> USE DEF SweepWakeEnded, WakeTask, WakeFailed, Fault, Set, launcher, workflow, told, clock
<1>1. row' \in [Tasks -> Row] /\ Marked({u \in {t} : row[u].state # "absent"}, {})
  <2>1. SetWoken(t) \/ UNCHANGED row
    OBVIOUS
  <2> QED BY <2>1, WokenMarked DEF IInv
<1>2. TypeOK'
  <2>1. sweep' \in SweepType
    BY TaskAssumption DEF IInv, TypeOK, SweepType
  <2>2. signalled' \in SUBSET Tasks
    BY TaskAssumption DEF IInv, TypeOK
  <2>3. turnEnds' \in SUBSET Tasks
    BY TaskAssumption DEF IInv, TypeOK
  <2>4. faults' \in 0..MaxFaults
    BY TaskAssumption DEF IInv, TypeOK
  <2> QED BY <1>1, <2>1, <2>2, <2>3, <2>4 DEF IInv, TypeOK, SweepType
<1>3. Rows' /\ CapHeld'
  <2>1. RowsKept({u \in {t} : row[u].state # "absent"}, {})
    BY <1>1 DEF IInv, TypeOK, RowsKept
  <2> QED BY <2>1, RowsKeep
<1>4. Wakes'
  <2>1. KeepsWakes
    BY <1>1, TaskAssumption DEF IInv, TypeOK, KeepsWakes, Marked, Wakes, Wakeable, SweepType
  <2> QED BY <2>1, WakesKeep
<1>5. WokenWasTold'
  <2>1. /\ signalled \subseteq signalled' /\ turnEnds \subseteq turnEnds'
        /\ unwritten' = unwritten
    OBVIOUS
  <2>2. t \in signalled' \cup turnEnds' \/ row' = row
    OBVIOUS
  <2> HIDE DEF SweepWakeEnded, WakeTask
  <2> QED BY <1>1, <2>1, <2>2 DEF IInv, WokenWasTold, Marked
<1>6. Stops'
  BY <1>1 DEF IInv, TypeOK, Stops, Marked
<1>7. StepOK
  <2>1. Wakeable(t)
    BY DEF IInv, Wakes
  <2>2. signalled' = signalled \/ signalled' = signalled \cup {t}
    OBVIOUS
  <2> QED BY <1>1, <2>1, <2>2, MarkStep
<1> QED BY <1>2, <1>3, <1>4, <1>5, <1>6, <1>7 DEF IInv

LEMMA SweepWakeKeeps ==
  ASSUME NEW t \in Tasks, IInv, SweepWake(t)
  PROVE  IInv' /\ StepOK
<1> USE DEF SweepWake, Took, WakeTask, WakeFailed, Fault, Set, launcher, workflow, told, clock
<1>1. row' \in [Tasks -> Row] /\ Marked({u \in {t} : row[u].state # "absent"}, {})
  <2>1. SetWoken(t) \/ UNCHANGED row
    OBVIOUS
  <2> QED BY <2>1, WokenMarked DEF IInv
<1>2. TypeOK'
  <2>1. sweep' \in SweepType
    BY TaskAssumption DEF IInv, TypeOK, SweepType
  <2>2. signalled' \in SUBSET Tasks
    BY TaskAssumption DEF IInv, TypeOK
  <2>3. turnEnds' \in SUBSET Tasks
    BY TaskAssumption DEF IInv, TypeOK
  <2>4. faults' \in 0..MaxFaults
    BY TaskAssumption DEF IInv, TypeOK
  <2> QED BY <1>1, <2>1, <2>2, <2>3, <2>4 DEF IInv, TypeOK, SweepType
<1>3. Rows' /\ CapHeld'
  <2>1. RowsKept({u \in {t} : row[u].state # "absent"}, {})
    BY <1>1 DEF IInv, TypeOK, RowsKept
  <2> QED BY <2>1, RowsKeep
<1>4. Wakes'
  <2>1. KeepsWakes
    BY <1>1, TaskAssumption DEF IInv, TypeOK, KeepsWakes, Marked, Wakes, Wakeable, SweepType
  <2> QED BY <2>1, WakesKeep
<1>5. WokenWasTold'
  <2>1. /\ signalled \subseteq signalled' /\ turnEnds \subseteq turnEnds'
        /\ unwritten' = unwritten
    OBVIOUS
  <2>2. t \in signalled' \cup turnEnds' \/ row' = row
    OBVIOUS
  <2> HIDE DEF SweepWake, WakeTask
  <2> QED BY <1>1, <2>1, <2>2 DEF IInv, WokenWasTold, Marked
<1>6. Stops'
  BY <1>1 DEF IInv, TypeOK, Stops, Marked
<1>7. StepOK
  <2>1. Wakeable(t)
    BY DEF IInv, Wakes
  <2>2. signalled' = signalled \/ signalled' = signalled \cup {t}
    OBVIOUS
  <2> QED BY <1>1, <2>1, <2>2, MarkStep
<1> QED BY <1>2, <1>3, <1>4, <1>5, <1>6, <1>7 DEF IInv

LEMMA SweepDoneKeeps ==
  ASSUME IInv, SweepDone
  PROVE  IInv' /\ StepOK
<1> USE DEF SweepDone, Idle, Set, launcher, workflow, told, clock
<1>1. row' \in [Tasks -> Row] /\ Marked({}, {})
  BY DEF IInv, TypeOK, Marked
<1>2. TypeOK'
  <2>1. sweep' \in SweepType
    BY TaskAssumption DEF IInv, TypeOK, SweepType
  <2> QED BY <1>1, <2>1 DEF IInv, TypeOK, SweepType
<1>3. Rows' /\ CapHeld'
  <2>1. RowsKept({}, {})
    BY <1>1 DEF IInv, TypeOK, RowsKept
  <2> QED BY <2>1, RowsKeep
<1>4. Wakes'
  <2>1. KeepsWakes
    BY <1>1, TaskAssumption DEF IInv, TypeOK, KeepsWakes, Marked, Wakes, Wakeable, SweepType
  <2> QED BY <2>1, WakesKeep
<1>5. WokenWasTold'
  BY <1>1 DEF IInv, TypeOK, Rows, Wakes, WokenWasTold, Marked
<1>6. Stops'
  BY <1>1 DEF IInv, TypeOK, Stops, Marked
<1>7. StepOK
  BY <1>1, MarkStep
<1> QED BY <1>2, <1>3, <1>4, <1>5, <1>6, <1>7 DEF IInv

LEMMA SweepCutKeeps ==
  ASSUME IInv, SweepCut
  PROVE  IInv' /\ StepOK
<1> USE DEF SweepCut, Idle, Fault, Set, launcher, workflow, told, clock
<1>1. row' \in [Tasks -> Row] /\ Marked({}, {})
  BY DEF IInv, TypeOK, Marked
<1>2. TypeOK'
  <2>1. sweep' \in SweepType
    BY TaskAssumption DEF IInv, TypeOK, SweepType
  <2>2. stop' \in [Tasks -> {"no", "recorded", "sent"}]
    BY TaskAssumption DEF IInv, TypeOK
  <2>3. faults' \in 0..MaxFaults
    BY TaskAssumption DEF IInv, TypeOK
  <2> QED BY <1>1, <2>1, <2>2, <2>3 DEF IInv, TypeOK, SweepType
<1>3. Rows' /\ CapHeld'
  <2>1. RowsKept({}, {})
    BY <1>1 DEF IInv, TypeOK, RowsKept
  <2> QED BY <2>1, RowsKeep
<1>4. Wakes'
  <2>1. KeepsWakes
    BY <1>1, TaskAssumption DEF IInv, TypeOK, KeepsWakes, Marked, Wakes, Wakeable, SweepType
  <2> QED BY <2>1, WakesKeep
<1>5. WokenWasTold'
  BY <1>1 DEF IInv, TypeOK, Rows, Wakes, WokenWasTold, Marked
<1>6. Stops'
  BY <1>1 DEF IInv, TypeOK, Stops, Marked
<1>7. StepOK
  BY <1>1, MarkStep
<1> QED BY <1>2, <1>3, <1>4, <1>5, <1>6, <1>7 DEF IInv

LEMMA GrowKeeps ==
  ASSUME NEW t \in Tasks, IInv, Grow(t)
  PROVE  IInv' /\ StepOK
<1> USE DEF Grow, Set, launcher, workflow, told, clock
<1>1. row' \in [Tasks -> Row] /\ Marked({}, {})
  BY DEF IInv, TypeOK, Marked
<1>2. TypeOK'
  <2>1. age' \in [Tasks -> 0..2]
    BY TaskAssumption DEF IInv, TypeOK
  <2> QED BY <1>1, <2>1 DEF IInv, TypeOK
<1>3. Rows' /\ CapHeld'
  <2>1. RowsKept({}, {})
    BY <1>1 DEF IInv, TypeOK, RowsKept
  <2> QED BY <2>1, RowsKeep
<1>4. Wakes'
  <2>1. KeepsWakes
    BY <1>1, TaskAssumption DEF IInv, TypeOK, KeepsWakes, Marked, Wakes, Wakeable, SweepType
  <2> QED BY <2>1, WakesKeep
<1>5. WokenWasTold'
  BY <1>1 DEF IInv, TypeOK, Rows, Wakes, WokenWasTold, Marked
<1>6. Stops'
  BY <1>1 DEF IInv, TypeOK, Stops, Marked
<1>7. StepOK
  BY <1>1, MarkStep
<1> QED BY <1>2, <1>3, <1>4, <1>5, <1>6, <1>7 DEF IInv

LEMMA GrowEndedKeeps ==
  ASSUME NEW t \in Tasks, IInv, GrowEnded(t)
  PROVE  IInv' /\ StepOK
<1> USE DEF GrowEnded, Set, launcher, workflow, told, clock
<1>1. row' \in [Tasks -> Row] /\ Marked({}, {})
  BY DEF IInv, TypeOK, Marked
<1>2. TypeOK'
  <2>1. endAge' \in [Tasks -> 0..2]
    BY TaskAssumption DEF IInv, TypeOK
  <2> QED BY <1>1, <2>1 DEF IInv, TypeOK
<1>3. Rows' /\ CapHeld'
  <2>1. RowsKept({}, {})
    BY <1>1 DEF IInv, TypeOK, RowsKept
  <2> QED BY <2>1, RowsKeep
<1>4. Wakes'
  <2>1. KeepsWakes
    BY <1>1, TaskAssumption DEF IInv, TypeOK, KeepsWakes, Marked, Wakes, Wakeable, SweepType
  <2> QED BY <2>1, WakesKeep
<1>5. WokenWasTold'
  BY <1>1 DEF IInv, TypeOK, Rows, Wakes, WokenWasTold, Marked
<1>6. Stops'
  BY <1>1 DEF IInv, TypeOK, Stops, Marked
<1>7. StepOK
  BY <1>1, MarkStep
<1> QED BY <1>2, <1>3, <1>4, <1>5, <1>6, <1>7 DEF IInv

LEMMA RegisterTaskKeeps ==
  ASSUME NEW t \in Tasks, IInv, RegisterTask(t)
  PROVE  IInv' /\ StepOK
<1> USE DEF RegisterTask, Fault, Set, launcher, workflow, told, clock
<1>1. /\ row' \in [Tasks -> Row] /\ \A u \in Tasks \ {t} : row'[u] = row[u]
      /\ \/ row' = row
         \/ /\ row[t].state = "absent" /\ ~gone
            /\ Cardinality(RunningOf(OwnerOf[t])) < MaxRunning
            /\ row'[t] = [Absent EXCEPT !.state = "running"]
  <2>1. CASE row' = row
    BY <2>1 DEF IInv, TypeOK
  <2>2. CASE row' # row
    <3>1. RowWritten(t, [Absent EXCEPT !.state = "running"])
      BY <2>2, AbsentRow DEF RegisterRow, RowWritten
    <3> QED BY <2>2, <3>1, RowWrite DEF RegisterRow, IInv
  <2> QED BY <2>1, <2>2
<1>2. TypeOK'
  <2>1. launch' \in [Tasks -> {"no", "register", "start", "dropping", "over"}]
    BY DEF IInv, TypeOK
  <2>2. faults' \in 0..MaxFaults
    BY TaskAssumption DEF IInv, TypeOK
  <2> QED BY <1>1, <2>1, <2>2 DEF IInv, TypeOK
<1>3. Rows'
  <2>1. launch[t] = "register" /\ \A u \in Tasks \ {t} : launch'[u] = launch[u]
    BY DEF IInv, TypeOK
  <2>2. UNCHANGED <<message, accepted, gone>>
    OBVIOUS
  <2>3. row[t].state = "absent" /\ ~gone => accepted[t] = 0
    BY <2>1 DEF IInv, Rows
  <2> HIDE DEF RegisterTask
  <2> SUFFICES ASSUME NEW u \in Tasks
               PROVE  /\ gone => row'[u].state = "absent"
                      /\ launch'[u] \in {"no", "register"} /\ row'[u].state = "absent" /\ ~gone
                           => accepted[u] = 0
                      /\ row'[u].state \notin Ends => row'[u].by = ""
                      /\ row'[u].state = "running" => row'[u].followUps = accepted[u]
                      /\ message[u].state # "none" =>
                           row'[u].state \in Ends /\ message[u].followUps = accepted[u]
    BY <2>2 DEF Rows
  <2>4. CASE u # t
    BY <1>1, <2>1, <2>4 DEF IInv, Rows
  <2>5. CASE u = t
    <3>2. CASE row' = row
      BY <2>1, <2>3, <2>5, <3>2 DEF IInv, Rows
    <3>3. CASE ~gone /\ row[t].state = "absent" /\ row'[t] = [Absent EXCEPT !.state = "running"]
      <4>1. message[t].state = "none"
        BY <3>3 DEF IInv, Rows, Ends
      <4> QED BY <2>3, <2>5, <3>3, <4>1 DEF Absent
    <3> QED BY <1>1, <3>2, <3>3
  <2> QED BY <2>4, <2>5
<1>4. Wakes'
  <2>1. KeepsWakes
    BY <1>1, AbsentFields DEF KeepsWakes, IInv, Wakes, Wakeable
  <2> QED BY <2>1, WakesKeep
<1>5. WokenWasTold' /\ Stops'
  <2>1. \A u \in Tasks : row'[u] = row[u] \/ (~row'[u].woken /\ ~row'[u].cancelSent)
    BY <1>1, AbsentFields
  <2> QED BY <2>1 DEF IInv, WokenWasTold, Stops
<1>6. CapHeld'
  <2>1. CASE row' = row
    BY <2>1, CapKeeps
  <2>2. CASE /\ row[t].state = "absent" /\ row'[t] = [Absent EXCEPT !.state = "running"]
             /\ Cardinality(RunningOf(OwnerOf[t])) < MaxRunning
    <3>0. row'[t].state = "running"
      BY <2>2 DEF Absent
    <3> SUFFICES ASSUME NEW a \in Agents PROVE Cardinality(RunningOf(a)') <= MaxRunning
      BY DEF CapHeld
    <3>1. RunningOf(a)' = IF a = OwnerOf[t] THEN RunningOf(a) \cup {t} ELSE RunningOf(a)
      BY <1>1, <3>0 DEF RunningOf, Running
    <3>2. IsFiniteSet(RunningOf(a)) /\ t \notin RunningOf(a)
      <4>1. RunningOf(a) \subseteq Tasks /\ t \notin RunningOf(a)
        BY <2>2 DEF RunningOf, Running
      <4> QED BY <4>1, TaskAssumption, FS_Subset
    <3>3. /\ Cardinality(RunningOf(a)) \in Nat
          /\ Cardinality(RunningOf(a) \cup {t}) = Cardinality(RunningOf(a)) + 1
      BY <3>2, FS_AddElement, FS_CardinalityType
    <3>4. Cardinality(RunningOf(a)) <= MaxRunning
      BY DEF IInv, CapHeld
    <3>5. CASE a = OwnerOf[t]
      BY <2>2, <3>1, <3>3, <3>5, TaskAssumption
    <3>6. CASE a # OwnerOf[t]
      BY <3>1, <3>4, <3>6
    <3> QED BY <3>5, <3>6
  <2> QED BY <1>1, <2>1, <2>2
<1>7. StepOK
  <2>1. row' = row \/ message[t].state = "none"
    <3>1. row' = row \/ row[t].state = "absent"
      BY <1>1
    <3> QED BY <3>1 DEF IInv, Rows, Ends
  <2>2. EndsStep
    BY <1>1, <2>1 DEF EndsStep
  <2>3. CASE row' = row
    BY <2>2, <2>3 DEF StepOK, PromiseStep, Status
  <2>4. CASE row[t].state = "absent" /\ ~gone /\ row'[t] = [Absent EXCEPT !.state = "running"]
    <3>1. Status' = [Status EXCEPT ![t] = "running"] /\ Status[t] = "none"
      BY <1>1, <2>4, AbsentFields DEF Status
    <3>2. Promise!Record(t)
      BY <2>4, <3>1 DEF Promise!Record, Status
    <3> QED BY <2>2, <3>2 DEF StepOK, PromiseStep, Promise!Next
  <2> QED BY <1>1, <2>3, <2>4
<1> QED BY <1>2, <1>3, <1>4, <1>5, <1>6, <1>7 DEF IInv

LEMMA DropTaskKeeps ==
  ASSUME NEW t \in Tasks, IInv, DropTask(t)
  PROVE  IInv' /\ StepOK
<1> USE DEF DropTask, Fault, Set, launcher, workflow, told, clock
<1>1. /\ row' \in [Tasks -> Row] /\ \A u \in Tasks \ {t} : row'[u] = row[u]
      /\ row' = row \/ (row[t].state = "running" /\ row'[t] = Absent)
  <2>1. CASE row' = row
    <3> HIDE DEF DropTask
    <3> QED BY <2>1 DEF IInv, TypeOK
  <2>2. CASE row' # row
    <3>1. RowWritten(t, Absent) /\ row[t].state = "running"
      BY <2>2, AbsentRow DEF DropRow, RowWritten, Running
    <3> QED BY <3>1, RowWrite DEF IInv
  <2> QED BY <2>1, <2>2
<1>2. TypeOK'
  <2>1. launch' \in [Tasks -> {"no", "register", "start", "dropping", "over"}]
    BY DEF IInv, TypeOK
  <2>2. faults' \in 0..MaxFaults
    BY TaskAssumption DEF IInv, TypeOK
  <2> QED BY <1>1, <2>1, <2>2 DEF IInv, TypeOK
<1>3. Rows'
  <2>1. /\ launch'[t] = "over" /\ UNCHANGED <<message, accepted, gone>>
        /\ \A u \in Tasks \ {t} : launch'[u] = launch[u]
    BY DEF IInv, TypeOK
  <2>2. row[t].state = "running" => message[t].state = "none"
    BY DEF IInv, Rows, Ends
  <2> HIDE DEF DropTask
  <2>3. \A u \in Tasks : row'[u] = row[u] \/ (u = t /\ row[t].state = "running" /\ row'[t] = Absent)
    BY <1>1
  <2>4. Absent.state = "absent" /\ Absent.by = ""
    BY DEF Absent
  <2> QED BY <2>1, <2>2, <2>3, <2>4 DEF IInv, Rows, Ends
<1>4. Wakes'
  <2>1. KeepsWakes
    BY <1>1, AbsentFields DEF KeepsWakes, IInv, Wakes, Wakeable
  <2> QED BY <2>1, WakesKeep
<1>5. WokenWasTold' /\ Stops'
  <2>1. \A u \in Tasks : row'[u] = row[u] \/ (~row'[u].woken /\ ~row'[u].cancelSent)
    BY <1>1, AbsentFields
  <2> QED BY <2>1 DEF IInv, WokenWasTold, Stops
<1>6. CapHeld'
  BY <1>1, AbsentFields, CapKeeps
<1>7. StepOK
  <2>1. row[t].state = "running" => message[t].state = "none"
    BY DEF IInv, Rows, Ends
  <2>2. EndsStep
    BY <1>1, <2>1 DEF EndsStep
  <2>3. CASE row' = row
    BY <2>2, <2>3 DEF StepOK, PromiseStep, Status
  <2>4. CASE row[t].state = "running" /\ row'[t] = Absent
    <3>1. Status' = [Status EXCEPT ![t] = "none"] /\ Status[t] = "running"
      BY <1>1, <2>4, AbsentFields DEF Status
    <3>2. Promise!Drop(t)
      BY <3>1 DEF Promise!Drop, Status
    <3> QED BY <2>2, <3>2 DEF StepOK, PromiseStep, Promise!Next
  <2> QED BY <1>1, <2>3, <2>4
<1> QED BY <1>2, <1>3, <1>4, <1>5, <1>6, <1>7 DEF IInv

\* A task that ends: its row, its message, and nothing else of them.
LEMMA EndKeeps ==
  ASSUME NEW t \in Tasks, IInv, NEW by \in {"task", "sweep"}, NEW state \in Ends,
         EndTask(t, by, state), UNCHANGED <<launch, accepted, gone, stop, cancelReq>>,
         signalled' = signalled, turnEnds' = turnEnds, unwritten' = unwritten
  PROVE  Rows' /\ WokenWasTold' /\ Stops' /\ CapHeld'
<1>1. /\ row' \in [Tasks -> Row] /\ message' \in [Tasks -> Message]
      /\ \A u \in Tasks \ {t} : row'[u] = row[u] /\ message'[u] = message[u]
      /\ \/ row' = row /\ message' = message /\ row[t].state # "running"
         \/ /\ row[t].state = "running" /\ row'[t].state = state /\ row'[t].by = by
            /\ row'[t].woken = row[t].woken /\ row'[t].cancelSent = row[t].cancelSent
            /\ message'[t].state = state /\ message'[t].followUps = row[t].followUps
  BY EndTaskRow DEF IInv
<1>2. Rows'
  <2> SUFFICES ASSUME NEW u \in Tasks
               PROVE  /\ gone => row'[u].state = "absent"
                      /\ launch[u] \in {"no", "register"} /\ row'[u].state = "absent" /\ ~gone
                           => accepted[u] = 0
                      /\ row'[u].state \notin Ends => row'[u].by = ""
                      /\ row'[u].state = "running" => row'[u].followUps = accepted[u]
                      /\ message'[u].state # "none" =>
                           row'[u].state \in Ends /\ message'[u].followUps = accepted[u]
    BY DEF Rows
  <2>1. CASE u # t \/ (row' = row /\ message' = message)
    BY <1>1, <2>1 DEF IInv, Rows
  <2>2. CASE u = t /\ ~(row' = row /\ message' = message)
    <3>1. /\ ~gone /\ row[t].followUps = accepted[t]
      BY <1>1, <2>2 DEF IInv, Rows
    <3>2. state \notin {"running", "absent"}
      BY DEF Ends
    <3> QED BY <1>1, <2>2, <3>1, <3>2
  <2> QED BY <2>1, <2>2
<1>3. WokenWasTold' /\ Stops'
  BY <1>1 DEF IInv, WokenWasTold, Stops
<1>4. CapHeld'
  BY <1>1, CapKeeps DEF Ends
<1> QED BY <1>2, <1>3, <1>4

LEMMA PostTaskResultKeeps ==
  ASSUME NEW t \in Tasks, IInv, PostTaskResult(t)
  PROVE  IInv' /\ StepOK
<1> USE DEF PostTaskResult, Fault, Set, launcher, workflow, told, clock
<1>0. outcome[t] \in Ends
  BY DEF IInv, TypeOK
<1>1. EndTask(t, "task", outcome[t]) \/ UNCHANGED <<row, message>>
  OBVIOUS
<1>2. /\ row' \in [Tasks -> Row] /\ message' \in [Tasks -> Message]
      /\ \A u \in Tasks : row'[u].state # row[u].state => u = t /\ row[t].state = "running"
      /\ \A u \in Tasks : row'[u].by = "sweep" => row[u].by = "sweep"
      /\ row'[t].by = "task" => row'[t].state \in Ends
  <2>1. CASE EndTask(t, "task", outcome[t])
    <3>1. /\ row' \in [Tasks -> Row] /\ message' \in [Tasks -> Message]
          /\ \A u \in Tasks \ {t} : row'[u] = row[u] /\ message'[u] = message[u]
          /\ \/ row' = row /\ message' = message /\ row[t].state # "running"
             \/ /\ row[t].state = "running" /\ row'[t].state = outcome[t]
                /\ row'[t].by = "task"
      BY <1>0, <2>1, EndTaskRow DEF IInv
    <3> QED BY <1>0, <3>1 DEF IInv, Rows
  <2>2. CASE UNCHANGED <<row, message>>
    BY <2>2 DEF IInv, TypeOK, Message, Rows
  <2> QED BY <1>1, <2>1, <2>2
<1>3. TypeOK'
  <2>1. wf' \in [Tasks -> {"none", "tool", "post", "wake", "endTurn", "record", "closed"}]
    BY DEF IInv, TypeOK
  <2>2. faults' \in 0..MaxFaults
    BY TaskAssumption DEF IInv, TypeOK
  <2> QED BY <1>2, <2>1, <2>2 DEF IInv, TypeOK, Message
<1>4. Rows' /\ WokenWasTold' /\ Stops' /\ CapHeld'
  <2>1. CASE EndTask(t, "task", outcome[t])
    BY <1>0, <2>1, EndKeeps
  <2>2. CASE UNCHANGED <<row, message>>
    <3>1. RowsKept({}, {})
      BY <2>2 DEF RowsKept, Marked
    <3>2. WokenWasTold' /\ Stops'
      BY <2>2 DEF IInv, WokenWasTold, Stops
    <3> QED BY <3>1, <3>2, RowsKeep
  <2> QED BY <1>1, <2>1, <2>2
<1>5. Wakes'
  <2>1. \A u \in Tasks \ {t} : wf'[u] = wf[u]
    BY DEF IInv, TypeOK
  <2>2. wf'[t] # "record" /\ (wf'[t] = "wake" => row'[t].state \in {"done", "failed"})
    BY <1>2 DEF IInv, TypeOK, ToWake, Mine, Ends
  <2>3. UNCHANGED <<gone, signalled, turnEnds, unwritten, sweep>>
    OBVIOUS
  <2> HIDE DEF PostTaskResult
  <2>4. KeepsWakes
    BY <1>2, <2>1, <2>2, <2>3 DEF KeepsWakes, Wakeable, IInv, Wakes
  <2> QED BY <2>4, WakesKeep
<1>6. StepOK
  <2>1. CASE EndTask(t, "task", outcome[t])
    BY <1>0, <2>1, EndStep
  <2>2. CASE UNCHANGED <<row, message>>
    BY <2>2 DEF StepOK, PromiseStep, EndsStep, Status
  <2> QED BY <1>1, <2>1, <2>2
<1> QED BY <1>3, <1>4, <1>5, <1>6 DEF IInv

LEMMA EndSweptKeeps ==
  ASSUME NEW t \in Tasks, IInv, EndSwept(t)
  PROVE  IInv' /\ StepOK
<1> USE DEF EndSwept, Set, launcher, workflow, told, clock
<1> DEFINE state == IF t \in sweep.stopped THEN "cancelled" ELSE "failed"
<1>1. state \in Ends /\ EndTask(t, "sweep", state)
  BY DEF Ends
<1>2. sweep' = [sweep EXCEPT !.todo = @ \ {t},
                             !.waking = IF row'[t].by = "sweep" /\ state # "cancelled"
                                        THEN t ELSE NoTask]
  BY DEF Mine
<1>3. UNCHANGED <<launch, wf, cancelReq, outcome, stop, age, endAge, signalled, turnEnds,
                  unwritten, gone, faults, stopsAsked, accepted>>
  OBVIOUS
<1>4. state = "failed" \/ state = "cancelled"
  OBVIOUS
<1>5. sweep.phase = "end" /\ sweep \in SweepType
  BY DEF IInv, TypeOK, SweepType
<1>10. t \in sweep.todo
  OBVIOUS
<1> HIDE DEF EndSwept, state
<1>6. /\ row' \in [Tasks -> Row] /\ message' \in [Tasks -> Message]
      /\ \A u \in Tasks \ {t} : row'[u] = row[u] /\ message'[u] = message[u]
      /\ \/ row' = row /\ message' = message /\ row[t].state # "running"
         \/ row[t].state = "running" /\ row'[t].state = state
  BY <1>1, EndTaskRow DEF IInv
<1>7. TypeOK'
  <2>1. sweep' \in SweepType
    BY <1>2, <1>5 DEF SweepType
  <2> QED BY <1>3, <1>6, <2>1 DEF IInv, TypeOK, Message, SweepType
<1>8. Rows' /\ WokenWasTold' /\ Stops' /\ CapHeld'
  BY <1>1, <1>3, EndKeeps
<1>9. Wakes'
  <2>1. sweep'.phase = "end" /\ (sweep'.waking = t => row'[t].by = "sweep" /\ state = "failed")
        /\ \A u \in Tasks \ {t} : sweep'.waking # u
    BY <1>2, <1>4, <1>5, TaskAssumption DEF SweepType
  <2>2. sweep'.waking = t => row'[t].state \in {"done", "failed"} \/ gone
    <3> SUFFICES ASSUME sweep'.waking = t PROVE row'[t].state \in {"done", "failed"}
      OBVIOUS
    <3>1. row[t].by # "sweep"
      BY <1>5, <1>10 DEF IInv, Wakes
    <3> QED BY <2>1, <1>6, <3>1
  <2>3. KeepsWakes
    <3>1. \A u \in Tasks : u \in sweep'.todo => row'[u].by # "sweep"
      <4>1. \A u \in sweep'.todo : u # t /\ u \in sweep.todo
        BY <1>2, <1>5 DEF SweepType
      <4> QED BY <1>5, <1>6, <4>1 DEF IInv, Wakes
    <3> QED BY <1>3, <1>6, <2>1, <2>2, <3>1 DEF KeepsWakes, Wakeable
  <2> QED BY <2>3, WakesKeep
<1>11. StepOK
  BY <1>1, <1>3, EndStep
<1> QED BY <1>7, <1>8, <1>9, <1>11 DEF IInv

LEMMA AddFollowUpKeeps ==
  ASSUME NEW t \in Tasks, IInv, AddFollowUp(t)
  PROVE  IInv' /\ StepOK
<1> USE DEF AddFollowUp, Set, launcher, workflow, told, clock
<1>0. /\ row[t] \in Row /\ row[t].state = "running" /\ row[t].followUps < MaxFollowUps
      /\ row[t].followUps \in 0..MaxFollowUps /\ accepted[t] \in Nat
  BY RowFields DEF IInv, TypeOK, TakesFollowUp, Running
<1>1. /\ row' \in [Tasks -> Row] /\ \A u \in Tasks \ {t} : row'[u] = row[u]
      /\ row'[t] = [row[t] EXCEPT !.followUps = row[t].followUps + 1]
  <2>1. row[t].followUps + 1 \in 0..MaxFollowUps
    BY <1>0, TaskAssumption
  <2>2. RowWritten(t, [row[t] EXCEPT !.followUps = row[t].followUps + 1])
    BY <1>0, <2>1 DEF Row, RowWritten
  <2> QED BY <2>2, RowWrite DEF IInv
<1>2. /\ row'[t].state = "running" /\ row'[t].by = row[t].by /\ row'[t].woken = row[t].woken
      /\ row'[t].cancelSent = row[t].cancelSent /\ row'[t].followUps = row[t].followUps + 1
  BY <1>0, <1>1 DEF Row
<1>3. TypeOK'
  <2>1. accepted' \in [Tasks -> Nat]
    BY <1>0 DEF IInv, TypeOK
  <2> QED BY <1>1, <2>1 DEF IInv, TypeOK
<1>4. Rows'
  <2>1. /\ accepted'[t] = accepted[t] + 1 /\ \A u \in Tasks \ {t} : accepted'[u] = accepted[u]
        /\ UNCHANGED <<message, gone, launch>>
    BY DEF IInv, TypeOK
  <2>2. /\ message[t].state = "none" /\ ~gone
        /\ row[t].by = "" /\ row[t].followUps = accepted[t]
    BY <1>0 DEF IInv, Rows, Ends
  <2> HIDE DEF AddFollowUp
  <2> QED BY <1>1, <1>2, <2>1, <2>2 DEF IInv, Rows
<1>5. Wakes'
  <2>1. KeepsWakes
    BY <1>0, <1>1, <1>2 DEF KeepsWakes, IInv, Wakes
  <2> QED BY <2>1, WakesKeep
<1>6. WokenWasTold' /\ Stops'
  BY <1>1, <1>2 DEF IInv, WokenWasTold, Stops
<1>7. CapHeld'
  BY <1>0, <1>1, CapKeeps
<1>8. StepOK
  <2>1. Status' = Status
    BY <1>0, <1>1, <1>2 DEF Status
  <2>2. message[t].state = "none"
    BY <1>0 DEF IInv, Rows, Ends
  <2>3. EndsStep
    BY <1>1, <2>2 DEF EndsStep
  <2> QED BY <2>1, <2>3 DEF StepOK, PromiseStep
<1> QED BY <1>3, <1>4, <1>5, <1>6, <1>7, <1>8 DEF IInv

LEMMA DeleteSessionKeeps ==
  ASSUME IInv, DeleteSession
  PROVE  IInv' /\ StepOK
<1> USE DEF DeleteSession, launcher, told, clock
<1>1. /\ row' = [t \in Tasks |-> Absent] /\ message' = [t \in Tasks |-> NoMessage] /\ gone'
      /\ \A t \in Tasks : wf'[t] \in {wf[t], "closed"}
  OBVIOUS
<1>2. TypeOK'
  <2>1. row' \in [Tasks -> Row]
    BY <1>1, AbsentRow
  <2>2. message' \in [Tasks -> Message]
    BY <1>1, TaskAssumption DEF NoMessage, Message
  <2>3. wf' \in [Tasks -> {"none", "tool", "post", "wake", "endTurn", "record", "closed"}]
    BY DEF IInv, TypeOK
  <2>4. gone' \in BOOLEAN
    OBVIOUS
  <2> QED BY <2>1, <2>2, <2>3, <2>4 DEF IInv, TypeOK, Message
<1>3. Rows'
  <2>1. \A t \in Tasks : row'[t] = Absent /\ message'[t].state = "none"
    BY <1>1 DEF NoMessage
  <2>2. UNCHANGED <<launch, accepted>> /\ gone'
    OBVIOUS
  <2> HIDE DEF DeleteSession
  <2> QED BY <2>1, <2>2, AbsentFields DEF IInv, Rows, Ends
<1>4. Wakes'
  BY <1>1, AbsentFields DEF Wakes, Wakeable
<1>5. WokenWasTold' /\ Stops'
  BY <1>1, AbsentFields DEF IInv, WokenWasTold, Stops
<1>6. CapHeld'
  BY <1>1, AbsentFields, CapKeeps
<1>7. StepOK
  <2>1. Status' = [t \in Tasks |-> "none"]
    BY <1>1, AbsentFields DEF Status
  <2>2. Promise!Delete
    BY <1>1, <2>1 DEF Promise!Delete, Status
  <2> QED BY <1>1, <2>2 DEF StepOK, PromiseStep, EndsStep, Promise!Next
<1> QED BY <1>2, <1>3, <1>4, <1>5, <1>6, <1>7 DEF IInv

\* Every step keeps the invariant, and is one the promise allows.
LEMMA NextIInv == IInv /\ [Next]_vars => IInv' /\ StepOK
<1> SUFFICES ASSUME IInv, [Next]_vars PROVE IInv' /\ StepOK
  OBVIOUS
<1>1. ASSUME NEW t \in Tasks,
             \/ Turn(t) \/ ToolEnds(t) \/ TaskWorkflow(t) \/ Terminated(t)
             \/ StopRecord(t) \/ Stopping(t) \/ AddFollowUp(t) \/ Grow(t) \/ GrowEnded(t)
      PROVE  IInv' /\ StepOK
  BY <1>1, LaunchKeeps, RegisterTaskKeeps, StartTaskKeeps, DropTaskKeeps, ToolEndsKeeps,
     PostTaskResultKeeps, WakeParticipantKeeps, WakeGivenUpKeeps, TaskWokenKeeps,
     TerminatedKeeps, StopRecordKeeps, StopCancelKeeps, StopSentKeeps, AddFollowUpKeeps,
     GrowKeeps, GrowEndedKeeps
  DEF Turn, TaskWorkflow, Stopping
<1>2. CASE Sweep
  BY <1>2, SweepBeginKeeps, SweepListClosedKeeps, SweepListUnwokenKeeps, SweepDoneKeeps,
     ResendCancelKeeps, SweepKeepKeeps, EndSweptKeeps, SweepWakeEndedKeeps, SweepWakeKeeps
  DEF Sweep
<1>3. CASE SweepCut \/ DeleteSession
  BY <1>3, SweepCutKeeps, DeleteSessionKeeps
<1>4. CASE UNCHANGED vars
  <2> USE <1>4 DEF vars
  <2>1. TypeOK'
    BY DEF IInv, TypeOK
  <2>2. Rows' /\ Stops' /\ WokenWasTold'
    BY DEF IInv, Rows, Stops, WokenWasTold
  <2>3. Wakes'
    BY DEF IInv, Wakes, Wakeable
  <2>4. CapHeld'
    BY CapKeeps
  <2>5. StepOK
    BY DEF StepOK, PromiseStep, EndsStep, Status
  <2> QED BY <2>1, <2>2, <2>3, <2>4, <2>5 DEF IInv
<1> QED BY <1>1, <1>2, <1>3, <1>4 DEF Next

----------------------------------------------------------------------------
\* The rows, messages and workflows of the tasks have their types, and no
\* instruction, fault or stop passes its bound.
THEOREM TypeCorrect == Spec => []TypeOK
<1>1. IInv => TypeOK
  BY DEF IInv
<1> QED
  BY InitIInv, NextIInv, <1>1, PTL DEF Spec

\* No participant runs more than MaxRunningTasks tasks, however many of its
\* turns' launches meet (RegisterTask).
THEOREM Capped == Spec => []CapHeld
<1>1. IInv => CapHeld
  BY DEF IInv
<1> QED
  BY InitIInv, NextIInv, <1>1, PTL DEF Spec

\* A task stopped wakes nobody, whoever ended it: its workflow or the sweep
\* (PostTaskResult, endSwept, wakeTask).
THEOREM StoppedIsQuiet == Spec => []CancelledWakesNobody
<1>1. IInv => CancelledWakesNobody
  BY DEF IInv, TypeOK, Wakes, Wakeable, CancelledWakesNobody
<1> QED
  BY InitIInv, NextIInv, <1>1, PTL DEF Spec

\* A wake recorded was made, or its message has its end (SetTaskWoken).
THEOREM WokenTold == Spec => []WokenWasTold
<1>1. IInv => WokenWasTold
  BY DEF IInv
<1> QED
  BY InitIInv, NextIInv, <1>1, PTL DEF Spec

\* A stop recorded stays to be sent until its workflow was told (StopTask,
\* resendCancels).
THEOREM StopKept == Spec => []StopRemembered
<1>1. IInv => StopRemembered
  BY DEF IInv, Stops, StopRemembered
<1> QED
  BY InitIInv, NextIInv, <1>1, PTL DEF Spec

\* Every instruction accepted is in the message of its task's end
\* (AddTaskFollowUp, EndTask).
THEOREM Followed == Spec => []FollowUpsKept
<1>1. IInv => FollowUpsKept
  BY DEF IInv, Rows, FollowUpsKept
<1> QED
  BY InitIInv, NextIInv, <1>1, PTL DEF Spec

\* A task ends once, whichever of its workflow and the sweep comes first
\* (EndTask's lock).
THEOREM OneEnd == Spec => EndsOnce
<1>1. StepOK => [\A t \in Tasks : message[t].state # "none" =>
        \/ gone'
        \/ /\ message'[t] = message[t]
           /\ row'[t].state = row[t].state /\ row'[t].by = row[t].by]_vars
  BY DEF StepOK, EndsStep
<1> QED
  BY InitIInv, NextIInv, <1>1, PTL DEF Spec, EndsOnce

\* The workflow, the members' stops and the sweep together keep the promise of
\* TaskPromise.
THEOREM PromiseKept == Spec => KeepsPromise
<1>1. Init => Promise!Init
  <2> SUFFICES ASSUME Init PROVE Promise!Init
    OBVIOUS
  <2>1. \A t \in Tasks : row[t].state = "absent"
    BY AbsentFields DEF Init
  <2>2. [t \in Tasks |-> IF row[t].state = "absent" THEN "none" ELSE row[t].state]
           = [t \in Tasks |-> "none"]
    BY <2>1
  <2> QED BY <2>2 DEF Init, Promise!Init
<1>2. StepOK => [Promise!Next]_<<Status, signalled, gone>>
  BY DEF StepOK, PromiseStep
<1> QED
  BY InitIInv, NextIInv, <1>1, <1>2, PTL DEF Spec, KeepsPromise, Promise!Spec, Status

=============================================================================
