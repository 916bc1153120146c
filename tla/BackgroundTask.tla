--------------------------- MODULE BackgroundTask ---------------------------
(***************************************************************************)
(* The background tasks of a session (workflow/background.go,              *)
(* activity/task.go, store/background_task.go, session/tasks.go): a turn   *)
(* records a task, then starts its workflow; the workflow runs a tool,     *)
(* ends the task's row with its message, and wakes its participant.        *)
(* Members stop tasks; the server's sweep catches up with what a lost      *)
(* step left undone.  One action is one transaction of the store, one call *)
(* to Temporal, or what a workflow does between two of them.               *)
(***************************************************************************)
EXTENDS Integers, FiniteSets

CONSTANTS
  Tasks,         \* the tool calls launched in the background
  Agents,        \* the participants
  OwnerOf,       \* OwnerOf[t]: the participant whose turn launches t
  NoTask,        \* no task in the sweep's hand
  MaxRunning,    \* tasks one participant may run at once (MaxRunningTasks)
  MaxFollowUps,  \* instructions one task may hold (maxFollowUps)
  MaxFaults,     \* bound: calls that fail, runs terminated, sweeps cut
  MaxStops,      \* bound: stops asked for
  MayDelete      \* bound: whether the session may be deleted

ASSUME TaskAssumption ==
  /\ IsFiniteSet(Tasks)
  /\ OwnerOf \in [Tasks -> Agents]
  /\ NoTask \notin Tasks
  /\ MaxRunning \in Nat /\ MaxFollowUps \in Nat /\ MaxFaults \in Nat /\ MaxStops \in Nat
  /\ MayDelete \in BOOLEAN

VARIABLES
  row,        \* row[t]: the task's row; state "absent" when there is none
  message,    \* message[t]: its end's message; state "none" before
  launch,     \* launch[t]: where the launching turn stands
  wf,         \* wf[t]: where the task's workflow stands
  cancelReq,  \* cancelReq[t]: Temporal told the workflow to cancel
  outcome,    \* outcome[t]: how its tool ended
  stop,       \* stop[t]: where a member's StopTask stands
  sweep,      \* the sweep: its phase, the tasks listed, those seen stopped
  age,        \* age[t]: 0 young, 1 past taskSweepAge, 2 past taskStartGrace
  endAge,     \* endAge[t]: 0 just ended, 1 past taskWakeGrace, 2 past taskWakeGiveUp
  signalled,  \* tasks whose message was delivered to their participant
  turnEnds,   \* tasks whose message got an end instead
  gone,       \* the session is deleted
  faults, stopsAsked,
  accepted,   \* history: accepted[t], the instructions accepted
  unwritten   \* history: tasks whose message's end was given up

launcher == <<launch>>
workflow == <<wf, cancelReq, outcome>>
told == <<signalled, turnEnds, unwritten>>
clock == <<age, endAge>>
vars == <<row, message, launch, wf, cancelReq, outcome, stop, sweep, age, endAge, signalled,
          turnEnds, gone, faults, stopsAsked, accepted, unwritten>>

Ends == {"done", "failed", "cancelled"}

Row == [state : Ends \cup {"absent", "running"}, by : {"", "task", "sweep"},
        cancelledBy : BOOLEAN, cancelSent : BOOLEAN, woken : BOOLEAN, followUps : 0..MaxFollowUps]

Absent == [state |-> "absent", by |-> "", cancelledBy |-> FALSE, cancelSent |-> FALSE,
           woken |-> FALSE, followUps |-> 0]

NoMessage == [state |-> "none", cancelledBy |-> FALSE, followUps |-> 0]

TypeOK ==
  /\ row \in [Tasks -> Row]
  /\ message \in [Tasks -> [state : Ends \cup {"none"}, cancelledBy : BOOLEAN,
                        followUps : 0..MaxFollowUps]]
  /\ launch \in [Tasks -> {"no", "register", "start", "dropping", "over"}]
  /\ wf \in [Tasks -> {"none", "tool", "post", "wake", "endTurn", "record", "closed"}]
  /\ cancelReq \in [Tasks -> BOOLEAN]
  /\ outcome \in [Tasks -> Ends]
  /\ stop \in [Tasks -> {"no", "recorded", "sent"}]
  /\ sweep \in [phase : {"idle", "cancel", "end", "wake"}, todo : SUBSET Tasks,
                stopped : SUBSET Tasks, waking : Tasks \cup {NoTask}]
  /\ age \in [Tasks -> 0..2] /\ endAge \in [Tasks -> 0..2]
  /\ signalled \subseteq Tasks /\ turnEnds \subseteq Tasks /\ unwritten \subseteq Tasks
  /\ gone \in BOOLEAN
  /\ faults \in 0..MaxFaults /\ stopsAsked \in 0..MaxStops
  /\ accepted \in [Tasks -> Nat]

Idle == [phase |-> "idle", todo |-> {}, stopped |-> {}, waking |-> NoTask]

Init ==
  /\ row = [t \in Tasks |-> Absent]
  /\ message = [t \in Tasks |-> NoMessage]
  /\ launch = [t \in Tasks |-> "no"]
  /\ wf = [t \in Tasks |-> "none"]
  /\ cancelReq = [t \in Tasks |-> FALSE]
  /\ outcome = [t \in Tasks |-> "done"]
  /\ stop = [t \in Tasks |-> "no"]
  /\ sweep = Idle
  /\ age = [t \in Tasks |-> 0]
  /\ endAge = [t \in Tasks |-> 0]
  /\ signalled = {} /\ turnEnds = {} /\ unwritten = {}
  /\ gone = FALSE
  /\ faults = 0 /\ stopsAsked = 0
  /\ accepted = [t \in Tasks |-> 0]

Set(f, t, v) == [f EXCEPT ![t] = v]

\* A call that fails for good (past its attempts).
Fault == faults < MaxFaults /\ faults' = faults + 1

Running(t) == row[t].state = "running"
Open(t) == wf[t] \notin {"none", "closed"}

----------------------------------------------------------------------------
(* The launching turn: launch, started. *)

Launch(t) ==
  /\ launch[t] = "no"
  /\ launch' = Set(launch, t, "register")
  /\ UNCHANGED <<row, message, workflow, stop, sweep, clock, told, gone, faults, stopsAsked,
                 accepted>>

RunningOf(a) == {t \in Tasks : Running(t) /\ OwnerOf[t] = a}

\* Mutant: off by one.
RegisterRowPastCap(t) ==
  row' = IF ~gone /\ row[t].state = "absent" /\ Cardinality(RunningOf(OwnerOf[t])) <= MaxRunning
         THEN Set(row, t, [Absent EXCEPT !.state = "running"]) ELSE row

\* The transaction of RegisterTask, which holds the participant's lock: the
\* row, unless it is there, the participant is at its cap, or the session gone.
RegisterRow(t) ==
  row' = IF ~gone /\ row[t].state = "absent" /\ Cardinality(RunningOf(OwnerOf[t])) < MaxRunning
         THEN Set(row, t, [Absent EXCEPT !.state = "running"]) ELSE row

\* The turn learns what the transaction did; or not, and tries again (a row
\* that is there is left as it is), until its last attempt: it then starts
\* nothing, and a row written stays for the sweep.
RegisterTask(t) ==
  /\ launch[t] = "register"
  /\ RegisterRow(t)
  /\ \/ /\ launch' = Set(launch, t, IF row'[t].state # "absent" THEN "start" ELSE "over")
        /\ UNCHANGED faults
     \/ Fault /\ launch' \in {launch, Set(launch, t, "over")}
  /\ UNCHANGED <<message, workflow, stop, sweep, clock, told, gone, stopsAsked, accepted>>

\* The task's workflow starts; or it cannot, or the turn was terminated first.
StartTask(t) ==
  /\ launch[t] = "start"
  /\ \/ /\ launch' = Set(launch, t, "over")
        /\ wf' = Set(wf, t, "tool")
        /\ UNCHANGED faults
     \/ /\ Fault
        /\ launch' \in {Set(launch, t, "dropping"), Set(launch, t, "over")}
        /\ UNCHANGED wf
  /\ UNCHANGED <<row, message, cancelReq, outcome, stop, sweep, clock, told, gone, stopsAsked,
                 accepted>>

\* Mutant: the row goes, ended or not.
DropRowAny(t) == row' = Set(row, t, Absent)

\* Only a row still running goes.
DropRow(t) == row' = IF Running(t) THEN Set(row, t, Absent) ELSE row

\* DropTask, at its last attempt.
DropTask(t) ==
  /\ launch[t] = "dropping"
  /\ launch' = Set(launch, t, "over")
  /\ \/ DropRow(t) /\ UNCHANGED faults
     \/ Fault /\ UNCHANGED row
  /\ UNCHANGED <<message, workflow, stop, sweep, clock, told, gone, stopsAsked, accepted>>

----------------------------------------------------------------------------
(* Its end: EndTask, the first writer wins. *)

\* The row and its message, in one transaction that holds the row.  Stopped
\* too late, the task ended all the same: nobody cancelled it.
EndTask(t, by, state) ==
  IF Running(t)
  THEN LET stopped == row[t].cancelledBy /\ state = "cancelled" IN
       /\ row' = [row EXCEPT ![t].state = state, ![t].by = by, ![t].cancelledBy = stopped]
       /\ message' = Set(message, t, [state |-> state, cancelledBy |-> stopped,
                                      followUps |-> row[t].followUps])
  ELSE UNCHANGED <<row, message>>

\* Mine: the caller ended it, now or in an earlier attempt.
Mine(t, by) == row'[t].by = by

----------------------------------------------------------------------------
(* BackgroundTaskWorkflow. *)

\* The tool ends: by itself, or on the stop; a result that came with the stop
\* is a result.  Its own workflow may also have been cancelled from outside.
ToolEnds(t) ==
  /\ wf[t] = "tool"
  /\ wf' = Set(wf, t, "post")
  /\ \E o \in Ends :
       /\ outcome' = Set(outcome, t, o)
       /\ IF o = "cancelled" /\ ~cancelReq[t] THEN Fault ELSE UNCHANGED faults
  /\ UNCHANGED <<row, message, launcher, cancelReq, stop, sweep, clock, told, gone, stopsAsked,
                 accepted>>

\* The participant is woken: the end is the workflow's, and not a stop's.
ToWake(t) == Mine(t, "task") /\ row'[t].state # "cancelled"

\* PostTaskResult ended the task, or found it ended by its own earlier
\* attempt: the participant is woken, unless cancelled.  Past its attempts the
\* workflow fails, whether or not the last one wrote.
PostTaskResult(t) ==
  /\ wf[t] = "post"
  /\ \/ /\ EndTask(t, "task", outcome[t])
        /\ \/ /\ wf' = Set(wf, t, IF ToWake(t) THEN "wake" ELSE "closed")
              /\ UNCHANGED faults
           \/ Fault /\ wf' = Set(wf, t, "closed")
     \/ Fault /\ wf' = Set(wf, t, "closed") /\ UNCHANGED <<row, message>>
  /\ UNCHANGED <<launcher, cancelReq, outcome, stop, sweep, clock, told, gone, stopsAsked,
                 accepted>>

\* wakeParticipant: the relay reads the session, then signals; past its
\* attempts an end is written, the signal sent or not.
WakeParticipant(t) ==
  /\ wf[t] = "wake"
  /\ \/ /\ signalled' = IF gone THEN signalled ELSE signalled \cup {t}
        /\ wf' = Set(wf, t, "record")
        /\ UNCHANGED faults
     \/ /\ Fault
        /\ signalled' \in {signalled, signalled \cup {t}}
        /\ wf' = Set(wf, t, "endTurn")
  /\ UNCHANGED <<row, message, launcher, cancelReq, outcome, stop, sweep, clock, turnEnds,
                 unwritten, gone, stopsAsked, accepted>>

WakeGivenUp(t) ==
  /\ wf[t] = "endTurn"
  /\ wf' = Set(wf, t, "record")
  /\ \/ ~gone /\ turnEnds' = turnEnds \cup {t} /\ UNCHANGED <<faults, unwritten>>
     \/ gone /\ UNCHANGED <<turnEnds, faults, unwritten>>
     \/ Fault /\ unwritten' = unwritten \cup {t} /\ UNCHANGED turnEnds
  /\ UNCHANGED <<row, message, launcher, cancelReq, outcome, stop, sweep, clock, signalled, gone,
                 stopsAsked, accepted>>

\* SetTaskWoken: an update of the row, if it is there.
SetWoken(t) ==
  row' = IF row[t].state = "absent" THEN row ELSE [row EXCEPT ![t].woken = TRUE]

TaskWoken(t) ==
  /\ wf[t] = "record"
  /\ wf' = Set(wf, t, "closed")
  /\ \/ SetWoken(t) /\ UNCHANGED faults
     \/ Fault /\ UNCHANGED row
  /\ UNCHANGED <<message, launcher, cancelReq, outcome, stop, sweep, clock, told, gone, stopsAsked,
                 accepted>>

\* Terminated by an admin, or out of time: it closes without a word.
Terminated(t) ==
  /\ Open(t) /\ Fault
  /\ wf' = Set(wf, t, "closed")
  /\ UNCHANGED <<row, message, launcher, cancelReq, outcome, stop, sweep, clock, told, gone,
                 stopsAsked, accepted>>
----------------------------------------------------------------------------
(* The members and the agents: StopTask, when_task_done. *)

\* Mutant: the cancellation counts as sent once asked for.
SetCancelledBySent(t) == row' = [row EXCEPT ![t].cancelledBy = TRUE, ![t].cancelSent = TRUE]

SetCancelledBy(t) == row' = [row EXCEPT ![t].cancelledBy = TRUE]

\* SetTaskCancelledBy: who stops it, before its workflow is told.
StopRecord(t) ==
  /\ stop[t] = "no" /\ Running(t) /\ stopsAsked < MaxStops
  /\ stopsAsked' = stopsAsked + 1
  /\ SetCancelledBy(t)
  /\ stop' = Set(stop, t, "recorded")
  /\ UNCHANGED <<message, launcher, workflow, sweep, clock, told, gone, faults, accepted>>

\* CancelWorkflow: not found when it does not run (closed, or not started).
CancelWorkflow(t) ==
  /\ cancelReq' = IF Open(t) THEN Set(cancelReq, t, TRUE) ELSE cancelReq
  /\ stop' = Set(stop, t, IF Open(t) THEN "sent" ELSE "no")

StopCancel(t) ==
  /\ stop[t] = "recorded"
  /\ \/ CancelWorkflow(t) /\ UNCHANGED faults
     \/ Fault /\ stop' = Set(stop, t, "no") /\ UNCHANGED cancelReq
  /\ UNCHANGED <<row, message, launcher, wf, outcome, sweep, clock, told, gone, stopsAsked,
                 accepted>>

\* SetTaskCancelSent.
SetCancelSent(t) ==
  row' = IF row[t].state = "absent" THEN row ELSE [row EXCEPT ![t].cancelSent = TRUE]

StopSent(t) ==
  /\ stop[t] = "sent"
  /\ stop' = Set(stop, t, "no")
  /\ \/ SetCancelSent(t) /\ UNCHANGED faults
     \/ Fault /\ UNCHANGED row
  /\ UNCHANGED <<message, launcher, workflow, sweep, clock, told, gone, stopsAsked, accepted>>

\* Mutant: the state not read under the lock.
TakesFollowUpEnded(t) == row[t].state # "absent" /\ row[t].followUps < MaxFollowUps

TakesFollowUp(t) == Running(t) /\ row[t].followUps < MaxFollowUps

\* AddTaskFollowUp: under the row's lock, a task still running only.
AddFollowUp(t) ==
  /\ TakesFollowUp(t)
  /\ row' = [row EXCEPT ![t].followUps = @ + 1]
  /\ accepted' = Set(accepted, t, accepted[t] + 1)
  /\ UNCHANGED <<message, launcher, workflow, stop, sweep, clock, told, gone, faults, stopsAsked>>

----------------------------------------------------------------------------
(* SweepTasks: resendCancels, endClosedTasks, the wakes left. *)

\* ListTasksToCancel.
SweepBegin ==
  /\ sweep.phase = "idle"
  /\ sweep' = [Idle EXCEPT !.phase = "cancel",
                           !.todo = {t \in Tasks : Running(t) /\ row[t].cancelledBy
                                                   /\ ~row[t].cancelSent}]
  /\ UNCHANGED <<row, message, launcher, workflow, stop, clock, told, gone, faults, stopsAsked,
                 accepted>>

\* The next task of the list.
Took(t, phase) ==
  /\ sweep.phase = phase /\ t \in sweep.todo /\ sweep.waking = NoTask
  /\ sweep' = [sweep EXCEPT !.todo = @ \ {t}]

ResendCancel(t) ==
  /\ Took(t, "cancel")
  /\ \/ /\ Open(t)
        /\ cancelReq' = Set(cancelReq, t, TRUE)
        /\ \/ SetCancelSent(t) /\ UNCHANGED faults
           \/ Fault /\ UNCHANGED row
     \/ ~Open(t) /\ UNCHANGED <<row, cancelReq, faults>>
     \/ Fault /\ UNCHANGED <<row, cancelReq>>
  /\ UNCHANGED <<message, launcher, wf, outcome, stop, clock, told, gone, stopsAsked, accepted>>

\* ListTasksRunningSince: the rows as they are now, who stopped them included.
SweepListClosed ==
  /\ sweep.phase = "cancel" /\ sweep.todo = {}
  /\ LET old == {t \in Tasks : Running(t) /\ age[t] >= 1} IN
       sweep' = [Idle EXCEPT !.phase = "end", !.todo = old,
                             !.stopped = {t \in old : row[t].cancelledBy}]
  /\ UNCHANGED <<row, message, launcher, workflow, stop, clock, told, gone, faults, stopsAsked,
                 accepted>>

\* Mutant: a task unknown to Temporal is left running.
TaskClosedKnown(t) == wf[t] = "closed"

\* taskClosed: closed, or unknown to Temporal past taskStartGrace.
TaskClosed(t) == wf[t] = "closed" \/ (wf[t] = "none" /\ age[t] = 2)

SweepKeep(t) ==
  /\ Took(t, "end")
  /\ ~TaskClosed(t)
  /\ UNCHANGED <<row, message, launcher, workflow, stop, clock, told, gone, faults, stopsAsked,
                 accepted>>

\* endSwept: cancelled if the row listed said stopped, else failed, and then
\* its participant is woken; nothing when its workflow ended it meanwhile.
EndSwept(t) ==
  LET state == IF t \in sweep.stopped THEN "cancelled" ELSE "failed" IN
  /\ sweep.phase = "end" /\ t \in sweep.todo /\ sweep.waking = NoTask
  /\ TaskClosed(t)
  /\ EndTask(t, "sweep", state)
  /\ sweep' = [sweep EXCEPT !.todo = @ \ {t},
                            !.waking = IF Mine(t, "sweep") /\ state # "cancelled"
                                       THEN t ELSE NoTask]
  /\ UNCHANGED <<launcher, workflow, stop, clock, told, gone, faults, stopsAsked, accepted>>

\* Mutant: the failed are taken for woken.
UnwokenDone(t) == row[t].state = "done" /\ ~row[t].woken /\ endAge[t] >= 1

\* ListTasksToWake.
Unwoken(t) == row[t].state \in {"done", "failed"} /\ ~row[t].woken /\ endAge[t] >= 1

SweepListUnwoken ==
  /\ sweep.phase = "end" /\ sweep.todo = {} /\ sweep.waking = NoTask
  /\ sweep' = [Idle EXCEPT !.phase = "wake",
                           !.todo = {t \in Tasks : Unwoken(t)}]
  /\ UNCHANGED <<row, message, launcher, workflow, stop, clock, told, gone, faults, stopsAsked,
                 accepted>>

\* Mutant: a wake that failed is recorded all the same.
WakeFailedForgotten(t) == SetWoken(t) /\ UNCHANGED turnEnds

\* A wake that fails is tried again at the next sweep, until taskWakeGiveUp:
\* the message then gets an end, if it can be written, and the wake is
\* recorded, if that can.
WakeFailed(t) ==
  \/ UNCHANGED <<row, turnEnds>>
  \/ endAge[t] = 2 /\ turnEnds' = turnEnds \cup {t} /\ (SetWoken(t) \/ UNCHANGED row)

\* wakeTask: the session read, the signal, the wake recorded.
WakeTask(t) ==
  \/ gone /\ UNCHANGED <<row, faults, told>>
  \/ /\ ~gone
     /\ signalled' = signalled \cup {t}
     /\ \/ SetWoken(t) /\ UNCHANGED faults
        \/ Fault /\ UNCHANGED row
     /\ UNCHANGED <<turnEnds, unwritten>>
  \/ /\ ~gone /\ Fault /\ WakeFailed(t)
     /\ signalled' \in {signalled, signalled \cup {t}}
     /\ UNCHANGED unwritten

SweepWakeEnded(t) ==
  /\ sweep.waking = t
  /\ sweep' = [sweep EXCEPT !.waking = NoTask]
  /\ WakeTask(t)
  /\ UNCHANGED <<message, launcher, workflow, stop, clock, gone, stopsAsked, accepted>>

SweepWake(t) ==
  /\ Took(t, "wake")
  /\ WakeTask(t)
  /\ UNCHANGED <<message, launcher, workflow, stop, clock, gone, stopsAsked, accepted>>

SweepDone ==
  /\ sweep.phase = "wake" /\ sweep.todo = {}
  /\ sweep' = Idle
  /\ UNCHANGED <<row, message, launcher, workflow, stop, clock, told, gone, faults, stopsAsked,
                 accepted>>

\* Its 30 seconds spent, or the server stopped: what it held is forgotten,
\* the members' stops under way too when the server stopped.
SweepCut ==
  /\ sweep.phase # "idle" /\ Fault
  /\ sweep' = Idle
  /\ stop' \in {stop, [t \in Tasks |-> "no"]}
  /\ UNCHANGED <<row, message, launcher, workflow, clock, told, gone, stopsAsked, accepted>>

----------------------------------------------------------------------------
(* Time, and the session's deletion. *)

Grow(t) ==
  /\ Running(t) /\ age[t] < 2
  /\ age' = Set(age, t, age[t] + 1)
  /\ UNCHANGED <<row, message, launcher, workflow, stop, sweep, endAge, told, gone, faults,
                 stopsAsked, accepted>>

GrowEnded(t) ==
  /\ row[t].state \in Ends /\ endAge[t] < 2
  /\ endAge' = Set(endAge, t, endAge[t] + 1)
  /\ UNCHANGED <<row, message, launcher, workflow, stop, sweep, age, told, gone, faults,
                 stopsAsked, accepted>>

\* Delete: the tasks the store says run are terminated, with others the
\* visibility lists; then the rows and the messages go with the session.
DeleteSession ==
  /\ MayDelete /\ ~gone
  /\ gone' = TRUE
  /\ \E S \in SUBSET {t \in Tasks : Open(t)} :
       /\ {t \in Tasks : Open(t) /\ Running(t)} \subseteq S
       /\ wf' = [t \in Tasks |-> IF t \in S THEN "closed" ELSE wf[t]]
  /\ row' = [t \in Tasks |-> Absent]
  /\ message' = [t \in Tasks |-> NoMessage]
  /\ UNCHANGED <<launcher, cancelReq, outcome, stop, sweep, clock, told, faults, stopsAsked,
                 accepted>>

----------------------------------------------------------------------------
Turn(t) == Launch(t) \/ RegisterTask(t) \/ StartTask(t) \/ DropTask(t)

TaskWorkflow(t) ==
  PostTaskResult(t) \/ WakeParticipant(t) \/ WakeGivenUp(t) \/ TaskWoken(t)

Stopping(t) == StopCancel(t) \/ StopSent(t)

Sweep ==
  \/ SweepBegin \/ SweepListClosed \/ SweepListUnwoken \/ SweepDone
  \/ \E t \in Tasks : ResendCancel(t) \/ SweepKeep(t) \/ EndSwept(t) \/ SweepWakeEnded(t)
                      \/ SweepWake(t)

Next ==
  \/ \E t \in Tasks :
       \/ Turn(t) \/ ToolEnds(t) \/ TaskWorkflow(t) \/ Terminated(t)
       \/ StopRecord(t) \/ Stopping(t) \/ AddFollowUp(t)
       \/ Grow(t) \/ GrowEnded(t)
  \/ Sweep \/ SweepCut \/ DeleteSession

\* Workers and the server run, time passes; a cancelled tool ends.
Fairness ==
  /\ \A t \in Tasks : /\ WF_vars(RegisterTask(t)) /\ WF_vars(StartTask(t)) /\ WF_vars(DropTask(t))
                      /\ WF_vars(TaskWorkflow(t))
                      /\ WF_vars(cancelReq[t] /\ ToolEnds(t))
                      /\ WF_vars(Grow(t)) /\ WF_vars(GrowEnded(t))
  /\ WF_vars(Sweep)

Spec == Init /\ [][Next]_vars /\ Fairness

----------------------------------------------------------------------------
(* Properties. *)

\* A participant never runs more tasks than its cap, whatever is launched at
\* once (RegisterTask's lock).
CapHeld == \A a \in Agents : Cardinality(RunningOf(a)) <= MaxRunning

\* A task stopped wakes nobody: a message delivered is one of a task that
\* ended by itself, whoever wrote its end (the workflow or the sweep).
CancelledWakesNobody ==
  ~gone => \A t \in signalled : row[t].state \in {"done", "failed"}

\* A wake recorded as done with was delivered, or its message has its end (or
\* that end was given up, logged): the sweep may forget it.
WokenWasTold ==
  \A t \in Tasks : row[t].woken => t \in signalled \cup turnEnds \cup unwritten

\* A stop a member recorded is never forgotten: while its workflow runs
\* untold, the row still says so to the sweep, or the member's call goes on.
StopRemembered ==
  \A t \in Tasks : (Running(t) /\ row[t].cancelledBy /\ wf[t] = "tool" /\ ~cancelReq[t])
                      => ~row[t].cancelSent

\* An instruction accepted is in the message of the task's end.
FollowUpsKept ==
  \A t \in Tasks : message[t].state # "none" => message[t].followUps = accepted[t]

\* A task ends once: its row and its message are written together and stay,
\* until the session goes.
EndsOnce ==
  [][\A t \in Tasks : message[t].state # "none" =>
        \/ gone'
        \/ /\ message'[t] = message[t]
           /\ row'[t].state = row[t].state /\ row'[t].by = row[t].by]_vars

\* The rows, the deliveries and the deletion, as the promise names them.
Promise ==
  INSTANCE TaskPromise WITH
    status <- [t \in Tasks |-> IF row[t].state = "absent" THEN "none" ELSE row[t].state],
    told <- signalled,
    deleted <- gone

\* The tasks keep their promise: recorded, ended once, told of only once ended
\* by themselves, whatever fails on the way and whoever ends them.
KeepsPromise == Promise!Spec

\* A task recorded ends (or is dropped with its session, or never started),
\* unless its tool still runs, whatever was lost around it.
EveryTaskEnds == \A t \in Tasks : Running(t) ~> (~Running(t) \/ wf[t] = "tool")

\* A task a member stopped ends, however its cancellation got lost, even
\* when its tool would have run for ever.
StopEnds == \A t \in Tasks : (Running(t) /\ row[t].cancelledBy) ~> ~Running(t)

\* The end of a task not stopped reaches its participant, or gets an end.
EveryEndWakes ==
  \A t \in Tasks : row[t].state \in {"done", "failed"} ~> (row[t].woken \/ gone)

=============================================================================
