------------------------------ MODULE AgentTurn ------------------------------
(* One run of an agent (workflow/agent.go): its loop of model calls and tool *)
(* calls, what it writes of it and when, the route of its model calls to the *)
(* server's key or to the author's machines (workflow/agent_llm.go), and the *)
(* write its participant makes of it again at its end. A step is what the    *)
(* workflow does between two blocking points, named by pc; a stop may come   *)
(* at any of them.                                                           *)
EXTENDS Naturals, Sequences, FiniteSets

CONSTANTS
    Machines,        \* the author's machines that may run a model
    None,            \* no machine: the server's key
    MaxIterations,   \* maxReActIterations
    Attempts,        \* machineLLMAttempts
    MaxCalls,        \* tool calls of one answer of the model
    MaxFaults        \* failures of the environment

ASSUME ConstantsOK ==
    /\ None \notin Machines
    /\ MaxIterations \in Nat \ {0} /\ Attempts \in Nat \ {0}
    /\ MaxCalls \in Nat /\ MaxFaults \in Nat

VARIABLES
    cfg,        \* what the run was started with
    pc,         \* the blocking point the workflow is at
    then,       \* where the write under way goes on
    shield,     \* the write under way is on a context disconnected from the run's
    turn,       \* the messages of the run, in order
    persisted,  \* how many of them the run knows written
    rows,       \* the indices written, in the store
    late,       \* writes given up whose attempt may still commit
    route,      \* llmRoute: machine, excluded, unreached
    attempt,    \* the attempt of the step's call on a machine
    step,       \* the iteration of the loop
    futs,       \* the futures of the step's tool calls
    got,        \* how many of their results are in turn
    mach,       \* the machines: row and connection
    seen,       \* what the last model call read of the turn: the indices, in order
    asked,      \* how long the turn was when that call was made
    replied,    \* the step's call was answered
    where,      \* the places the run called its model at
    stopped,    \* the run's context is cancelled
    out,        \* how the run ended
    faults

vars == <<cfg, pc, then, shield, turn, persisted, rows, late, route, attempt, step,
          futs, got, mach, seen, asked, replied, where, stopped, out, faults>>
store == <<turn, persisted, rows, late>>
talk == <<seen, asked, replied, where>>
tools == <<futs, got>>
writing == <<then, shield>>

\* A message: the user's (a sub-agent's task), an assistant's with n tool
\* calls, the result of one of them, or the answer.
Entry(k, n) == [k |-> k, n |-> n]

\* The tools a model may call: one that is not allowed to the agent or whose
\* input is refused, one run by an activity, by a child workflow, another
\* agent, a question to the user, a background task.
Kinds == {"refused", "activity", "workflow", "agent", "ask", "background"}

\* The modes of an agent's model, and the runs it is called in: a session's
\* turn, a sub-agent's, a schedule's.
Modes == {"never", "prefer", "require"}
Runs == {"session", "sub", "scheduled"}

\* What AgentWorkflowInput and its worker give: excluded and machine are a
\* parent's; gateway, whether the worker reaches the machines; off, whether
\* the installation has none; deep, whether its chain may go no further.
Configs ==
    {c \in [mode : Modes, run : Runs, excluded : SUBSET Machines, machine : Machines \cup {None},
            gateway : BOOLEAN, off : BOOLEAN, deep : BOOLEAN] :
        /\ c.machine \notin c.excluded
        /\ c.run # "sub" => c.excluded = {} /\ c.machine = None /\ ~c.deep
        /\ c.off => c.excluded = {} /\ c.machine = None
        /\ c.mode = "never" \/ c.run = "scheduled" => c.gateway /\ ~c.off}

Session == cfg.run = "session"

Entries == [k : {"user", "calls", "result", "answer"}, n : Nat]

TypeOK ==
    /\ cfg \in Configs
    /\ pc \in {"skills", "tools", "choose", "top", "server", "machine", "hand", "pending",
               "aside", "wait", "gather", "flush", "rewrite", "over"}
    /\ then \in {"top", "rewrite"} /\ shield \in BOOLEAN
    /\ turn \in Seq(Entries)
    /\ persisted \in 0 .. Len(turn)
    /\ rows \subseteq 1 .. Len(turn)
    /\ late \subseteq SUBSET (1 .. Len(turn))
    /\ route \in [machine : Machines \cup {None}, excluded : SUBSET Machines, unreached : SUBSET Machines]
    /\ route.unreached \subseteq route.excluded
    /\ attempt \in 0 .. Attempts /\ step \in 0 .. MaxIterations
    /\ futs \in Seq({"open", "asking", "done"}) /\ got \in 0 .. Len(futs)
    /\ mach \in [Machines -> [linked : BOOLEAN, seen : BOOLEAN, offered : BOOLEAN, key : BOOLEAN, aside : BOOLEAN]]
    /\ seen \in Seq(Nat) /\ asked \in Nat
    /\ replied \in BOOLEAN /\ where \subseteq Machines \cup {None}
    /\ stopped \in BOOLEAN
    /\ out \in {"none", "cancelled", "failed", "answered", "exhausted", "refused", "error"}
    /\ faults \in 0 .. MaxFaults

-----------------------------------------------------------------------------
Init ==
    /\ cfg \in Configs
    /\ pc = "skills" /\ then = "top" /\ shield = FALSE
    /\ turn = IF Session THEN <<>> ELSE <<Entry("user", 0)>>
    /\ persisted = 0 /\ rows = {} /\ late = {}
    /\ route = [machine |-> None, excluded |-> cfg.excluded, unreached |-> {}]
    /\ attempt = 0 /\ step = 0 /\ futs = <<>> /\ got = 0
    /\ mach = [m \in Machines |-> [linked |-> TRUE, seen |-> TRUE, offered |-> TRUE, key |-> TRUE, aside |-> FALSE]]
    /\ seen = <<>> /\ asked = 0 /\ replied = FALSE /\ where = {}
    /\ stopped = FALSE /\ out = "none" /\ faults = 0

Fault == faults < MaxFaults /\ faults' = faults + 1

\* An activity of the run fails: at the price of a fault, or because the run
\* was cancelled while it was under way.
Failing == (stopped /\ UNCHANGED faults) \/ Fault

-----------------------------------------------------------------------------
(* The writes: flush, cancelSafeFlush, and the participant's own.           *)

\* cancelSafeFlush: what is not known written is, on a disconnected context
\* once the run is cancelled; a run outside a session's turn writes nothing.
FlushThen(t, next) ==
    IF Session /\ persisted < Len(t)
    THEN pc' = "flush" /\ then' = next /\ shield' = stopped
    ELSE pc' = next /\ UNCHANGED writing

\* The end of a run: its last write, then its participant's.
EndWith(o, t) == out' = o /\ FlushThen(t, "rewrite")

\* An end that leaves the last write to the participant.
EndBare(o) == out' = o /\ pc' = "rewrite" /\ UNCHANGED writing

Pending == persisted + 1 .. Len(turn)

\* AppendMessages: one transaction, keys already there left as they are.
AppendMessages(idx) == rows' = rows \cup idx

PersistContext ==
    /\ pc = "flush"
    /\ AppendMessages(Pending)
    /\ persisted' = Len(turn)
    /\ pc' = then
    /\ UNCHANGED <<cfg, then, shield, turn, late, route, attempt, step, tools, mach, talk, stopped, out, faults>>

\* Mutant: A write that failed is counted as made.
FlushFailsCounted ==
    /\ pc = "flush"
    /\ \/ Fault
       \/ stopped /\ ~shield /\ UNCHANGED faults
    /\ \/ AppendMessages(Pending) /\ UNCHANGED late
       \/ UNCHANGED <<rows, late>>
       \/ late' = late \cup {Pending} /\ UNCHANGED rows
    /\ pc' = then
    /\ persisted' = Len(turn)
    /\ UNCHANGED <<cfg, then, shield, turn, route, attempt, step, tools, mach, talk, stopped, out>>

\* Its attempts are used up, or it is cancelled: the rows may be there, or
\* come later, and the run goes on as if they were not.
FlushFails ==
    /\ pc = "flush"
    /\ \/ Fault
       \/ stopped /\ ~shield /\ UNCHANGED faults
    /\ \/ AppendMessages(Pending) /\ UNCHANGED late
       \/ UNCHANGED <<rows, late>>
       \/ late' = late \cup {Pending} /\ UNCHANGED rows
    /\ pc' = then
    /\ UNCHANGED <<cfg, then, shield, turn, persisted, route, attempt, step, tools, mach, talk, stopped, out>>

LateWrite ==
    \E idx \in late :
        /\ late' = late \ {idx}
        /\ AppendMessages(idx)
        /\ UNCHANGED <<cfg, pc, writing, turn, persisted, route, attempt, step, tools, mach, talk, stopped, out, faults>>

\* Mutant: A cancelled run returns its cancellation, with no messages.
RewriteUnlessStopped ==
    /\ pc = "rewrite"
    /\ IF Session /\ out \notin {"refused", "error"} /\ ~stopped
       THEN AppendMessages(1 .. Len(turn))
       ELSE UNCHANGED rows
    /\ pc' = "over"
    /\ UNCHANGED <<cfg, writing, turn, persisted, late, route, attempt, step, tools, mach, talk, stopped, out, faults>>

\* The participant writes the run's messages again, all of them, then its end.
Rewrite ==
    /\ pc = "rewrite"
    /\ IF Session /\ out \notin {"refused", "error"}
       THEN AppendMessages(1 .. Len(turn))
       ELSE UNCHANGED rows
    /\ pc' = "over"
    /\ UNCHANGED <<cfg, writing, turn, persisted, late, route, attempt, step, tools, mach, talk, stopped, out, faults>>

RewriteFails ==
    /\ pc = "rewrite" /\ Session /\ Fault
    /\ pc' = "over"
    /\ UNCHANGED <<cfg, writing, store, route, attempt, step, tools, mach, talk, stopped, out>>

-----------------------------------------------------------------------------
(* The start of a run.                                                      *)

LoadSkills ==
    /\ pc = "skills"
    /\ pc' = "tools"
    /\ UNCHANGED <<cfg, writing, store, route, attempt, step, tools, mach, talk, stopped, out, faults>>

\* LoadSkills or ListTools fails, or is cancelled: nothing was written.
StartFails ==
    /\ pc \in {"skills", "tools"} /\ Failing
    /\ EndBare(IF stopped THEN "cancelled" ELSE "error")
    /\ UNCHANGED <<cfg, store, route, attempt, step, tools, mach, talk, stopped>>

\* startLLMRoute: the server's key, the parent's machine, or a choice.
Routed == cfg.mode # "never" /\ cfg.run # "scheduled"

StartLLMRoute ==
    IF Routed /\ cfg.machine = None
    THEN pc' = "choose" /\ UNCHANGED route
    ELSE pc' = "top" /\ route' = [route EXCEPT !.machine = IF Routed THEN cfg.machine ELSE None]

ListTools ==
    /\ pc = "tools"
    /\ StartLLMRoute
    /\ UNCHANGED <<cfg, writing, store, attempt, step, tools, mach, talk, stopped, out, faults>>

AgentNotOpen ==
    /\ pc = "tools"
    /\ EndBare("refused")
    /\ UNCHANGED <<cfg, store, route, attempt, step, tools, mach, talk, stopped, faults>>

-----------------------------------------------------------------------------
(* The route of the model: llmRoute.                                        *)

\* llmUnavailable, from the machine's row: what it looks like may be late.
Available(m) == mach[m].seen /\ mach[m].offered /\ ~mach[m].aside

\* ChooseLLMMachine: the priorities and loads that choose among them are the
\* author's and the other runs'.
ChooseLLMMachine(excluded) == {m \in Machines \ excluded : Available(m)}

\* Where a call goes on once a machine was found: the first of the run, or
\* another attempt of the step (attempt > 0), the last one's excepted.
GoOn ==
    IF attempt = 0 THEN pc' = "top" /\ UNCHANGED <<writing, attempt, out>>
    ELSE IF attempt < Attempts
    THEN pc' = "machine" /\ attempt' = attempt + 1 /\ UNCHANGED <<writing, out>>
    ELSE EndWith(IF stopped THEN "cancelled" ELSE "failed", turn) /\ UNCHANGED attempt

ChooseMachine ==
    /\ pc = "choose" /\ ~cfg.off
    /\ \E m \in ChooseLLMMachine(route.excluded) :
        /\ route' = [route EXCEPT !.machine = m]
        /\ GoOn
    /\ UNCHANGED <<cfg, store, step, tools, mach, talk, stopped, faults>>

\* noMachine's error, for a run that requires one; cancelled, it has none, and
\* a call in its step takes that for an answer, an empty one.
NoMachine ==
    IF stopped THEN IF attempt = 0 THEN EndBare("cancelled") ELSE EndWith("answered", turn)
    ELSE EndWith("failed", turn)

ChooseNone ==
    /\ pc = "choose"
    /\ \/ Failing
       \/ cfg.off /\ UNCHANGED faults
       \/ ChooseLLMMachine(route.excluded) = {} /\ UNCHANGED faults
    /\ route' = [route EXCEPT !.machine = None]
    /\ IF cfg.mode = "require" THEN NoMachine
       ELSE IF stopped THEN EndBare("cancelled")
       ELSE pc' = "top" /\ UNCHANGED <<writing, out>>
    /\ UNCHANGED <<cfg, store, attempt, step, tools, mach, talk, stopped>>

\* The top of the loop.
LoopTop ==
    /\ pc = "top"
    /\ \/ /\ step = MaxIterations
          /\ EndWith("exhausted", turn) /\ UNCHANGED attempt
       \/ /\ step < MaxIterations /\ stopped
          /\ EndWith("cancelled", turn) /\ UNCHANGED attempt
       \/ /\ step < MaxIterations /\ ~stopped
          /\ pc' = (IF route.machine = None THEN "server" ELSE "machine")
          /\ attempt' = 1
          /\ UNCHANGED <<writing, out>>
    /\ replied' = FALSE
    /\ UNCHANGED <<cfg, store, route, step, tools, mach, seen, asked, where, stopped, faults>>

-----------------------------------------------------------------------------
(* A call to the model.                                                     *)

\* conversation: the turn's rows, in their order, then what the run holds
\* from TailStart on and the store does not.
Sorted(S) == [i \in 1 .. Cardinality(S) |-> CHOOSE x \in S : Cardinality({y \in S : y <= x}) = i]

\* Mutant: The tail is added without a look at the keys.
ConversationTwice == IF Session THEN Sorted(rows) \o Sorted(Pending) ELSE Sorted(1 .. Len(turn))

Conversation == IF Session THEN Sorted(rows) \o Sorted(Pending \ rows) ELSE Sorted(1 .. Len(turn))

BuildRequest(m) ==
    /\ seen' = Conversation
    /\ asked' = Len(turn)
    /\ where' = where \cup {m}

\* delegationRefusal: the chain is at its depth, or holds the agent already.
DelegationRefused(k) == k = "agent" /\ cfg.deep

\* A tool call's future once dispatched: a call refused is settled at once, a
\* delegation and a background task outside a session's turn too.
Dispatched(k) ==
    IF k = "refused" \/ DelegationRefused(k) \/ (k = "background" /\ ~Session) THEN "done"
    ELSE IF k = "ask" THEN "asking" ELSE "open"

\* The model's answer: the run's end, or calls to dispatch.
Answered ==
    \/ \E t \in {turn, Append(turn, Entry("answer", 0))} :
        /\ turn' = t
        /\ EndWith("answered", t)
        /\ UNCHANGED tools
    \/ \E n \in 1 .. MaxCalls : \E ks \in [1 .. n -> Kinds] :
        /\ turn' = Append(turn, Entry("calls", n))
        /\ futs' = [j \in 1 .. n |-> Dispatched(ks[j])]
        /\ got' = 0
        /\ pc' = "gather"
        /\ UNCHANGED <<writing, out>>

\* CallLLM, on the server's key: its attempts read the conversation anew.
CallLLM ==
    /\ pc = "server"
    /\ BuildRequest(None)
    /\ Answered
    /\ replied' = TRUE
    /\ UNCHANGED <<cfg, persisted, rows, late, route, attempt, step, mach, stopped, faults>>

\* It fails for good: refused, too long, its attempts used up, or cancelled.
CallFails ==
    /\ pc = "server" /\ Failing
    /\ EndWith(IF stopped THEN "cancelled" ELSE "failed", turn)
    /\ UNCHANGED <<cfg, store, route, attempt, step, tools, mach, talk, stopped>>

\* machineFailure: a failure of the call that stops the run (final), of the
\* worker, of the machine (set aside, lost, unreached or refusing), or passing.
OnServer == pc' = "server" /\ route' = [route EXCEPT !.machine = None] /\ UNCHANGED <<writing, out>>
Stops == EndWith("failed", turn) /\ UNCHANGED route

Final == Stops

\* Mutant: The server's key whatever the mode.
WorkerCannotAnyMode == OnServer

WorkerCannot == IF cfg.mode = "require" THEN Stops ELSE OnServer

Exclude(unreached) ==
    [route EXCEPT !.machine = IF cfg.mode = "require" THEN @ ELSE None,
                  !.excluded = @ \cup {route.machine},
                  !.unreached = IF unreached THEN @ \cup {route.machine} ELSE @]

Excluding(unreached) ==
    /\ route' = Exclude(unreached)
    /\ pc' = (IF cfg.mode = "require" THEN "choose" ELSE "server")
    /\ UNCHANGED <<writing, out>>

MachineLost(kind) ==
    IF kind = "aside" THEN pc' = "aside" /\ UNCHANGED <<writing, out, route>>
    ELSE Excluding(kind = "unreached")

Passing ==
    IF attempt < Attempts THEN pc' = "wait" /\ UNCHANGED <<writing, out, route>>
    ELSE IF cfg.mode = "require" THEN Stops ELSE OnServer

MachineFailure(kind) ==
    IF stopped THEN EndWith("cancelled", turn) /\ UNCHANGED route
    ELSE CASE kind = "final" -> Final
           [] kind = "worker" -> WorkerCannot
           [] kind = "passing" -> Passing
           [] OTHER -> MachineLost(kind)

\* SetMachineAside, best effort, before the machine is excluded.
SetMachineAside ==
    /\ pc = "aside"
    /\ \/ mach' = [mach EXCEPT ![route.machine].aside = TRUE] /\ UNCHANGED faults
       \/ Failing /\ UNCHANGED mach
    /\ Excluding(FALSE)
    /\ UNCHANGED <<cfg, store, attempt, step, tools, talk, stopped>>

\* Mutant: A wait that counts no attempt.
RetryWaitForever ==
    /\ pc = "wait"
    /\ \/ stopped /\ EndWith("cancelled", turn) /\ UNCHANGED attempt
       \/ ~stopped /\ pc' = "machine" /\ attempt' = attempt /\ UNCHANGED <<writing, out>>
    /\ UNCHANGED <<cfg, store, route, step, tools, mach, talk, stopped, faults>>

\* The wait before another attempt.
RetryWait ==
    /\ pc = "wait"
    /\ \/ stopped /\ EndWith("cancelled", turn) /\ UNCHANGED attempt
       \/ ~stopped /\ pc' = "machine" /\ attempt' = attempt + 1 /\ UNCHANGED <<writing, out>>
    /\ UNCHANGED <<cfg, store, route, step, tools, mach, talk, stopped, faults>>

\* CallLLMOnMachine's failures before the call is handed over, with their kinds:
\* no gateway, too long, its store or catalog away, the machine no longer one
\* to call, or full of the other runs' calls.
NotCreated ==
    /\ pc = "machine"
    /\ \/ ~cfg.gateway /\ MachineFailure("worker") /\ UNCHANGED faults
       \/ cfg.gateway /\ Fault /\ \E k \in {"final", "passing"} : MachineFailure(k)
       \/ cfg.gateway /\ ~Available(route.machine) /\ MachineFailure("refused") /\ UNCHANGED faults
       \/ cfg.gateway /\ Available(route.machine) /\ MachineFailure("passing") /\ UNCHANGED faults
    /\ UNCHANGED <<cfg, store, attempt, step, tools, mach, talk, stopped>>

CreateLLMDirective ==
    /\ pc = "machine" /\ cfg.gateway /\ Available(route.machine)
    /\ BuildRequest(route.machine)
    /\ pc' = "hand"
    /\ UNCHANGED <<cfg, writing, store, route, attempt, step, tools, mach, replied, stopped, out, faults>>

DeliverLLM ==
    /\ pc = "hand" /\ mach[route.machine].linked
    /\ pc' = "pending"
    /\ UNCHANGED <<cfg, writing, store, route, attempt, step, tools, mach, talk, stopped, out, faults>>

\* Not connected, or the server is away; what was handed is left to itself.
NotHanded ==
    /\ pc = "hand"
    /\ \/ ~mach[route.machine].linked /\ MachineFailure("aside") /\ UNCHANGED faults
       \/ Fault /\ MachineFailure("unreached")
    /\ UNCHANGED <<cfg, store, attempt, step, tools, mach, talk, stopped>>

Model == route.machine

\* The machine's model answers, and its result completes the call.
ModelAnswers ==
    /\ pc = "pending" /\ mach[Model].linked /\ mach[Model].key
    /\ Answered
    /\ replied' = TRUE
    /\ UNCHANGED <<cfg, persisted, rows, late, route, attempt, step, mach, seen, asked, where, stopped, faults>>

\* It fails: too long or refused for good, its key refused (from then on the
\* machine refuses its calls), or for a while.
ModelFails ==
    /\ pc = "pending" /\ mach[Model].linked /\ mach[Model].key
    /\ \/ Fault /\ MachineFailure("final") /\ mach' \in {mach, [mach EXCEPT ![Model].key = FALSE]}
       \/ MachineFailure("passing") /\ UNCHANGED <<mach, faults>>
    /\ UNCHANGED <<cfg, store, attempt, step, tools, talk, stopped>>

ModelRefuses ==
    /\ pc = "pending" /\ mach[Model].linked /\ ~mach[Model].key
    /\ MachineFailure("refused")
    /\ UNCHANGED <<cfg, store, attempt, step, tools, mach, talk, stopped, faults>>

\* The call ends with its machine gone: stopped or revoked, its heartbeats
\* missed, or lost by the machine that comes back without it.
CallLost ==
    /\ pc = "pending"
    /\ \/ ~mach[Model].linked /\ MachineFailure("aside")
       \/ mach[Model].linked /\ MachineFailure("lost")
    /\ UNCHANGED <<cfg, store, attempt, step, tools, mach, talk, stopped, faults>>

-----------------------------------------------------------------------------
(* The tool calls of a step.                                                *)

\* A call's future settles: with its result, its failure, or the run's stop.
ToolEnds(j) ==
    /\ pc = "gather" /\ futs[j] = "open"
    /\ futs' = [futs EXCEPT ![j] = "done"]
    /\ UNCHANGED <<cfg, pc, writing, store, route, attempt, step, got, mach, talk, stopped, out, faults>>

\* A question's: with the answer signalled, its timer, the user not told of
\* it, or the run's stop.
AskUser(j) ==
    /\ pc = "gather" /\ futs[j] = "asking"
    /\ futs' = [futs EXCEPT ![j] = "done"]
    /\ UNCHANGED <<cfg, pc, writing, store, route, attempt, step, got, mach, talk, stopped, out, faults>>

\* The results are appended in the calls' order, then written together.
Gather ==
    /\ pc = "gather" /\ got < Len(futs) /\ futs[got + 1] = "done"
    /\ LET t == Append(turn, Entry("result", 0)) IN
        /\ turn' = t
        /\ got' = got + 1
        /\ IF got' = Len(futs)
           THEN step' = step + 1 /\ attempt' = 0 /\ FlushThen(t, "top")
           ELSE UNCHANGED <<pc, writing, step, attempt>>
    /\ UNCHANGED <<cfg, persisted, rows, late, route, futs, mach, talk, stopped, out, faults>>

-----------------------------------------------------------------------------
(* The environment.                                                         *)

\* A member stops the turn.
Stop ==
    /\ pc \notin {"rewrite", "over"} /\ ~stopped
    /\ stopped' = TRUE
    /\ UNCHANGED <<cfg, pc, writing, store, route, attempt, step, tools, mach, talk, out, faults>>

\* A machine's connection goes; its row shows it some time later, or its owner
\* pauses it; it comes back, taken for the model again, with what it offers then.
MachineGone(m) ==
    /\ mach[m].linked /\ Fault
    /\ mach' = [mach EXCEPT ![m].linked = FALSE]
    /\ UNCHANGED <<cfg, pc, writing, store, route, attempt, step, tools, talk, stopped, out>>

MachineUnseen(m) ==
    /\ mach[m].seen
    /\ IF mach[m].linked THEN Fault ELSE UNCHANGED faults
    /\ mach' = [mach EXCEPT ![m].seen = FALSE]
    /\ UNCHANGED <<cfg, pc, writing, store, route, attempt, step, tools, talk, stopped, out>>

\* The provider refuses the machine's key to another run's call.
KeyRefused(m) ==
    /\ mach[m].key /\ Fault
    /\ mach' = [mach EXCEPT ![m].key = FALSE]
    /\ UNCHANGED <<cfg, pc, writing, store, route, attempt, step, tools, talk, stopped, out>>

MachineBack(m) ==
    /\ ~mach[m].linked \/ (~mach[m].key /\ mach[m].offered)
    /\ mach' = [mach EXCEPT ![m] = [@ EXCEPT !.linked = TRUE, !.seen = TRUE, !.offered = mach[m].key, !.aside = FALSE]]
    /\ UNCHANGED <<cfg, pc, writing, store, route, attempt, step, tools, talk, stopped, out, faults>>

-----------------------------------------------------------------------------
Workflow ==
    \/ LoadSkills \/ StartFails \/ ListTools \/ AgentNotOpen \/ ChooseMachine \/ ChooseNone
    \/ LoopTop \/ CallLLM \/ CallFails \/ NotCreated \/ CreateLLMDirective \/ DeliverLLM \/ NotHanded
    \/ SetMachineAside \/ RetryWait \/ Gather \/ PersistContext \/ FlushFails \/ Rewrite \/ RewriteFails

Machine == ModelAnswers \/ ModelFails \/ ModelRefuses \/ CallLost

Next ==
    \/ Workflow \/ Machine
    \/ \E j \in DOMAIN futs : ToolEnds(j) \/ AskUser(j)
    \/ LateWrite \/ Stop
    \/ \E m \in Machines : MachineGone(m) \/ MachineUnseen(m) \/ KeyRefused(m) \/ MachineBack(m)

\* Workers run the workflow; a call pending on a machine ends, by its answer
\* or its timeouts; so does every tool, by its own.
Spec ==
    /\ Init /\ [][Next]_vars
    /\ WF_vars(Workflow) /\ WF_vars(Machine)
    /\ WF_vars(\E j \in DOMAIN futs : ToolEnds(j) \/ AskUser(j))

-----------------------------------------------------------------------------
\* The rows as a conversation; a gap in them is no conversation.
Stored == IF rows = 1 .. Cardinality(rows) THEN SubSeq(turn, 1, Cardinality(rows)) ELSE <<Entry("gap", 0)>>

TT == INSTANCE Transcript WITH told <- Stored

\* The store never shows half a step of a turn, whatever writes failed, landed
\* late or were made twice (flush's points and keys): the turn implements
\* Transcript.
WritesWholeSteps == TT!Spec

\* A model called, wherever and however often, reads every message of its turn
\* once and in order, those whose write failed or was taken for failed
\* included (TailStart, and the keys conversation compares).
ReadsTurnOnce == seen = [i \in 1 .. asked |-> i]

\* A turn is in the store whole when its participant ends it, unless its last
\* write and the participant's both failed: a stop counts for one failure,
\* since it may cancel a write under way.
StoredWhole ==
    pc = "over" /\ Session /\ faults < (IF stopped THEN 1 ELSE 2) => rows = 1 .. Len(turn)

\* An agent that requires its author's machines never has its model called
\* elsewhere, and no run calls a machine that failed it, or failed its parent.
CallsWhereAllowed ==
    /\ cfg.mode = "require" /\ cfg.run # "scheduled" => None \notin where
    /\ pc \in {"machine", "hand", "pending"} => route.machine \notin route.excluded

\* A run ends as answered only when its model answered: a stop during a call is
\* said to be one (call: "A cancellation, during a call or a wait, is
\* returned: the turn stops").
StopIsSaid == out = "answered" => replied

\* Every run ends, stopped or not: its iterations and the attempts of its
\* calls are bounded, and it waits for nothing that may never come.
TurnEnds == <>(pc = "over")
=============================================================================
