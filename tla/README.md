# Formal models of temporal-agent

temporal-agent runs LLM agents as Temporal workflows. Members talk to agents in
shared sessions through a web server; agents run tools, on the worker or on the
members' own machines, which connect to a gateway. This directory holds TLA+
models of its concurrent parts, TLC runs that check them on small instances, and
TLAPS proofs, for every instance, of every safety property those runs check.

`tlc -config <run>.cfg <module>` checks a run, `tlapm <X>Proofs.tla` a proof.
`PROJECT.json` lists the runs, what each definition models (file and lines), the
hazards, and for every property a change of the code that it would catch.

## 1. The system

| Part | State it keeps | Operations | Module |
|---|---|---|---|
| Participant workflow (`workflow/participant.go`, `activity/turn.go`, `session/messages.go`) | inbox, signal channels, the turn in hand; the turns' ends in the store | deliver, check, answer, stop, clear, relay, end, continue as new, close | `Participant` |
| Agent turn (`workflow/agent.go`, `ask_user.go`, `activity/llm.go`) | the iteration, the messages of the turn, those known written | call the model, run tools, delegate, ask, flush, stop | `AgentTurn`, `Transcript` |
| Model calls on a machine (`workflow/agent_llm.go`, `activity/llm_machine.go`, `gateway/llm.go`, `machine/connect/llm.go`) | the route, machines excluded or set aside | choose, call, retry, fall back | `AgentTurn` |
| Background tasks (`workflow/background.go`, `activity/task.go`, `store/background_task.go`, `session/tasks.go`) | the task's row and message, its workflow, the sweep's lists | register, start, run, end, wake, stop, follow up, sweep | `BackgroundTask`, `TaskPromise` |
| Coding runs (`workflow/coding_run.go`, `claude_code*.go`, `activity/claude_code.go`, `claudecode`, `machine/connect/analyze.go`, `implement.go`) | the call's step, the clone, the CLI's process, pushes under way, the login | place, clone, run, inspect, bundle, push, clean | `CodingRun` |
| Machine tokens and connections (`store/machine.go`, `gateway/conn.go`, `machine/connect`) | current, previous and retired tokens, the registered connection, the config on disk | dial, register, ping, rotate, confirm, revoke, restart | `MachineToken` |
| Machine enrolment (`gateway/enroll.go`, `store/machine.go`, `machine/connect/enroll.go`, `cmd/agent/machines.go`) | enrollments, codes, the pages that show them | request, view, approve, deny, poll, create a token, enroll, expire | `Enrollment` |
| Directives (`activity/machine.go`, `workflow/machine.go`, `gateway`, `machine/connect`) | the directive's row, carried directives, claimed results; jobs, marks and kept results on the machine | reserve, start, deliver, reconcile, run, result, complete, ack, cancel, heartbeat, sweep | `Directive` |
| Server turns and statuses (`session/turns.go`, `status.go`, `participants.go`) | what the server believes of each participant; the cached listing and answers | observe, deliver, list, ask, show, forget | `ServerTurns` |
| Event hub and pages (`sse/hub.go`, `cmd/agent/api.go`, `ui.go`) | topics, their rings, subscribers; a page's last event | publish, subscribe, replay, sweep, drop, relay | `EventStream` |
| Forks and reports (`session/fork.go`, `report.go`, `workflow/fork.go`, `report.go`, `store/report.go`) | the fork's link, summary and last reported message | fork, summarise, report, post, leave, delete | `ForkReport` |
| Accounts (`auth`, `store/users.go`, `web/admin/users.go`) | accounts, sessions, failures counted | log in, throttle, write | `Accounts` |
| Access rules (`store/access.go`, `web/admin/access.go`, `access`) | groups, rules, their holders | create, write, delete, under row locks | `AccessRules` |
| Tool catalog (`cmd/agent/tools.go`, `agents.go`, `access.go`, `activity/catalog.go`) | tools published, the catalog a worker read, the marks of rules | publish, delete, refresh, give a turn its tools, sweep, alert | `ToolCatalog` |
| MCP servers (`tool/mcp*.go`, `tool/registry.go`, `cmd/agent/tools.go`) | the session a worker shares, requests in it; the registry, what is to be published | connect, call, resume, drop; discover, sync, publish, withdraw | `McpClient`, `McpServers` |
| Conversation reads, schedules, web, Telegram, configuration, providers | | | section 8 |

How they interact. The server delivers a message to a participant by a signal
(`Participant`), which runs a turn as a child workflow (`AgentTurn`). The turn calls its
model on the server's key or on a machine, and its tools: one in the background is
a task (`BackgroundTask`), one on a repository a coding call (`CodingRun`), both of which
may go to a machine as a directive (`Directive`), over a connection whose
token is rotated (`MachineToken`) and was first granted by an enrolment (`Enrollment`).
Turn events reach the server's view (`ServerTurns`) and the browsers
(`EventStream`). What a turn may call is the catalog's (`ToolCatalog`), from the rules the
admins write (`AccessRules`, `Accounts`); the tools in it are published by the workers, those of
their MCP servers as they are discovered (`McpServers`), and called in the session the worker
keeps with each (`McpClient`).

What is hard here is not in any one function. A participant's state is spread over
a workflow's memory, its signal channels and rows of the store. Activities are
retried after their effect was made, or given up with an attempt still under way.
A sweep in the server repairs what workflows left, while those workflows may still
be running. Either end of a machine's connection may go on without the other. A
process outlives the attempt that started it. Caches answer from before a change. The
hazards of `PROJECT.json` are these, each at the line where it bites.

## 2. The models

### Participant

`Participant.tla` models the participants of one session: one workflow per agent.
A step is what the workflow does between two blocking points (an activity, the
turn's child workflow), because a signal may arrive at each of them and nowhere
else; `pc` names the blocking point. `chan`, `stops` and `clears` are the signal
channels, `inbox` the messages received, `cur`, `check`, `halted`, `cleared`,
`reason`, `sent` the local variables of the turn. `ends` is the store's turn-end
messages. The turn itself is a step with its three outcomes (`FinishTurn`): its
inside is `AgentTurn`'s.

Every activity may fail past its attempts (`faults`). A relay delivers up to
`MaxSends` times, and when given up, its last attempt may arrive later (`late`). A
stop is two steps: its sender reads the running turn (`AskStop`), then signals
(`SendStop`). `DeleteSession` terminates any subset of the runs, since the
visibility listing it uses may miss one just started.

Left out: the wording of notes and quotes, search attributes, events to the
browser. A message is delivered to a participant at most once by the server
(`posted`): a member who sends the same text again writes another message. The
server's append failing between the store and the signal leaves a message nobody
was given, which is no participant's state.

### AgentTurn and Transcript

`AgentTurn.tla` is one run of an agent: a session's turn, a sub-agent's or a
schedule's (`cfg.run`), under each mode of its model (`cfg.mode`). `pc` is the workflow's
blocking point: the skills and tools read, the choice of a machine, the call
on the server's key or on a machine (made, handed over, pending), the wait before
another attempt, the tool calls gathered, the write, and the participant's own
write of the same messages at the end (`Rewrite`). `turn` is what the run
holds, `persisted` how much of it the run knows written, `rows` what the store has: the three
differ when a write fails with its effect made, or lands later (`late`). A stop cancels the
run's context; the last write then goes on a disconnected one (`shield`).

`route` is `llmRoute`: the machine, those excluded, those unreached. `machineFailure` is
its classification of a failure (`MachineFailure`), and what each class does by mode.
The machines leave, come back, are set aside, or have their key refused.

Abstracted: the model's answer is free (an end, or up to `MaxCalls` calls of any
kind); the kinds of tools differ in how they are dispatched and settled; the choice
among available machines is free (priorities and loads are other runs'); the depth
and the loop of a chain of agents are one flag. An activity's attempts are one step that
succeeds or, at the price of a fault, fails with or without its effect. Left out:
notes of progress, which are best effort, memory and its summary, usage and cost.

`Transcript.tla` is what a reader of the store is promised: whole steps only, an
assistant message with all the results of its calls in order, written once.
`WritesWholeSteps` says that `AgentTurn` implements it, the rows as the mapping.

### BackgroundTask and TaskPromise

`BackgroundTask.tla` has one action per transaction, call to Temporal, or workflow
step: the launching turn (`Launch`, `RegisterTask`, `StartTask`, `DropTask`), the task's
workflow (`ToolEnds`, `PostTaskResult`, `WakeParticipant`, `WakeGivenUp`,
`TaskWoken`), a member's stop in its three parts (`StopRecord`, `StopCancel`,
`StopSent`), follow-up instructions, and the server's sweep in its three phases,
each with the list it read. `age` and `endAge` are the grace periods of the sweep, as the
classes the code tells apart. `Terminated` and `SweepCut` are crashes.

Over-approximated: the age of an end is taken when the sweep wakes rather than
computed from the row listed, and who may stop a task (`MayStop`) is checked in
the handler before anything is written, so any stop stands for an allowed one. Left
out: size limits, the publication of a long result as a file.

`TaskPromise.tla` is what a task promises its session: recorded, ended once, and
told of only when it ended by itself. `KeepsPromise` says that `BackgroundTask`
implements it, with the row's state, the deliveries and the deletion as refinement
mapping.

### CodingRun

`CodingRun.tla` is one call of `analyze_repo` or `implement_feature`, from the choice of a
machine or a worker to its answer. On a worker each step is an activity (`step`,
`left` its attempts) of a session that holds the worker, and the position inside it
(`at`) is kept, because an attempt given up goes on: the CLI (`cli`, with a `stray`
process it may leave behind) and a git push (`pushes`) outlive it. On a machine the same
steps run in one directive, under a context that a stop ends. `clone` is the directory: its
head, whether it is on the run's branch, whose git configuration it has, who owns its
files (`RunAs`: the CLI runs as another user, and the directory is given and taken
back). An attempt prepares its run (`RunCLI`) before it holds the directory (`HoldClone`): one
given up between the two (`cli.late`) goes on unseen by the steps that wait for the hold. `unheard`
is a machine that runs a call whose handoff was taken for failed (`HandoffUnanswered`). Commits are counted; `inspected` is what the inspection listed, `remote` what the
branch has there, `out` what the call answers of them.

Left out: the parsing of the CLI's stream, the texts, the files published. A
directive's own failures are `Directive`'s; here a machine's run ends, is lost or is stopped.

### MachineToken

`MachineToken.tla` models the rotation of one machine's token over its
connections. A connection's handler (`conn`) and its client (`session`) are separate:
each may be gone while the other goes on, and `rotate` / `rotated` are the
messages between them. `disk` is what each directory holds; `Holders` includes copies of the
machine's directory. Tokens are numbers, in the order they are issued; hashes and
their comparison are left out. `Overlap` says whether a client may dial while the gateway still
waits for the hello of an earlier connection of its own.

### Directive

`Directive.tla` models the directives of one machine, from the row a workflow's
`PickMachine` reserves to the result its activity gets. Five kinds of actor share
them, none of which sees the others' memory:

| Actor | State | Actions |
|---|---|---|
| the workflow and its worker (`activity/machine.go`) | `worker`, and for Temporal `activity`, `cancelReq`, `due` | `PickMachine`, `NoMachine`, `StartDirective`, `Deliver`, `NotHanded`, `CancelActivity`, `Timeout` |
| the gateway's connection (`gateway/conn.go`, `gateway.go`) | `gconn`, `gstage`, `carried`, `told`, `early`, `beat`, `sends`, `marks`, `writes`, `loses`, `ending`; `calls` not registered yet | `Register`, `Reconcile`, `Lose`, `Reconciled`, `MarkSent`, `Attach`, `WriteDirective`, `Beat`, `BeatAnswer`, `EndDirective`, `ConnEnds` |
| the handlers of results and the sweep | `res`, the claim on a result | `ReadResult`, `SaveResult`, `Complete`, `CloseResult`, `SweepResult`, `SweepDirective`, `Revoke` |
| the machine's client (`machine/connect`) | `cconn`, `cstage`, `hello`, `job`, `cause`; on disk `marked`, `kept` | `HelloResults`, `HelloJobs`, `Receive`, `RunEnds`, `RunSent`, `ClientStop`, `ClientExit`, `ClientRefused` |
| failures | `faults`, `crashes` | a disjunct of each call, `Leave`, `ServerRestart`, `ClientCrash` |

`row` is the database. An action is one call to the database or to Temporal with
the memory it touches before the next one; `down` and `up` are the messages of a
connection, lost when either end leaves.

Abstracted: the cap is the one announced at enrolment. The tries of one call are one
step, which succeeds or, at the price of one fault, fails with or without its effect.
The hello of an older connection of the same client is refused once a newer one
is registered (its token was rotated, which is `MachineToken`'s). The sweep closes
one directive at a time. Left out: progress, files and result sizes, a mark or a result
the client cannot delete, the choice among several machines, and the `llm` kind,
which is `AgentTurn`'s.

### The server's smaller machines

- `EventStream`: the hub, one browser's stream and its page. A topic is a count of
  changes; an event has the browser fetch again what it is about. Topics idle may
  be swept at any call, a subscriber late by more than its buffer is cut, a worker's post
  may fail or be made twice, the connection may drop, the server restart (a new
  epoch), the member leave; the check that the reader is still a member may fail, and
  the stream then goes on until the next check (`CheckFails`).
- `ServerTurns`: one participant as its queue and current message, and what the server
  knows of it. A message taken is the current one from before its check (`Takes`), its
  `turn_started` comes after it, its `turn_done` before the participant lets go of it
  (`TurnOver`), and a clear empties the queue before it ends the messages one by one
  (`Clear`, `Dropped`): meanwhile the participant's answer and its events are two
  pictures, each right of its own moment. Events are late and in order, lost with a fault; the listing of Temporal, which
  lags, cached with its loads and generations; the answer of the state query. Ages are
  the classes the code tells apart.
- `ForkReport`: one parent and one fork. Messages take their ids when they are written and
  become visible when they commit, in any order. A call of `ReportToParent` reads its range, starts
  a workflow whose ID holds the last reported message, and its post, retried, given up or
  late, is one transaction.
- `AccessRules`: the admins' requests as transactions at read committed, with the row
  locks they take and wait for.
- `Accounts`: logins in their steps (read, check the password, open the session), the
  limit per account, the admins' writes and the command line's.
- `Enrollment`: device requests and enrollment tokens, through polls whose answers are
  lost or made late, commands killed, codes given again, pages left open.
- `ToolCatalog`: workers that publish, rename and stop; the three reads of a refresh; the
  sweep of the rules that target nothing, on two servers.
- `McpClient`: the session of one MCP server that a worker's calls share, over either
  transport, and a request in it: the look for an open session, the one handshake, the
  request's number, its answer in one message, on a stream of its own that may be resumed, or
  on the session's. The server is external: it forgets sessions, and does not run a
  request of one it forgot. Left out: the replies to a server's own requests, the sizes,
  `MCPClient.Close`, which only tests call.
- `McpServers`: the discoveries, the registry and the rows of one worker's queue. Two goroutines
  publish, with a read of the table, then a write per name, each of which may fail. What
  makes a list refused is abstracted to its refusal, whole.

These share no state with one another, so `Server` puts them together, with `MachineToken`: the initial
state chooses a part, whose variables are `v1` .. `v15`, and the others stand still. `MCServer` bounds it,
and one run checks them all.

## 3. The runs

| Run | Checks | Bounds | Shows |
|---|---|---|---|
| Participants | AnsweredOnce, RelayedInOrder, EndTellsTheTruth, StoppedRightly, EveryMessageEnds | 2 agents, 2 messages of 2 members (one relayed, meeting the other's queue), 2 sends a relay; a clear, or two of a fault, a stop, an agent deleted, the session deleted (`TwoOfThem`) | duplicated and late relays are answered once, in route order; the end written is what happened; a stale stop never stops another's turn; every message gets its end |
| ParticipantLost | NoSignalLost (violated) | 1 clear, no fault | finding 1 |
| Tasks | CapHeld, WokenWasTold, FollowUpsKept, KeepsPromise, StopEnds, EveryTaskEnds, EveryEndWakes | 1 task with three of 2 faults and 2 stops, 1 follow-up, deletion; or 2 tasks of one participant, cap 1, without (`Within`) | a task's row, message, wakes and stop through two failures; a stop is carried out although its cancellation was lost; what a lost step left, the sweep finishes; the cap under concurrent launches |
| Turn | ReadsTurnOnce, StoredWhole, CallsWhereAllowed, WritesWholeSteps, TurnEnds | every configuration; 2 machines, 2 iterations, 2 attempts, 2 calls a step, 2 faults, one machine in trouble at a time (`OneTrouble`) | the store shows whole steps only, the model reads each message once, the turn is stored whole unless both its writes failed, a call goes only where its mode allows, every turn ends |
| TurnStop | StopIsSaid (violated) | 1 fault | finding 5 |
| Coding | PublishedIsInspected, AnswerIsTrue, PushesWithItsConfig, PaidOnce, CloneOutlivesCLI, CallEnds | 2 commits, 2 faults, the CLI under its own user | what is pushed or bundled is what was inspected, under the worker's own git configuration; the answer is true of the remote; a call is paid once, but for a handoff whose answer was lost; no clone an attempt holds is deleted under its CLI; every call ends |
| CodingLogin | RenewalKept (violated) | the same | finding 4 |
| Server | NeverLockedOut, RetiredRecognised, OneConnection; PageRight; ParticipantShown; RightsKept; CatalogRight; ReportedOnce; EnrolledRightly; McpToolsServed | per part: 3 connections, the machine and one copy; 2 changes, 1 drop, 1 restart, rings and buffers of 1; 2 messages, 1 fault, 2 loads; 2 groups, 1 rule, 3 requests; 2 accounts, 2 requests, 1 login; 1 tool, 2 workers, 2 sweeps; 3 ids, 2 writers, 2 calls; 2 users, 2 directories, 2 enrollments; 2 requests, 3 sessions, 1 fault; 2 MCP servers, 1 name, 2 contracts, 1 change, 1 fault | no failure inside a rotation locks the machine out; a page caught up shows every change; a quiet participant is shown as its events tell it or as it answers; no deletion of a group strands a rule; no refresh gives what is closed; every message in one report; one machine per enrolment, its approver's; an MCP call runs once, gets its own answer and leaves no session open, and the tools table follows the registry |
| TokenOverlap | NeverLockedOut (violated) | 2 connections, no copy | finding 2 |
| Directives | AtMostOnce, CapHeld, KeptUntilTaken, EndsAgree | 1 directive, 2 connections, 1 fault, 1 crash, stop or restart; or 2 directives, cap 1, 1 connection, no deadline passed (`OneOrTwo`) | one run at most, its result kept until taken unless its activity was cancelled, row and activity agree on the end; the cap under concurrent picks |
| DirectiveLive | CancelEnds, EverySlotFreed, RevokedStops | 1 directive: a cancel over 2 connections, no deadline passed; or a fault, or a revocation, on 1 (`CancelOrRevoke`) | a cancelled activity ends though the run would not, unless its cancel was written before its directive; every slot comes back; a revocation met at any point closes, ends and stops everything |
| DirectiveHello | LostIsUnknown (violated) | 1 directive, 2 connections, no fault | finding 3 |

Why the bounds are enough to be of interest: two messages and two agents make a relay
arrive behind a queued message, be duplicated, and race a stop of the
other's turn. One task already interleaves five actors (turn, workflow, member,
sweep, deletion), and every repair path needs at most two failures to be reached
(the first leaves the task, the second breaks the repair). Two iterations are a
step whose write failed and one that reads it; two machines, one that fails and one that takes
over. Three connections are an old one, one that waits for it, and one that takes its place
meanwhile. A directive meets its hard cases over two connections (sent on the one,
reconciled by the other), and one fault or crash between: the second connection is
what a lost answer, mark or result is recovered on. The invariants that are proved
(section 5) hold without the bounds.

In distinct states the passing runs have: Server 3.5 million, Coding 2.7, Directives 1.6, Turn 1.5,
Participants 0.7, Tasks 0.3, DirectiveLive 0.3; each ends within three minutes.

A run's `CONSTRAINT` cuts the state space where its comment says. For an invariant this is
one more bound. For a liveness property it means that only behaviours that stay
within it are examined: one that leaves it is not counted against the property. `Small`, in
`ServerTurns`, `ToolCatalog` and `ForkReport`, says which combinations of their faults and
concurrent calls a run leaves out. The connections of a machine and the messages to a
participant, which nothing tells apart, come in their order.

Deadlock is not checked: every one of these systems may stop, with its messages
answered, its tasks ended, or its connections used up.

## 4. Fairness

- `Participant`: `WF(Workflow(a))` and `WF(FinishTurn(a))`. Temporal keeps a workflow
  task until a worker does it, and a turn ends: its iterations, its activities'
  attempts and their timeouts are bounded (`TurnEnds` of `AgentTurn`). Nothing is assumed of
  members, of late relays or of deletions.
- `AgentTurn`: the workflow's steps (workers run them), a call pending on a machine (it
  is answered, or its heartbeats or its timeout end it), and the tool calls (an activity or a
  child has a timeout, a question its timer). Machines need not come back.
- `BackgroundTask`: the launching turn's and the task's workflow steps (workers
  run), the sweep (the server runs it every minute), time, and that a cancelled tool
  ends (its activity is told by its heartbeat). No tool is assumed to end on its own:
  `EveryTaskEnds` excepts a task whose tool still runs. Members' calls
  are not fair: the server may stop in the middle of one.
- `CodingRun`: the workflow, the activities' attempts and their timeouts, a CLI that is killed.
  A CLI need not end on its own, nor a stray.
- `Directive`: one `WF` per goroutine (worker, sender, serve, heartbeats, result
  handler, sweep, session), Temporal's timeouts, a ping that finds its client gone,
  and that a run told to end ends (its context is cancelled, its process killed). The
  client need never connect again and a run need never end on its own.
- `MachineToken` and the server's smaller machines: safety only.

Failures are bounded by `MaxFaults`, so the liveness runs say: once calls stop failing,
what was started is finished. A sweep that could fail for ever would not.

## 5. The proofs

The proofs hold for any number of agents, messages, routes, tasks, machines, connections,
requests, sessions and faults. Each gives an inductive invariant, one lemma per action, and the
theorems. Where a proof module is about several models that share no state, it extends the first and
has an `INSTANCE` of each of the others. `ServerProofs` carries what is proved of the parts over to
`ServerSpec`, the specification the run checks: it instantiates `PeerProofs` and `StoreProofs` on the server's
variables, shows that a part's actions are the same there (`SameStream`, `SameTurns`, ...), and that
the part never changes, so a behaviour of the server in a part is a behaviour of that part
(`StreamHolds`, `TurnsHolds`, ...). `MachineToken` takes its steps or stands still in every part (`TokensGoOn`).

| Module | Models | Theorems |
|---|---|---|
| `ParticipantProofs` | `Participant` | `TypeCorrect`, `StopsRight`, `Answers`, `RelaysInOrder`, `EndsTellTheTruth` |
| `AgentTurnProofs` | `AgentTurn`, `Transcript` | `TurnTypes`, `EveryCallReadsItsTurn`, `TurnIsStoredWhole`, `CallsStayWhereAllowed`, `TurnImplementsTranscript` |
| `BackgroundTaskProofs` | `BackgroundTask`, `TaskPromise` | `TypeCorrect`, `Capped`, `StoppedIsQuiet`, `WokenTold`, `StopKept`, `Followed`, `OneEnd`, `PromiseKept` |
| `CodingRunProofs` | `CodingRun` | `CodingRunTypes`, `OnlyTheInspectedCommitIsPushed`, `TheAnswerIsTrue`, `PushesUnderSavedConfig`, `ARunIsPaidOnce`, `TheCloneOutlivesItsCLI` |
| `DirectiveProofs` | `Directive` | `TypeCorrect`, `Capped`, `RevokedIsEmpty`, `RunsOnce`, `RowsAgree`, `OneEnd`, `ResultsAreKept` |
| `StoreProofs` | `AccessRules`; `Accounts`; `ToolCatalog`; `ForkReport`; `ServerTurns` | the invariant and the property of each |
| `PeerProofs` | `Enrollment`; `McpClient`; `McpServers`; `EventStream` | the invariant and the property of each |
| `ServerProofs` | `MachineToken`; `Server` | `TypeCorrect`, `Recognised`, `Single`, `NotLockedOut`, `TokensGoOn`; `PagesAreRight`, `ParticipantsAreShown`, `RightsAreKept`, `CatalogsAreRight`, `MessagesAreReportedOnce`, `MachinesAreRightlyOwned`, `McpToolsAreServed` |

What they assume of the constants is named where they are declared. `Participant`,
`BackgroundTask`, `MachineToken`, `Directive`, `AgentTurn` and `CodingRun` have it as an `ASSUME`
(`ParticipantAssumption`, `NoTurnAssumption`, `TaskAssumption`, `TokenAssumption`,
`DirectiveAssumption`, `ConstantsOK`). The models used as instances have it as a definition,
`ConstantsOK`, which is a hypothesis of their theorems and part of the `ASSUME` of `Server`
(`PartConstants`): nothing but that an absence is no value (`Nobody` no user, `NoRequest` no request), that a user is no
group, that bounds are numbers, and that a topic of the hub keeps at least one event.

The invariants, and why the property alone would not do:

- `Participant`. `AnsweredOnce` is not
  inductive: a turn may start on a message answered before unless `CheckTurn`'s
  answer, read earlier, is still right. `RunsOnce` says it is: a turn that ran has its end
  in the store or is the one in hand, and only this participant runs its turns, so
  between the check and the start nothing ran. `StopsRightful` follows stops
  through their three places (asked, sent, taken), and `HaltedRightly` says that
  those taken go with their turn. `RelayedInOrder` and `EndTellsTheTruth` need what is still on
  its way (`OInv`): every delivery of a message to an agent, in a channel, an inbox, a hand or an
  attempt given up, stands behind ends of the agents before it that relay (`Lines`), and
  a turn that may still be relayed has no end that says otherwise (`Ending`).
- `ServerTurns`. `ShownRight` speaks of a request that ended with nothing on its way, and lets it show either
  picture of the participant, never a mixture. The events
  not observed yet lead from the turn the server knows to the participant's, each message having one
  place among sender, queue and events (`Followed`); a listing that is not old says a participant at
  work runs (`Lags`), and an answer kept is its state, or the caches are still to be invalidated (`Reads`).
- `AgentTurn`. The store holds a prefix of the turn cut between two steps, and a write that may
  still land starts at or before what the run knows written and ends between two steps (`Prefix`):
  that makes every write, late ones included, a step of `Transcript`. `Log` gives the shape of the
  turn while its results come in, `Spent` that a turn not stored whole has used its failures up,
  `Route` that the machine about to be called has not failed the run.
- `BackgroundTask`. `Rows` ties the row to its message and the
  instructions accepted; `Wakes` says that whoever holds a task in order to wake its
  participant (the workflow, the sweep's list, the sweep's hand) holds one
  that ended by itself; `Stops` that a cancellation recorded as sent was sent. `OneEnd` and
  `PromiseKept` are step properties, proved of each action with `IInv`.
- `CodingRun`. No step that reads, pushes or deletes the clone is past its wait, nor is a push
  under way, while a CLI runs (`Waited`), which is what keeps the head inspected the head pushed;
  `InPush` counts the pushes that attempts given up may have left under way. "Nothing" is said only
  where no push can follow (`SaidNothing`), and commits not pushed are spoken of by the time their
  step is over (`Accounted`). Before the run's step no CLI is there, and one that worked is one
  payment (`Paid`). The clone is back with the worker, and the saved configuration in it, from before a push
  to its end (`Reclaims`).
- `MachineToken`. `Rows` and `Handlers` describe the tokens and the registered
  connection; `Alone`, needed for `NotLockedOut` under `~Overlap`, says that while nobody copied the directory,
  every handler not registered yet presents the token on the machine's disk or
  is over for its client, which is what a late handler of the same client breaks
  (finding 2).
- `EventStream`. `PageRight` speaks of a page that has caught up. What was published on a topic is in
  its ring or at or before its floor, through sweeps and rings past their limit (`Rings`), so a stream
  opened at a position the rings cover has every later event to relay, one after the other
  (`Streaming`: sorted, the missed ones are an interval), and a change the page lacks is to be fetched or has an
  event to come (`Covered`). The event that told a user's leaving comes, on every stream open, before
  any published after it (`Leaves`).
- `Directive`. `AtMostOnce` says nothing of the messages on their way, so it is not inductive: `Once` says
  that a directive is about to be written, in one place of one queue, or run, one of them only and
  not before its row is marked sent (`Conned` gives that a send under way has a
  connection to mark it with). Most messages preserve it because they hand nothing over
  (`NoneNew`). `EndsAgree` needs `Agreed`, that a claim past its completion took the outcome the row's
  result makes of it, and `Said`, that every result on its way is one the machine gave:
  the latter is also what makes the row's end and the activity's outcome well typed.
  `KeptUntilTaken`, which excepts cancelled activities (section 6, `client.go:639`), needs that a
  cancel or an ack on its way is of a directive whose row is over or has its result, or whose activity is
  over or cancelled (`DropsRight`), and that the machine holds the result until then (`Holds`). `OneEnd` is
  a step property, proved of each action with the invariant.
- `AccessRules`. A deletion that has made its check takes its group later, so the invariant is about
  the holders that will be left (`SomeoneStays`), and the groups a write has inserted are those no deletion
  has locked (`Apart`). `Accounts`: the account of a session, and of a login that read it, is there.
- `ToolCatalog`. What is shut to the user is shut in the rights the catalog holds (`ShutInCatalog`); a
  sweep that found a rule's target found it of the rule as it is, or is told from it by its number
  (`SweepsKnow`).
- `ForkReport`. The reports that may still land have the messages of their ranges (`AllWhole`), which part no
  call from its result, now or once it commits (`Cuts`); those there are follow one another (`Chain`), so
  one that starts elsewhere is refused.
- `Enrollment`. A row's approver was shown that very row, and so was a page's reader (`Shown`); nothing
  names an enrollment not made yet (`Unborn`); a command polls for its own request (`Asked`).
- `McpClient`. The server has not run the call that may still be sent, and a number stays with its call
  (`RanOnce`, `Numbered`, `OnWire`); while a session is opened there is no other (`OneHandshake`).
  `McpServers`: a row that is not as the registry has it is on a list of the publisher that may write it
  (`Settled`), and what `Run` writes is what the registry has (`JobsRight`).

The properties that are proved and no longer asked of a run (type correctness, `OneEnd`,
`StoppedIsQuiet`, `StopKept`, `RevokedHoldsNone`) rest on their proofs.

Model-checked only: the liveness properties (`EveryMessageEnds`, `TurnEnds`, `StopEnds`,
`EveryTaskEnds`, `EveryEndWakes`, `CallEnds`, `CancelEnds`, `EverySlotFreed`, `RevokedStops`), whose
fairness is out of the prover's reach.

## 6. What the code does otherwise than it says

1. `workflow/participant.go:262`. A clear read at the top of the loop runs one
   activity per message dropped. A message signalled meanwhile stays in the channel,
   and the run, its inbox empty, closes without receiving again: the message is stored
   and never answered. The comment of `close` says that none is left unread. Run
   ParticipantLost. `EveryMessageEnds` excepts these messages (`lost`).
2. `store/machine.go:582`. A handler looks its token up, then waits up to 10 s for a
   hello. If the client came back meanwhile on another connection and wrote the token
   rotated there, the late handler, rotating from the older token, retires the one on
   the machine's disk; the machine's next connection is taken for a copy's and revokes
   it. Run TokenOverlap; `NeverLockedOut` is proved when connections do not overlap.
3. `machine/connect/client.go:300`. A hello lists the results on disk, then the jobs. A run
   that ends between the two is in neither list, so the gateway loses a directive
   whose result the machine holds (`lose`, `gateway/conn.go:401`, takes it for a
   restart), and the result, sent right after, is dropped. Run DirectiveHello.
4. `activity/claude_code.go:937`. A coding run's deferred calls release its hold on the
   directory before they copy the renewed login back. A cleanup waiting for the hold
   (the turn was stopped, or the attempt timed out) deletes the login first, and
   `KeepCredentials` takes the missing file for one not renewed; the original was
   retired by the renewal. Run CodingLogin.
5. `workflow/agent_llm.go:239`. In mode require, a stop that arrives while another machine
   is chosen after a failed call makes the choice fail with the context; `noMachine`
   then returns no error, and the run ends as answered, with nothing in it. Run
   TurnStop.

Races that the models' traces show, and that the properties above are stated around:

- `activity/machine.go:320`, `activity/llm_machine.go:185`. The handoff reached the gateway and
  its answer was lost: the activity fails with "Nothing ran" while the machine runs the
  directive, or the call to the model is made, and paid, twice. A coding call then goes to its
  fallback as refused (`unheard`): `PaidOnce` allows that one payment more, and the answer says
  nothing of the branch, of another name, that the machine may push.
- `activity/claude_code.go:937`. An attempt cancelled or given up before it holds its directory is not
  waited for: the cleanup deletes the clone, and the attempt may start its CLI in what is left
  (`late`). `CloneOutlivesCLI` and `RenewalKept` except it. For the same reason the push of
  such a run may find it "still active" at its second attempt only, after the first one pushed,
  and the answer then says that nothing was.
- `gateway/conn.go:395`. A directive is attached to its connection, then written. A heartbeat answered
  "canceled" between the two writes the cancel first: the machine has no such run, then
  starts it, and is not told again on that connection (`early`). `CancelEnds` excepts it.
- `cmd/agent/api.go:490`. When the check that a stream's reader is still a member fails, the stream
  goes on: one who left gets the session's events until the next check. `NothingAfterLeaving`
  excepts what such a stream sends.
- `session/status.go:203`. An answer of the state query kept up to three seconds may be from before the
  participant took its next message (`Behind`), and the events may tell of a message as waiting that
  the participant is checking; a request shows one or the other.
- `gateway/conn.go:583`. A heartbeat that found no result claimed is answered after the
  result was completed: Temporal no longer has the activity, and the row is closed as
  `gone` although its activity got the result. `EndsAgree` shows the reverse never
  happens.
- `machine/connect/client.go:639`. A cancel read after the run ended drops the result before
  its ack. If the connection then breaks before the gateway read it, it is nowhere, and
  the cancelled activity ends by its timeout (`CancelEnds`), without the report of what
  had been done.
- `workflow/claude_code_write.go:266`. A push given up whose git lands after all makes the second
  attempt refused, and the answer says git did not push what the branch has:
  `AnswerIsTrue` holds "nothing was pushed" to the truth, not this. Two
  processes with one login (`claudecode/config.go:116`) are left out.
- `session/status.go:132`. A listing loaded while Temporal's visibility lags is kept, and
  served past its three seconds while the next one loads. `session/turns.go:155`: messages whose
  events were lost count as queued for 24 hours, up to refusing the next.
- `store/access.go:163`. Two groups that hold one rule, deleted at once, leave it with no
  holder: each deletion sees the other's group still there (`twins`).
  `RuleKeepsHolder` excepts these rules.
- `web/admin/users.go:129`. Two admins who demote each other at once leave none
  (`stripped`); a form opened before rewrites the role it showed. `store/users.go:90`: a
  login that read the account before a password change opens its session after it.
- `cmd/agent/access.go:87`. A sweep may mark a rule rewritten since it was listed (`stale`), and
  an alert is lost when the admins cannot be read after it was claimed.
- `store/message.go`. A message whose id is older than a report's range and which commits
  after the range was read is in no report (`raced`, `missed`). Between the fork's row and its
  workflow, the summary reads as failed, and messages are accepted before it.
- `gateway/enroll.go`. An answer lost after the grant, or a crash before the token is saved, leaves a
  machine whose token nobody holds. The bound on pending requests is read, then
  inserted: concurrent requests may pass it.
- `cmd/agent/tools.go:257`. The comments of `MCPServers.Run` (`tool/mcp_servers.go:91`) and of
  its start (`cmd/agent/runtime.go:247`) say that it alone publishes the MCP tools after
  startup, but `keepPublishing` does too: one it read from the registry may be
  written after `Run` withdrew it, and its row then stays, offered to every agent (`late`).
- `cmd/agent/tools.go:229`. `withdrawUnoffered` leaves the rows of MCP tools "to their
  discovery, which publishes and withdraws them", but a discovery withdraws only what the
  registry held: a tool its server dropped while the worker was down stays published
  (`before`). `PublishedRight` excepts these rows and the ones above; without either
  exception TLC finds the trace.
- `cmd/agent/tools.go:119`, `cmd/agent/runtime.go:185`. `McpServers` is about one worker's queue, whose rows
  nobody else takes (`OtherQueue` only gives up its own). In the code a worker of another queue takes a row
  of this one when its own read of the table failed, or when this worker published and
  does not poll yet: the name then moves to the other queue, and this one's next publication
  reports the conflict. This is not modelled.

## 7. Plan

1. Done: `Participant`, `BackgroundTask` with `TaskPromise`, `MachineToken`, `Directive`, with
   their runs and proofs.
2. Done: `AgentTurn` with `Transcript`, `CodingRun`, `ServerTurns`, `EventStream`, `ForkReport`,
   `Accounts`, `AccessRules`, `Enrollment`, `ToolCatalog`, `McpClient`, `McpServers`, with their runs.
3. Done: the theorems of section 5, one at least for every invariant and step property of the runs.
   Left: the invariants that the liveness arguments rest on, as theorems of their own (that a
   participant with a message in hand always has a step to take, and which).
4. Models: `TurnReads` of `store/message.go` as an operator against a reference definition;
   schedules; liveness of `EventStream` (a connected page catches up) and `ServerTurns`.

## 8. Not modelled

Schedules are Temporal's: the code creates, lists and deletes them, and a run of one is an
`AgentTurn`. Which turns a turn reads (`TurnReads`), and the conversion of messages for a
provider, are left to the plan. The parsing of MCP messages and event streams
(`tool/mcp_sse.go`) is left out. The memory, the thread view,
the web, admin and Telegram handlers hold no state of their own beyond the rows they
write. Configuration, provider clients and prompt texts are parsing, HTTP and
wording. The tools themselves and the subprocess sandbox are system calls, but for what
`CodingRun` has of them. Database failures are
modelled as calls that fail with or without their effect; the database's own
consistency is assumed. Temporal is assumed as documented: signals are received in
order, a closed run's signals are gone, an activity's attempts may overlap when one
is given up.
