----------------------------- MODULE CodingRun -----------------------------
(***************************************************************************)
(* A coding run: one call of analyze_repo or implement_feature.  The       *)
(* workflow (workflow/coding_run.go) asks a machine of the user's first,   *)
(* then the installation's coding workers (workflow/claude_code.go,        *)
(* claude_code_write.go, claude_code_session.go).  There a session holds   *)
(* one worker, and each step is an activity of it (activity/               *)
(* claude_code.go): clone, run the CLI (claudecode/run.go), publish the    *)
(* outputs, inspect, push, bundle what was not pushed, delete the clone.   *)
(* A machine takes the same steps by itself, in one directive              *)
(* (machine/connect/analyze.go, implement.go).                             *)
(*                                                                         *)
(* Commits are counted: the clone's head is the number of commits the run  *)
(* made.  What times out may go on: the CLI and a git push outlive the     *)
(* attempt the workflow gave up on, and a machine the workflow lost.       *)
(***************************************************************************)
EXTENDS Naturals

CONSTANTS RunAs,       \* the worker runs the CLI as a user of its own (RUN_AS_UID)
          MaxCommits,  \* bound: commits of a run
          MaxFaults    \* bound: timeouts, failures, losses of a behaviour

ASSUME ConstantsOK == RunAs \in BOOLEAN /\ MaxCommits \in Nat /\ MaxFaults \in Nat

VARIABLES
    kind,      \* "analyze" or "implement"
    place,     \* who runs it: "none", "machine", "worker"
    wf,        \* the workflow: "route", "probe", "open", "busy", "waits" (for place), "done"
    step,      \* the step place is at, "none" before and after
    left,      \* attempts left of a worker's step
    at,        \* inside the step: "start", "ready" (no CLI runs there), "restored", "changed", "git", "running"
    session,   \* the session on the worker: "none", "open", "failed"
    ctx,       \* a machine's context for the directive: "live", "ended"
    cli,       \* the CLI's process, and what the runner read of it
    clone,     \* the workspace on disk
    inspected, \* commits the inspection listed
    pushes,    \* git pushes under way, the abandoned ones included
    remote,    \* the branch of the run on the remote, in commits
    out,       \* what the call answers
    cancelled, \* the call was cancelled (its turn was stopped)
    notice,    \* the notice that the run waits for a worker
    paid,      \* CLI runs that made a tool call
    unheard,   \* a machine whose handoff was taken for failed: "no", "runs", "worked"
    faults

vars == <<kind, place, wf, step, left, at, session, ctx, cli, clone, inspected, pushes,
          remote, out, cancelled, notice, paid, unheard, faults>>

\* How many attempts a worker's step may take.
Attempts == [prepare |-> 2, run |-> 1, publish |-> 2, inspect |-> 2, push |-> 2, bundle |-> 2, cleanup |-> 3]

Steps == DOMAIN Attempts

\* login: how the run's copy of the operator's login stands to the original
\* (a worker's own configuration directory, SeedConfigDir); "lost": the run
\* renewed it, which retired the original, and its copy is gone.  late: the
\* workflow gave up on the attempt before it held its clone.
NoCLI == [st |-> "none", tool |-> FALSE, result |-> FALSE, stop |-> "no", stray |-> FALSE, login |-> "same",
          late |-> FALSE]

NoClone == [there |-> FALSE, head |-> 0, onBranch |-> TRUE, config |-> "saved", owner |-> "worker"]

\* What the answer says.  "nothing": nothing was done, or pushed; "unsure":
\* the branch may or may not be there; "refused": git did not push the commits;
\* "tampered": not pushed, the clone's configuration is not its own; "active":
\* not pushed, the CLI still ran when its commits were to be.
NoAnswer == [pushed |-> FALSE, says |-> {}, commits |-> 0, bundle |-> "none", interrupted |-> FALSE, lost |-> FALSE]

Init ==
    /\ kind \in {"analyze", "implement"}
    /\ place = "none"
    /\ wf \in {"route", "probe"}
    /\ step = "none"
    /\ left = 1
    /\ at = "start"
    /\ session = "none"
    /\ ctx = "live"
    /\ cli = NoCLI
    /\ clone = NoClone
    /\ inspected = 0
    /\ pushes = 0
    /\ remote = 0
    /\ out = NoAnswer
    /\ cancelled = FALSE
    /\ notice = "none"
    /\ paid = 0
    /\ unheard = "no"
    /\ faults = 0

Fault == faults < MaxFaults /\ faults' = faults + 1

\* The CLI of the run still runs where it was started.
Live == cli.st = "running"

\* A place goes on to a step, with the attempts it may take there.
Begin(p, s) ==
    /\ step' = s
    /\ left' = IF p = "worker" /\ s \in Steps THEN Attempts[s] ELSE 1
    /\ at' = "start"

Goto(s) == Begin(place, s)

\* What the executor adds to the answer, unless the workflow gave up on it.
Tell(says) == out' = IF wf = "done" THEN out ELSE [out EXCEPT !.says = @ \cup says]

\* The workflow ends; a worker's session is completed.
Done == wf' = "done" /\ Goto("none")

----------------------------------------------------------------------------
\* Where the run goes (codingRun, openRun).

\* No machine of the user's takes it: it goes to the fallback's queue, or
\* nowhere.  Also the end of a run its machine turned down.
Elsewhere ==
    \/ wf' = "probe" /\ out' = NoAnswer
    \/ wf' = "done" /\ out' = [NoAnswer EXCEPT !.says = {"nothing"}]

NoMachine ==
    /\ wf = "route"
    /\ Elsewhere
    /\ UNCHANGED <<kind, place, step, left, at, session, ctx, cli, clone, inspected, pushes, remote, cancelled, notice, paid, unheard, faults>>

OnMachine ==
    /\ wf = "route"
    /\ wf' = "waits"
    /\ place' = "machine"
    /\ Goto("prepare")
    /\ UNCHANGED <<kind, session, ctx, cli, clone, inspected, pushes, remote, out, cancelled, notice, paid, unheard, faults>>

Probe ==
    /\ wf = "probe"
    /\ wf' = "open"
    /\ UNCHANGED <<kind, place, step, left, at, session, ctx, cli, clone, inspected, pushes, remote, out, cancelled, notice, paid, unheard, faults>>

\* No worker answers the probe, or one without the CLI does.
ProbeFails ==
    /\ wf = "probe"
    /\ Fault
    /\ wf' = "done"
    /\ Tell({"nothing"})
    /\ UNCHANGED <<kind, place, step, left, at, session, ctx, cli, clone, inspected, pushes, remote, cancelled, notice, paid, unheard>>

\* A minute without a slot: the notice goes out, from a coroutine of its own.
WaitNotice ==
    /\ wf = "open" /\ notice = "none" /\ ~cancelled
    /\ notice' = "sending"
    /\ UNCHANGED <<kind, place, wf, step, left, at, session, ctx, cli, clone, inspected, pushes, remote, out, cancelled, paid, unheard, faults>>

\* The wait is over: a notice sent is cleared, once it is out.
Clearing ==
    notice' = CASE cancelled -> notice
                [] notice = "sending" -> "clear after"
                [] notice = "shown"   -> "clearing"
                [] OTHER              -> notice

\* The clear starts after the notice, in the workflow: not once it ended.
NoticeSent ==
    /\ notice \in {"sending", "clear after"}
    /\ notice' = IF notice = "clear after" /\ wf # "done" THEN "clearing" ELSE "shown"
    /\ UNCHANGED <<kind, place, wf, step, left, at, session, ctx, cli, clone, inspected, pushes, remote, out, cancelled, paid, unheard, faults>>

NoticeCleared ==
    /\ notice = "clearing"
    /\ notice' = "cleared"
    /\ UNCHANGED <<kind, place, wf, step, left, at, session, ctx, cli, clone, inspected, pushes, remote, out, cancelled, paid, unheard, faults>>

OpenRun ==
    /\ wf = "open" /\ ~cancelled
    /\ session' = "open"
    /\ place' = "worker"
    /\ wf' = "waits"
    /\ Begin("worker", "prepare")
    /\ Clearing
    /\ UNCHANGED <<kind, ctx, cli, clone, inspected, pushes, remote, out, cancelled, paid, unheard, faults>>

\* Every worker stayed busy past the queue's wait, or the call was cancelled.
OpenFails ==
    /\ wf = "open"
    /\ wf' = "busy"
    /\ Tell({"nothing"})
    /\ Clearing
    /\ UNCHANGED <<kind, place, step, left, at, session, ctx, cli, clone, inspected, pushes, remote, cancelled, paid, unheard, faults>>

\* The answer "all busy" waits for its notices.
BusyAnswer ==
    /\ wf = "busy"
    /\ cancelled \/ notice \in {"none", "cleared"}
    /\ wf' = "done"
    /\ UNCHANGED <<kind, place, step, left, at, session, ctx, cli, clone, inspected, pushes, remote, out, cancelled, notice, paid, unheard, faults>>

Routing == NoMachine \/ OnMachine \/ Probe \/ ProbeFails \/ WaitNotice \/ NoticeSent \/ NoticeCleared
           \/ OpenRun \/ OpenFails \/ BusyAnswer

----------------------------------------------------------------------------
\* The CLI (claudecode/run.go, stream.go): what it does to the clone, and how
\* its run ends.

\* It uses a tool: commits, moves HEAD, writes .git/config, leaves a process
\* of its own behind, or none of these.
CliWorks ==
    /\ Live
    /\ \E c \in {clone, [clone EXCEPT !.head = @ + 1], [clone EXCEPT !.onBranch = FALSE],
                 [clone EXCEPT !.config = "changed"]}, stray \in {cli.stray, TRUE} :
          /\ c = clone \/ (clone.there /\ clone.owner = "run")
          /\ c.head <= MaxCommits
          /\ clone' = c
          /\ cli' = [cli EXCEPT !.tool = TRUE, !.stray = stray]
    /\ paid' = IF cli.tool THEN paid ELSE paid + 1
    /\ UNCHANGED <<kind, place, wf, step, left, at, session, ctx, inspected, pushes, remote, out, cancelled, notice, unheard, faults>>

\* Its result line is read (consume, parseLine).
CliReports ==
    /\ Live /\ ~cli.result
    /\ cli' = [cli EXCEPT !.result = TRUE]
    /\ UNCHANGED <<kind, place, wf, step, left, at, session, ctx, clone, inspected, pushes, remote, out, cancelled, notice, paid, unheard, faults>>

\* monitor: nothing was written for StallTimeout, the run is ended.
Stalls ==
    /\ Live /\ cli.stop = "no"
    /\ cli' = [cli EXCEPT !.stop = "stall"]
    /\ UNCHANGED <<kind, place, wf, step, left, at, session, ctx, clone, inspected, pushes, remote, out, cancelled, notice, paid, unheard, faults>>

\* Mutant: a worker never ends its CLI.
CliToldByMachines ==
    /\ Live /\ cli.stop # "ctx"
    /\ place = "machine" /\ ctx = "ended"
    /\ cli' = [cli EXCEPT !.stop = "ctx"]
    /\ UNCHANGED <<kind, place, wf, step, left, at, session, ctx, clone, inspected, pushes, remote, out, cancelled, notice, paid, unheard, faults>>

\* The CLI's context ends: its activity is over for the server, which a
\* heartbeat tells; its worker or machine stops, cancels or is out of time
\* (cliDeadline: a machine keeps the time of the push).
CliTold ==
    /\ Live /\ cli.stop # "ctx"
    /\ \/ place = "worker" /\ (step # "run" \/ session = "failed")
       \/ place = "machine" /\ (ctx = "ended" \/ kind = "implement")
    /\ cli' = [cli EXCEPT !.stop = "ctx"]
    /\ UNCHANGED <<kind, place, wf, step, left, at, session, ctx, clone, inspected, pushes, remote, out, cancelled, notice, paid, unheard, faults>>

\* It exits, or is killed with its group.
CliExits ==
    /\ Live
    /\ cli.result \/ cli.stop # "no" \/ ~cli.tool \/ faults < MaxFaults
    /\ cli' = [cli EXCEPT !.st = "over"]
    /\ UNCHANGED <<kind, place, wf, step, left, at, session, ctx, clone, inspected, pushes, remote, out, cancelled, notice, paid, unheard, faults>>

\* It renews its login, in its own copy: the original's is retired.
CliRenews ==
    /\ Live /\ place = "worker" /\ cli.login = "same"
    /\ cli' = [cli EXCEPT !.login = "renewed"]
    /\ UNCHANGED <<kind, place, wf, step, left, at, session, ctx, clone, inspected, pushes, remote, out, cancelled, notice, paid, unheard, faults>>

\* KeepCredentials, once the run no longer holds its clone: the copy, which
\* goes with the clone, comes back to the operator's configuration.
KeepCredentials ==
    /\ cli.st = "over" /\ cli.login = "renewed"
    /\ cli' = [cli EXCEPT !.login = IF clone.there THEN "kept" ELSE "lost"]
    /\ UNCHANGED <<kind, place, wf, step, left, at, session, ctx, clone, inspected, pushes, remote, out, cancelled, notice, paid, unheard, faults>>

\* A process the run left behind writes in the clone while it owns it.
StrayWrites ==
    /\ cli.stray /\ ~Live /\ clone.there /\ clone.owner = "run"
    /\ \/ clone' = [clone EXCEPT !.config = "changed"]
       \/ clone.head < MaxCommits /\ clone' = [clone EXCEPT !.head = @ + 1]
    /\ UNCHANGED <<kind, place, wf, step, left, at, session, ctx, cli, inspected, pushes, remote, out, cancelled, notice, paid, unheard, faults>>

\* How Run ends: its context first, then a stall without a result, then a CLI
\* that reported nothing.
Outcome ==
    CASE cli.stop = "ctx"                     -> "interrupted"
      [] cli.stop = "stall" /\ ~cli.result    -> "stalled"
      [] ~cli.result                          -> "failed"
      [] OTHER                                -> "result"

CLI == CliWorks \/ CliRenews \/ KeepCredentials \/ CliReports \/ Stalls \/ CliTold \/ CliExits \/ StrayWrites

----------------------------------------------------------------------------
\* The steps, on a worker or on a machine.

\* A worker's step runs while its session holds, and its workflow is not
\* cancelled: the cleanup alone goes on (a disconnected context).
Serving ==
    CASE place = "worker"  -> session = "open" /\ (~cancelled \/ step = "cleanup")
      [] place = "machine" -> ctx = "live"
      [] OTHER             -> FALSE

\* PrepareWorkspace, or newRun and clone: what the run finds.
PreparedClone == [NoClone EXCEPT !.there = TRUE, !.owner = "run"]

PrepareWorkspace ==
    /\ step = "prepare" /\ Serving
    /\ clone' = PreparedClone
    /\ Goto("run")
    /\ UNCHANGED <<kind, place, wf, session, ctx, cli, inspected, pushes, remote, out, cancelled, notice, paid, unheard, faults>>

\* A clone that fails leaves what it wrote for the next attempt, or for the
\* worker's next start; the push tried before the run and refused removes it.
PrepareFails ==
    /\ step = "prepare" /\ Serving /\ Fault /\ place = "worker"
    /\ \/ /\ left > 1
          /\ left' = left - 1
          /\ clone' \in {NoClone, PreparedClone}
          /\ UNCHANGED <<wf, step, at, out>>
       \/ /\ Done
          /\ clone' \in {NoClone, PreparedClone}
          /\ Tell(IF clone'.there THEN {} ELSE {"nothing"})
    /\ UNCHANGED <<kind, place, session, ctx, cli, inspected, pushes, remote, cancelled, notice, paid, unheard>>

\* Mutant: a run that used tools is turned down too.
MachineRefusesLate ==
    /\ place = "machine" /\ wf = "waits" /\ ctx = "live"
    /\ \/ step = "prepare"
       \/ step = "run" /\ at = "running" /\ ~Live
    /\ Elsewhere
    /\ place' = "none"
    /\ Goto("none")
    /\ clone' = NoClone
    /\ cli' = NoCLI
    /\ UNCHANGED <<kind, session, ctx, inspected, pushes, remote, cancelled, notice, paid, unheard, faults>>

\* A machine turns the run down: its repositories, its login, its skills, the
\* push it tried; or the CLI refused the login or the skills before any tool.
MachineRefuses ==
    /\ place = "machine" /\ wf = "waits" /\ ctx = "live"
    /\ \/ step = "prepare"
       \/ step = "run" /\ at = "running" /\ ~Live /\ ~cli.tool
    /\ Elsewhere
    /\ place' = "none"
    /\ Goto("none")
    /\ clone' = NoClone
    /\ cli' = NoCLI
    /\ UNCHANGED <<kind, session, ctx, inspected, pushes, remote, cancelled, notice, paid, unheard, faults>>

\* The handoff reached the machine and its answers were lost: the directive is
\* closed as never handed, and the run goes elsewhere, on a branch of another
\* name, while the machine runs the first.
HandoffUnanswered ==
    /\ place = "machine" /\ wf = "waits" /\ step # "none"
    /\ Fault
    /\ Elsewhere
    /\ place' = "none"
    /\ Goto("none")
    /\ ctx' = "live"
    /\ clone' = NoClone
    /\ cli' = NoCLI
    /\ inspected' = 0
    /\ pushes' = 0
    /\ remote' = 0
    /\ unheard' = IF cli.tool THEN "worked" ELSE "runs"
    /\ UNCHANGED <<kind, session, cancelled, notice, paid>>

\* Its CLI uses a tool there.
UnheardWorks ==
    /\ unheard = "runs"
    /\ unheard' = "worked"
    /\ paid' = paid + 1
    /\ UNCHANGED <<kind, place, wf, step, left, at, session, ctx, cli, clone, inspected, pushes, remote, out, cancelled, notice, faults>>

\* The attempt begins (RunClaudeCode).  A worker first makes the CLI's own
\* configuration and the run's git; a machine's run is one sequence.
RunCLI ==
    /\ step = "run" /\ at = "start" /\ Serving
    /\ at' = "running"
    /\ cli' = [NoCLI EXCEPT !.st = IF place = "worker" THEN "starting" ELSE "running"]
    /\ UNCHANGED <<kind, place, wf, step, left, session, ctx, clone, inspected, pushes, remote, out, cancelled, notice, paid, unheard, faults>>

\* The attempt holds its clone, and starts its CLI there, if it still is there:
\* whether or not the workflow still waits for it, which no heartbeat asked.
HoldClone ==
    /\ cli.st = "starting"
    /\ cli' = [cli EXCEPT !.st = IF clone.there THEN "running" ELSE "over"]
    /\ UNCHANGED <<kind, place, wf, step, left, at, session, ctx, clone, inspected, pushes, remote, out, cancelled, notice, paid, unheard, faults>>

\* What follows the CLI: a worker publishes the outputs first, a machine last.
AfterRun ==
    CASE kind = "analyze"    -> "cleanup"
      [] place = "worker"    -> "publish"
      [] ctx = "ended"       -> "publish"
      [] OTHER               -> "inspect"

RunReturns ==
    /\ step = "run" /\ at = "running" /\ cli.st = "over"
    /\ place = "worker" => Serving /\ cli.login # "renewed"
    /\ Goto(AfterRun)
    /\ out' = IF wf = "done" THEN out
              ELSE [out EXCEPT !.interrupted = Outcome # "result",
                               !.says = IF kind = "implement" /\ place = "machine" /\ ctx = "ended" THEN {"nothing"} ELSE @]
    /\ UNCHANGED <<kind, place, wf, session, ctx, cli, clone, inspected, pushes, remote, cancelled, notice, paid, unheard, faults>>

\* The attempt as the workflow leaves it: not told.
GivenUp == [cli EXCEPT !.late = @ \/ cli.st = "starting"]

\* The workflow gives up on RunClaudeCode: the CLI goes on, or is yet to start.
RunTimesOut ==
    /\ step = "run" /\ at = "running" /\ Serving /\ place = "worker"
    /\ IF Live THEN UNCHANGED faults ELSE Fault
    /\ Goto(AfterRun)
    /\ cli' = GivenUp
    /\ out' = [out EXCEPT !.interrupted = TRUE]
    /\ UNCHANGED <<kind, place, wf, session, ctx, clone, inspected, pushes, remote, cancelled, notice, paid, unheard>>

\* Mutant: no step waits for the CLI.
IdleAlways == TRUE

\* awaitRunEnd: no step goes on while the attempt holds the clone.
Idle == ~Live

AwaitRunEnd ==
    /\ step \in {"publish", "inspect", "push", "bundle", "cleanup"} /\ at = "start"
    /\ place = "worker" => Serving
    /\ Idle
    /\ at' = "ready"
    /\ UNCHANGED <<kind, place, wf, step, left, session, ctx, cli, clone, inspected, pushes, remote, out, cancelled, notice, paid, unheard, faults>>

\* RunEndWait passes: the step ends there, and is not tried again.  A push or
\* a bundle, after an inspection that waited for the same CLI, meets only a
\* late one's.
StillActive ==
    /\ step \in {"publish", "inspect", "push", "bundle", "cleanup"} /\ at = "start"
    /\ place = "worker" /\ Serving /\ Live
    /\ CASE step = "publish" -> Goto("inspect") /\ UNCHANGED <<wf, out>>
         [] step = "inspect" -> Goto("cleanup") /\ Tell({"nothing"}) /\ UNCHANGED wf
         [] step = "push"    -> Goto("cleanup") /\ Tell({"active"}) /\ UNCHANGED wf
         [] step = "bundle"  -> Goto("cleanup") /\ out' = [out EXCEPT !.bundle = "error"] /\ UNCHANGED wf
         [] step = "cleanup" -> Done /\ UNCHANGED out
    /\ UNCHANGED <<kind, place, session, ctx, cli, clone, inspected, pushes, remote, cancelled, notice, paid, unheard, faults>>

\* Mutant: the clone stays its run's.
ReclaimedNot == clone.owner

\* restoreGitConfig: the worker takes the clone back from its run's user
\* (reclaim), puts the configuration back, and tells whether it had changed.
Reclaimed == IF RunAs /\ place = "worker" THEN "worker" ELSE clone.owner

RestoreGitConfig ==
    /\ step \in {"inspect", "push", "bundle"} /\ at = "ready"
    /\ place = "worker" => Serving
    /\ clone' = [clone EXCEPT !.config = "saved", !.owner = Reclaimed]
    /\ at' = IF clone.config = "saved" THEN "restored" ELSE "changed"
    /\ UNCHANGED <<kind, place, wf, step, left, session, ctx, cli, inspected, pushes, remote, out, cancelled, notice, paid, unheard, faults>>

AfterInspect == IF place = "worker" THEN "cleanup" ELSE "publish"

\* What is not pushed, and why, or the push.
Inspect ==
    /\ step = "inspect" /\ at \in {"restored", "changed"} /\ Serving
    /\ inspected' = clone.head
    /\ IF at = "changed" \/ clone.head = 0 \/ ~clone.onBranch
       THEN /\ Goto(AfterInspect)
            /\ out' = IF wf = "done" THEN out ELSE [out EXCEPT !.commits = clone.head, !.says = @ \cup {"nothing"}]
       ELSE /\ Goto("push")
            /\ out' = IF wf = "done" THEN out ELSE [out EXCEPT !.commits = clone.head]
    /\ UNCHANGED <<kind, place, wf, session, ctx, cli, clone, pushes, remote, cancelled, notice, paid, unheard, faults>>

\* git fails, or the clone is not one any more; a machine out of time too.
InspectFails ==
    /\ step = "inspect" /\ at # "start"
    /\ IF Serving THEN Fault ELSE place = "machine" /\ UNCHANGED faults
    /\ \/ left > 1 /\ left' = left - 1 /\ at' = "start" /\ UNCHANGED <<step, out>>
       \/ Goto(AfterInspect) /\ Tell(IF place = "machine" THEN {"nothing"} ELSE {})
    /\ UNCHANGED <<kind, place, wf, session, ctx, cli, clone, inspected, pushes, remote, cancelled, notice, paid, unheard>>

\* The configuration changed since the inspection, or cannot be restored:
\* nothing goes out, and nothing is kept.
PushTampered ==
    /\ step = "push"
    /\ \/ at = "changed" /\ UNCHANGED faults
       \/ at = "ready" /\ Fault
    /\ place = "worker" => Serving
    /\ Goto(AfterInspect)
    /\ Tell(IF place = "machine" THEN {"nothing"} ELSE {"tampered"})
    /\ UNCHANGED <<kind, place, wf, session, ctx, cli, clone, inspected, pushes, remote, cancelled, notice, paid, unheard>>

GitPush ==
    /\ step = "push" /\ at = "restored" /\ Serving
    /\ at' = "git"
    /\ pushes' = pushes + 1
    /\ UNCHANGED <<kind, place, wf, step, left, session, ctx, cli, clone, inspected, remote, out, cancelled, notice, paid, unheard, faults>>

\* Mutant: the branch's ref in the clone is pushed.
PushedHead == clone.head

\* The remote takes the inspected commit, by its SHA, from any push under way.
Pushed == inspected

PushLands ==
    /\ pushes > 0
    /\ remote' = Pushed
    /\ UNCHANGED <<kind, place, wf, step, left, at, session, ctx, cli, clone, inspected, pushes, out, cancelled, notice, paid, unheard, faults>>

PushReturns ==
    /\ step = "push" /\ at = "git"
    /\ place = "worker" => Serving
    /\ remote = inspected
    /\ pushes' = pushes - 1
    /\ out' = IF wf = "done" THEN out ELSE [out EXCEPT !.pushed = TRUE]
    /\ Goto(AfterInspect)
    /\ UNCHANGED <<kind, place, wf, session, ctx, cli, clone, inspected, remote, cancelled, notice, paid, unheard, faults>>

\* git push fails, whether the remote took it or not: the commits are kept.
PushFails ==
    /\ step = "push" /\ at \in {"restored", "git"}
    /\ IF Serving THEN at = "git" /\ Fault ELSE place = "machine" /\ UNCHANGED faults
    /\ pushes' = IF at = "git" THEN pushes - 1 ELSE pushes
    /\ IF left > 1
       THEN left' = left - 1 /\ at' = "start" /\ UNCHANGED <<step, out>>
       ELSE /\ Goto(IF Serving THEN "bundle" ELSE "publish")
            /\ Tell({"refused"})
    /\ UNCHANGED <<kind, place, wf, session, ctx, cli, clone, inspected, remote, cancelled, notice, paid, unheard>>

\* The attempt is given up on, its git goes on.
PushTimesOut ==
    /\ step = "push" /\ at = "git" /\ place = "worker" /\ Serving
    /\ Fault
    /\ IF left > 1
       THEN left' = left - 1 /\ at' = "start" /\ UNCHANGED <<step, out>>
       ELSE Goto("bundle") /\ Tell({"unsure"})
    /\ UNCHANGED <<kind, place, wf, session, ctx, cli, clone, inspected, pushes, remote, cancelled, notice, paid, unheard>>

\* A push nobody waits for ends.
PushDies ==
    /\ pushes > (IF step = "push" /\ at = "git" THEN 1 ELSE 0)
    /\ pushes' = pushes - 1
    /\ UNCHANGED <<kind, place, wf, step, left, at, session, ctx, cli, clone, inspected, remote, out, cancelled, notice, paid, unheard, faults>>

\* BundleBranch, keepCommits: the file, or why there is none.
BundleBranch ==
    /\ step = "bundle" /\ at \in {"restored", "changed"}
    /\ place = "worker" => Serving
    /\ out' = IF wf = "done" THEN out
              ELSE [out EXCEPT !.bundle = IF at = "restored" THEN "kept" ELSE "error"]
    /\ Goto(AfterInspect)
    /\ UNCHANGED <<kind, place, wf, session, ctx, cli, clone, inspected, pushes, remote, cancelled, notice, paid, unheard, faults>>

BundleFails ==
    /\ step = "bundle" /\ Serving
    /\ Fault
    /\ \/ left > 1 /\ left' = left - 1 /\ at' = "start" /\ UNCHANGED <<step, out>>
       \/ /\ Goto(AfterInspect)
          /\ out' = IF wf = "done" THEN out ELSE [out EXCEPT !.bundle = "error"]
    /\ UNCHANGED <<kind, place, wf, session, ctx, cli, clone, inspected, pushes, remote, cancelled, notice, paid, unheard>>

\* PublishOutputs: the files the run left in its outputs, whatever its end.
PublishOutputs ==
    /\ step = "publish" /\ at = "ready"
    /\ place = "worker" => Serving
    /\ Goto(IF place = "worker" THEN "inspect" ELSE "cleanup")
    /\ UNCHANGED <<kind, place, wf, session, ctx, cli, clone, inspected, pushes, remote, out, cancelled, notice, paid, unheard, faults>>

PublishFails ==
    /\ step = "publish" /\ at = "ready" /\ place = "worker" /\ Serving
    /\ Fault
    /\ IF left > 1
       THEN left' = left - 1 /\ at' = "start" /\ UNCHANGED step
       ELSE Goto("inspect")
    /\ UNCHANGED <<kind, place, wf, session, ctx, cli, clone, inspected, pushes, remote, out, cancelled, notice, paid, unheard>>

\* CleanupWorkspace, on every path out: then the answer, a machine's result.
CleanupWorkspace ==
    /\ step = "cleanup" /\ at = "ready"
    /\ place = "worker" => Serving
    /\ clone' = NoClone
    /\ Done
    /\ UNCHANGED <<kind, place, session, ctx, cli, inspected, pushes, remote, out, cancelled, notice, paid, unheard, faults>>

CleanupFails ==
    /\ step = "cleanup" /\ at = "ready" /\ place = "worker" /\ Serving
    /\ Fault
    /\ IF left > 1
       THEN left' = left - 1 /\ at' = "start" /\ UNCHANGED <<wf, step>>
       ELSE Done
    /\ UNCHANGED <<kind, place, session, ctx, cli, clone, inspected, pushes, remote, out, cancelled, notice, paid, unheard>>

Preparing == PrepareWorkspace \/ PrepareFails \/ MachineRefuses \/ HandoffUnanswered \/ UnheardWorks
             \/ RunCLI \/ HoldClone \/ RunReturns \/ RunTimesOut

Publishing == PublishOutputs \/ PublishFails \/ Inspect \/ InspectFails \/ RestoreGitConfig \/ AwaitRunEnd \/ StillActive
              \/ CleanupWorkspace \/ CleanupFails

Pushing == PushTampered \/ GitPush \/ PushLands \/ PushReturns \/ PushFails \/ PushTimesOut \/ PushDies
           \/ BundleBranch \/ BundleFails

----------------------------------------------------------------------------
\* What goes wrong around the steps.

\* The worker dies, stops, loses touch or the session reaches its bound.
SessionFails ==
    /\ session = "open" /\ wf = "waits"
    /\ Fault
    /\ session' = "failed"
    /\ cli' \in {cli, [cli EXCEPT !.st = IF @ = "none" THEN @ ELSE "over", !.login = IF @ = "renewed" THEN "lost" ELSE @]}
    /\ UNCHANGED <<kind, place, wf, step, left, at, ctx, clone, inspected, pushes, remote, out, cancelled, notice, paid, unheard>>

\* Mutant: a worker lost during the push is taken to have pushed nothing.
WorkerLostSure ==
    /\ session = "failed" /\ wf = "waits"
    /\ Done
    /\ out' = [out EXCEPT !.lost = TRUE,
                          !.interrupted = @ \/ step = "run",
                          !.bundle = IF step = "bundle" THEN "error" ELSE @,
                          !.says = @ \cup (CASE step = "push" -> {"nothing"}
                                             [] step \in {"prepare", "run", "publish", "inspect"} -> {"nothing"}
                                             [] OTHER -> {})]
    /\ UNCHANGED <<kind, place, session, ctx, cli, clone, inspected, pushes, remote, cancelled, notice, paid, unheard, faults>>

\* The step the workflow waits for ends with its worker: no cleanup, the
\* clone waits for the worker's next start.
WorkerLost ==
    /\ session = "failed" /\ wf = "waits"
    /\ Done
    /\ out' = [out EXCEPT !.lost = TRUE,
                          !.interrupted = @ \/ step = "run",
                          !.bundle = IF step = "bundle" THEN "error" ELSE @,
                          !.says = @ \cup (CASE step = "push" -> {"unsure"}
                                             [] step \in {"prepare", "run", "publish", "inspect"} -> {"nothing"}
                                             [] OTHER -> {})]
    /\ UNCHANGED <<kind, place, session, ctx, cli, clone, inspected, pushes, remote, cancelled, notice, paid, unheard, faults>>

\* The turn is stopped.
Cancel ==
    /\ ~cancelled /\ wf # "done"
    /\ cancelled' = TRUE
    /\ UNCHANGED <<kind, place, wf, step, left, at, session, ctx, cli, clone, inspected, pushes, remote, out, notice, paid, unheard, faults>>

\* Every step of a cancelled workflow ends at once, whatever its worker does;
\* the clone it was handed is still deleted.
CancelStep ==
    /\ cancelled /\ place = "worker" /\ session = "open" /\ step \notin {"none", "cleanup"}
    /\ IF step = "prepare" THEN Done ELSE Goto("cleanup") /\ UNCHANGED wf
    /\ clone' \in IF step = "prepare" THEN {NoClone, PreparedClone} ELSE {clone}
    /\ cli' = IF step = "run" THEN GivenUp ELSE cli
    /\ out' = [out EXCEPT !.interrupted = @ \/ step = "run",
                          !.bundle = IF step = "bundle" THEN "error" ELSE @,
                          !.says = IF step = "push" THEN @ \cup {"refused"} ELSE @]
    /\ UNCHANGED <<kind, place, session, ctx, inspected, pushes, remote, cancelled, notice, paid, unheard, faults>>

\* A machine's directive: cancelled, out of time, or its client stopped.
MachineStops ==
    /\ place = "machine" /\ ctx = "live" /\ step # "none"
    /\ \/ (cancelled \/ wf = "done" \/ Live) /\ UNCHANGED faults
       \/ Fault
    /\ ctx' = "ended"
    /\ UNCHANGED <<kind, place, wf, step, left, at, session, cli, clone, inspected, pushes, remote, out, cancelled, notice, paid, unheard>>

\* The workflow has no result: the machine is lost to it, and goes on.  The
\* last progress it gave, if it reached the workflow, tells whether the CLI ran.
MachineLost ==
    /\ place = "machine" /\ wf = "waits"
    /\ \/ cancelled /\ out' = NoAnswer /\ UNCHANGED faults
       \/ /\ Fault
          /\ out' \in {[NoAnswer EXCEPT !.says = says, !.lost = TRUE, !.interrupted = TRUE] :
                          says \in {{}} \cup (IF kind = "implement" /\ cli.st # "none" THEN {{"unsure"}} ELSE {})}
    /\ wf' = "done"
    /\ UNCHANGED <<kind, place, step, left, at, session, ctx, cli, clone, inspected, pushes, remote, cancelled, notice, paid, unheard>>

\* A machine that is out of time before its CLI started drops the run.
MachineGivesUp ==
    /\ place = "machine" /\ ctx = "ended"
    /\ step = "prepare" \/ (step = "run" /\ at = "start")
    /\ Done
    /\ clone' = NoClone
    /\ out' = IF wf = "done" THEN out ELSE [out EXCEPT !.lost = TRUE]
    /\ UNCHANGED <<kind, place, session, ctx, cli, inspected, pushes, remote, cancelled, notice, paid, unheard, faults>>

Losing == SessionFails \/ WorkerLost \/ Cancel \/ CancelStep \/ MachineStops \/ MachineLost \/ MachineGivesUp

Next == Routing \/ CLI \/ Preparing \/ Publishing \/ Pushing \/ Losing


\* What the code brings about by itself: every wait has a timeout, every
\* activity a bound, and a CLI that is told to end is killed.
Progress ==
    \/ NoMachine \/ OnMachine \/ Probe \/ NoticeSent \/ NoticeCleared \/ OpenRun \/ OpenFails \/ BusyAnswer
    \/ CliTold \/ (cli.stop = "ctx" /\ CliExits) \/ KeepCredentials
    \/ PrepareWorkspace \/ RunCLI \/ HoldClone \/ RunReturns \/ RunTimesOut \/ MachineStops
    \/ Publishing \/ PushTampered \/ GitPush \/ PushReturns \/ PushFails \/ PushLands \/ PushDies \/ BundleBranch
    \/ WorkerLost \/ CancelStep \/ MachineGivesUp

Spec == Init /\ [][Next]_vars /\ WF_vars(Progress)

----------------------------------------------------------------------------
CLIs == [st : {"none", "starting", "running", "over"}, tool : BOOLEAN, result : BOOLEAN,
         stop : {"no", "stall", "ctx"}, stray : BOOLEAN, login : {"same", "renewed", "kept", "lost"},
         late : BOOLEAN]

Clones == [there : BOOLEAN, head : 0..MaxCommits, onBranch : BOOLEAN,
           config : {"saved", "changed"}, owner : {"worker", "run"}]

Answers == [pushed : BOOLEAN, says : SUBSET {"nothing", "unsure", "refused", "tampered", "active"}, commits : 0..MaxCommits,
            bundle : {"none", "kept", "error"}, interrupted : BOOLEAN, lost : BOOLEAN]

TypeOK ==
    /\ kind \in {"analyze", "implement"}
    /\ place \in {"none", "machine", "worker"}
    /\ wf \in {"route", "probe", "open", "busy", "waits", "done"}
    /\ step \in Steps \cup {"none"}
    /\ left \in 1..3
    /\ at \in {"start", "ready", "restored", "changed", "git", "running"}
    /\ session \in {"none", "open", "failed"}
    /\ ctx \in {"live", "ended"}
    /\ cli \in CLIs
    /\ clone \in Clones
    /\ inspected \in 0..MaxCommits
    /\ pushes \in 0..2
    /\ remote \in 0..MaxCommits
    /\ out \in Answers
    /\ cancelled \in BOOLEAN
    /\ notice \in {"none", "sending", "clear after", "shown", "clearing", "cleared"}
    /\ paid \in Nat
    /\ unheard \in {"no", "runs", "worked"}
    /\ faults \in 0..MaxFaults

\* What is on the remote is the commit the inspection listed, whatever the run
\* or what it left behind wrote in the clone since (PushBranchInput.Commit);
\* an answer that says "pushed" names exactly that.
PublishedIsInspected ==
    /\ remote \in {0, inspected}
    /\ out.pushed => remote = inspected /\ out.commits = remote /\ remote > 0

\* An answer that says nothing was pushed is true, and stays true: no push of
\* the run is under way, not even one its attempt was given up on.  (A machine
\* that works unheard pushes a branch of another name.)
NothingPushedIsTrue == "nothing" \in out.says => remote = 0 /\ pushes = 0

\* No step deletes the clone under its CLI, that of an attempt given up
\* included, once the attempt held it: one given up before finds its clone
\* deleted, or has it deleted under the CLI it starts (late).
CloneOutlivesCLI == [][clone.there /\ ~clone'.there => ~Live' \/ cli'.late]_vars

\* On a worker that runs the CLI as another user, git pushes under the
\* configuration the worker saved, even with a process of the run still there.
PushesWithItsConfig == RunAs /\ place = "worker" /\ pushes > 0 => clone.config = "saved"

\* A run that worked is not run again elsewhere: a machine that turns a call
\* down has not let its CLI use a tool (Refusal, coding_run.go onFallback).
\* Only a machine whose handoff was taken for failed pays besides.
PaidOnce == paid <= (IF unheard = "worked" THEN 2 ELSE 1)

\* Commits the answer lists are accounted for: pushed, or the answer says why
\* not; and git failing to push them leaves a bundle, or why there is none,
\* unless the run was lost or stopped.
CommitsAccountedFor ==
    wf = "done" /\ out.commits > 0 /\ ~out.pushed =>
        /\ out.says # {} \/ cancelled
        /\ out.says \cap {"refused", "unsure"} # {} =>
              out.bundle # "none" \/ out.lost \/ cancelled \/ ctx = "ended"

\* An answer that says nothing was pushed, and one that lists commits, are
\* right of them, though the push was made and its answer lost, or the worker
\* died in it.  ("refused" is git's word, which a second attempt may say of what
\* the first one pushed.)
AnswerIsTrue == NothingPushedIsTrue /\ CommitsAccountedFor

\* A login the CLI renewed is kept once its run is over, unless its worker is
\* lost, or the run given up before it began: "an OAuth refresh can retire the
\* refresh token base holds, and the next run would find itself logged out"
\* (claudecode/config.go:80).
RenewalKept == cli.login = "lost" => session = "failed" \/ cli.late

\* Every call ends, and so does every CLI it started: none runs on for ever
\* after a timeout, a lost worker or a stopped turn.
CallEnds == <>[](wf = "done" /\ ~Live)

=============================================================================
