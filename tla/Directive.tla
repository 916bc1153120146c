----------------------------- MODULE Directive -----------------------------
(***************************************************************************)
(* The directives of one machine (store/machine.go, activity/machine.go,   *)
(* gateway, machine/connect): a workflow reserves one on the machine, its  *)
(* activity sets it running and hands it to the gateway, the gateway sends *)
(* it on the machine's connection, the machine runs it and keeps its       *)
(* result until the gateway, which completes the activity with it, acks.   *)
(*                                                                         *)
(* One action is one call to the database or to Temporal with what follows *)
(* it in memory, or one message read.  The two ends of a connection live   *)
(* apart: either may be gone while the other goes on.  The rotation of the *)
(* tokens is MachineToken's; a call to the model has its own path.         *)
(***************************************************************************)
EXTENDS Integers, Sequences, FiniteSets, SequencesExt

CONSTANTS
  Directives,     \* the directives' calls, one each
  Conns,          \* the connections, each made once
  NoConn,         \* no connection; a directive not sent
  Nothing,        \* no directive
  MaxDirectives,  \* how many the machine announced it takes at once
  MaxFaults,      \* bound: calls that fail, or whose answer is lost
  MaxCancels,     \* bound: activities their workflow cancels
  MaxCrashes,     \* bound: the machine crashes or stops, the server restarts
  MayRevoke       \* bound: whether the machine may be revoked

ASSUME DirectiveAssumption ==
  /\ IsFiniteSet(Directives) /\ IsFiniteSet(Conns)
  /\ NoConn \notin Conns /\ Nothing \notin Directives
  /\ MaxDirectives \in Nat \ {0}
  /\ MaxFaults \in Nat /\ MaxCancels \in Nat /\ MaxCrashes \in Nat /\ MayRevoke \in BOOLEAN

VARIABLES
  row,        \* row[d]: the directive's row: its state, connection and kept result
  worker,     \* worker[d]: where the worker stands with it
  activity,   \* activity[d]: RunOnMachine for Temporal: "none", "open" or its outcome
  cancelReq,  \* cancelReq[d]: its workflow asked for its cancellation
  due,        \* due[d]: its deadline passed
  revoked,    \* the machine is revoked
  gconn, gstage,  \* the gateway's connection to the machine, and how far it is
  calls,      \* connections whose hello the gateway has still to read
  carried,    \* directives the connection carries
  told,       \* those of them told to cancel (cancelSent)
  early,      \* history: those of them told before they were sent
  beat,       \* the one whose heartbeat is on its way
  sends,      \* sends about to mark their directive sent
  marks,      \* sends that marked it, about to attach it to the connection
  writes,     \* sends that attached it, about to write it
  loses,      \* directives reconcile is about to lose
  ending,     \* activities about to be ended with an error
  res,        \* res[d]: the handler completing d's result, which claims it
  cconn, cstage,  \* the client's connection, and how far its hello is
  hello,      \* hello[c]: what c's hello lists
  down, up,   \* down[c], up[c]: messages to the machine, results to the gateway
  job,        \* job[d]: its run on the machine
  cause,      \* cause[d]: why its run was told to end
  marked,     \* directives marked running on the machine's disk
  kept,       \* results on the machine's disk
  out,        \* out[d]: the status of the machine's result
  stopping, refused,  \* the client stops; it was refused for good
  used, faults, cancels, crashes,   \* what was used of the bounds
  runs,       \* history: runs[d], the runs started
  unkept      \* history: results the disk could not keep

temporal == <<activity, cancelReq, due>>
conn == <<gconn, gstage, carried, told, early, beat, sends, marks, writes, loses>>
gateway == <<conn, calls, ending, res>>
session == <<cconn, cstage, hello>>
wire == <<down, up>>
disk == <<marked, kept>>
machine == <<job, cause, disk, out, stopping, refused, runs, unkept>>
bounds == <<faults, cancels, crashes>>
vars == <<row, worker, temporal, revoked, gateway, session, wire, machine, used, bounds>>

Ends == {"completed", "failed", "canceled", "machine_stopping", "refused", "lost", "revoked",
         "orphaned", "expired", "gone"}
Statuses == {"ok", "error", "canceled", "stopping", "refused"}
Outcomes == {"ok", "failed", "canceled", "stopping", "refused", "lost", "revoked", "closed",
             "notHanded", "error", "timeout"}
Types == {"welcome", "directive", "cancel", "ack"}

Row == [state : Ends \cup {"absent", "reserved", "running"}, token : BOOLEAN,
        sent : Conns \cup {NoConn}, result : Statuses \cup {"none"}]
Claim == [at : {"none", "got", "finish", "completed", "gone"}, conn : Conns \cup {NoConn}]
Hello == [running : SUBSET Directives, finished : SUBSET Directives]
Frame == [type : {"welcome"}, id : {Nothing}] \cup [type : Types \ {"welcome"}, id : Directives]

Absent == [state |-> "absent", token |-> FALSE, sent |-> NoConn, result |-> "none"]
NoHello == [running |-> {}, finished |-> {}]
Free == [at |-> "none", conn |-> NoConn]

TypeOK ==
  /\ row \in [Directives -> Row]
  /\ worker \in [Directives -> {"no", "picked", "handing", "closing", "out"}]
  /\ activity \in [Directives -> Outcomes \cup {"none", "open"}]
  /\ cancelReq \in [Directives -> BOOLEAN] /\ due \in [Directives -> BOOLEAN]
  /\ revoked \in BOOLEAN
  /\ gconn \in Conns \cup {NoConn} /\ gstage \in {"none", "ready", "reconciling", "live"}
  /\ calls \subseteq Conns
  /\ carried \subseteq Directives /\ told \subseteq Directives /\ early \subseteq Directives
  /\ beat \in Directives \cup {Nothing}
  /\ sends \subseteq Directives /\ marks \subseteq Directives /\ writes \subseteq Directives
  /\ loses \subseteq Directives
  /\ ending \subseteq Directives \X {"lost", "revoked"}
  /\ res \in [Directives -> Claim]
  /\ cconn \in Conns \cup {NoConn} /\ cstage \in {"off", "results", "on"}
  /\ hello \in [Conns -> Hello]
  /\ down \in [Conns -> Seq(Frame)]
  /\ up \in [Conns -> SUBSET Directives]
  /\ job \in [Directives -> {"none", "run", "ended"}]
  /\ cause \in [Directives -> {"none", "canceled", "stopping"}]
  /\ marked \subseteq Directives /\ kept \subseteq Directives
  /\ out \in [Directives -> Statuses \cup {"none"}]
  /\ stopping \in BOOLEAN /\ refused \in BOOLEAN
  /\ used \subseteq Conns /\ faults \in Nat /\ cancels \in Nat /\ crashes \in Nat
  /\ runs \in [Directives -> Nat] /\ unkept \subseteq Directives

Init ==
  /\ row = [d \in Directives |-> Absent]
  /\ worker = [d \in Directives |-> "no"]
  /\ activity = [d \in Directives |-> "none"]
  /\ cancelReq = [d \in Directives |-> FALSE] /\ due = [d \in Directives |-> FALSE]
  /\ revoked = FALSE
  /\ gconn = NoConn /\ gstage = "none" /\ calls = {}
  /\ carried = {} /\ told = {} /\ early = {} /\ beat = Nothing
  /\ sends = {} /\ marks = {} /\ writes = {} /\ loses = {} /\ ending = {}
  /\ res = [d \in Directives |-> Free]
  /\ cconn = NoConn /\ cstage = "off"
  /\ hello = [c \in Conns |-> NoHello]
  /\ down = [c \in Conns |-> <<>>] /\ up = [c \in Conns |-> {}]
  /\ job = [d \in Directives |-> "none"] /\ cause = [d \in Directives |-> "none"]
  /\ marked = {} /\ kept = {}
  /\ out = [d \in Directives |-> "none"]
  /\ stopping = FALSE /\ refused = FALSE
  /\ used = {} /\ faults = 0 /\ cancels = 0 /\ crashes = 0
  /\ runs = [d \in Directives |-> 0] /\ unkept = {}

Fault == faults < MaxFaults /\ faults' = faults + 1
Set(f, d, v) == [f EXCEPT ![d] = v]

----------------------------------------------------------------------------
(* The rows: PickMachine, StartDirective, CloseDirective. *)

Open(d) == row[d].state \in {"reserved", "running"}
Running(d) == row[d].state = "running"
Reserve(d) == [row EXCEPT ![d] = [Absent EXCEPT !.state = "reserved"]]
Started(d) == [row EXCEPT ![d].state = "running", ![d].token = TRUE]

\* CloseDirective: an open one only.
Closed(d, state) == IF Open(d) THEN [row EXCEPT ![d].state = state] ELSE row

\* Mutant: the cap is past by one.
HasRoomPast == Cardinality({d \in Directives : Open(d)}) <= MaxDirectives

\* Under the cap the machine announced: its load is its open rows.
HasRoom == Cardinality({d \in Directives : Open(d)}) < MaxDirectives

\* A directive the call has already, or a machine that takes it.
Pickable(d) == row[d].state # "absent" \/ (~revoked /\ HasRoom)

----------------------------------------------------------------------------
(* The workflow and its worker: PickMachine, RunOnMachine. *)

\* The activity, still there, ends.
EndActivity(d, outcome) ==
  activity' = IF activity[d] = "open" THEN Set(activity, d, outcome) ELSE activity

\* PickMachine reserves the machine, in a transaction that holds it; made
\* again, it finds its directive, whatever became of it.  RunOnMachine is
\* then scheduled.
PickMachine(d) ==
  /\ worker[d] = "no"
  /\ Pickable(d)
  /\ row' = IF row[d].state = "absent" THEN Reserve(d) ELSE row
  /\ \/ worker' = Set(worker, d, "picked") /\ activity' = Set(activity, d, "open")
        /\ UNCHANGED faults
     \/ Fault /\ worker' \in {worker, Set(worker, d, "out")} /\ UNCHANGED activity
  /\ UNCHANGED <<cancelReq, due, revoked, gateway, session, wire, machine, used, cancels, crashes>>

\* None takes it (offline, paused, full, without the capability): the call
\* goes elsewhere.
NoMachine(d) ==
  /\ worker[d] = "no" /\ row[d].state = "absent"
  /\ worker' = Set(worker, d, "out")
  /\ UNCHANGED <<row, temporal, revoked, gateway, session, wire, machine, used, bounds>>

\* RunOnMachine's StartDirective: its task token set, a reserved one runs; one
\* attempt only, whatever the database did.
StartDirective(d) ==
  /\ worker[d] = "picked"
  /\ \/ /\ row[d].state = "reserved"
        /\ row' = Started(d) /\ worker' = Set(worker, d, "handing")
        /\ UNCHANGED <<activity, faults>>
     \/ /\ row[d].state # "reserved"
        /\ EndActivity(d, IF row[d].state = "revoked" THEN "revoked" ELSE "closed")
        /\ worker' = Set(worker, d, "out") /\ UNCHANGED <<row, faults>>
     \/ /\ Fault
        /\ row' \in {row} \cup (IF row[d].state = "reserved" THEN {Started(d)} ELSE {})
        /\ EndActivity(d, "error") /\ worker' = Set(worker, d, "out")
  /\ UNCHANGED <<cancelReq, due, revoked, gateway, session, wire, machine, used, cancels, crashes>>

\* deliver, then Gateway.Deliver: a connection welcomed sends it, or the next
\* hello does; a directive over is refused for good.  An answer lost is tried
\* again, or given up.
Deliver(d) ==
  /\ worker[d] = "handing"
  /\ \/ /\ Running(d)
        /\ sends' = IF gconn = NoConn THEN sends ELSE sends \cup {d}
        /\ \/ worker' = Set(worker, d, "out") /\ UNCHANGED faults
           \/ Fault /\ worker' \in {worker, Set(worker, d, "closing")}
     \/ ~Running(d) /\ worker' = Set(worker, d, "closing") /\ UNCHANGED <<sends, faults>>
     \/ Fault /\ worker' \in {worker, Set(worker, d, "closing")} /\ UNCHANGED sends
  /\ UNCHANGED <<row, temporal, revoked, gconn, gstage, carried, told, early, beat, marks, writes,
                 loses, calls, ending, res, session, wire, machine, used, cancels, crashes>>

\* Not handed over: the row is closed, if it can be, and the activity fails.
NotHanded(d) ==
  /\ worker[d] = "closing"
  /\ worker' = Set(worker, d, "out")
  /\ EndActivity(d, "notHanded")
  /\ \/ row' = Closed(d, "failed") /\ UNCHANGED faults
     \/ Fault /\ UNCHANGED row
  /\ UNCHANGED <<cancelReq, due, revoked, gateway, session, wire, machine, used, cancels, crashes>>

\* The workflow cancels the activity: one no worker started yet ends at once,
\* another waits for the machine's last word.
CancelActivity(d) ==
  /\ activity[d] = "open" /\ ~cancelReq[d] /\ cancels < MaxCancels
  /\ cancels' = cancels + 1
  /\ cancelReq' = Set(cancelReq, d, TRUE)
  /\ \/ UNCHANGED <<activity, worker>>
     \/ /\ worker[d] = "picked"
        /\ activity' = Set(activity, d, "canceled") /\ worker' = Set(worker, d, "out")
  /\ UNCHANGED <<row, due, revoked, gateway, session, wire, machine, used, faults, crashes>>

DeadlinePasses(d) ==
  /\ Running(d) /\ ~due[d]
  /\ due' = Set(due, d, TRUE)
  /\ UNCHANGED <<row, worker, activity, cancelReq, revoked, gateway, session, wire, machine, used,
                 bounds>>

\* Temporal times it out: past its deadline, or without a heartbeat.
Timeout(d) ==
  /\ activity[d] = "open" /\ worker[d] # "picked"
  /\ due[d] \/ d \notin carried
  /\ activity' = Set(activity, d, "timeout")
  /\ UNCHANGED <<row, worker, cancelReq, due, revoked, gateway, session, wire, machine, used, bounds>>

----------------------------------------------------------------------------
(* The gateway's connection: serve, reconcile, send, lose, heartbeat. *)

Message(type, d) == [type |-> type, id |-> d]

\* The messages of a type about S's directives, in any order.
Tell(type, S) == SetToSeqs({Message(type, d) : d \in S})

\* Messages written on the gateway's connection; a client gone reads none.
Write(ms) ==
  down' = IF gconn = NoConn \/ cconn # gconn THEN down ELSE [down EXCEPT ![gconn] = @ \o ms]

\* No longer carried.
Detach(S) == carried' = carried \ S /\ told' = told \ S /\ early' = early \ S

\* The connection ends for the gateway, and what its context carried with it.
EndConn ==
  /\ gconn' = NoConn /\ gstage' = "none"
  /\ carried' = {} /\ told' = {} /\ early' = {} /\ beat' = Nothing
  /\ sends' = {} /\ marks' = {} /\ writes' = {} /\ loses' = {}
  /\ up' = [up EXCEPT ![gconn] = {}]

\* The client lists the results it keeps, then its jobs, and says hello.
HelloResults(c) ==
  /\ cconn = NoConn /\ c \notin used /\ ~stopping /\ ~refused
  /\ used' = used \cup {c}
  /\ cconn' = c /\ cstage' = "results"
  /\ hello' = [hello EXCEPT ![c].finished = kept]
  /\ UNCHANGED <<row, worker, temporal, revoked, gateway, wire, machine, bounds>>

HelloJobs ==
  /\ cstage = "results"
  /\ cstage' = "on"
  /\ hello' = [hello EXCEPT ![cconn].running = {d \in Directives : job[d] # "none"}]
  /\ calls' = calls \cup {cconn}
  /\ UNCHANGED <<row, worker, temporal, revoked, conn, ending, res, cconn, wire, machine, used,
                 bounds>>

\* register, to the welcome: a stale connection gives way once its serve is
\* over; one that answers is a duplicate, and both are cut.  The call of the
\* client's present connection is its last: an older one's token is rotated.
Register(c) ==
  /\ c \in calls /\ ~revoked
  /\ gconn = NoConn \/ gstage = "live"
  /\ calls' = IF c = cconn THEN {} ELSE calls \ {c}
  /\ up' = [x \in Conns |-> IF x = gconn \/ (x \in calls \ {c} /\ x \notin calls') THEN {} ELSE up[x]]
  /\ carried' = {} /\ told' = {} /\ early' = {} /\ beat' = Nothing
  /\ sends' = {} /\ marks' = {} /\ writes' = {} /\ loses' = {}
  /\ IF gconn # NoConn /\ cconn = gconn
     THEN gconn' = NoConn /\ gstage' = "none" /\ UNCHANGED down
     ELSE /\ gconn' = c /\ gstage' = "ready"
          /\ down' = IF cconn = c THEN [down EXCEPT ![c] = <<Message("welcome", Nothing)>>] ELSE down
  /\ UNCHANGED <<row, worker, temporal, revoked, ending, res, session, machine, used, bounds>>

\* The hello is not read, or the machine refused.
RegisterFails(c) ==
  /\ c \in calls
  /\ calls' = calls \ {c}
  /\ up' = [up EXCEPT ![c] = {}]
  /\ hello' = [hello EXCEPT ![c] = NoHello]
  /\ UNCHANGED <<row, worker, temporal, revoked, conn, ending, res, cconn, cstage, down, machine, used,
                 bounds>>

\* Sent on an earlier connection.
ToLose(d) == row[d].sent \notin {NoConn, gconn}

\* reconcile: what the machine lists against the rows open for it.
Reconcile ==
  LET open == {d \in Directives : Running(d)}
      listed == hello[gconn].running \cup hello[gconn].finished
  IN
  /\ gstage = "ready"
  /\ \/ /\ gstage' = "reconciling"
        /\ carried' = carried \cup (open \cap listed)
        /\ \E stop \in Tell("cancel", hello[gconn].running \ open),
              drop \in Tell("ack", hello[gconn].finished \ open) : Write(stop \o drop)
        /\ sends' = sends \cup {d \in open \ listed : row[d].sent = NoConn}
        /\ loses' = {d \in open \ listed : ToLose(d)}
        /\ UNCHANGED <<gconn, told, early, beat, marks, writes, up, faults>>
     \/ Fault /\ EndConn /\ UNCHANGED down
  /\ hello' = [hello EXCEPT ![gconn] = NoHello]
  /\ UNCHANGED <<row, worker, temporal, revoked, calls, ending, res, cconn, cstage, machine, used,
                 cancels, crashes>>

\* Its messages are read from here on.
Reconciled ==
  /\ gstage = "reconciling" /\ loses = {} /\ sends = {} /\ marks = {} /\ writes = {}
  /\ \A e \in ending : e[2] # "lost"
  /\ gstage' = "live"
  /\ UNCHANGED <<row, worker, temporal, revoked, gconn, carried, told, early, beat, sends, marks, writes,
                 loses, calls, ending, res, session, wire, machine, used, bounds>>

\* Mutant: a directive is sent by each connection that finds it running.
SendableAgain(d) == Running(d)

\* MarkDirectiveSent: once, while it runs.
Sendable(d) == Running(d) /\ row[d].sent = NoConn

MarkSent(d) ==
  /\ d \in sends
  /\ sends' = sends \ {d}
  /\ \/ /\ Sendable(d)
        /\ row' = [row EXCEPT ![d].sent = gconn]
        /\ \/ marks' = marks \cup {d} /\ UNCHANGED faults
           \/ Fault /\ UNCHANGED marks
     \/ ~Sendable(d) /\ UNCHANGED <<row, marks, faults>>
     \/ Fault /\ UNCHANGED <<row, marks>>
  /\ UNCHANGED <<worker, temporal, revoked, gconn, gstage, carried, told, early, beat, writes, loses,
                 calls, ending, res, session, wire, machine, used, cancels, crashes>>

\* Carried, then written: a heartbeat may come between.
Attach(d) ==
  /\ d \in marks
  /\ marks' = marks \ {d} /\ writes' = writes \cup {d}
  /\ carried' = carried \cup {d}
  /\ UNCHANGED <<row, worker, temporal, revoked, gconn, gstage, told, early, beat, sends, loses, calls,
                 ending, res, session, wire, machine, used, bounds>>

WriteDirective(d) ==
  /\ d \in writes
  /\ writes' = writes \ {d}
  /\ Write(<<Message("directive", d)>>)
  /\ UNCHANGED <<row, worker, temporal, revoked, gconn, gstage, carried, told, early, beat, sends,
                 marks, loses, calls, ending, res, session, up, machine, used, bounds>>

\* lose: closed first, its activity ended next.
Lose(d) ==
  /\ d \in loses
  /\ loses' = loses \ {d}
  /\ \/ /\ row' = Closed(d, "lost")
        /\ ending' = IF Open(d) THEN ending \cup {<<d, "lost">>} ELSE ending
        /\ UNCHANGED faults
     \/ Fault /\ row' \in {row, Closed(d, "lost")} /\ UNCHANGED ending
  /\ UNCHANGED <<worker, temporal, revoked, gconn, gstage, carried, told, early, beat, sends, marks, writes,
                 calls, res, session, wire, machine, used, cancels, crashes>>

\* The activity of a directive lost or revoked is ended; past the tries it is
\* left to its timeout.
EndDirective(e) ==
  /\ e \in ending
  /\ ending' = ending \ {e}
  /\ \/ EndActivity(e[1], e[2]) /\ UNCHANGED faults
     \/ Fault /\ UNCHANGED activity
  /\ UNCHANGED <<row, worker, cancelReq, due, revoked, conn, calls, res, session, wire, machine,
                 used, cancels, crashes>>

\* heartbeats: one being completed is passed over.
Beat(d) ==
  /\ gstage = "live" /\ beat = Nothing /\ d \in carried /\ res[d].at = "none"
  /\ beat' = d
  /\ UNCHANGED <<row, worker, temporal, revoked, gconn, gstage, carried, told, early, sends, marks, writes, loses,
                 calls, ending, res, session, wire, machine, used, bounds>>

\* Mutant: the machine is not told.
BeatCanceledUntold(d) ==
  /\ activity[d] = "open" /\ cancelReq[d]
  /\ told' = IF d \in carried THEN told \cup {d} ELSE told
  /\ UNCHANGED <<row, carried, early, down, faults>>

\* heartbeat: cancelled, the machine is told, once; gone, it is told, and the
\* directive closed.
BeatCanceled(d) ==
  /\ activity[d] = "open" /\ cancelReq[d]
  /\ told' = IF d \in carried THEN told \cup {d} ELSE told
  /\ early' = IF d \in (carried \ told) \cap writes THEN early \cup {d} ELSE early
  /\ Write(IF d \in carried \ told THEN <<Message("cancel", d)>> ELSE <<>>)
  /\ UNCHANGED <<row, carried, faults>>

BeatGone(d) ==
  /\ activity[d] # "open"
  /\ IF d \in carried
     THEN /\ Detach({d})
          /\ Write(<<Message("cancel", d)>>)
          /\ \/ row' = Closed(d, "gone") /\ UNCHANGED faults
             \/ Fault /\ UNCHANGED row
     ELSE UNCHANGED <<row, carried, told, early, down, faults>>

BeatAnswer ==
  /\ beat # Nothing
  /\ beat' = Nothing
  /\ \/ BeatCanceled(beat)
     \/ BeatGone(beat)
     \/ activity[beat] = "open" /\ ~cancelReq[beat] /\ UNCHANGED <<row, carried, told, early, down, faults>>
     \/ Fault /\ UNCHANGED <<row, carried, told, early, down>>
  /\ UNCHANGED <<worker, temporal, revoked, gconn, gstage, sends, marks, writes, loses, calls, ending, res,
                 session, up, machine, used, cancels, crashes>>

\* The gateway closes it: no pong, a read or a write that failed.
ConnEnds ==
  /\ gstage = "live"
  /\ EndConn
  /\ UNCHANGED <<row, worker, temporal, revoked, calls, ending, res, session, down, machine, used, bounds>>

----------------------------------------------------------------------------
(* The results: result, finish, the sweep. *)

\* readLoop: a result claimed already is dropped.
ReadResult(d) ==
  /\ gstage = "live" /\ d \in up[gconn]
  /\ up' = [up EXCEPT ![gconn] = @ \ {d}]
  /\ res' = IF res[d].at = "none" THEN Set(res, d, [at |-> "got", conn |-> gconn]) ELSE res
  /\ UNCHANGED <<row, worker, temporal, revoked, conn, calls, ending, session, down, machine, used,
                 bounds>>

\* Its connection, if it is still there, carries it no more and acks; the
\* sweep acks on the one that carries it.
Ack(d) ==
  IF gconn # NoConn /\ (res[d].conn = gconn \/ (res[d].conn = NoConn /\ d \in carried))
  THEN Detach({d}) /\ Write(<<Message("ack", d)>>)
  ELSE UNCHANGED <<carried, told, early, down>>

\* GetDirective, SaveDirectiveResult: the result of a directive still running
\* is kept; of one over, dropped.  A database error closes the connection, and
\* so does a result too large for its kind: the machine keeps it.
SaveResult(d) ==
  /\ res[d].at = "got"
  /\ \/ /\ Running(d)
        /\ row' = [row EXCEPT ![d].result = out[d]]
        /\ res' = Set(res, d, [res[d] EXCEPT !.at = "finish"])
        /\ UNCHANGED <<conn, wire, faults>>
     \/ /\ ~Running(d)
        /\ Ack(d)
        /\ res' = Set(res, d, Free)
        /\ UNCHANGED <<row, gconn, gstage, beat, sends, marks, writes, loses, up, faults>>
     \/ /\ Fault
        /\ res' = Set(res, d, Free)
        /\ IF gconn = res[d].conn THEN EndConn ELSE UNCHANGED <<conn, up>>
        /\ UNCHANGED <<row, down>>
  /\ UNCHANGED <<worker, temporal, revoked, calls, ending, session, machine, used, cancels, crashes>>

\* completion: what the machine's status makes of the activity.  Temporal
\* takes a cancellation only when it was asked for.
Completion(d) ==
  CASE row[d].result = "error" -> "failed"
    [] row[d].result = "canceled" -> IF cancelReq[d] THEN "canceled" ELSE "failed"
    [] OTHER -> row[d].result

\* Mutant: an activity gone counts as completed.
CompleteAnyway(d) ==
  /\ res[d].at = "finish"
  /\ EndActivity(d, Completion(d))
  /\ res' = Set(res, d, [res[d] EXCEPT !.at = "completed"])
  /\ UNCHANGED <<row, worker, cancelReq, due, revoked, conn, calls, ending, session, wire, machine,
                 used, bounds>>

\* CompleteActivity: an activity gone drops the result.  Past its tries the
\* result waits in the row for the sweep, whose own try is one.
Complete(d) ==
  /\ res[d].at = "finish"
  /\ \/ /\ EndActivity(d, Completion(d))
        /\ res' = Set(res, d, [res[d] EXCEPT !.at = IF activity[d] = "open" THEN "completed"
                                                    ELSE "gone"])
        /\ UNCHANGED faults
     \/ /\ Fault
        /\ \/ EndActivity(d, Completion(d))
           \/ UNCHANGED activity
        /\ res' \in {Set(res, d, Free)} \cup (IF res[d].conn = NoConn THEN {} ELSE {res})
  /\ UNCHANGED <<row, worker, cancelReq, due, revoked, conn, calls, ending, session, wire, machine,
                 used, cancels, crashes>>

\* closedState: what it makes of the row.
ClosedState(d) ==
  CASE row[d].result = "ok" -> "completed"
    [] row[d].result = "stopping" -> "machine_stopping"
    [] row[d].result = "error" -> "failed"
    [] OTHER -> row[d].result

\* CloseDirective, whose failure is only logged, then the ack.
CloseResult(d) ==
  /\ res[d].at \in {"completed", "gone"}
  /\ \/ row' = Closed(d, IF res[d].at = "gone" THEN "gone" ELSE ClosedState(d))
        /\ UNCHANGED faults
     \/ Fault /\ UNCHANGED row
  /\ Ack(d)
  /\ res' = Set(res, d, Free)
  /\ UNCHANGED <<worker, temporal, revoked, gconn, gstage, beat, sends, marks, writes, loses, calls, ending,
                 session, up, machine, used, cancels, crashes>>

\* retryResults: a result kept and not completed.
SweepResult(d) ==
  /\ Running(d) /\ row[d].result # "none" /\ res[d].at = "none"
  /\ res' = Set(res, d, [at |-> "finish", conn |-> NoConn])
  /\ UNCHANGED <<row, worker, temporal, revoked, conn, calls, ending, session, wire, machine, used,
                 bounds>>

\* Mutant: what runs is left to its activity.
SweptReserved(d) == row[d].state = "reserved"

\* SweepDirectives: reserved past its handoff, or running past its deadline.
Swept(d) == row[d].state = "reserved" \/ (Running(d) /\ due[d])

SweepDirective(d) ==
  /\ Swept(d)
  /\ row' = Closed(d, IF Running(d) THEN "expired" ELSE "orphaned")
  /\ Detach({d})
  /\ Write(IF d \in carried THEN <<Message("cancel", d)>> ELSE <<>>)
  /\ UNCHANGED <<worker, temporal, revoked, gconn, gstage, beat, sends, marks, writes, loses, calls, ending,
                 res, session, up, machine, used, bounds>>

\* revoke: every open row is closed, the machine told, the activities ended.
Revoke ==
  /\ MayRevoke /\ ~revoked
  /\ revoked' = TRUE
  /\ LET closed == {d \in Directives : Open(d)} IN
       /\ row' = [d \in Directives |-> IF d \in closed THEN [row[d] EXCEPT !.state = "revoked"]
                                       ELSE row[d]]
       /\ ending' = ending \cup {<<d, "revoked">> : d \in {e \in closed : row[e].token}}
       /\ Detach(closed)
       /\ \E stop \in Tell("cancel", closed) : Write(stop)
  /\ UNCHANGED <<worker, temporal, gconn, gstage, beat, sends, marks, writes, loses, calls, res, session, up,
                 machine, used, bounds>>

\* The server restarts: its connections, claims and calls are gone.
ServerRestart ==
  /\ crashes < MaxCrashes
  /\ crashes' = crashes + 1
  /\ gconn' = NoConn /\ gstage' = "none"
  /\ carried' = {} /\ told' = {} /\ early' = {} /\ beat' = Nothing
  /\ sends' = {} /\ marks' = {} /\ writes' = {} /\ loses' = {} /\ ending' = {} /\ calls' = {}
  /\ res' = [d \in Directives |-> Free]
  /\ up' = [c \in Conns |-> {}]
  /\ UNCHANGED <<row, worker, temporal, revoked, session, down, machine, used, faults, cancels>>

----------------------------------------------------------------------------
(* The machine's client: session, start, run, cancel, recover. *)

\* send: on its connection, if there is one; results are kept besides.
Send(S) ==
  up' = IF cstage = "on" /\ (cconn \in calls \/ cconn = gconn)
        THEN [up EXCEPT ![cconn] = @ \cup S] ELSE up

Jobs == {d \in Directives : job[d] # "none"}

\* start: one it runs, or holds the result of, is not started again.
Known(d) == job[d] # "none" \/ d \in kept

\* Mutant: a result is only sent.
KeepNot(d) == UNCHANGED <<kept, unkept, faults>>

\* SaveResult: on disk, unless the disk fails.
Keep(d) ==
  \/ kept' = kept \cup {d} /\ UNCHANGED <<unkept, faults>>
  \/ Fault /\ unkept' = unkept \cup {d} /\ UNCHANGED kept

\* Refused, its refusal kept: no executor or capability for it now, full, or
\* no mark could be written.
Refuse(d) ==
  /\ out' = Set(out, d, "refused")
  /\ Keep(d)
  /\ Send({d})
  /\ UNCHANGED <<job, cause, marked, runs>>

\* Marked running on disk, then run.
Begin(d) ==
  /\ Cardinality(Jobs) < MaxDirectives
  /\ marked' = marked \cup {d}
  /\ job' = Set(job, d, "run")
  /\ cause' = Set(cause, d, IF stopping \/ refused THEN "stopping" ELSE "none")
  /\ runs' = Set(runs, d, runs[d] + 1)
  /\ UNCHANGED <<kept, out, up, unkept, faults>>

\* cancel: a run is told to end; a result is dropped.
Cancel(d) ==
  /\ cause' = IF job[d] = "run" /\ cause[d] = "none" THEN Set(cause, d, "canceled") ELSE cause
  /\ kept' = IF job[d] = "none" THEN kept \ {d} ELSE kept
  /\ UNCHANGED <<job, marked, out, runs, up, unkept, faults>>

\* The client reads a message: welcomed, it sends the results it keeps.
Receive ==
  /\ cstage = "on" /\ down[cconn] # <<>>
  /\ down' = [down EXCEPT ![cconn] = Tail(@)]
  /\ LET m == Head(down[cconn]) IN
       \/ /\ m.type = "welcome" /\ Send(kept)
          /\ UNCHANGED <<job, cause, disk, out, runs, unkept, faults>>
       \/ /\ m.type = "directive" /\ Known(m.id)
          /\ UNCHANGED <<job, cause, disk, out, runs, unkept, up, faults>>
       \/ m.type = "directive" /\ ~Known(m.id) /\ (Refuse(m.id) \/ Begin(m.id))
       \/ m.type = "cancel" /\ Cancel(m.id)
       \/ /\ m.type = "ack" /\ kept' = kept \ {m.id}
          /\ UNCHANGED <<job, cause, marked, out, runs, unkept, up, faults>>
  /\ UNCHANGED <<row, worker, temporal, revoked, gateway, session, stopping, refused, used, cancels,
                 crashes>>

\* The status of a run's result: what the executor said, else why it was
\* told to end.
Status(d) == {"ok", "refused", IF cause[d] = "none" THEN "error" ELSE cause[d]}

\* run: the result is kept, if the disk takes it, before it is unmarked.
RunEnds(d) ==
  /\ job[d] = "run"
  /\ job' = Set(job, d, "ended")
  /\ \E s \in Status(d) : out' = Set(out, d, s)
  /\ Keep(d)
  /\ UNCHANGED <<row, worker, temporal, revoked, gateway, session, wire, cause, marked, stopping,
                 refused, runs, used, cancels, crashes>>

RunSent(d) ==
  /\ job[d] = "ended"
  /\ job' = Set(job, d, "none") /\ cause' = Set(cause, d, "none")
  /\ marked' = marked \ {d}
  /\ Send({d})
  /\ UNCHANGED <<row, worker, temporal, revoked, gateway, session, down, kept, out, stopping,
                 refused, runs, unkept, used, bounds>>

\* The connection ends for the client.
Disconnect ==
  /\ down' = IF cconn = NoConn THEN down ELSE [down EXCEPT ![cconn] = <<>>]
  /\ cconn' = NoConn /\ cstage' = "off"

Leave ==
  /\ cconn # NoConn
  /\ Disconnect
  /\ UNCHANGED <<row, worker, temporal, revoked, gateway, hello, up, machine, used, bounds>>

\* Mutant: the runs are left alone.
StopNone == UNCHANGED cause

\* stopJobs: every run is told to end.
StopJobs == cause' = [d \in Directives |-> IF job[d] = "run" /\ cause[d] = "none" THEN "stopping"
                                           ELSE cause[d]]

\* The client is told to stop: its runs end, their results go out.
ClientStop ==
  /\ crashes < MaxCrashes /\ ~stopping
  /\ crashes' = crashes + 1
  /\ stopping' = TRUE
  /\ StopJobs
  /\ UNCHANGED <<row, worker, temporal, revoked, gateway, session, wire, job, disk, out, refused,
                 runs, unkept, used, faults, cancels>>

\* It is over, and started again.
ClientExit ==
  /\ stopping /\ Jobs = {}
  /\ stopping' = FALSE
  /\ Disconnect
  /\ UNCHANGED <<row, worker, temporal, revoked, gateway, hello, up, job, cause, disk, out, refused,
                 runs, unkept, used, bounds>>

\* Refused for good: closed as revoked, or its token is.
ClientRefused ==
  /\ revoked /\ ~refused /\ (cconn = NoConn \/ cconn # gconn)
  /\ refused' = TRUE
  /\ StopJobs
  /\ Disconnect
  /\ UNCHANGED <<row, worker, temporal, revoked, gateway, hello, up, job, disk, out, stopping, runs,
                 unkept, used, bounds>>

\* recover: what a crash left running is reported as failed.
Recover ==
  /\ kept' = kept \cup marked
  /\ out' = [d \in Directives |-> IF d \in marked \ kept THEN "error" ELSE out[d]]

\* It crashes, and is started again.
ClientCrash ==
  /\ crashes < MaxCrashes
  /\ crashes' = crashes + 1
  /\ job' = [d \in Directives |-> "none"] /\ cause' = [d \in Directives |-> "none"]
  /\ Recover
  /\ marked' = {}
  /\ stopping' = FALSE
  /\ Disconnect
  /\ UNCHANGED <<row, worker, temporal, revoked, gateway, hello, up, refused, runs, unkept, used,
                 faults, cancels>>

----------------------------------------------------------------------------
(* The goroutines: each does one thing after another. *)

Worker(d) == StartDirective(d) \/ Deliver(d) \/ NotHanded(d)
Sender(d) == MarkSent(d) \/ Attach(d) \/ WriteDirective(d)
Serve ==
  \/ Reconcile \/ Reconciled
  \/ \E d \in Directives : Lose(d) \/ EndDirective(<<d, "lost">>)
Heartbeats == BeatAnswer \/ \E d \in Directives : Beat(d)
Handler(d) == SaveResult(d) \/ Complete(d) \/ CloseResult(d)
Sweep(d) == SweepResult(d) \/ SweepDirective(d)
Session == HelloJobs \/ Receive
ClientRun == ClientExit \/ ClientRefused

Next ==
  \/ \E d \in Directives :
       \/ PickMachine(d) \/ NoMachine(d) \/ Worker(d) \/ CancelActivity(d) \/ DeadlinePasses(d)
       \/ Timeout(d) \/ Sender(d) \/ ReadResult(d) \/ Handler(d) \/ Sweep(d)
       \/ EndDirective(<<d, "revoked">>) \/ RunEnds(d) \/ RunSent(d)
  \/ \E c \in Conns : HelloResults(c) \/ Register(c) \/ RegisterFails(c)
  \/ Serve \/ Heartbeats \/ ConnEnds \/ Revoke \/ ServerRestart
  \/ Session \/ Leave \/ ClientStop \/ ClientRun \/ ClientCrash

\* Every goroutine goes on; Temporal times out what has no heartbeat; a
\* connection whose client is gone stops answering its ping, and a revoked
\* machine's is closed; a run told to end ends.  The client may take as long
\* as it likes to call again, except to learn that it is refused.
Fairness ==
  /\ \A d \in Directives :
       /\ WF_vars(Worker(d)) /\ WF_vars(Timeout(d)) /\ WF_vars(Sender(d))
       /\ WF_vars(ReadResult(d)) /\ WF_vars(Handler(d)) /\ WF_vars(Sweep(d))
       /\ WF_vars(EndDirective(<<d, "revoked">>))
       /\ WF_vars((cause[d] # "none" /\ RunEnds(d)) \/ RunSent(d))
  /\ WF_vars(Serve) /\ WF_vars(Heartbeats) /\ WF_vars(Session) /\ WF_vars(ClientRun)
  /\ WF_vars((cconn # gconn \/ revoked) /\ ConnEnds)

Spec == Init /\ [][Next]_vars /\ Fairness

----------------------------------------------------------------------------
(* Properties. *)

\* A machine runs a directive at most once, however often it is handed over,
\* connections drop and processes restart (lose's comment: "At most once:
\* never sent again").
AtMostOnce == \A d \in Directives : runs[d] <= 1

\* The machine never has more directives open than it announced.
CapHeld == Cardinality({d \in Directives : Open(d)}) <= MaxDirectives

\* A directive over stays over, in the state it was closed in.
ClosesOnce ==
  [][\A d \in Directives : row[d].state \in Ends => row'[d].state = row[d].state]_vars

\* A row closed with a machine's result says what the activity got: a
\* completion that Temporal did not take is never recorded as made.
EndsAgree ==
  \A d \in Directives :
    /\ row[d].state = "completed" => activity[d] = "ok"
    /\ row[d].state = "canceled" => activity[d] \in {"canceled", "failed"}
    /\ row[d].state = "machine_stopping" => activity[d] = "stopping"
    /\ row[d].state = "refused" => activity[d] = "refused"

\* result's comment: "the machine keeps the result until then", until its
\* activity is completed and its directive closed, or the database keeps it;
\* one cancelled is dropped when the machine reads so.
KeptUntilTaken ==
  \A d \in Directives :
    (/\ Running(d) /\ activity[d] = "open" /\ ~cancelReq[d] /\ job[d] = "none" /\ out[d] # "none"
     /\ d \notin unkept) => d \in kept \/ row[d].result # "none"

\* lose's comment: "a directive the machine no longer knows".
LostIsUnknown ==
  \A d \in Directives : row[d].state = "lost" => ~Known(d)

\* Every slot comes back: a directive open is closed, or runs and has time
\* left, whatever failed around it.
EverySlotFreed ==
  \A d \in Directives : Open(d) ~> (~Open(d) \/ (Running(d) /\ ~due[d]))

\* An activity cancelled ends, though the machine's run would go on for ever;
\* unless its connection told the machine before it had written the directive:
\* told once, the machine runs what it was told to stop.
CancelEnds ==
  \A d \in Directives :
    (activity[d] = "open" /\ cancelReq[d]) ~> (activity[d] # "open" \/ d \in early)

\* Revoked, a machine has no directive open, and gets none.
RevokedHoldsNone == revoked => \A d \in Directives : ~Open(d)

\* Its runs end and its activities too, wherever the revocation met them.
RevokedStops ==
  revoked ~> \A d \in Directives : job[d] = "none" /\ activity[d] # "open"

=============================================================================
