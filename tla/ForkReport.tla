----------------------------- MODULE ForkReport -----------------------------
(***************************************************************************)
(* A fork of a session and its reports to its parent: Fork and             *)
(* ReportToParent (session/fork.go, session/report.go), the workflows that *)
(* write the summary a fork starts from and the reports it sends           *)
(* (workflow/fork.go, workflow/report.go), their activities                *)
(* (activity/fork.go, activity/report.go) and the two transactions that    *)
(* post them (store/report.go).                                            *)
(*                                                                         *)
(* One parent, one fork of it.  Messages of the fork are written by        *)
(* transactions that take their ids first and commit later, in any order;  *)
(* a step of a turn stores a call and its result in one.  The words of     *)
(* messages, summaries and reports are left out: a message is its id and   *)
(* what it is, a report the ids of the messages its summary read.          *)
(***************************************************************************)
EXTENDS Naturals, Sequences, FiniteSets

CONSTANTS Users,      \* members of both sessions at first
          Writers,    \* transactions that write messages of the fork
          Requests,   \* calls of ReportToParent
          MaxId,      \* bound: ids of messages of the fork
          MaxFaults   \* bound: attempts, answers and starts that fail

VARIABLES
    fork,      \* the fork's row: exists, its parent link, its summary, its last reported message
    parent,    \* the parent's row exists
    members,   \* members of the fork and of the parent
    messages,  \* the fork's messages
    writing,   \* writing[w]: the transaction of writer w, its ids
    next,      \* the next id
    summary,   \* the fork's workflow
    req,       \* req[r]: a call of ReportToParent, what it read
    runs,      \* runs[f]: the report workflow whose ID holds f, the last reported message
    late,      \* posts of attempts given up on, still on their way
    reports,   \* the reports in the parent
    raced,     \* history: messages not yet committed when a report's range was read,
    missed,    \* and when a summary of their range was
    faults

forking == <<fork, parent, members, summary>>
writes == <<messages, writing, next, raced, missed>>
vars == <<fork, parent, members, messages, writing, next, summary, req, runs, late, reports, raced, missed, faults>>

\* What the proofs need of them.
ConstantsOK == MaxId \in Nat

Ids == 1..MaxId
NoFork == [exists |-> FALSE, linked |-> FALSE, summary |-> 0, reported |-> 0]
NoTx == [kind |-> "none", ids |-> <<>>]
NoRequest == [step |-> "none", by |-> "none", from |-> 0, upTo |-> 0]
NoRun == [step |-> "none", by |-> "none", upTo |-> 0, part |-> {}]

Init ==
    /\ fork = NoFork /\ parent = TRUE
    /\ members = [fork |-> {}, parent |-> Users]
    /\ messages = {} /\ writing = [w \in Writers |-> NoTx] /\ next = 1
    /\ summary = "none"
    /\ req = [r \in Requests |-> NoRequest]
    /\ runs = [f \in 0..MaxId |-> NoRun]
    /\ late = {} /\ reports = {} /\ raced = {} /\ missed = {}
    /\ faults = 0

Fault == faults < MaxFaults /\ faults' = faults + 1

\* LoadMessagesUpTo: the fork's committed messages, up to an id.
UpTo(id) == {m \in messages : m.id <= id}

\* Reportable: a turn's end is not, nor the summary the fork started from.
Reportable(m) == m.kind \in {"said", "call", "result"}

-----------------------------------------------------------------------------
(* The fork and its summary. *)

\* DeleteSession: members cascade, messages go, the fork loses its link.
DeleteSession(s) ==
    /\ members' = [members EXCEPT ![s] = {}]
    /\ \/ s = "fork" /\ fork' = NoFork /\ messages' = {} /\ UNCHANGED parent
       \/ s = "parent" /\ parent' = FALSE /\ fork' = [fork EXCEPT !.linked = FALSE] /\ UNCHANGED messages

\* Fork: the row, its creator its member, then the workflow that writes the
\* summary; a row whose workflow did not start is deleted.
CreateFork(u) ==
    /\ summary = "none" /\ parent /\ u \in members.parent
    /\ fork' = [NoFork EXCEPT !.exists = TRUE, !.linked = TRUE]
    /\ members' = [members EXCEPT !.fork = {u}]
    /\ summary' = "starting"
    /\ UNCHANGED <<parent, writes, req, runs, late, reports, faults>>

StartSummary ==
    /\ summary = "starting"
    /\ \/ summary' = "summarize" /\ UNCHANGED <<fork, parent, members, messages, faults>>
       \/ Fault /\ summary' = "failed" /\ DeleteSession("fork")
    /\ UNCHANGED <<writing, next, raced, missed, req, runs, late, reports>>

\* SummarizeConversation, of the parent: a parent deleted meanwhile has no
\* such message; a model that fails for good ends the workflow.
SummarizeConversation ==
    /\ summary = "summarize"
    /\ \/ parent /\ summary' = "post" /\ UNCHANGED faults
       \/ ~parent /\ summary' = "failed" /\ UNCHANGED faults
       \/ Fault /\ summary' = "failed"
    /\ UNCHANGED <<fork, parent, members, writes, req, runs, late, reports>>

\* AppendForkSummary: its insert does nothing when its key is taken, then
\* the row names the message under it.
AppendForkSummary ==
    /\ fork.exists
    /\ \/ /\ \E m \in messages : m.kind = "summary"
          /\ UNCHANGED <<messages, next>>
       \/ /\ \A m \in messages : m.kind # "summary"
          /\ next <= MaxId
          /\ messages' = messages \cup {[id |-> next, kind |-> "summary", call |-> 0]}
          /\ next' = next + 1
    /\ fork' = [fork EXCEPT !.summary = (CHOOSE m \in messages' : m.kind = "summary").id]

\* PostForkSummary: an answer lost is tried again, five times; a fork gone
\* ends it.
PostForkSummary ==
    /\ summary = "post"
    /\ \/ AppendForkSummary /\ summary' = "ready" /\ UNCHANGED faults
       \/ AppendForkSummary /\ Fault /\ summary' \in {"post", "failed"}
       \/ Fault /\ summary' = "failed" /\ UNCHANGED <<fork, messages, next>>
       \/ ~fork.exists /\ summary' = "failed" /\ UNCHANGED <<fork, messages, next, faults>>
    /\ UNCHANGED <<parent, members, writing, raced, missed, req, runs, late, reports>>

\* ForkSummaryState: ready by the row, else by the workflow.
SummaryPending == fork.summary = 0 /\ summary \in {"summarize", "post"}

-----------------------------------------------------------------------------
(* The messages of the fork: ids are taken when a row is inserted, seen    *)
(* when its transaction commits. *)

\* The message of a person ("said"), the step of a turn, its end.
Length(kind) == IF kind = "step" THEN 2 ELSE 1

Insert(w, kind) ==
    /\ (fork.exists /\ ~SummaryPending) \/ writing[w] # NoTx
    /\ writing[w].kind \in {"none", kind}
    /\ Len(writing[w].ids) < Length(kind)
    /\ next <= MaxId
    /\ writing' = [writing EXCEPT ![w] = [kind |-> kind, ids |-> Append(@.ids, next)]]
    /\ next' = next + 1
    /\ UNCHANGED <<forking, messages, raced, missed, req, runs, late, reports, faults>>

Rows(t) ==
    IF t.kind = "step"
    THEN {[id |-> t.ids[1], kind |-> "call", call |-> t.ids[1]], [id |-> t.ids[2], kind |-> "result", call |-> t.ids[1]]}
    ELSE {[id |-> t.ids[1], kind |-> t.kind, call |-> 0]}

\* AppendMessages commits: what a summary read of these ids, it did not see.
Commit(w) ==
    /\ writing[w] # NoTx /\ Len(writing[w].ids) = Length(writing[w].kind)
    /\ messages' = messages \cup Rows(writing[w])
    /\ writing' = [writing EXCEPT ![w] = NoTx]
    /\ UNCHANGED <<forking, next, raced, missed, req, runs, late, reports, faults>>

-----------------------------------------------------------------------------
(* A call of ReportToParent. *)

\* The fork's row, and the refusals: no parent any more, not its member.
Ask(r, u) ==
    /\ req[r] = NoRequest
    /\ fork.exists /\ u \in members.fork
    /\ fork.linked /\ u \in members.parent
    /\ ~SummaryPending
    /\ req' = [req EXCEPT ![r] = [step |-> "load", by |-> u, from |-> fork.reported, upTo |-> 0]]
    /\ UNCHANGED <<forking, writes, runs, late, reports, faults>>

\* pendingCall: the messages before the first call with no result.
Whole(ms) ==
    {m \in ms : \A c \in ms : c.kind = "call" /\ (\A x \in ms : x.kind = "result" => x.call # c.id) => m.id < c.id}

\* Ids taken by transactions not committed yet.
Open == UNION {{writing[w].ids[k] : k \in DOMAIN writing[w].ids} : w \in Writers}

\* reportRange: after the last reported message, up to the last one.
Load(r) ==
    LET ms == Whole(messages)
    IN  /\ req[r].step = "load"
        /\ \/ /\ \E m \in ms : m.id > req[r].from /\ Reportable(m)
              /\ req' = [req EXCEPT ![r].step = "start", ![r].upTo = CHOOSE i \in {m.id : m \in ms} : \A m \in ms : m.id <= i]
              /\ raced' = raced \cup Open
           \/ /\ \A m \in ms : m.id > req[r].from => ~Reportable(m)
              /\ req' = [req EXCEPT ![r] = NoRequest] /\ UNCHANGED raced
        /\ UNCHANGED <<forking, messages, writing, next, missed, runs, late, reports, faults>>

\* ExecuteWorkflow: a workflow running under the ID is the answer, one that
\* succeeded refuses it, one that failed is run again.
Start(r) ==
    LET f == req[r].from
    IN  /\ req[r].step = "start"
        /\ \/ /\ runs[f].step \in {"none", "failed"}
              /\ runs' = [runs EXCEPT ![f] = [step |-> "summarize", by |-> req[r].by, upTo |-> req[r].upTo, part |-> {}]]
           \/ runs[f].step \notin {"none", "failed"} /\ UNCHANGED runs
        /\ req' = [req EXCEPT ![r] = NoRequest]
        /\ UNCHANGED <<forking, writes, late, reports, faults>>

\* A read or the start failed, and its caller learns it.
RequestFails(r) ==
    /\ req[r] # NoRequest /\ Fault
    /\ req' = [req EXCEPT ![r] = NoRequest]
    /\ UNCHANGED <<forking, writes, runs, late, reports>>

-----------------------------------------------------------------------------
(* The report's workflow. *)

\* The messages of the range, when its last one is still there and one of
\* them is to be reported.  Transactions still open there are missed.
SummarizeForkReport(f) ==
    LET part == {m \in UpTo(runs[f].upTo) : m.id > f /\ m.kind # "summary"}
    IN  /\ runs[f].step = "summarize"
        /\ \/ /\ fork.exists /\ \E m \in part : Reportable(m)
              /\ runs' = [runs EXCEPT ![f].step = "post", ![f].part = {m.id : m \in part}]
              /\ missed' = missed \cup (Open \cap 1..runs[f].upTo)
              /\ UNCHANGED faults
           \/ ~fork.exists /\ runs' = [runs EXCEPT ![f].step = "failed"] /\ UNCHANGED <<missed, faults>>
           \/ Fault /\ runs' = [runs EXCEPT ![f].step = "failed"] /\ UNCHANGED missed
        /\ UNCHANGED <<forking, messages, writing, next, raced, req, late, reports>>

\* AppendForkReport, in the order of its refusals.  A report posted under
\* the key already is the answer; another since it started is a refusal.
PostedAs(a) == \E p \in reports : p.from = a.from /\ p.upTo = a.upTo
\* As Refused, without the check that no other report was posted since.
RefusedNotStale(a) ==
    \/ ~fork.exists \/ ~parent \/ ~fork.linked
    \/ ~PostedAs(a) /\ (a.by \notin members.fork \/ a.by \notin members.parent)

Refused(a) ==
    \/ ~fork.exists \/ ~parent \/ ~fork.linked
    \/ ~PostedAs(a) /\ fork.reported # a.from
    \/ ~PostedAs(a) /\ (a.by \notin members.fork \/ a.by \notin members.parent)

AppendForkReport(a) ==
    /\ ~Refused(a)
    /\ reports' = IF PostedAs(a) THEN reports ELSE reports \cup {a}
    /\ fork' = IF PostedAs(a) THEN fork ELSE [fork EXCEPT !.reported = a.upTo]

\* A post of run f, as its attempt makes it.
PostOf(f) == [from |-> f, upTo |-> runs[f].upTo, by |-> runs[f].by, part |-> runs[f].part]

\* PostForkReport: a refusal is final; an answer that does not come is tried
\* again, five times, the attempt given up on perhaps still on its way.
PostForkReport(f) ==
    /\ runs[f].step = "post"
    /\ \/ /\ AppendForkReport(PostOf(f))
          /\ runs' = [runs EXCEPT ![f].step = "done"] /\ UNCHANGED <<late, faults>>
       \/ /\ AppendForkReport(PostOf(f)) /\ Fault
          /\ \/ UNCHANGED runs
             \/ runs' = [runs EXCEPT ![f].step = "failed"]
          /\ UNCHANGED late
       \/ /\ Refused(PostOf(f))
          /\ runs' = [runs EXCEPT ![f].step = "failed"] /\ UNCHANGED <<fork, late, reports, faults>>
       \/ /\ Fault /\ late' = late \cup {PostOf(f)}
          /\ \/ UNCHANGED runs
             \/ runs' = [runs EXCEPT ![f].step = "failed"]
          /\ UNCHANGED <<fork, reports>>
    /\ UNCHANGED <<parent, members, writes, summary, req>>

LatePost ==
    /\ \E a \in late :
        /\ late' = late \ {a}
        /\ AppendForkReport(a) \/ (Refused(a) /\ UNCHANGED <<fork, reports>>)
    /\ UNCHANGED <<parent, members, writes, summary, req, runs, faults>>

-----------------------------------------------------------------------------
(* Members leave, sessions go. *)

\* Delete, by the session's creator; Leave, the last member's leaving deletes.
Delete(s) ==
    /\ members[s] # {} /\ DeleteSession(s)
    /\ UNCHANGED <<writing, next, raced, missed, summary, req, runs, late, reports, faults>>

Leave(u, s) ==
    /\ u \in members[s]
    /\ \/ members[s] = {u} /\ DeleteSession(s)
       \/ /\ members[s] # {u} /\ members' = [members EXCEPT ![s] = @ \ {u}]
          /\ UNCHANGED <<fork, parent, messages>>
    /\ UNCHANGED <<writing, next, raced, missed, summary, req, runs, late, reports, faults>>

Next ==
    \/ \E u \in Users : CreateFork(u)
    \/ StartSummary
    \/ SummarizeConversation
    \/ PostForkSummary
    \/ \E w \in Writers : \E k \in {"said", "step", "end"} : Insert(w, k)
    \/ \E w \in Writers : Commit(w)
    \/ \E r \in Requests : \E u \in Users : Ask(r, u)
    \/ \E r \in Requests : Load(r)
    \/ \E r \in Requests : Start(r)
    \/ \E r \in Requests : RequestFails(r)
    \/ \E f \in 0..MaxId : SummarizeForkReport(f)
    \/ \E f \in 0..MaxId : PostForkReport(f)
    \/ LatePost
    \/ \E s \in {"fork", "parent"} : Delete(s)
    \/ \E u \in Users : \E s \in {"fork", "parent"} : Leave(u, s)

\* Bound: a second call or a fault; neither with a session gone, every writer
\* at work or a turn's end stored.
Small ==
    LET OneCall == Cardinality({r \in Requests : req[r] # NoRequest}) <= 1 IN
    \/ /\ (fork.exists \/ summary = "none") /\ parent
       /\ \E w \in Writers : writing[w] = NoTx
       /\ \A m \in messages : m.kind # "end"
       /\ faults = 0 \/ OneCall
    \/ faults = 0 /\ OneCall

Spec == Init /\ [][Next]_vars

-----------------------------------------------------------------------------
\* Every message to report, up to the fork's last reported one, is in one
\* report and no more, whatever calls crossed, answers were lost or posts
\* came late; a call and its result are in the same; the fork has one
\* summary.  Messages still being committed when their range, or the summary of
\* it, was read are the race the code leaves alone (store/message.go, TurnReads).
Covering(i) == {p \in reports : i \in p.part}
ReportedOnce ==
    /\ fork.exists => \A m \in messages : Reportable(m) /\ m.id \notin missed =>
            Cardinality(Covering(m.id)) = IF m.id <= fork.reported THEN 1 ELSE 0
    /\ \A m \in messages : m.kind = "result" /\ {m.id, m.call} \cap (raced \cup missed) = {} => Covering(m.id) = Covering(m.call)
    /\ Cardinality({m \in messages : m.kind = "summary"}) <= 1
=============================================================================
