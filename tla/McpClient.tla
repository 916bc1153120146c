----------------------------- MODULE McpClient -----------------------------
(***************************************************************************)
(* The client of an MCP server (tool/mcp.go), shared by the tool calls and *)
(* the discoveries of a worker: the session it opens on first use, and a   *)
(* request in it, over Streamable HTTP (tool/mcp_streamable.go) or over    *)
(* HTTP+SSE (tool/mcp_legacy.go).                                          *)
(*                                                                         *)
(* The server is external: it opens sessions, forgets them, and answers a  *)
(* request of a session it knows, once it ran it.  A request of a session  *)
(* it forgot it answers 404, and does not run.                             *)
(***************************************************************************)
EXTENDS Naturals, FiniteSets

CONSTANTS Requests,     \* calls of MCPClient.request
          NoRequest,
          MaxResumes,   \* mcpMaxResumes
          MaxSessions,  \* bound: sessions opened
          MaxFaults     \* bound: network errors, answers of no use, deadlines

\* What the proofs need of them.
ConstantsOK == MaxSessions \in Nat /\ NoRequest \notin Requests

Sessions == 1..MaxSessions
NoSession == 0

VARIABLES
    transport,  \* "http" or "sse": the server's, in the worker's configuration
    conn,       \* MCPClient.conn
    handshake,  \* the request that holds the handshake
    sess,       \* sess[s]: a session, as the client has it
    known,      \* the sessions the server knows
    req,        \* req[r]: where the request is
    ids,        \* the last request number
    wire,       \* responses on their way on the event streams of HTTP+SSE
    runs,       \* history: runs[r], the times the server ran it
    faults

vars == <<transport, conn, handshake, sess, known, req, ids, wire, runs, faults>>

\* named: the server gave it an ID; expired: it answered 404; done: the event
\* stream of HTTP+SSE ended; closed: the client closed it.
NoSess == [st |-> "none", named |-> TRUE, expired |-> FALSE, done |-> FALSE, closed |-> FALSE]
NewReq == [pc |-> "new", attempt |-> 0, on |-> NoSession, id |-> 0, resumes |-> 0, got |-> NoRequest]

Init ==
    /\ transport \in {"http", "sse"}
    /\ conn = NoSession /\ handshake = NoRequest
    /\ sess = [s \in Sessions |-> NoSess] /\ known = {}
    /\ req = [r \in Requests |-> NewReq] /\ ids = 0 /\ wire = {}
    /\ runs = [r \in Requests |-> 0] /\ faults = 0

Fault == faults < MaxFaults /\ faults' = faults + 1
At(r, pc) == req[r].pc = pc
To(r, pc) == req' = [req EXCEPT ![r].pc = pc]

\* The server takes a request in s: one it gave no ID has nothing to forget.
Takes(s) == ~sess[s].named \/ s \in known

\* alive: an expired session of Streamable HTTP answers 404, its event stream
\* tells of one of HTTP+SSE.
Alive(s) == ~sess[s].done

\* close: a DELETE, which may be lost or refused, unless the server forgot the
\* session; or the end of the event stream.
Closes(s) ==
    /\ sess' = [sess EXCEPT ![s].closed = TRUE]
    /\ \/ UNCHANGED known
       \/ transport = "http" /\ sess[s].named /\ ~sess[s].expired /\ known' = known \ {s}

-----------------------------------------------------------------------------
(* connect: the open session, or a new one. *)

\* current: a dead session is forgotten, and closed.
Current ==
    IF conn # NoSession /\ ~Alive(conn)
    THEN conn' = NoSession /\ Closes(conn)
    ELSE UNCHANGED <<conn, sess, known>>

Connect(r) ==
    /\ At(r, "new")
    /\ Current
    /\ req' = [req EXCEPT ![r].pc = IF conn' = NoSession THEN "waits" ELSE "sends", ![r].on = conn']
    /\ UNCHANGED <<transport, handshake, ids, wire, runs, faults>>

\* One handshake at a time: another may have opened a session meanwhile.
Acquire(r) ==
    /\ At(r, "waits") /\ handshake = NoRequest
    /\ Current
    /\ handshake' = IF conn' = NoSession THEN r ELSE NoRequest
    /\ req' = [req EXCEPT ![r].pc = IF conn' = NoSession THEN "dials" ELSE "sends", ![r].on = conn']
    /\ UNCHANGED <<transport, ids, wire, runs, faults>>

Fresh(s) == sess[s].st = "none" /\ \A t \in Sessions : t < s => sess[t].st # "none"

\* initialize: a session dialed, and the answer to its first request.
Opened(r, s) ==
    /\ \E named \in IF transport = "http" THEN BOOLEAN ELSE {TRUE} :
          sess' = [sess EXCEPT ![s].st = "handshake", ![s].named = named]
    /\ known' = known \cup {s}
    /\ req' = [req EXCEPT ![r].pc = "notifies", ![r].on = s]
    /\ UNCHANGED <<handshake, faults>>

\* Refused, its answer lost, or a version this client does not speak: what
\* was opened is closed, or not known to the client, and the request fails.
NotOpened(r, s) ==
    /\ Fault
    /\ \/ UNCHANGED <<sess, known>>
       \/ /\ sess' = [sess EXCEPT ![s].st = "lost", ![s].closed = TRUE]
          /\ known' = known \/ (transport = "http" /\ known' = known \cup {s})
    /\ To(r, "failed") /\ handshake' = NoRequest

Dial(r) ==
    /\ At(r, "dials")
    /\ \E s \in Sessions : Fresh(s) /\ (Opened(r, s) \/ NotOpened(r, s))
    /\ UNCHANGED <<transport, conn, ids, wire, runs>>

\* The initialized notification, and the session is everyone's.  An error,
\* a session forgotten already included, ends the request: no second try here.
Notify(r) ==
    /\ At(r, "notifies")
    /\ LET s == req[r].on IN
       \/ /\ Takes(s)
          /\ sess' = [sess EXCEPT ![s].st = "open"] /\ conn' = s
          /\ To(r, "sends")
          /\ UNCHANGED <<known, faults>>
       \/ /\ ~Takes(s)
          /\ sess' = [sess EXCEPT ![s].st = "lost", ![s].expired = TRUE, ![s].closed = TRUE]
          /\ To(r, "failed")
          /\ UNCHANGED <<conn, known, faults>>
       \/ /\ Fault
          /\ sess' = [sess EXCEPT ![s].st = "lost", ![s].closed = TRUE]
          /\ known' \in {known, known \ {s}}
          /\ To(r, "failed")
          /\ UNCHANGED conn
    /\ handshake' = NoRequest
    /\ UNCHANGED <<transport, ids, wire, runs>>

-----------------------------------------------------------------------------
(* call: one request in a session. *)

\* A number of its own, and, over HTTP+SSE, a place for its response, unless
\* the stream ended.
Send(r) ==
    /\ At(r, "sends")
    /\ ids' = ids + 1
    /\ req' = [req EXCEPT ![r].pc = IF Alive(req[r].on) THEN "posted" ELSE "failed", ![r].id = ids']
    /\ UNCHANGED <<transport, conn, handshake, sess, known, wire, runs, faults>>

\* The server takes it: it answers with a message, with an event stream of its
\* own, or, over HTTP+SSE, later on the session's; or its answer is lost.
Run(r) ==
    /\ At(r, "posted") /\ Takes(req[r].on)
    /\ runs' = [runs EXCEPT ![r] = @ + 1]
    /\ wire' = IF transport = "sse" THEN wire \cup {[on |-> req[r].on, id |-> req[r].id, of |-> r]} ELSE wire
    /\ \/ /\ transport = "http"
          /\ req' = [req EXCEPT ![r].pc = "ok", ![r].got = r] \/ To(r, "streams")
          /\ UNCHANGED faults
       \/ transport = "sse" /\ To(r, "pending") /\ UNCHANGED faults
       \/ Fault /\ To(r, "failed")
    /\ UNCHANGED <<transport, conn, handshake, sess, known, ids>>

\* Or it never comes to the server.
Lost(r) ==
    /\ At(r, "posted")
    /\ Fault /\ To(r, "failed")
    /\ UNCHANGED <<transport, conn, handshake, sess, known, ids, wire, runs>>

\* drop: s is forgotten, unless another session replaced it, and closed, with
\* nothing to end on the server.
\* Mutant: whichever session is open is forgotten.
DropAny(s) ==
    /\ conn' = NoSession
    /\ sess' = [sess EXCEPT ![s].expired = TRUE, ![s].closed = TRUE]

Drop(s) ==
    /\ conn' = IF conn = s THEN NoSession ELSE conn
    /\ sess' = [sess EXCEPT ![s].expired = TRUE, ![s].closed = TRUE]

\* The server forgot the session: the request, not run, is sent again, once,
\* in a new one.
NotFound(r) ==
    /\ At(r, "posted") /\ ~Takes(req[r].on)
    /\ LET s == req[r].on IN
       IF req[r].attempt = 0
       THEN Drop(s) /\ req' = [req EXCEPT ![r].pc = "new", ![r].attempt = 1]
       ELSE /\ sess' = [sess EXCEPT ![s].expired = TRUE]
            /\ To(r, "failed")
            /\ UNCHANGED conn
    /\ UNCHANGED <<transport, handshake, known, ids, wire, runs, faults>>

\* The event stream of the request, over Streamable HTTP: its response,
Answered(r) ==
    /\ At(r, "streams")
    /\ req' = [req EXCEPT ![r].pc = "ok", ![r].got = r]
    /\ UNCHANGED <<transport, conn, handshake, sess, known, ids, wire, runs, faults>>

\* or its end before it, resumed from the last event if the events have IDs.
StreamBreaks(r) ==
    /\ At(r, "streams")
    /\ Fault
    /\ \/ To(r, "failed")
       \/ req[r].resumes < MaxResumes /\ req' = [req EXCEPT ![r].pc = "resumes", ![r].resumes = @ + 1]
    /\ UNCHANGED <<transport, conn, handshake, sess, known, ids, wire, runs>>

\* The server took the request: a session forgotten since is an error, and
\* never a reason to send it again.
Resume(r) ==
    /\ At(r, "resumes")
    /\ IF Takes(req[r].on)
       THEN To(r, "streams") /\ UNCHANGED sess
       ELSE sess' = [sess EXCEPT ![req[r].on].expired = TRUE] /\ To(r, "failed")
    /\ UNCHANGED <<transport, conn, handshake, known, ids, wire, runs, faults>>

\* The response m is to r's request, by its number.
Answers(m, r) == At(r, "pending") /\ req[r].on = m.on /\ req[r].id = m.id

\* deliver: a response on the session's stream goes to the request that waits
\* for it, if one does.
Deliver(m) ==
    /\ m \in wire /\ Alive(m.on)
    /\ wire' = wire \ {m}
    /\ req' = [r \in Requests |-> IF Answers(m, r) THEN [req[r] EXCEPT !.pc = "ok", !.got = m.of] ELSE req[r]]
    /\ UNCHANGED <<transport, conn, handshake, sess, known, ids, runs, faults>>

\* The stream ended, and no response came: an error, never sent again.
PendingEnds(r) ==
    /\ At(r, "pending") /\ ~Alive(req[r].on)
    /\ To(r, "failed")
    /\ UNCHANGED <<transport, conn, handshake, sess, known, ids, wire, runs, faults>>

\* The request's deadline passes where it waits.
Deadline(r) ==
    /\ req[r].pc \in {"waits", "posted", "streams", "resumes", "pending"}
    /\ Fault /\ To(r, "failed")
    /\ UNCHANGED <<transport, conn, handshake, sess, known, ids, wire, runs>>

-----------------------------------------------------------------------------
(* The sessions meanwhile. *)

\* The server forgets one: it expired, or the server restarted.
Forget(s) ==
    /\ s \in known /\ known' = known \ {s}
    /\ UNCHANGED <<transport, conn, handshake, sess, req, ids, wire, runs, faults>>

\* read ends: the client closed the session, or learnt that the server forgot
\* it, or the server ended the stream with it, or the network did.  What was
\* on it is lost.
StreamEnds(s) ==
    /\ transport = "sse" /\ sess[s].st # "none" /\ Alive(s)
    /\ \/ (sess[s].closed \/ sess[s].expired \/ s \notin known) /\ UNCHANGED faults
       \/ Fault
    /\ sess' = [sess EXCEPT ![s].done = TRUE]
    /\ known' = known \ {s} /\ wire' = {m \in wire : m.on # s}
    /\ UNCHANGED <<transport, conn, handshake, req, ids, runs>>

Next ==
    \/ \E r \in Requests :
          \/ Connect(r) \/ Acquire(r) \/ Dial(r) \/ Notify(r)
          \/ Send(r) \/ Run(r) \/ Lost(r) \/ NotFound(r)
          \/ Answered(r) \/ StreamBreaks(r) \/ Resume(r) \/ PendingEnds(r) \/ Deadline(r)
    \/ \E m \in wire : Deliver(m)
    \/ \E s \in Sessions : Forget(s) \/ StreamEnds(s)

Spec == Init /\ [][Next]_vars

-----------------------------------------------------------------------------
\* A tool call is run once at most, whatever sessions it was sent in
\* (MCPClient.request, streamableConn.resume); an answer is the request's own
\* (sseConn.deliver); and no session is left open that the client no longer
\* holds, two requests finding it forgotten together included (MCPClient.drop,
\* MCPClient.connect).
CallsRight ==
    /\ \A r \in Requests : runs[r] <= 1 /\ (At(r, "ok") => req[r].got = r /\ runs[r] = 1)
    /\ \A s \in Sessions : sess[s].st = "open" => conn = s \/ sess[s].closed
=============================================================================
