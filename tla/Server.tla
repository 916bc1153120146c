------------------------------- MODULE Server -------------------------------
(***************************************************************************)
(* The parts of the server that share no state, one at a time: which, the  *)
(* initial state chooses.  MachineToken is extended; the variables of the  *)
(* others are v1 .. v15, in the order their modules declare them.          *)
(***************************************************************************)
EXTENDS MachineToken

CONSTANTS
    Keep, Buffer, MaxChanges, MaxDrops, MaxRestarts,  \* EventStream
    Messages, MaxQueued, MaxLoads,                    \* ServerTurns
    Groups, Rules, User, Requests, MaxRequests,       \* AccessRules; Requests, Accounts' and McpClient's too
    Users, Logins, Limit, MaxWrites,                  \* Accounts; Users, Enrollment's too
    Names, Agent, Queues, NoQueue, Sweepers,          \* ToolCatalog; Names, McpServers' too
    Members, Writers, MaxId,                          \* ForkReport
    Homes, Codes, NoCode, Nobody, MaxPending, Tries, MaxIds,  \* Enrollment
    NoCall, MaxResumes, MaxSessions,                  \* McpClient
    Servers, Contracts, MaxToolChanges,               \* McpServers
    MaxFaults                                         \* bound: of the faults of each part

VARIABLES part, v1, v2, v3, v4, v5, v6, v7, v8, v9, v10, v11, v12, v13, v14, v15

pool == <<v1, v2, v3, v4, v5, v6, v7, v8, v9, v10, v11, v12, v13, v14, v15>>
Off == "off"

\* A page, its event stream and the hub.
Stream == INSTANCE EventStream WITH
    epoch <- v1, seq <- v2, topics <- v3, dropped <- v4, log <- v5, sub <- v6, missed <- v7, stream <- v8,
    stored <- v9, owed <- v10, unsaid <- v11, leaving <- v12, client <- v13, leaked <- v14, drops <- v15

\* A participant, and what the server shows of it.
Turns == INSTANCE ServerTurns WITH
    wf <- v1, listed <- v2, events <- v3, observing <- v4, view <- v5, cache <- v6, loads <- v7, states <-
    v8, dlv <- v9, reader <- v10, faults <- v11, nfaults <- v12

\* The admins' writes of groups and access rules.
Rights == INSTANCE AccessRules WITH
    groups <- v1, rules <- v2, req <- v3, twins <- v4, requests <- v5

\* Accounts, logins and sessions.
Access == INSTANCE Accounts WITH
    users <- v1, sessions <- v2, login <- v3, fails <- v4, req <- v5, stripped <- v6, writes <- v7

\* The workers' tools and catalog.
Catalog == INSTANCE ToolCatalog WITH
    rule <- v1, user <- v2, agent <- v3, tools <- v4, offers <- v5, serves <- v6, pub <- v7, cat <- v8, shut
    <- v9, sweep <- v10, hit <- v11, told <- v12, stale <- v13, writes <- v14, faults <- v15

\* A fork and its reports.
Forks == INSTANCE ForkReport WITH
    Users <- Members,
    fork <- v1, parent <- v2, members <- v3, messages <- v4, writing <- v5, next <- v6, summary <- v7, req
    <- v8, runs <- v9, late <- v10, reports <- v11, raced <- v12, missed <- v13, faults <- v14

\* Machines on their way in.
Enroll == INSTANCE Enrollment WITH
    rows <- v1, next <- v2, made <- v3, home <- v4, late <- v5, page <- v6, tokens <- v7, told <- v8, tries
    <- v9, viewed <- v10, asker <- v11, faults <- v12

\* The client of an MCP server.
Mcp == INSTANCE McpClient WITH
    NoRequest <- NoCall,
    transport <- v1, conn <- v2, handshake <- v3, sess <- v4, known <- v5, req <- v6, ids <- v7, wire <- v8,
    runs <- v9, faults <- v10

\* The tools of a worker's MCP servers.
Tools == INSTANCE McpServers WITH
    MaxChanges <- MaxToolChanges,
    gives <- v1, reg <- v2, rows <- v3, served <- v4, found <- v5, job <- v6, retry <- v7, left <- v8,
    running <- v9, late <- v10, before <- v11, changes <- v12, faults <- v13

\* What the proofs assume of the constants of the parts that need something.
ASSUME PartConstants ==
    /\ Turns!ConstantsOK /\ Rights!ConstantsOK /\ Forks!ConstantsOK /\ Enroll!ConstantsOK /\ Mcp!ConstantsOK
    /\ Tools!ConstantsOK /\ Stream!ConstantsOK

-----------------------------------------------------------------------------
Off14 == v14 = Off /\ v15 = Off
Off13 == v13 = Off /\ Off14
Off11 == v11 = Off /\ v12 = Off /\ Off13
Off8 == v8 = Off /\ v9 = Off /\ v10 = Off /\ Off11
Off6 == v6 = Off /\ v7 = Off /\ Off8

ServerInit ==
    /\ Init
    /\ \/ part = "tokens" /\ v1 = Off /\ v2 = Off /\ v3 = Off /\ v4 = Off /\ v5 = Off /\ Off6
       \/ part = "stream" /\ Stream!Init
       \/ part = "turns" /\ Turns!Init /\ Off13
       \/ part = "rules" /\ Rights!Init /\ Off6
       \/ part = "accounts" /\ Access!Init /\ Off8
       \/ part = "catalog" /\ Catalog!Init
       \/ part = "forks" /\ Forks!Init /\ v15 = Off
       \/ part = "enroll" /\ Enroll!Init /\ Off13
       \/ part = "mcp" /\ Mcp!Init /\ Off11
       \/ part = "servers" /\ Tools!Init /\ Off14

ServerNext ==
    /\ UNCHANGED part
    /\ \/ part = "tokens" /\ Next /\ UNCHANGED pool
       \/ part = "stream" /\ Stream!Next /\ UNCHANGED vars
       \/ part = "turns" /\ Turns!Next /\ UNCHANGED <<vars, v13, v14, v15>>
       \/ part = "rules" /\ Rights!Next /\ UNCHANGED <<vars, v6, v7, v8, v9, v10, v11, v12, v13, v14, v15>>
       \/ part = "accounts" /\ Access!Next /\ UNCHANGED <<vars, v8, v9, v10, v11, v12, v13, v14, v15>>
       \/ part = "catalog" /\ Catalog!Next /\ UNCHANGED vars
       \/ part = "forks" /\ Forks!Next /\ UNCHANGED <<vars, v15>>
       \/ part = "enroll" /\ Enroll!Next /\ UNCHANGED <<vars, v13, v14, v15>>
       \/ part = "mcp" /\ Mcp!Next /\ UNCHANGED <<vars, v11, v12, v13, v14, v15>>
       \/ part = "servers" /\ Tools!Next /\ UNCHANGED <<vars, v14, v15>>

ServerSpec == ServerInit /\ [][ServerNext]_<<vars, part, pool>>

-----------------------------------------------------------------------------
\* EventStream: a page caught up with its stream shows every change, and once
\* a user's leaving was told, no event of the session reaches them
\* (sse/hub.go, relaySSE).
PageRight == part = "stream" => Stream!PageCatchesUp /\ Stream!NothingAfterLeaving

\* ServerTurns: with its events come, the participant is shown as it is, and
\* no listing read before an action is kept after it (session/turns.go,
\* session/status.go).
ParticipantShown == part = "turns" => Turns!ShownRight /\ Turns!NoStaleListing

\* AccessRules: no deletion of a group leaves a rule without a holder it was
\* given (store/access.go).  Accounts: an active admin is left, and no
\* session outlives its password (web/admin/users.go, store/users.go).
RightsKept ==
    /\ part = "rules" => Rights!RuleKeepsHolder
    /\ part = "accounts" => Access!AccountsKept

\* ToolCatalog: a turn is given no tool closed to its user since before the
\* catalog read the rights; the admins are told once of a rule that lost its
\* targets (activity/catalog.go, cmd/agent/access.go).
CatalogRight == part = "catalog" => Catalog!CatalogRight

\* ForkReport: every message to report is in one report, a call with its
\* result, and a fork has one summary (store/report.go, session/report.go).
ReportedOnce == part = "forks" => Forks!ReportedOnce

\* Enrollment: an enrollment makes one machine, of the user who was shown it,
\* held by one directory (gateway/enroll.go, store/machine.go).
EnrolledRightly == part = "enroll" => Enroll!EnrolledRightly

\* McpClient: a tool call is run once at most, its answer is its own, and no
\* session is left open that the client no longer holds (tool/mcp.go).
\* McpServers: the tools table agrees with the worker's registry, or what
\* does not is to be tried again (tool/mcp_servers.go).
McpToolsServed ==
    /\ part = "mcp" => Mcp!CallsRight
    /\ part = "servers" => Tools!PublishedRight
=============================================================================
