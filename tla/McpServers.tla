----------------------------- MODULE McpServers -----------------------------
(***************************************************************************)
(* The tools of a worker's MCP servers: discovered (tool/mcp_servers.go),  *)
(* kept in its registry (tool/registry.go), and published in the tools     *)
(* table under the worker's queue (cmd/agent/tools.go).                    *)
(*                                                                         *)
(* Two goroutines publish: main, at startup and then, every interval, what *)
(* that left out (keepPublishing); and run, which applies the discoveries  *)
(* (MCPServers.Run).  The table also has the rows of this queue's worker   *)
(* before it restarted, and of another queue.                              *)
(***************************************************************************)
EXTENDS Naturals, FiniteSets

CONSTANTS Servers,     \* the worker's MCP servers: 1 .. n, in their order
          Names,       \* names of tools the worker exposes
          Contracts,   \* a tool's contract (SchemaHash): 1 .. n; 0 is no tool
          MaxChanges,  \* bound: changes of what the servers give
          MaxFaults    \* bound: discoveries and queries that fail

BuiltIn == 0
NoSource == Cardinality(Servers) + 1
Publishers == {"main", "run"}
Tools == [Names -> Contracts \cup {0}]
NoTools == [n \in Names |-> 0]

\* What tells the servers' numbers and the contracts from none.
ConstantsOK == Servers \subseteq Nat \ {0} /\ NoSource \notin Servers \cup {BuiltIn} /\ 0 \notin Contracts

VARIABLES
    gives,    \* gives[i]: the tools server i would answer
    reg,      \* the registry: reg[n], the tool and its source
    rows,     \* the tools table: rows[n], its queue and contract
    served,   \* Temporal sees a poller on the other queue
    found,    \* found[i]: a discovery of server i, to be applied
    job,      \* job[p]: what publisher p has to write
    retry,    \* retry[i]: names a publish could not write
    left,     \* keepPublishing's
    running,  \* the startup publish is done
    late,     \* history: last written by main, from a registry that changed since
    before,   \* history: rows of the worker's life before, no server of this one's gave
    changes, faults

vars == <<gives, reg, rows, served, found, job, retry, left, running, late, before, changes, faults>>

NoReg == [src |-> NoSource, v |-> 0]
NoRow == [q |-> "none", v |-> 0]
NoJob == [st |-> "idle", of |-> 0, put |-> NoTools, drop |-> {}, seen |-> [n \in Names |-> "none"], failed |-> {}]
NoDiscovery == [st |-> "none", tools |-> NoTools]

Init ==
    /\ gives \in [Servers -> Tools]
    /\ reg \in [Names -> {NoReg, [src |-> BuiltIn, v |-> 1]}]
    /\ rows \in [Names -> {NoRow, [q |-> "mine", v |-> 1], [q |-> "other", v |-> 1]}]
    /\ served \in BOOLEAN
    /\ found = [i \in Servers |-> NoDiscovery]
    /\ job = [p \in Publishers |-> NoJob]
    /\ retry = [i \in Servers |-> {}] /\ left = {} /\ running = FALSE
    /\ late = {} /\ before = {n \in Names : rows[n].q = "mine" /\ reg[n] = NoReg}
    /\ changes = 0 /\ faults = 0

Fault == faults < MaxFaults /\ faults' = faults + 1
Held(n) == reg[n].src # NoSource
Set(f) == {n \in Names : f[n] # 0}

-----------------------------------------------------------------------------
\* Discover, at startup: the servers that answer, in their order, the earlier
\* keeping a name two give; a built-in tool keeps its own.  All of the
\* registry is then to be published.
Discover ==
    /\ ~running /\ job["main"].st = "idle"
    /\ \E up \in SUBSET Servers :
          /\ faults + Cardinality(Servers \ up) <= MaxFaults
          /\ faults' = faults + Cardinality(Servers \ up)
          /\ reg' = [n \in Names |->
                       LET by == {i \in up : gives[i][n] # 0} IN
                       IF Held(n) \/ by = {} THEN reg[n]
                       ELSE LET i == CHOOSE i \in by : \A j \in by : i <= j IN [src |-> i, v |-> gives[i][n]]]
    /\ job' = [job EXCEPT !["main"] = [NoJob EXCEPT !.st = "lists", !.put = [n \in Names |-> reg'[n].v]]]
    /\ before' = {n \in before : reg'[n] = NoReg}
    /\ UNCHANGED <<gives, rows, served, found, retry, left, running, late, changes>>

\* All the pages of a tools/list; or no answer, or a list this worker cannot
\* take, refused whole.
Listed(i) == [st |-> "tools", tools |-> gives[i]]
NotListed == [st |-> "down", tools |-> NoTools]

\* watch: server i is asked again.
Watch(i) ==
    /\ running /\ found[i].st = "none"
    /\ \/ found' = [found EXCEPT ![i] = Listed(i)] /\ UNCHANGED faults
       \/ Fault /\ found' = [found EXCEPT ![i] = NotListed]
    /\ UNCHANGED <<gives, reg, rows, served, job, retry, left, running, late, before, changes>>

\* apply: a failed discovery changes nothing.
Down(i) ==
    /\ job["run"].st = "idle" /\ found[i].st = "down"
    /\ found' = [found EXCEPT ![i] = NoDiscovery]
    /\ UNCHANGED <<gives, reg, rows, served, job, retry, left, running, late, before, changes, faults>>

\* SyncSource: the tools of server i are exactly these, but for the names
\* another source holds.
SyncSource(i, tools) ==
    reg' = [n \in Names |-> IF tools[n] # 0 /\ reg[n].src \in {i, NoSource} THEN [src |-> i, v |-> tools[n]]
                            ELSE IF reg[n].src = i THEN NoReg ELSE reg[n]]

\* toPublish: what changed, and the names an earlier publish could not write,
\* as the registry has them now; a name it holds is never withdrawn.
ToPublish(i) == {n \in Names : reg[n] # reg'[n]} \cup retry[i]

Apply(i) ==
    /\ job["run"].st = "idle" /\ found[i].st = "tools"
    /\ SyncSource(i, found[i].tools)
    /\ LET put == [n \in Names |-> IF n \in ToPublish(i) /\ reg'[n].src = i THEN reg'[n].v ELSE 0]
           drop == {n \in ToPublish(i) : reg'[n] = NoReg}
       IN IF Set(put) = {} /\ drop = {}
          THEN retry' = [retry EXCEPT ![i] = {}] /\ UNCHANGED job
          ELSE /\ job' = [job EXCEPT !["run"] = [NoJob EXCEPT !.st = IF Set(put) = {} THEN "writes" ELSE "lists",
                                                              !.of = i, !.put = put, !.drop = drop]]
               /\ UNCHANGED retry
    /\ before' = {n \in before : reg'[n] = NoReg}
    /\ found' = [found EXCEPT ![i] = NoDiscovery]
    /\ UNCHANGED <<gives, rows, served, left, running, late, changes, faults>>

-----------------------------------------------------------------------------
(* Publish: publishTools, then the withdrawals. *)

\* The rows are read; a read that fails shows none.
ListTools(p) ==
    /\ job[p].st = "lists"
    /\ \/ job' = [job EXCEPT ![p].st = "writes", ![p].seen = [n \in Names |-> rows[n].q]] /\ UNCHANGED faults
       \/ Fault /\ job' = [job EXCEPT ![p].st = "writes"]
    /\ UNCHANGED <<gives, reg, rows, served, found, retry, left, running, late, before, changes>>

\* A tool another queue serves is left to it.
UpsertTool(p, n) ==
    /\ job[p].st = "writes" /\ job[p].put[n] # 0
    /\ \/ /\ job[p].seen[n] # "other" \/ ~served
          /\ rows' = [rows EXCEPT ![n] = [q |-> "mine", v |-> job[p].put[n]]]
          /\ late' = IF p = "main" /\ reg[n].v # job[p].put[n] THEN late \cup {n} ELSE late \ {n}
          /\ job' = [job EXCEPT ![p].put[n] = 0]
          /\ UNCHANGED faults
       \/ /\ \/ job[p].seen[n] = "other" /\ served /\ UNCHANGED faults
             \/ Fault
          /\ job' = [job EXCEPT ![p].put[n] = 0, ![p].failed = @ \cup {n}]
          /\ UNCHANGED <<rows, late>>
    /\ UNCHANGED <<gives, reg, served, found, retry, left, running, before, changes>>

\* A row of this queue's only.
DeleteTool(p, n) ==
    /\ job[p].st = "writes" /\ Set(job[p].put) = {} /\ n \in job[p].drop
    /\ \/ /\ rows' = IF rows[n].q = "mine" THEN [rows EXCEPT ![n] = NoRow] ELSE rows
          /\ late' = late \ {n}
          /\ job' = [job EXCEPT ![p].drop = @ \ {n}]
          /\ UNCHANGED faults
       \/ /\ Fault
          /\ job' = [job EXCEPT ![p].drop = @ \ {n}, ![p].failed = @ \cup {n}]
          /\ UNCHANGED <<rows, late>>
    /\ UNCHANGED <<gives, reg, served, found, retry, left, running, before, changes>>

\* What could not be written is tried again: by keepPublishing, or with the
\* server's next discovery.
Published(p) ==
    /\ job[p].st = "writes" /\ Set(job[p].put) = {} /\ job[p].drop = {}
    /\ job' = [job EXCEPT ![p] = NoJob]
    /\ IF p = "main"
       THEN left' = job[p].failed /\ running' = TRUE /\ UNCHANGED retry
       ELSE retry' = [retry EXCEPT ![job[p].of] = job[p].failed] /\ UNCHANGED <<left, running>>
    /\ UNCHANGED <<gives, reg, rows, served, found, late, before, changes, faults>>

\* keepPublishing: the tools left out that the registry has.
KeepPublishing ==
    /\ running /\ job["main"].st = "idle" /\ left # {}
    /\ job' = [job EXCEPT !["main"] = [NoJob EXCEPT !.st = "lists",
                                                    !.put = [n \in Names |-> IF n \in left THEN reg[n].v ELSE 0]]]
    /\ UNCHANGED <<gives, reg, rows, served, found, retry, left, running, late, before, changes, faults>>

-----------------------------------------------------------------------------
(* The others. *)

ServerChanges(i) ==
    /\ changes < MaxChanges /\ changes' = changes + 1
    /\ \E tools \in Tools : tools # gives[i] /\ gives' = [gives EXCEPT ![i] = tools]
    /\ UNCHANGED <<reg, rows, served, found, job, retry, left, running, late, before, faults>>

\* The other queue's worker stops, or withdraws its tool.  It takes no row of
\* this queue's: it sees the queue served (queueServed).
OtherQueue ==
    /\ \/ served /\ served' = FALSE /\ UNCHANGED rows
       \/ \E n \in Names : rows[n].q = "other" /\ rows' = [rows EXCEPT ![n] = NoRow] /\ UNCHANGED served
    /\ UNCHANGED <<gives, reg, found, job, retry, left, running, late, before, changes, faults>>

Next ==
    \/ Discover \/ KeepPublishing \/ OtherQueue
    \/ \E i \in Servers : Watch(i) \/ Down(i) \/ Apply(i) \/ ServerChanges(i)
    \/ \E p \in Publishers : ListTools(p) \/ Published(p)
    \/ \E p \in Publishers, n \in Names : UpsertTool(p, n) \/ DeleteTool(p, n)

Spec == Init /\ [][Next]_vars

-----------------------------------------------------------------------------
\* With no publish under way, the table agrees with the registry, or what does
\* not is to be tried again: no tool is published that the worker does not
\* have, nor as it was, and none it has is missing (MCPServers.apply,
\* toPublish, keepPublishing).  Two rows are outside it, for the code does not
\* say who withdraws them: one of the worker's life before that its server
\* gives no more (withdrawUnoffered leaves it to the discovery, which knows
\* nothing of it), and one keepPublishing wrote as run changed it.
PublishedRight ==
    (running /\ \A p \in Publishers : job[p].st = "idle") =>
        \A n \in Names \ (late \cup before) :
            \/ n \in left \/ \E i \in Servers : n \in retry[i]
            \/ IF Held(n) THEN rows[n] = [q |-> "mine", v |-> reg[n].v] ELSE rows[n].q # "mine"
=============================================================================
