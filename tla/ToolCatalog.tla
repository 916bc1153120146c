---------------------------- MODULE ToolCatalog ----------------------------
(***************************************************************************)
(* The tools the workers publish (cmd/agent/tools.go), the catalog a       *)
(* worker reads them into with the agents and the access rules             *)
(* (cmd/agent/agents.go, activity/catalog.go), what it gives a user's turn *)
(* (access/access.go), and the sweep that tells the admins of a rule that  *)
(* targets nothing any more (cmd/agent/access.go).                         *)
(*                                                                         *)
(* One rule, one user, one agent whose list allows every tool.  The rule   *)
(* targets names, of a server's tools or by a pattern, and the agent's own *)
(* among them.  A catalog is read in three queries, any of which may fail; *)
(* meanwhile the rights and the tools change.                              *)
(***************************************************************************)
EXTENDS Naturals, FiniteSets

CONSTANTS Names,      \* names of tools
          Agent,      \* the agent's own name, as a tool (agent_<id>)
          Queues,     \* task queues
          NoQueue,
          Sweepers,   \* servers, each with its sweep
          MaxWrites,  \* bound: writes of the rights, of the agents, of a worker's configuration
          MaxFaults   \* bound: queries that fail

Targets == Names \cup {Agent}

VARIABLES
    rule,     \* the rule: its targets, whether it holds the user, its marks, its writes
    user,     \* the user: admin, disabled
    agent,    \* the agent is in its table
    tools,    \* tools[n]: the queue tool n is published on
    offers,   \* offers[q]: the tools the worker of queue q has; serves[q]: it is up
    serves,
    pub,      \* pub[q]: the tools it has yet to publish, the rows it read
    cat,      \* a worker's catalog, and where its refresh is
    shut,     \* history: closed to the user since before the catalog last read the rights
    sweep,    \* sweep[s]: the rule it listed, and what it found
    hit,      \* history: the rule, as it is written, targeted something
    told,     \* history: alerts since the rule was written, or marked again
    stale,    \* history: a sweep marked a rule written again since it was listed
    writes, faults

rights == <<rule, user>>
publishing == <<tools, offers, serves, pub>>
sweeping == <<sweep, hit, told, stale>>
vars == <<rule, user, agent, tools, offers, serves, pub, cat, shut, sweep, hit, told, stale, writes, faults>>

NoRule == [id |-> 0, targets |-> {}, holds |-> FALSE, matched |-> FALSE, alerted |-> FALSE]
NoPub == [st |-> "none", left |-> {}, rows |-> [n \in Names |-> NoQueue], again |-> {}]
NoSweep == [st |-> "none", id |-> 0, targets |-> {}, matched |-> FALSE]
NewCatalog == [access |-> [rule |-> NoRule, user |-> [admin |-> FALSE, disabled |-> FALSE]], loaded |-> FALSE,
               agent |-> FALSE, agentsLoaded |-> FALSE, tools |-> {}, step |-> "idle"]

Init ==
    /\ rule = NoRule /\ user = [admin |-> FALSE, disabled |-> FALSE] /\ agent = TRUE
    /\ tools = [n \in Names |-> NoQueue]
    /\ offers \in [Queues -> SUBSET Names] /\ serves = [q \in Queues |-> FALSE]
    /\ pub = [q \in Queues |-> NoPub]
    /\ cat = NewCatalog /\ shut = {}
    /\ sweep = [s \in Sweepers |-> NoSweep]
    /\ hit = FALSE /\ told = 0 /\ stale = FALSE
    /\ writes = 0 /\ faults = 0

Published == {n \in Names : tools[n] # NoQueue}
Refs == Published \cup IF agent THEN {Agent} ELSE {}

Write == writes < MaxWrites /\ writes' = writes + 1
Fault == faults < MaxFaults /\ faults' = faults + 1

-----------------------------------------------------------------------------
(* Who may use what (access.go). *)

\* Allowed: every rule that matches the tool holds the user.
Allowed(r, u, t) == ~u.disabled /\ (u.admin \/ t \notin r.targets \/ r.holds)

\* AllowedToolsFor: none of a catalog that has not read all, none of an
\* agent it does not know, or closed to the user.
ToolsFor(c) ==
    IF c.loaded /\ c.agentsLoaded /\ c.agent /\ Allowed(c.access.rule, c.access.user, Agent)
    THEN {t \in c.tools : Allowed(c.access.rule, c.access.user, t)}
    ELSE {}

\* What stays closed once the rights are r and u.
StillShut(r, u) == shut' = {t \in shut : ~Allowed(r, u, t) \/ ~Allowed(r, u, Agent)}

\* The admins write the rule: its marks go.
WriteRule ==
    /\ Write
    /\ \E T \in SUBSET Targets, holds \in BOOLEAN :
          /\ rule' = [NoRule EXCEPT !.id = writes + 1, !.targets = T, !.holds = holds]
          /\ StillShut(rule', user)
          /\ hit' = (T \cap Refs # {})
    /\ told' = 0
    /\ UNCHANGED <<user, agent, publishing, cat, sweep, stale, faults>>

\* Or take the user in or out of its groups, or change their account.
WriteUser ==
    /\ Write
    /\ \/ rule' = [rule EXCEPT !.holds = ~@] /\ UNCHANGED user
       \/ UNCHANGED rule
          /\ user' \in {[user EXCEPT !.admin = ~@], [user EXCEPT !.disabled = ~@]}
    /\ StillShut(rule', user')
    /\ UNCHANGED <<agent, publishing, cat, sweeping, faults>>

Hits(refs) == hit' = (hit \/ rule.targets \cap refs # {})

WriteAgent ==
    /\ Write
    /\ agent' = ~agent
    /\ Hits(Published \cup IF agent' THEN {Agent} ELSE {})
    /\ UNCHANGED <<rights, publishing, cat, shut, sweep, told, stale, faults>>

-----------------------------------------------------------------------------
(* A worker's tools. *)

\* A worker starts, or stops, its configuration another at times; one that
\* starts withdraws what its queue published and it does not offer.
WorkerStarts(q) ==
    /\ ~serves[q] /\ serves' = [serves EXCEPT ![q] = TRUE]
    /\ \/ UNCHANGED <<offers, writes>>
       \/ Write /\ \E S \in SUBSET Names : offers' = [offers EXCEPT ![q] = S]
    /\ tools' = [n \in Names |-> IF tools[n] = q /\ n \notin offers'[q] THEN NoQueue ELSE tools[n]]
    /\ pub' = [pub EXCEPT ![q] = [NoPub EXCEPT !.st = "lists", !.left = offers'[q]]]
    /\ UNCHANGED <<rights, agent, cat, shut, sweeping, faults>>

WorkerStops(q) ==
    /\ serves[q] /\ serves' = [serves EXCEPT ![q] = FALSE]
    /\ Write
    /\ pub' = [pub EXCEPT ![q] = NoPub]
    /\ UNCHANGED <<rights, agent, tools, offers, cat, shut, sweeping, faults>>

\* publishTools: the rows are read; a read that fails shows none.
ListPublished(q) ==
    /\ pub[q].st = "lists"
    /\ \/ pub' = [pub EXCEPT ![q].st = "puts", ![q].rows = tools] /\ UNCHANGED faults
       \/ Fault /\ pub' = [pub EXCEPT ![q].st = "puts", ![q].rows = [n \in Names |-> NoQueue]]
    /\ UNCHANGED <<rights, agent, tools, offers, serves, cat, shut, sweeping, writes>>

\* A tool another queue serves is left to it, and tried again later.
PublishTool(q, n) ==
    /\ pub[q].st = "puts" /\ n \in pub[q].left
    /\ LET other == pub[q].rows[n] IN
       IF other \in Queues \ {q} /\ serves[other]
       THEN /\ pub' = [pub EXCEPT ![q].left = @ \ {n}, ![q].again = @ \cup {n}]
            /\ UNCHANGED <<tools, hit, faults>>
       ELSE \/ /\ tools' = [tools EXCEPT ![n] = q]
               /\ pub' = [pub EXCEPT ![q].left = @ \ {n}]
               /\ Hits(Refs \cup {n})
               /\ UNCHANGED faults
            \/ /\ Fault
               /\ pub' = [pub EXCEPT ![q].left = @ \ {n}, ![q].again = @ \cup {n}]
               /\ UNCHANGED <<tools, hit>>
    /\ UNCHANGED <<rights, agent, offers, serves, cat, shut, sweep, told, stale, writes>>

KeepPublishing(q) ==
    /\ pub[q].st = "puts" /\ pub[q].left = {}
    /\ pub' = [pub EXCEPT ![q] = IF pub[q].again = {} THEN NoPub
                                 ELSE [NoPub EXCEPT !.st = "lists", !.left = pub[q].again]]
    /\ UNCHANGED <<rights, agent, tools, offers, serves, cat, shut, sweeping, writes, faults>>

\* An MCP server gives a tool no more: its queue withdraws it, no other's.
DeleteTool(q, n) ==
    /\ serves[q] /\ pub[q].st = "none" /\ n \in offers[q]
    /\ Write
    /\ offers' = [offers EXCEPT ![q] = @ \ {n}]
    /\ tools' = IF tools[n] = q THEN [tools EXCEPT ![n] = NoQueue] ELSE tools
    /\ UNCHANGED <<rights, agent, serves, pub, cat, shut, sweeping, faults>>

-----------------------------------------------------------------------------
(* refreshCatalog: the rights, then the agents, then the tools. *)

Shut == {t \in Names : ~Allowed(rule, user, t) \/ ~Allowed(rule, user, Agent)}

\* A read that fails keeps what was read, and, the first, stops the refresh.
\* Mutant: rights once read are kept.
ReadAccessOnce ==
    /\ cat.step = "idle"
    /\ \/ /\ cat' = [cat EXCEPT !.access = IF cat.loaded THEN @ ELSE [rule |-> rule, user |-> user],
                                !.loaded = TRUE, !.step = "agents"]
          /\ shut' = Shut
          /\ UNCHANGED faults
       \/ /\ Fault
          /\ cat' = [cat EXCEPT !.step = IF cat.loaded THEN "agents" ELSE "idle"]
          /\ UNCHANGED shut
    /\ UNCHANGED <<rights, agent, publishing, sweeping, writes>>

ReadAccess ==
    /\ cat.step = "idle"
    /\ \/ /\ cat' = [cat EXCEPT !.access = [rule |-> rule, user |-> user], !.loaded = TRUE, !.step = "agents"]
          /\ shut' = Shut
          /\ UNCHANGED faults
       \/ /\ Fault
          /\ cat' = [cat EXCEPT !.step = IF cat.loaded THEN "agents" ELSE "idle"]
          /\ UNCHANGED shut
    /\ UNCHANGED <<rights, agent, publishing, sweeping, writes>>

ReadAgents ==
    /\ cat.step = "agents"
    /\ \/ cat' = [cat EXCEPT !.agent = agent, !.agentsLoaded = TRUE, !.step = "tools"] /\ UNCHANGED faults
       \/ Fault /\ cat' = [cat EXCEPT !.step = "tools"]
    /\ UNCHANGED <<rights, agent, publishing, shut, sweeping, writes>>

ReadTools ==
    /\ cat.step = "tools"
    /\ \/ cat' = [cat EXCEPT !.tools = Published, !.step = "idle"] /\ UNCHANGED faults
       \/ Fault /\ cat' = [cat EXCEPT !.step = "idle"]
    /\ UNCHANGED <<rights, agent, publishing, shut, sweeping, writes>>

-----------------------------------------------------------------------------
(* sweepAccessRules. *)

ListRules(s) ==
    /\ sweep[s].st = "none" /\ rule.id # 0
    /\ sweep' = [sweep EXCEPT ![s] = [st |-> "listed", id |-> rule.id, targets |-> rule.targets, matched |-> FALSE]]
    /\ UNCHANGED <<rights, agent, publishing, cat, shut, hit, told, stale, writes, faults>>

PublishedRefs(s) ==
    /\ sweep[s].st = "listed"
    /\ \/ /\ sweep' = [sweep EXCEPT ![s].st = "marks", ![s].matched = sweep[s].targets \cap Refs # {}]
          /\ UNCHANGED faults
       \/ Fault /\ sweep' = [sweep EXCEPT ![s] = NoSweep]
    /\ UNCHANGED <<rights, agent, publishing, cat, shut, hit, told, stale, writes>>

\* The rule targets something: never matched yet, or told since, it is marked.
SetAccessRulesMatched(s) ==
    /\ sweep[s].st = "marks" /\ sweep[s].matched
    /\ LET marks == ~rule.matched \/ rule.alerted IN
       /\ rule' = IF marks THEN [rule EXCEPT !.matched = TRUE, !.alerted = FALSE] ELSE rule
       /\ told' = IF marks THEN 0 ELSE told
       /\ stale' = (stale \/ (marks /\ sweep[s].id # rule.id))
    /\ sweep' = [sweep EXCEPT ![s] = NoSweep]
    /\ UNCHANGED <<user, agent, publishing, cat, shut, hit, writes, faults>>

\* It targets nothing: the alert is claimed, once, and the admins told.
\* Mutant: claimed again by each sweep.
ClaimAlways(s) ==
    /\ sweep[s].st = "marks" /\ ~sweep[s].matched
    /\ rule' = [rule EXCEPT !.alerted = @ \/ rule.matched]
    /\ told' = IF rule.matched THEN told + 1 ELSE told
    /\ sweep' = [sweep EXCEPT ![s] = NoSweep]
    /\ UNCHANGED <<user, agent, publishing, cat, shut, hit, stale, writes, faults>>

ClaimUnmatchedAlert(s) ==
    /\ sweep[s].st = "marks" /\ ~sweep[s].matched
    /\ LET claims == rule.matched /\ ~rule.alerted IN
       /\ rule' = IF claims THEN [rule EXCEPT !.alerted = TRUE] ELSE rule
       /\ told' = IF claims THEN told + 1 ELSE told
    /\ sweep' = [sweep EXCEPT ![s] = NoSweep]
    /\ UNCHANGED <<user, agent, publishing, cat, shut, hit, stale, writes, faults>>

Next ==
    \/ WriteRule \/ WriteUser \/ WriteAgent
    \/ \E q \in Queues : WorkerStarts(q) \/ WorkerStops(q) \/ ListPublished(q) \/ KeepPublishing(q)
    \/ \E q \in Queues, n \in Names : PublishTool(q, n) \/ DeleteTool(q, n)
    \/ ReadAccess \/ ReadAgents \/ ReadTools
    \/ \E s \in Sweepers : ListRules(s) \/ PublishedRefs(s) \/ SetAccessRulesMatched(s) \/ ClaimUnmatchedAlert(s)

\* Bound: a refresh or a sweep at once; a second worker, or a fault or a sweep;
\* a fault or a second write.
Small ==
    /\ faults = 0 \/ writes <= 1
    /\ cat = NewCatalog \/ \A s \in Sweepers : sweep[s] = NoSweep
    /\ (\E q \in Queues : ~serves[q]) \/ (faults = 0 /\ \A s \in Sweepers : sweep[s] = NoSweep)

Spec == Init /\ [][Next]_vars

-----------------------------------------------------------------------------
\* A turn is given no tool that was closed to its user before the worker last
\* read the rights and has been since: though reads fail, tools are renamed
\* and published between the reads of one refresh, and the rule, the user's
\* groups, role and account change under it.
TurnObeysRules == ToolsFor(cat) \cap shut = {}

\* The admins are told of a rule at most once until it targets something
\* again or is written again, by however many servers' sweeps; and only of
\* one that had targeted something, as it is written.  (A sweep that marks a
\* rule written again since it was listed marks another's target.)
ToldOnce == told <= 1 /\ (told = 1 => hit \/ stale)

CatalogRight == TurnObeysRules /\ ToldOnce

=============================================================================
