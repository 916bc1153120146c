---------------------------- MODULE AccessRules ----------------------------
(***************************************************************************)
(* The access rules and the groups that hold them (store/access.go), as    *)
(* the admins' requests write them (web/admin/access.go): each request     *)
(* checks its form against the inventory it loads, then runs one           *)
(* transaction, at PostgreSQL's read committed.  Its row locks are kept:   *)
(* DeleteGroup locks the group, then the rules it holds alone; a rule's    *)
(* write locks the rule, and each group it names, by the foreign key.      *)
(* Two transactions that wait for each other are found by PostgreSQL, and  *)
(* one fails.                                                              *)
(*                                                                         *)
(* A rule closes what it targets to everyone but its holders and the       *)
(* admins: groups, or a user named directly.  Users are never deleted.     *)
(***************************************************************************)
EXTENDS Naturals, FiniteSets

CONSTANTS Groups,      \* groups
          Rules,       \* identifiers of rules
          User,        \* a user a rule may name
          Requests,    \* admins' requests at once
          MaxRequests  \* bound: requests

VARIABLES
    groups,   \* the groups there are
    rules,    \* rules[r]: there, its holders, those its last write named
    req,      \* req[q]: what the request does, and where its transaction is
    twins,    \* history: rules two of whose groups were deleted at once
    requests

vars == <<groups, rules, req, twins, requests>>

\* A user is no group.
ConstantsOK == User \notin Groups

Subjects == Groups \cup {User}
NoRule == [there |-> FALSE, holders |-> {}, named |-> {}]
Idle == [op |-> "none", st |-> "none", g |-> {}, r |-> {}, new |-> {}, left |-> {}, drops |-> {}]

Init ==
    /\ groups \in SUBSET Groups
    /\ rules \in [Rules -> {NoRule} \cup
                           {[there |-> TRUE, holders |-> H, named |-> H] : H \in SUBSET (groups \cup {User})}]
    /\ req = [q \in Requests |-> Idle]
    /\ twins = {} /\ requests = 0

Becomes(q, x) == req' = [req EXCEPT ![q] = x]

Starts(q, x) ==
    /\ req[q].op = "none"
    /\ requests < MaxRequests /\ requests' = requests + 1
    /\ Becomes(q, x)

-----------------------------------------------------------------------------
(* The locks the open transactions hold. *)

\* A rule's row, by its write; those a deletion read as held by its group
\* alone are locked too, but that deletion ends with them.
RuleLocked(r, q) == \E o \in Requests \ {q} : req[o].op = "write" /\ req[o].st = "open" /\ r \in req[o].r

\* FOR UPDATE, by a deletion.
GroupLocked(g, q) ==
    \E o \in Requests \ {q} : req[o].op = "delete" /\ req[o].st \in {"locked", "checked"} /\ g \in req[o].g

\* FOR KEY SHARE, by a write that inserted the group among the holders.
GroupShared(g, q) ==
    \E o \in Requests \ {q} : req[o].op = "write" /\ req[o].st = "open" /\ g \in req[o].new \ req[o].left

-----------------------------------------------------------------------------
(* createRule, updateRule. *)

\* checkHolders: the groups named are in the inventory.  A creation has no
\* rule yet.
CheckRule(q) ==
    /\ \E R \in {{}} \cup {{r} : r \in Rules}, H \in SUBSET Subjects :
          /\ H \ {User} \subseteq groups
          /\ \A r \in R : rules[r].there
          /\ Starts(q, [Idle EXCEPT !.op = "write", !.st = "asked", !.r = R, !.new = H])
    /\ UNCHANGED <<groups, rules, twins>>

Opens(q, r) ==
    Becomes(q, [req[q] EXCEPT !.st = "open", !.r = {r}, !.left = req[q].new, !.drops = rules[r].holders])

\* The rule's row is inserted.
CreateAccessRule(q) ==
    /\ req[q].op = "write" /\ req[q].st = "asked" /\ req[q].r = {}
    /\ \E r \in Rules : ~rules[r].there /\ ~RuleLocked(r, q) /\ Opens(q, r)
    /\ UNCHANGED <<groups, rules, twins, requests>>

\* The rule's row is updated and locked, its holders deleted; a rule deleted
\* meanwhile is not found.
UpdateAccessRule(q) ==
    /\ req[q].op = "write" /\ req[q].st = "asked"
    /\ \E r \in req[q].r : ~RuleLocked(r, q) /\ IF rules[r].there THEN Opens(q, r) ELSE Becomes(q, Idle)
    /\ UNCHANGED <<groups, rules, twins, requests>>

\* setHolders: one holder.  A group being deleted is waited for; one gone
\* fails the foreign key, and the transaction.
SetHolder(q) ==
    /\ req[q].op = "write" /\ req[q].st = "open"
    /\ \E h \in req[q].left :
          /\ h # User => ~GroupLocked(h, q)
          /\ Becomes(q, IF h = User \/ h \in groups THEN [req[q] EXCEPT !.left = @ \ {h}] ELSE Idle)
    /\ UNCHANGED <<groups, rules, twins, requests>>

CommitRule(q) ==
    /\ req[q].op = "write" /\ req[q].st = "open" /\ req[q].left = {}
    /\ rules' = [r \in Rules |-> IF r \in req[q].r
                                 THEN [there |-> TRUE, holders |-> req[q].new, named |-> req[q].new]
                                 ELSE rules[r]]
    /\ twins' = twins \ req[q].r
    /\ Becomes(q, Idle)
    /\ UNCHANGED <<groups, requests>>

DeleteAccessRule(r) ==
    /\ rules[r].there /\ \A q \in Requests : ~RuleLocked(r, q)
    /\ requests < MaxRequests /\ requests' = requests + 1
    /\ rules' = [rules EXCEPT ![r] = NoRule]
    /\ twins' = twins \ {r}
    /\ UNCHANGED <<groups, req>>

-----------------------------------------------------------------------------
(* createGroup, deleteGroup. *)

CreateGroup(g) ==
    /\ g \notin groups
    /\ requests < MaxRequests /\ requests' = requests + 1
    /\ groups' = groups \cup {g}
    /\ UNCHANGED <<rules, req, twins>>

DeleteGroup(q) ==
    /\ \E g \in Groups : Starts(q, [Idle EXCEPT !.op = "delete", !.st = "asked", !.g = {g}])
    /\ UNCHANGED <<groups, rules, twins>>

\* The group's row, FOR UPDATE; a group gone is not found.
\* Mutant: the row is read, not locked.
LockGroupNot(q) ==
    /\ req[q].op = "delete" /\ req[q].st = "asked"
    /\ Becomes(q, IF req[q].g \subseteq groups THEN [req[q] EXCEPT !.st = "read"] ELSE Idle)
    /\ UNCHANGED <<groups, rules, twins, requests>>

LockGroup(q) ==
    /\ req[q].op = "delete" /\ req[q].st = "asked"
    /\ \A g \in req[q].g : ~GroupLocked(g, q) /\ ~GroupShared(g, q)
    /\ Becomes(q, IF req[q].g \subseteq groups THEN [req[q] EXCEPT !.st = "locked"] ELSE Idle)
    /\ UNCHANGED <<groups, rules, twins, requests>>

SoleOf(G) == {r \in Rules : rules[r].there /\ rules[r].holders = G}

\* The groups whose deletion is decided, and not made.
Leaving == UNION {req[o].g : o \in {p \in Requests : req[p].op = "delete" /\ req[p].st = "checked"}}

\* The rules it holds alone are locked, and refuse it (SoleHolderError).
CheckSole(q) ==
    /\ req[q].op = "delete" /\ req[q].st \in {"locked", "read"}
    /\ \A r \in SoleOf(req[q].g) : ~RuleLocked(r, q)
    /\ Becomes(q, IF SoleOf(req[q].g) # {} THEN Idle ELSE [req[q] EXCEPT !.st = "checked"])
    /\ twins' = twins \cup {r \in Rules : /\ SoleOf(req[q].g) = {} /\ Leaving # {}
                                        /\ rules[r].holders \subseteq req[q].g \cup Leaving}
    /\ UNCHANGED <<groups, rules, requests>>

\* The group goes, and the cascade takes it out of the rules: it waits for
\* the writes that have deleted the same rows.
CommitGroup(q) ==
    /\ req[q].op = "delete" /\ req[q].st = "checked"
    /\ \A o \in Requests : req[o].op = "write" /\ req[o].st = "open" => req[o].drops \cap req[q].g = {}
    /\ groups' = groups \ req[q].g
    /\ rules' = [r \in Rules |-> [rules[r] EXCEPT !.holders = @ \ req[q].g]]
    /\ Becomes(q, Idle)
    /\ UNCHANGED <<twins, requests>>

\* A transaction fails, and leaves nothing: one of two that wait for each
\* other, or any, when the request ends or the database does not answer.
Fails(q) ==
    /\ req[q].op # "none"
    /\ Becomes(q, Idle)
    /\ UNCHANGED <<groups, rules, twins, requests>>

Next ==
    \/ \E q \in Requests :
          \/ CheckRule(q) \/ CreateAccessRule(q) \/ UpdateAccessRule(q) \/ SetHolder(q) \/ CommitRule(q)
          \/ DeleteGroup(q) \/ LockGroup(q) \/ CheckSole(q) \/ CommitGroup(q) \/ Fails(q)
    \/ \E r \in Rules : DeleteAccessRule(r)
    \/ \E g \in Groups : CreateGroup(g)

Spec == Init /\ [][Next]_vars

-----------------------------------------------------------------------------
\* A rule whose last write named a holder keeps one: no deletion of a group,
\* in whatever order its steps and a rule's write come, leaves what the rule
\* targets closed to everyone but the admins.  (Two of the rule's groups
\* deleted at once do: each deletion reads the other's group as a holder.)
RuleKeepsHolder ==
    \A r \in Rules \ twins : rules[r].there /\ rules[r].named # {} => rules[r].holders # {}

=============================================================================
