----------------------------- MODULE StoreProofs ----------------------------
(***************************************************************************)
(* What the server keeps, in its store and of its participants, whatever   *)
(* its transactions, loads and events cross.                               *)
(*                                                                         *)
(* That no deletion of a group leaves an access rule without a holder      *)
(* (AccessRules), for every number of groups, rules and requests.          *)
(*                                                                         *)
(* RuleKeepsHolder is about the holders there are; a deletion that has     *)
(* made its check takes its group from them later.  So the invariant is    *)
(* about the holders that will be left: no rule's are all among the groups *)
(* whose deletion is decided (SomeoneStays).  A rule's write brings        *)
(* holders of its own: the groups it has inserted are those no deletion    *)
(* has locked (Apart), which is what the locks are for.                    *)
(*                                                                         *)
(* And that the admins leave one of them active, and no session outlives   *)
(* its password (Accounts), for every number of accounts, logins and       *)
(* requests.  A session's account is there, and so is a login's that read  *)
(* it there: an account is never made over one that is logged in.          *)
(*                                                                         *)
(* And that the workers' catalogs obey the rules (ToolCatalog), for every  *)
(* number of tools, queues and servers: what is shut to the user is shut   *)
(* in the rights the catalog holds (ShutInCatalog); and a sweep that found *)
(* the rule's target found it while the rule was as it is now, or is told  *)
(* from it by the rule's number (SweepsKnow).                              *)
(*                                                                         *)
(* And that a fork's messages are reported once (ForkReport), for every    *)
(* number of members, writers, calls, messages and faults.  ReportedOnce   *)
(* is about the reports there are.  The invariant is about those that may  *)
(* still land too: each has the messages of its range (AllWhole), and the  *)
(* places where ranges end part no call from its result, now or once its   *)
(* transaction commits (Cuts); the reports there are follow one another    *)
(* (Chain), so one that starts elsewhere is refused.                       *)
(*                                                                         *)
(* And that it shows a participant as it is (ServerTurns).  ShownRight     *)
(* speaks of a request that ended with nothing on its way.  It lasts       *)
(* because what is on its way is told for: the events not observed yet     *)
(* lead from the turn the server knows to the participant's, each message  *)
(* having one place among sender, queue and events (Tells, OnePlace,       *)
(* Awaited); past an event's trust every listing that is not old says a    *)
(* participant at work runs (Lags); an answer kept is its state, or the    *)
(* caches are still to be invalidated (Reads).                             *)
(***************************************************************************)
EXTENDS AccessRules, Sequences, FiniteSetTheorems, WellFoundedInduction, TLAPS

CONSTANTS Users, Logins, Limit, MaxWrites

VARIABLES users, sessions, login, fails, letIn, stripped, writes

CONSTANTS Names, Agent, Queues, NoQueue, Sweepers, MaxFaults

VARIABLES rule, user, agent, tools, offers, serves, pub, cat, shut, sweep, hit, told, stale, changes, faults

CONSTANTS Members, Writers, MaxId

VARIABLES fork, parent, members, messages, writing, next, summary, calls, runs, late, reports, raced, missed,
          forkFaults

\* The accounts; their admins' requests are letIn.
Acc == INSTANCE Accounts WITH req <- letIn

\* The workers' tools and catalog.
Catalog == INSTANCE ToolCatalog WITH writes <- changes

CONSTANTS Messages, MaxQueued, MaxLoads

VARIABLES wf, listed, events, observing, view, cache, loads, states, dlv, reader, viewFaults, nfaults

\* A fork and its reports.
Forks == INSTANCE ForkReport WITH Users <- Members, req <- calls, faults <- forkFaults

\* What the server shows of a participant.
Turns == INSTANCE ServerTurns WITH faults <- viewFaults

-----------------------------------------------------------------------------
(* The access rules. *)

States == [op : {"none", "write", "delete"}, st : {"none", "asked", "open", "locked", "checked"},
           g : SUBSET Groups, r : SUBSET Rules, new : SUBSET Subjects, left : SUBSET Subjects,
           drops : SUBSET Subjects]

TypeOK ==
    /\ groups \subseteq Groups
    /\ rules \in [Rules -> [there : BOOLEAN, holders : SUBSET Subjects, named : SUBSET Subjects]]
    /\ req \in [Requests -> States]
    /\ twins \subseteq Rules /\ requests \in Nat

\* What an open deletion holds, what an open write has inserted.
Deletes(o) == req[o].op = "delete" /\ req[o].st \in {"locked", "checked"}
Decided(o) == req[o].op = "delete" /\ req[o].st = "checked"
Inserts(q) == req[q].op = "write" /\ req[q].st = "open"

OneGroup == \A o \in Requests : req[o].op = "delete" => \E x \in Groups : req[o].g = {x}

Apart ==
    \A q, o \in Requests : Inserts(q) /\ Deletes(o) => (req[q].new \ req[q].left) \cap req[o].g = {}

SomeoneStays ==
    \A r \in Rules \ twins : rules[r].there /\ rules[r].named # {} =>
        \E h \in rules[r].holders : \A o \in Requests : Decided(o) => h \notin req[o].g

IInv == TypeOK /\ OneGroup /\ Apart /\ SomeoneStays

-----------------------------------------------------------------------------
\* Before any request, every rule has the holders its last write named.
LEMMA Begins == ASSUME Init PROVE IInv
<1>1. \A q \in Requests : req[q] = Idle
    BY DEF Init
<1>2. Idle \in States /\ Idle.op = "none"
    BY DEF Idle, States
<1>3. rules \in [Rules -> [there : BOOLEAN, holders : SUBSET Subjects, named : SUBSET Subjects]]
  <2>. DEFINE T == [there : BOOLEAN, holders : SUBSET Subjects, named : SUBSET Subjects]
  <2>1. NoRule \in T
      BY DEF NoRule
  <2>2. ASSUME NEW H \in SUBSET (groups \cup {User}) PROVE [there |-> TRUE, holders |-> H, named |-> H] \in T
      BY DEF Init, Subjects
  <2>3. {NoRule} \cup {[there |-> TRUE, holders |-> H, named |-> H] : H \in SUBSET (groups \cup {User})} \subseteq T
      BY <2>1, <2>2
  <2>. HIDE DEF T
  <2>4. rules \in [Rules -> T]
      BY <2>3 DEF Init
  <2>. QED BY <2>4 DEF T
<1>4. TypeOK
    BY <1>2, <1>3 DEF Init, TypeOK
<1>5. OneGroup /\ Apart
    BY <1>1, <1>2 DEF OneGroup, Apart, Inserts
<1>6. ASSUME NEW r \in Rules, rules[r].named # {} PROVE rules[r].holders # {}
  <2>1. rules[r] = NoRule \/ \E H \in SUBSET (groups \cup {User}) : rules[r] = [there |-> TRUE, holders |-> H, named |-> H]
      BY DEF Init
  <2>2. CASE rules[r] = NoRule
      BY <1>6, <2>2 DEF NoRule
  <2>3. ASSUME NEW H, rules[r] = [there |-> TRUE, holders |-> H, named |-> H] PROVE rules[r].holders = rules[r].named
      BY <2>3
  <2>. QED BY <1>6, <2>1, <2>2, <2>3
<1>7. SomeoneStays
    BY <1>1, <1>2, <1>6 DEF SomeoneStays, Decided
<1>. QED BY <1>4, <1>5, <1>7 DEF IInv

\* A request that goes from one state to another: what it locks or inserts
\* is told from what the others do, and it decides no deletion.
LEMMA RequestKeeps ==
    ASSUME IInv, NEW q \in Requests, NEW x \in States, req' = [req EXCEPT ![q] = x],
           groups' \subseteq Groups, requests' \in Nat, UNCHANGED <<rules, twins>>,
           x.op = "delete" => \E y \in Groups : x.g = {y},
           \A o \in Requests \ {q} :
               /\ x.op = "delete" /\ x.st \in {"locked", "checked"} /\ Inserts(o) =>
                     (req[o].new \ req[o].left) \cap x.g = {}
               /\ x.op = "write" /\ x.st = "open" /\ Deletes(o) => (x.new \ x.left) \cap req[o].g = {},
           ~(x.op = "delete" /\ x.st = "checked")
    PROVE  IInv'
<1>0. req \in [Requests -> States]
    BY DEF IInv, TypeOK
<1>1. req'[q] = x /\ \A o \in Requests \ {q} : req'[o] = req[o]
    BY <1>0
<1>2. TypeOK'
    BY <1>0 DEF IInv, TypeOK
<1>3. OneGroup'
    BY <1>1 DEF IInv, OneGroup
<1>4. Apart'
  <2>. SUFFICES ASSUME NEW a \in Requests, NEW o \in Requests, Inserts(a)', Deletes(o)'
                PROVE  ((req[a].new \ req[a].left) \cap req[o].g = {})'
      BY DEF Apart
  <2>0. a # o
      BY DEF Inserts, Deletes
  <2>1. CASE a = q
    <3>1. req'[o] = req[o] /\ req'[a] = x /\ o # q
        BY <1>1, <2>0, <2>1
    <3>2. Deletes(o) /\ x.op = "write" /\ x.st = "open"
        BY <3>1 DEF Inserts, Deletes
    <3>. QED BY <3>1, <3>2
  <2>2. CASE o = q
    <3>1. req'[a] = req[a] /\ req'[o] = x /\ a # q
        BY <1>1, <2>0, <2>2
    <3>2. Inserts(a) /\ x.op = "delete" /\ x.st \in {"locked", "checked"}
        BY <3>1 DEF Inserts, Deletes
    <3>. QED BY <3>1, <3>2
  <2>3. CASE a # q /\ o # q
    <3>1. req'[a] = req[a] /\ req'[o] = req[o]
        BY <1>1, <2>3
    <3>2. Inserts(a) /\ Deletes(o)
        BY <3>1 DEF Inserts, Deletes
    <3>. QED BY <3>1, <3>2 DEF IInv, Apart
  <2>. QED BY <2>1, <2>2, <2>3
<1>5. \A o \in Requests : Decided(o)' => Decided(o) /\ req'[o] = req[o]
    BY <1>1 DEF Decided
<1>6. SomeoneStays'
    BY <1>5 DEF IInv, SomeoneStays
<1>. QED BY <1>2, <1>3, <1>4, <1>6 DEF IInv

\* A request begins, or ends: it holds nothing.
LEMMA NothingHeld ==
    ASSUME IInv, NEW q \in Requests, NEW x \in States, req' = [req EXCEPT ![q] = x],
           requests' \in Nat, UNCHANGED <<groups, rules, twins>>,
           x.op = "delete" => \E y \in Groups : x.g = {y},
           x.st \in {"none", "asked"}
    PROVE  IInv'
    BY RequestKeeps DEF IInv, TypeOK

\* No request.
LEMMA IdleIsState == Idle \in States /\ Idle.op = "none" /\ Idle.st = "none"
    BY DEF Idle, States

\* The state of a request.
LEMMA StateOf == ASSUME IInv, NEW q \in Requests PROVE req[q] \in States
    BY DEF IInv, TypeOK

\* The form of a rule's write is checked, and the transaction is to come.
LEMMA CheckRuleKeeps == ASSUME IInv, NEW q \in Requests, CheckRule(q) PROVE IInv'
<1>1. PICK R \in {{}} \cup {{r} : r \in Rules}, H \in SUBSET Subjects :
        Starts(q, [Idle EXCEPT !.op = "write", !.st = "asked", !.r = R, !.new = H])
    BY DEF CheckRule
<1>. DEFINE x == [Idle EXCEPT !.op = "write", !.st = "asked", !.r = R, !.new = H]
<1>2. x \in States /\ x.op = "write" /\ x.st = "asked"
    BY DEF Idle, States
<1>3. req' = [req EXCEPT ![q] = x] /\ requests' = requests + 1
    BY <1>1 DEF Starts, Becomes
<1>4. UNCHANGED <<groups, rules, twins>> /\ requests' \in Nat
    BY <1>3 DEF CheckRule, IInv, TypeOK
<1>. HIDE DEF x
<1>. QED BY <1>2, <1>3, <1>4, NothingHeld

\* A deletion is asked for.
LEMMA DeleteGroupKeeps == ASSUME IInv, NEW q \in Requests, DeleteGroup(q) PROVE IInv'
<1>1. PICK g \in Groups : Starts(q, [Idle EXCEPT !.op = "delete", !.st = "asked", !.g = {g}])
    BY DEF DeleteGroup
<1>. DEFINE x == [Idle EXCEPT !.op = "delete", !.st = "asked", !.g = {g}]
<1>2. x \in States /\ x.g = {g} /\ x.st = "asked"
    BY DEF Idle, States
<1>3. req' = [req EXCEPT ![q] = x] /\ requests' = requests + 1
    BY <1>1 DEF Starts, Becomes
<1>4. UNCHANGED <<groups, rules, twins>> /\ requests' \in Nat
    BY <1>3 DEF DeleteGroup, IInv, TypeOK
<1>. HIDE DEF x
<1>. QED BY <1>2, <1>3, <1>4, NothingHeld

\* A transaction fails, or finds nothing to do.
LEMMA EndKeeps ==
    ASSUME IInv, NEW q \in Requests, Becomes(q, Idle), UNCHANGED <<groups, rules, twins, requests>>
    PROVE  IInv'
<1>1. requests' \in Nat
    BY DEF IInv, TypeOK
<1>. QED BY <1>1, IdleIsState, NothingHeld DEF Becomes

\* A rule's write begins: no group is inserted yet.
LEMMA OpensKeeps ==
    ASSUME IInv, NEW q \in Requests, NEW r \in Rules, Opens(q, r), req[q].op = "write",
           UNCHANGED <<groups, rules, twins, requests>>
    PROVE  IInv'
<1>. DEFINE x == [req[q] EXCEPT !.st = "open", !.r = {r}, !.left = req[q].new, !.drops = rules[r].holders]
<1>1. /\ x \in States /\ x.op = "write" /\ x.new \ x.left = {}
      /\ req' = [req EXCEPT ![q] = x]
  <2>1. req[q] \in States
      BY StateOf
  <2>2. rules[r].holders \in SUBSET Subjects
      BY DEF IInv, TypeOK
  <2>3. req' = [req EXCEPT ![q] = x]
      BY DEF Opens, Becomes
  <2>. QED BY <2>1, <2>2, <2>3 DEF States
<1>2. groups' \subseteq Groups /\ requests' \in Nat
    BY DEF IInv, TypeOK
<1>. HIDE DEF x
<1>. QED BY <1>1, <1>2, RequestKeeps

\* So do a rule's creation and its update; an update may find no rule.
LEMMA CreateKeeps == ASSUME IInv, NEW q \in Requests, CreateAccessRule(q) PROVE IInv'
    BY OpensKeeps DEF CreateAccessRule

LEMMA UpdateKeeps == ASSUME IInv, NEW q \in Requests, UpdateAccessRule(q) PROVE IInv'
<1>1. PICK r \in req[q].r : Opens(q, r) \/ Becomes(q, Idle)
    BY DEF UpdateAccessRule
<1>2. r \in Rules
    BY StateOf DEF States
<1>. QED BY <1>1, <1>2, OpensKeeps, EndKeeps DEF UpdateAccessRule

\* The group inserted is locked by no deletion.
LEMMA SetHolderKeeps == ASSUME ConstantsOK, IInv, NEW q \in Requests, SetHolder(q) PROVE IInv'
<1>0. req[q].op = "write" /\ req[q].st = "open" /\ UNCHANGED <<groups, rules, twins, requests>>
    BY DEF SetHolder
<1>1. PICK h \in req[q].left : /\ h # User => ~GroupLocked(h, q)
                               /\ \/ Becomes(q, [req[q] EXCEPT !.left = @ \ {h}]) /\ (h = User \/ h \in groups)
                                  \/ Becomes(q, Idle)
    BY DEF SetHolder
<1>2. CASE Becomes(q, [req[q] EXCEPT !.left = @ \ {h}])
  <2>. DEFINE x == [req[q] EXCEPT !.left = @ \ {h}]
  <2>1. /\ x \in States /\ x.op = "write" /\ x.new = req[q].new /\ x.left = req[q].left \ {h}
        /\ req' = [req EXCEPT ![q] = x]
      BY <1>0, <1>2, StateOf DEF States, Becomes
  <2>. HIDE DEF x
  <2>2. ASSUME NEW o \in Requests \ {q}, Deletes(o) PROVE h \notin req[o].g
    <3>1. CASE h = User
      <4>1. req[o].g \subseteq Groups
          BY StateOf DEF States
      <4>. QED BY <3>1, <4>1 DEF ConstantsOK
    <3>2. CASE h # User
        BY <1>1, <2>2, <3>2 DEF GroupLocked, Deletes
    <3>. QED BY <3>1, <3>2
  <2>3. \A o \in Requests \ {q} : Deletes(o) => (x.new \ x.left) \cap req[o].g = {}
      BY <1>0, <2>1, <2>2 DEF IInv, Apart, Inserts
  <2>4. groups' \subseteq Groups /\ requests' \in Nat
      BY <1>0 DEF IInv, TypeOK
  <2>. QED BY <1>0, <2>1, <2>3, <2>4, RequestKeeps
<1>3. CASE Becomes(q, Idle)
    BY <1>0, <1>3, EndKeeps
<1>. QED BY <1>1, <1>2, <1>3

\* The group locked is inserted by no open write.
LEMMA LockKeeps == ASSUME IInv, NEW q \in Requests, LockGroup(q) PROVE IInv'
<1>0. /\ req[q].op = "delete" /\ UNCHANGED <<groups, rules, twins, requests>>
      /\ \A g \in req[q].g : ~GroupShared(g, q)
      /\ Becomes(q, [req[q] EXCEPT !.st = "locked"]) \/ Becomes(q, Idle)
    BY DEF LockGroup
<1>1. CASE Becomes(q, [req[q] EXCEPT !.st = "locked"])
  <2>. DEFINE x == [req[q] EXCEPT !.st = "locked"]
  <2>1. /\ x \in States /\ x.op = "delete" /\ x.st = "locked" /\ x.g = req[q].g
        /\ req' = [req EXCEPT ![q] = x]
      BY <1>0, <1>1, StateOf DEF States, Becomes
  <2>. HIDE DEF x
  <2>2. \A o \in Requests \ {q} : Inserts(o) => (req[o].new \ req[o].left) \cap x.g = {}
      BY <1>0, <2>1 DEF GroupShared, Inserts
  <2>3. \E y \in Groups : x.g = {y}
      BY <1>0, <2>1 DEF IInv, OneGroup
  <2>4. groups' \subseteq Groups /\ requests' \in Nat
      BY <1>0 DEF IInv, TypeOK
  <2>. QED BY <1>0, <2>1, <2>2, <2>3, <2>4, RequestKeeps
<1>2. CASE Becomes(q, Idle)
    BY <1>0, <1>2, EndKeeps
<1>. QED BY <1>0, <1>1, <1>2

\* The write is made.  The groups it names are all inserted, so no deletion
\* that is decided takes them: whoever it names stays.
LEMMA CommitRuleKeeps == ASSUME IInv, NEW q \in Requests, CommitRule(q) PROVE IInv'
<1>0. /\ req[q].op = "write" /\ req[q].st = "open" /\ req[q].left = {}
      /\ req' = [req EXCEPT ![q] = Idle] /\ UNCHANGED <<groups, requests>>
      /\ twins' = twins \ req[q].r
      /\ rules' = [r \in Rules |-> IF r \in req[q].r
                                   THEN [there |-> TRUE, holders |-> req[q].new, named |-> req[q].new]
                                   ELSE rules[r]]
    BY DEF CommitRule, Becomes
<1>1. req[q] \in States /\ req \in [Requests -> States]
    BY DEF IInv, TypeOK
<1>2. req'[q] = Idle /\ \A o \in Requests \ {q} : req'[o] = req[o]
    BY <1>0, <1>1
<1>3. ASSUME NEW o \in Requests
      PROVE  /\ Decided(o)' => Decided(o) /\ req'[o] = req[o]
             /\ Deletes(o)' => Deletes(o) /\ req'[o] = req[o]
             /\ Inserts(o)' => Inserts(o) /\ req'[o] = req[o]
    BY <1>2, IdleIsState DEF Decided, Deletes, Inserts
<1>4. TypeOK'
  <2>1. [there |-> TRUE, holders |-> req[q].new, named |-> req[q].new] \in
            [there : BOOLEAN, holders : SUBSET Subjects, named : SUBSET Subjects]
      BY <1>1 DEF States
  <2>. QED BY <1>0, <1>1, <2>1, IdleIsState DEF IInv, TypeOK
<1>5. OneGroup'
    BY <1>2, IdleIsState DEF IInv, OneGroup
<1>6. Apart'
    BY <1>3 DEF IInv, Apart
<1>7. SomeoneStays'
  <2>. SUFFICES ASSUME NEW r \in Rules, r \notin twins', rules'[r].there, rules'[r].named # {}
                PROVE  \E h \in rules'[r].holders : \A o \in Requests : Decided(o)' => h \notin req'[o].g
      BY DEF SomeoneStays
  <2>1. CASE r \in req[q].r
    <3>1. rules'[r].holders = req[q].new /\ rules'[r].named = req[q].new
        BY <1>0, <2>1
    <3>2. PICK h \in req[q].new : TRUE
        BY <3>1
    <3>3. ASSUME NEW o \in Requests, Decided(o)' PROVE h \notin req'[o].g
        BY <1>0, <1>3, <3>2, <3>3 DEF IInv, Apart, Inserts, Deletes, Decided
    <3>. QED BY <3>1, <3>2, <3>3
  <2>2. CASE r \notin req[q].r
    <3>1. rules'[r] = rules[r] /\ r \notin twins
        BY <1>0, <2>2
    <3>. QED BY <3>1, <1>3 DEF IInv, SomeoneStays
  <2>. QED BY <2>1, <2>2
<1>. QED BY <1>4, <1>5, <1>6, <1>7 DEF IInv

\* A rule is deleted, a group created: no holder goes.
LEMMA DeleteRuleKeeps == ASSUME IInv, NEW r \in Rules, DeleteAccessRule(r) PROVE IInv'
<1>0. /\ UNCHANGED <<groups, req>> /\ rules' = [rules EXCEPT ![r] = NoRule] /\ twins' = twins \ {r}
      /\ requests' \in Nat
    BY DEF DeleteAccessRule, IInv, TypeOK
<1>1. TypeOK'
  <2>1. NoRule \in [there : BOOLEAN, holders : SUBSET Subjects, named : SUBSET Subjects]
      BY DEF NoRule
  <2>. QED BY <1>0, <2>1 DEF IInv, TypeOK
<1>2. OneGroup' /\ Apart'
    BY <1>0 DEF IInv, OneGroup, Apart, Inserts, Deletes
<1>3. ~rules'[r].there /\ \A t \in Rules \ {r} : rules'[t] = rules[t]
    BY <1>0 DEF IInv, TypeOK, NoRule
<1>4. \A o \in Requests : Decided(o)' => Decided(o) /\ req'[o] = req[o]
    BY <1>0 DEF Decided
<1>5. SomeoneStays'
    BY <1>0, <1>3, <1>4 DEF IInv, SomeoneStays
<1>. QED BY <1>1, <1>2, <1>5 DEF IInv

LEMMA CreateGroupKeeps == ASSUME IInv, NEW g \in Groups, CreateGroup(g) PROVE IInv'
<1>0. UNCHANGED <<rules, req, twins>> /\ groups' \subseteq Groups /\ requests' \in Nat
    BY DEF CreateGroup, IInv, TypeOK
<1>1. TypeOK'
    BY <1>0 DEF IInv, TypeOK
<1>2. OneGroup' /\ Apart'
    BY <1>0 DEF IInv, OneGroup, Apart, Inserts, Deletes
<1>3. SomeoneStays'
    BY <1>0 DEF IInv, SomeoneStays, Decided
<1>. QED BY <1>1, <1>2, <1>3 DEF IInv

\* A deletion decided: of no rule is its group the only holder left, but of
\* those another deletion, decided at once, takes the others from.
LEMMA CheckSoleKeeps == ASSUME IInv, NEW q \in Requests, CheckSole(q) PROVE IInv'
<1>0. /\ req[q].op = "delete" /\ req[q].st \in {"locked", "read"} /\ UNCHANGED <<groups, rules, requests>>
      /\ Becomes(q, IF SoleOf(req[q].g) # {} THEN Idle ELSE [req[q] EXCEPT !.st = "checked"])
      /\ twins' = twins \cup {r \in Rules : /\ SoleOf(req[q].g) = {} /\ Leaving # {}
                                            /\ rules[r].holders \subseteq req[q].g \cup Leaving}
    BY DEF CheckSole
<1>1. req[q] \in States /\ req \in [Requests -> States]
    BY DEF IInv, TypeOK
<1>2. CASE SoleOf(req[q].g) # {}
  <2>1. Becomes(q, Idle) /\ twins' = twins
      BY <1>0, <1>2
  <2>. QED BY <1>0, <2>1, EndKeeps
<1>3. CASE SoleOf(req[q].g) = {}
  <2>. DEFINE x == [req[q] EXCEPT !.st = "checked"]
  <2>1. /\ x \in States /\ x.op = "delete" /\ x.st = "checked" /\ x.g = req[q].g
        /\ req' = [req EXCEPT ![q] = x]
      BY <1>0, <1>1, <1>3 DEF States, Becomes
  <2>. HIDE DEF x
  <2>2. req'[q] = x /\ \A o \in Requests \ {q} : req'[o] = req[o]
      BY <1>1, <2>1
  <2>3. TypeOK'
      BY <1>0, <1>1, <2>1 DEF IInv, TypeOK
  <2>4. OneGroup'
      BY <1>0, <2>1, <2>2 DEF IInv, OneGroup
  <2>5. Deletes(q)
      BY <1>0, <1>1 DEF Deletes, States
  <2>6. ASSUME NEW o \in Requests
        PROVE  /\ Inserts(o)' => Inserts(o) /\ req'[o] = req[o]
               /\ Deletes(o)' => Deletes(o) /\ req'[o].g = req[o].g
               /\ Decided(o)' => (Decided(o) \/ o = q) /\ req'[o].g = req[o].g
      BY <2>1, <2>2, <2>5 DEF Inserts, Deletes, Decided
  <2>7. Apart'
      BY <2>6 DEF IInv, Apart
  <2>8. SomeoneStays'
    <3>. SUFFICES ASSUME NEW r \in Rules, r \notin twins', rules[r].there, rules[r].named # {}
                  PROVE  \E h \in rules[r].holders : \A o \in Requests : Decided(o)' => h \notin req'[o].g
        BY <1>0 DEF SomeoneStays
    <3>1. ASSUME NEW h, \A o \in Requests : Decided(o) => h \notin req[o].g, h \notin req[q].g
          PROVE  \A o \in Requests : Decided(o)' => h \notin req'[o].g
        BY <2>6, <3>1
    <3>2. PICK k \in rules[r].holders : \A o \in Requests : Decided(o) => k \notin req[o].g
        BY <1>0 DEF IInv, SomeoneStays
    <3>3. \A h : h \in Leaving <=> \E o \in Requests : Decided(o) /\ h \in req[o].g
        BY DEF Leaving, Decided
    <3>4. CASE Leaving # {}
      <4>1. PICK h \in rules[r].holders : h \notin req[q].g \cup Leaving
          BY <1>0, <1>3, <3>4
      <4>. QED BY <3>1, <3>3, <4>1
    <3>5. CASE Leaving = {}
      <4>1. PICK y \in Groups : req[q].g = {y}
          BY <1>0 DEF IInv, OneGroup
      <4>2. rules[r].holders # {y}
          BY <1>3, <4>1 DEF SoleOf
      <4>3. PICK h \in rules[r].holders : h # y
          BY <3>2, <4>2
      <4>. QED BY <3>1, <3>3, <3>5, <4>1, <4>3
    <3>. QED BY <3>4, <3>5
  <2>. QED BY <2>3, <2>4, <2>7, <2>8 DEF IInv
<1>. QED BY <1>2, <1>3

\* The deletion is made: the holder that stays is not its group.
LEMMA CommitGroupKeeps == ASSUME IInv, NEW q \in Requests, CommitGroup(q) PROVE IInv'
<1>0. /\ Decided(q) /\ UNCHANGED <<twins, requests>> /\ req' = [req EXCEPT ![q] = Idle]
      /\ groups' = groups \ req[q].g
      /\ rules' = [r \in Rules |-> [rules[r] EXCEPT !.holders = @ \ req[q].g]]
    BY DEF CommitGroup, Decided, Becomes
<1>1. req \in [Requests -> States] /\ \A r \in Rules : rules[r] \in [there : BOOLEAN, holders : SUBSET Subjects, named : SUBSET Subjects]
    BY DEF IInv, TypeOK
<1>2. req'[q] = Idle /\ \A o \in Requests \ {q} : req'[o] = req[o]
    BY <1>0, <1>1
<1>3. ASSUME NEW o \in Requests
      PROVE  /\ Decided(o)' => Decided(o) /\ req'[o] = req[o]
             /\ Deletes(o)' => Deletes(o) /\ req'[o] = req[o]
             /\ Inserts(o)' => Inserts(o) /\ req'[o] = req[o]
    BY <1>2, IdleIsState DEF Decided, Deletes, Inserts
<1>4. ASSUME NEW r \in Rules
      PROVE  /\ rules'[r] \in [there : BOOLEAN, holders : SUBSET Subjects, named : SUBSET Subjects]
             /\ rules'[r].there = rules[r].there /\ rules'[r].named = rules[r].named
             /\ rules'[r].holders = rules[r].holders \ req[q].g
    BY <1>0, <1>1
<1>5. TypeOK'
  <2>1. rules' = [r \in Rules |-> rules'[r]]
      BY <1>0
  <2>. QED BY <1>0, <1>1, <1>4, <2>1, IdleIsState DEF IInv, TypeOK
<1>6. OneGroup'
    BY <1>2, IdleIsState DEF IInv, OneGroup
<1>7. Apart'
    BY <1>3 DEF IInv, Apart
<1>8. SomeoneStays'
  <2>. SUFFICES ASSUME NEW r \in Rules, r \notin twins', rules'[r].there, rules'[r].named # {}
                PROVE  \E h \in rules'[r].holders : \A o \in Requests : Decided(o)' => h \notin req'[o].g
      BY DEF SomeoneStays
  <2>1. PICK h \in rules[r].holders : \A o \in Requests : Decided(o) => h \notin req[o].g
      BY <1>0, <1>4 DEF IInv, SomeoneStays
  <2>2. h \in rules'[r].holders
      BY <1>0, <1>4, <2>1
  <2>. QED BY <1>3, <2>1, <2>2
<1>. QED BY <1>5, <1>6, <1>7, <1>8 DEF IInv

\* Nothing happens.
LEMMA StutterKeeps == ASSUME IInv, UNCHANGED vars PROVE IInv'
<1>1. TypeOK' /\ OneGroup'
    BY DEF vars, IInv, TypeOK, OneGroup
<1>2. Apart' /\ SomeoneStays'
    BY DEF vars, IInv, Apart, Inserts, Deletes, SomeoneStays, Decided
<1>. QED BY <1>1, <1>2 DEF IInv

-----------------------------------------------------------------------------
\* The inductive invariant holds of every step of the admins' requests,
\* whatever the numbers of groups, rules and requests.
THEOREM RulesInvariant == ASSUME ConstantsOK PROVE Spec => []IInv
<1>1. Init => IInv
    BY Begins
<1>2. IInv /\ [Next]_vars => IInv'
  <2>. SUFFICES ASSUME IInv, [Next]_vars PROVE IInv'
      OBVIOUS
  <2>1. CASE \E q \in Requests : CheckRule(q) \/ CreateAccessRule(q) \/ UpdateAccessRule(q)
      BY <2>1, CheckRuleKeeps, CreateKeeps, UpdateKeeps
  <2>2. CASE \E q \in Requests : SetHolder(q) \/ CommitRule(q)
      BY <2>2, SetHolderKeeps, CommitRuleKeeps
  <2>3. CASE \E q \in Requests : DeleteGroup(q) \/ LockGroup(q) \/ CheckSole(q) \/ CommitGroup(q)
      BY <2>3, DeleteGroupKeeps, LockKeeps, CheckSoleKeeps, CommitGroupKeeps
  <2>4. CASE \E q \in Requests : Fails(q)
      BY <2>4, EndKeeps DEF Fails
  <2>5. CASE (\E r \in Rules : DeleteAccessRule(r)) \/ (\E g \in Groups : CreateGroup(g))
      BY <2>5, DeleteRuleKeeps, CreateGroupKeeps
  <2>6. CASE UNCHANGED vars
      BY <2>6, StutterKeeps
  <2>. QED BY <2>1, <2>2, <2>3, <2>4, <2>5, <2>6 DEF Next
<1>. QED BY <1>1, <1>2, PTL DEF Spec

\* A rule whose last write named a holder keeps one, however the deletions
\* of groups and the writes of rules cross: but a rule two of whose groups
\* were deleted at once (DeleteGroup, setHolders in store/access.go).
THEOREM RulesKeepTheirHolders == ASSUME ConstantsOK PROVE Spec => []RuleKeepsHolder
<1>1. IInv => RuleKeepsHolder
    BY DEF IInv, SomeoneStays, RuleKeepsHolder
<1>. QED BY <1>1, RulesInvariant, PTL

-----------------------------------------------------------------------------
(* The accounts. *)

Accts == [there : BOOLEAN, admin : BOOLEAN, disabled : BOOLEAN, pwd : Nat]
Sess == [user : Users, pwd : Nat, raced : BOOLEAN]
Ops == {"create", "update", "reset", "disable", "enable"}

AccountsTyped ==
    /\ users \in [Users -> Accts]
    /\ sessions \subseteq Sess
    /\ stripped \in BOOLEAN
    /\ \A l \in Logins : login[l].st # "none" => login[l].user \in Users /\ login[l].read \in Accts
    /\ \A q \in Requests : letIn[q].op # "none" =>
          /\ letIn[q].op \in Ops /\ letIn[q].by \in Users /\ letIn[q].on \in Users
          /\ letIn[q].admin \in BOOLEAN
    /\ DOMAIN login = Logins /\ DOMAIN letIn = Requests

\* Who is logged in, or read as being there, is there.
Known ==
    /\ \A s \in sessions : users[s.user].there
    /\ \A l \in Logins : login[l].st # "none" /\ login[l].read.there => users[login[l].user].there
    /\ \A l \in Logins : login[l].st = "opens" => login[l].read.there

AInv == AccountsTyped /\ Known /\ Acc!AccountsKept

\* The first admin is there, and no one is logged in.
LEMMA AccountsBegin == ASSUME Acc!Init PROVE AInv
<1>1. users \in [Users -> Accts]
  <2>. DEFINE A == {Acc!NoUser, [Acc!NoUser EXCEPT !.there = TRUE],
                    [Acc!NoUser EXCEPT !.there = TRUE, !.admin = TRUE]}
  <2>1. A \subseteq Accts
    <3>1. Acc!NoUser = [there |-> FALSE, admin |-> FALSE, disabled |-> FALSE, pwd |-> 0]
        BY DEF Acc!NoUser
    <3>2. Acc!NoUser \in Accts
        BY <3>1 DEF Accts
    <3>3. /\ [Acc!NoUser EXCEPT !.there = TRUE] \in Accts
          /\ [Acc!NoUser EXCEPT !.there = TRUE, !.admin = TRUE] \in Accts
        BY <3>2 DEF Accts
    <3>. QED BY <3>2, <3>3
  <2>2. users \in [Users -> A]
      BY DEF Acc!Init
  <2>. HIDE DEF A
  <2>. QED BY <2>1, <2>2
<1>2. (\A l \in Logins : login[l].st = "none") /\ (\A q \in Requests : letIn[q].op = "none")
    BY DEF Acc!Init, Acc!NoLogin, Acc!NoReq
<1>3. AccountsTyped
    BY <1>1, <1>2 DEF AccountsTyped, Acc!Init
<1>4. Known
    BY <1>2 DEF Known, Acc!Init
<1>5. Acc!AccountsKept
    BY DEF Acc!Init, Acc!AccountsKept, Acc!AdminLeft, Acc!OldPasswordOut
<1>. QED BY <1>3, <1>4, <1>5 DEF AInv

\* A login reads an account, fails, or is to open its session.
LEMMA LoginKeeps ==
    ASSUME AInv, NEW l \in Logins, Acc!Authenticate(l) \/ Acc!Fail(l) \/ Acc!Succeed(l)
    PROVE  AInv'
<1>0. UNCHANGED <<users, sessions, letIn, stripped>>
    BY DEF Acc!Authenticate, Acc!Fail, Acc!Succeed
<1>1. PICK x : /\ login' = [login EXCEPT ![l] = x]
               /\ x.st # "none" => /\ x.user \in Users /\ x.read \in Accts
                                   /\ x.read.there => users[x.user].there
               /\ x.st = "opens" => x.read.there
  <2>1. CASE Acc!Authenticate(l)
    <3>1. PICK u \in Users, p \in 0 .. MaxWrites, admin \in BOOLEAN :
            login' = [login EXCEPT ![l] = [st |-> "checks", user |-> u, pwd |-> p, read |-> users[u],
                                           admin |-> admin]]
        BY <2>1 DEF Acc!Authenticate
    <3>2. users[u] \in Accts
        BY DEF AInv, AccountsTyped
    <3>. DEFINE y == [st |-> "checks", user |-> u, pwd |-> p, read |-> users[u], admin |-> admin]
    <3>3. y.st = "checks" /\ y.user = u /\ y.read = users[u]
        OBVIOUS
    <3>4. login' = [login EXCEPT ![l] = y]
        BY <3>1
    <3>. HIDE DEF y
    <3>. QED BY <3>2, <3>3, <3>4
  <2>2. CASE login' = [login EXCEPT ![l] = Acc!NoLogin]
    <3>1. Acc!NoLogin.st = "none"
        BY DEF Acc!NoLogin
    <3>. QED BY <2>2, <3>1
  <2>3. CASE /\ login[l].st = "checks" /\ Acc!Verified(l)
             /\ login' = [login EXCEPT ![l] = [login[l] EXCEPT !.st = "opens"]]
    <3>. DEFINE x == [login[l] EXCEPT !.st = "opens"]
    <3>1. x.user = login[l].user /\ x.read = login[l].read
        OBVIOUS
    <3>2. login[l].user \in Users /\ login[l].read \in Accts /\ login[l].read.there /\ users[login[l].user].there
        BY <2>3 DEF AInv, AccountsTyped, Known, Acc!Verified
    <3>. HIDE DEF x
    <3>. QED BY <2>3, <3>1, <3>2 DEF x
  <2>4. Acc!Succeed(l) => \/ login' = [login EXCEPT ![l] = Acc!NoLogin]
                          \/ /\ login[l].st = "checks" /\ Acc!Verified(l)
                             /\ login' = [login EXCEPT ![l] = [login[l] EXCEPT !.st = "opens"]]
      BY DEF Acc!Succeed
  <2>. QED BY <2>1, <2>2, <2>3, <2>4 DEF Acc!Fail
<1>2. login'[l] = x /\ (\A k \in Logins \ {l} : login'[k] = login[k]) /\ DOMAIN login' = Logins
    BY <1>1 DEF AInv, AccountsTyped
<1>3. AccountsTyped'
    BY <1>0, <1>1, <1>2 DEF AInv, AccountsTyped
<1>4. Known'
    BY <1>0, <1>1, <1>2 DEF AInv, Known
<1>5. Acc!AccountsKept'
    BY <1>0 DEF AInv, Acc!AccountsKept, Acc!AdminLeft, Acc!OldPasswordOut, Acc!ActiveAdmin
<1>. QED BY <1>3, <1>4, <1>5 DEF AInv

\* A session is opened with the password that was read, and marked when it
\* is the account's no more.
LEMMA StartKeeps == ASSUME AInv, NEW l \in Logins, Acc!StartSession(l) PROVE AInv'
<1>. DEFINE s == [user |-> login[l].user, pwd |-> login[l].read.pwd,
                  raced |-> login[l].read.pwd # users[login[l].user].pwd]
<1>0. /\ UNCHANGED <<users, letIn, stripped>> /\ login[l].st = "opens"
      /\ sessions' = sessions \cup {s} /\ login' = [login EXCEPT ![l] = Acc!NoLogin]
    BY DEF Acc!StartSession
<1>1. /\ s \in Sess /\ users[s.user].there
      /\ s.raced \/ s.pwd = users[s.user].pwd
  <2>1. login[l].user \in Users /\ login[l].read \in Accts /\ users[login[l].user].there
      BY <1>0 DEF AInv, AccountsTyped, Known
  <2>. QED BY <2>1 DEF Sess, Accts
<1>. HIDE DEF s
<1>2. /\ login'[l].st = "none" /\ (\A k \in Logins \ {l} : login'[k] = login[k]) /\ DOMAIN login' = Logins
    BY <1>0 DEF AInv, AccountsTyped, Acc!NoLogin
<1>3. AccountsTyped'
    BY <1>0, <1>1, <1>2 DEF AInv, AccountsTyped
<1>4. Known'
    BY <1>0, <1>1, <1>2 DEF AInv, Known
<1>5. Acc!AccountsKept'
    BY <1>0, <1>1 DEF AInv, Acc!AccountsKept, Acc!AdminLeft, Acc!OldPasswordOut, Acc!ActiveAdmin
<1>. QED BY <1>3, <1>4, <1>5 DEF AInv

\* A session ends, a window of failures does.
LEMMA LogoutKeeps ==
    ASSUME AInv, (\E s \in sessions : Acc!Logout(s)) \/ (\E u \in Users : Acc!WindowEnds(u))
    PROVE  AInv'
<1>0. UNCHANGED <<users, login, letIn, stripped>> /\ sessions' \subseteq sessions
    BY DEF Acc!Logout, Acc!WindowEnds
<1>1. AccountsTyped'
    BY <1>0 DEF AInv, AccountsTyped
<1>2. Known'
    BY <1>0 DEF AInv, Known
<1>3. Acc!AccountsKept'
    BY <1>0 DEF AInv, Acc!AccountsKept, Acc!AdminLeft, Acc!OldPasswordOut, Acc!ActiveAdmin
<1>. QED BY <1>1, <1>2, <1>3 DEF AInv

\* An admin is let in; a request is refused.
LEMMA LetInKeeps ==
    ASSUME AInv, NEW q \in Requests, (\E s \in sessions : Acc!RequireAdmin(q, s)) \/ Acc!Refused(q)
    PROVE  AInv'
<1>0. UNCHANGED <<users, sessions, login, stripped>>
    BY DEF Acc!RequireAdmin, Acc!Refused
<1>1. PICK x : /\ letIn' = [letIn EXCEPT ![q] = x]
               /\ x.op # "none" => x.op \in Ops /\ x.by \in Users /\ x.on \in Users /\ x.admin \in BOOLEAN
  <2>1. ASSUME NEW s \in sessions, Acc!RequireAdmin(q, s)
        PROVE  \E x : /\ letIn' = [letIn EXCEPT ![q] = x]
                      /\ x.op # "none" => x.op \in Ops /\ x.by \in Users /\ x.on \in Users /\ x.admin \in BOOLEAN
    <3>1. PICK op \in Ops, u \in Users, admin \in BOOLEAN :
            letIn' = [letIn EXCEPT ![q] = [op |-> op, by |-> s.user, on |-> u, admin |-> admin]]
        BY <2>1 DEF Acc!RequireAdmin, Ops
    <3>2. s.user \in Users
        BY DEF AInv, AccountsTyped, Sess
    <3>. DEFINE y == [op |-> op, by |-> s.user, on |-> u, admin |-> admin]
    <3>3. y.op = op /\ y.by = s.user /\ y.on = u /\ y.admin = admin
        OBVIOUS
    <3>4. letIn' = [letIn EXCEPT ![q] = y]
        BY <3>1
    <3>. HIDE DEF y
    <3>. QED BY <3>2, <3>3, <3>4
  <2>2. CASE Acc!Refused(q)
    <3>1. Acc!NoReq.op = "none" /\ letIn' = [letIn EXCEPT ![q] = Acc!NoReq]
        BY <2>2 DEF Acc!Refused, Acc!NoReq
    <3>. QED BY <3>1
  <2>. QED BY <2>1, <2>2
<1>2. letIn'[q] = x /\ (\A o \in Requests \ {q} : letIn'[o] = letIn[o]) /\ DOMAIN letIn' = Requests
    BY <1>1 DEF AInv, AccountsTyped
<1>3. AccountsTyped'
    BY <1>0, <1>1, <1>2 DEF AInv, AccountsTyped
<1>4. Known'
    BY <1>0 DEF AInv, Known
<1>5. Acc!AccountsKept'
    BY <1>0 DEF AInv, Acc!AccountsKept, Acc!AdminLeft, Acc!OldPasswordOut, Acc!ActiveAdmin
<1>. QED BY <1>3, <1>4, <1>5 DEF AInv

\* An account written: it is there, an admin is left, and the sessions kept
\* are of the password the account keeps.
LEMMA AccountKeeps ==
    ASSUME AInv, NEW u \in Users, NEW x \in Accts, x.there, users' = [users EXCEPT ![u] = x],
           sessions' \subseteq sessions, UNCHANGED login,
           letIn' = letIn \/ (\E q \in Requests : letIn' = [letIn EXCEPT ![q] = Acc!NoReq]),
           \A s \in sessions' : s.user = u => x.pwd = users[u].pwd,
           stripped' \in BOOLEAN,
           stripped' \/ (\E a \in Users : Acc!ActiveAdmin(a)')
    PROVE  AInv'
<1>0. users'[u] = x /\ (\A v \in Users \ {u} : users'[v] = users[v]) /\ users' \in [Users -> Accts]
    BY DEF AInv, AccountsTyped
<1>1. \A v \in Users : users[v].there => users'[v].there
    BY <1>0
<1>2. AccountsTyped'
  <2>1. \A q \in Requests : letIn'[q].op # "none" => letIn'[q] = letIn[q]
      BY DEF AInv, AccountsTyped, Acc!NoReq
  <2>2. DOMAIN letIn' = Requests
      BY DEF AInv, AccountsTyped
  <2>. QED BY <1>0, <2>1, <2>2 DEF AInv, AccountsTyped
<1>3. \A s \in sessions' : s \in sessions /\ s.user \in Users
    BY DEF AInv, AccountsTyped, Sess
<1>4. Known'
    BY <1>1, <1>3 DEF AInv, Known, AccountsTyped
<1>5. Acc!OldPasswordOut'
    BY <1>0, <1>3 DEF AInv, Acc!AccountsKept, Acc!OldPasswordOut
<1>6. Acc!AdminLeft'
    BY DEF Acc!AdminLeft
<1>. QED BY <1>2, <1>4, <1>5, <1>6 DEF AInv, Acc!AccountsKept

\* An admin's request: its author is active, or the step is marked; and what
\* it makes of the author's own account is an active admin's.
LEMMA WriteKeeps ==
    ASSUME AInv, NEW q \in Requests, letIn[q].op # "none", NEW x \in Accts, x.there,
           users' = [users EXCEPT ![letIn[q].on] = x], sessions' \subseteq sessions, Acc!Wrote(q),
           \A s \in sessions' : s.user = letIn[q].on => x.pwd = users[letIn[q].on].pwd,
           letIn[q].on = letIn[q].by /\ Acc!ActiveAdmin(letIn[q].by) => x.admin /\ ~x.disabled
    PROVE  AInv'
<1>0. letIn[q].by \in Users /\ letIn[q].on \in Users
    BY DEF AInv, AccountsTyped
<1>1. /\ UNCHANGED login /\ letIn' = [letIn EXCEPT ![q] = Acc!NoReq]
      /\ stripped' = (stripped \/ ~Acc!ActiveAdmin(letIn[q].by))
    BY DEF Acc!Wrote
<1>2. stripped' \in BOOLEAN
    BY <1>1
<1>3. stripped' \/ (\E a \in Users : Acc!ActiveAdmin(a)')
  <2>1. CASE ~Acc!ActiveAdmin(letIn[q].by)
      BY <1>1, <2>1
  <2>2. CASE Acc!ActiveAdmin(letIn[q].by) /\ letIn[q].on # letIn[q].by
    <3>1. users'[letIn[q].by] = users[letIn[q].by]
        BY <2>2
    <3>2. ASSUME NEW a \in Users, a = letIn[q].by PROVE Acc!ActiveAdmin(a)'
        BY <2>2, <3>1, <3>2 DEF Acc!ActiveAdmin
    <3>. QED BY <1>0, <3>2
  <2>3. CASE Acc!ActiveAdmin(letIn[q].by) /\ letIn[q].on = letIn[q].by
    <3>1. users'[letIn[q].by] = x
        BY <1>0, <2>3 DEF AInv, AccountsTyped
    <3>2. ASSUME NEW a \in Users, a = letIn[q].by PROVE Acc!ActiveAdmin(a)'
        BY <2>3, <3>1, <3>2 DEF Acc!ActiveAdmin
    <3>. QED BY <1>0, <3>2
  <2>. QED BY <2>1, <2>2, <2>3
<1>. QED BY <1>0, <1>1, <1>2, <1>3, AccountKeeps

\* A new account is over none that was there: no session is of it.
LEMMA CreateUserKeeps == ASSUME AInv, NEW q \in Requests, Acc!CreateUser(q) PROVE AInv'
<1>. DEFINE x == [Acc!NoUser EXCEPT !.there = TRUE, !.admin = letIn[q].admin]
<1>0. /\ letIn[q].op # "none" /\ ~users[letIn[q].on].there /\ Acc!Wrote(q) /\ sessions' = sessions
      /\ users' = [users EXCEPT ![letIn[q].on] = x]
    BY DEF Acc!CreateUser
<1>1. x \in Accts /\ x.there
    BY <1>0 DEF AInv, AccountsTyped, Acc!NoUser, Accts
<1>2. \A s \in sessions : s.user # letIn[q].on
    BY <1>0 DEF AInv, Known
<1>3. letIn[q].on = letIn[q].by => ~Acc!ActiveAdmin(letIn[q].by)
    BY <1>0 DEF Acc!ActiveAdmin
<1>. HIDE DEF x
<1>. QED BY <1>0, <1>1, <1>2, <1>3, WriteKeeps

\* No one takes the role from themselves.
LEMMA UpdateUserKeeps == ASSUME AInv, NEW q \in Requests, Acc!UpdateUser(q) PROVE AInv'
<1>. DEFINE u == letIn[q].on
            x == [users[u] EXCEPT !.admin = letIn[q].admin]
<1>0. /\ letIn[q].op # "none" /\ users[u].there /\ Acc!Wrote(q) /\ sessions' = sessions
      /\ letIn[q].on = letIn[q].by => letIn[q].admin
      /\ users' = [users EXCEPT ![u] = x]
    BY DEF Acc!UpdateUser
<1>1. users[u] \in Accts /\ letIn[q].admin \in BOOLEAN
    BY <1>0 DEF AInv, AccountsTyped
<1>2. x \in Accts /\ x.there /\ x.pwd = users[u].pwd /\ x.admin = letIn[q].admin /\ x.disabled = users[u].disabled
    BY <1>0, <1>1 DEF Accts
<1>. HIDE DEF x
<1>3. letIn[q].on = letIn[q].by /\ Acc!ActiveAdmin(letIn[q].by) => x.admin /\ ~x.disabled
    BY <1>0, <1>2 DEF Acc!ActiveAdmin
<1>. QED BY <1>0, <1>2, <1>3, WriteKeeps

\* A new password takes the account's sessions with it.
LEMMA ResetKeeps == ASSUME AInv, NEW q \in Requests, Acc!ResetPassword(q) PROVE AInv'
<1>. DEFINE u == letIn[q].on
            x == [users[u] EXCEPT !.pwd = @ + 1]
<1>0. /\ letIn[q].op # "none" /\ users[u].there /\ Acc!Wrote(q)
      /\ users' = [users EXCEPT ![u] = x]
      /\ sessions' \subseteq sessions /\ \A s \in sessions' : s.user # u
    BY DEF Acc!ResetPassword, Acc!SetUserPassword, Acc!SessionsOf
<1>1. users[u] \in Accts
    BY <1>0 DEF AInv, AccountsTyped
<1>2. x \in Accts /\ x.there /\ x.admin = users[u].admin /\ x.disabled = users[u].disabled
    BY <1>0, <1>1 DEF Accts
<1>. HIDE DEF x
<1>3. letIn[q].on = letIn[q].by /\ Acc!ActiveAdmin(letIn[q].by) => x.admin /\ ~x.disabled
    BY <1>2 DEF Acc!ActiveAdmin
<1>. QED BY <1>0, <1>2, <1>3, WriteKeeps

\* So does the command line's, which is no admin's request.
LEMMA PasswordCmdKeeps == ASSUME AInv, NEW u \in Users, Acc!UserPasswordCmd(u) PROVE AInv'
<1>. DEFINE x == [users[u] EXCEPT !.pwd = @ + 1]
<1>0. /\ users[u].there /\ UNCHANGED <<login, letIn, stripped>>
      /\ users' = [users EXCEPT ![u] = x]
      /\ sessions' \subseteq sessions /\ \A s \in sessions' : s.user # u
    BY DEF Acc!UserPasswordCmd, Acc!SetUserPassword, Acc!SessionsOf
<1>1. users[u] \in Accts /\ stripped' \in BOOLEAN
    BY <1>0 DEF AInv, AccountsTyped
<1>2. x \in Accts /\ x.there /\ x.admin = users[u].admin /\ x.disabled = users[u].disabled
    BY <1>0, <1>1 DEF Accts
<1>. HIDE DEF x
<1>3. stripped' \/ (\E a \in Users : Acc!ActiveAdmin(a)')
  <2>1. ASSUME NEW a \in Users, Acc!ActiveAdmin(a) PROVE Acc!ActiveAdmin(a)'
      BY <1>0, <1>2, <2>1 DEF Acc!ActiveAdmin, AInv, AccountsTyped
  <2>2. stripped \/ \E a \in Users : Acc!ActiveAdmin(a)
      BY DEF AInv, Acc!AccountsKept, Acc!AdminLeft
  <2>. QED BY <1>0, <2>1, <2>2
<1>. QED BY <1>0, <1>1, <1>2, <1>3, AccountKeeps

\* No one disables their own account.
LEMMA SetDisabledKeeps == ASSUME AInv, NEW q \in Requests, Acc!SetDisabled(q) PROVE AInv'
<1>. DEFINE u == letIn[q].on
            x == [users[u] EXCEPT !.disabled = letIn[q].op = "disable"]
<1>0. /\ letIn[q].op # "none" /\ users[u].there /\ Acc!Wrote(q)
      /\ users' = [users EXCEPT ![u] = x] /\ sessions' \subseteq sessions
      /\ letIn[q].op = "disable" => letIn[q].on # letIn[q].by
    BY DEF Acc!SetDisabled
<1>1. users[u] \in Accts
    BY <1>0 DEF AInv, AccountsTyped
<1>2. /\ x \in Accts /\ x.there /\ x.pwd = users[u].pwd /\ x.admin = users[u].admin
      /\ x.disabled = (letIn[q].op = "disable")
    BY <1>0, <1>1 DEF Accts
<1>. HIDE DEF x
<1>3. letIn[q].on = letIn[q].by /\ Acc!ActiveAdmin(letIn[q].by) => x.admin /\ ~x.disabled
    BY <1>0, <1>2 DEF Acc!ActiveAdmin
<1>. QED BY <1>0, <1>2, <1>3, WriteKeeps

\* Nothing happens.
LEMMA AccountsStutter == ASSUME AInv, UNCHANGED Acc!vars PROVE AInv'
<1>1. AccountsTyped' /\ Known'
    BY DEF Acc!vars, AInv, AccountsTyped, Known
<1>2. Acc!AccountsKept'
    BY DEF Acc!vars, AInv, Acc!AccountsKept, Acc!AdminLeft, Acc!OldPasswordOut, Acc!ActiveAdmin
<1>. QED BY <1>1, <1>2 DEF AInv

-----------------------------------------------------------------------------
\* The inductive invariant of the accounts holds of every step, whatever the
\* numbers of accounts, logins and requests, and the limit of failures.
THEOREM AccountsInvariant == Acc!Spec => []AInv
<1>1. Acc!Init => AInv
    BY AccountsBegin
<1>2. AInv /\ [Acc!Next]_Acc!vars => AInv'
  <2>. SUFFICES ASSUME AInv, [Acc!Next]_Acc!vars PROVE AInv'
      OBVIOUS
  <2>1. CASE \E l \in Logins : Acc!Authenticate(l) \/ Acc!Fail(l) \/ Acc!Succeed(l) \/ Acc!StartSession(l)
      BY <2>1, LoginKeeps, StartKeeps
  <2>2. CASE (\E s \in sessions : Acc!Logout(s)) \/ (\E u \in Users : Acc!WindowEnds(u))
      BY <2>2, LogoutKeeps
  <2>3. CASE \E q \in Requests : (\E s \in sessions : Acc!RequireAdmin(q, s)) \/ Acc!Refused(q)
      BY <2>3, LetInKeeps
  <2>4. CASE \E q \in Requests : Acc!CreateUser(q) \/ Acc!UpdateUser(q) \/ Acc!ResetPassword(q) \/ Acc!SetDisabled(q)
      BY <2>4, CreateUserKeeps, UpdateUserKeeps, ResetKeeps, SetDisabledKeeps
  <2>5. CASE \E u \in Users : Acc!UserPasswordCmd(u)
      BY <2>5, PasswordCmdKeeps
  <2>6. CASE UNCHANGED Acc!vars
      BY <2>6, AccountsStutter
  <2>. QED BY <2>1, <2>2, <2>3, <2>4, <2>5, <2>6 DEF Acc!Next
<1>. QED BY <1>1, <1>2, PTL DEF Acc!Spec

\* An active admin is left as long as no request is written whose author is
\* one no more, and no session outlives the password it was opened with, but
\* one whose login had read the account before the change (web/admin/users.go,
\* store/users.go, auth/service.go).
THEOREM AccountsAreKept == Acc!Spec => []Acc!AccountsKept
<1>1. AInv => Acc!AccountsKept
    BY DEF AInv
<1>. QED BY <1>1, AccountsInvariant, PTL

-----------------------------------------------------------------------------
(* The catalog. *)

Rls == [id : Nat, targets : SUBSET Catalog!Targets, holds : BOOLEAN, matched : BOOLEAN, alerted : BOOLEAN]
Usr == [admin : BOOLEAN, disabled : BOOLEAN]
Cats == [access : [rule : Rls, user : Usr], loaded : BOOLEAN, agent : BOOLEAN, agentsLoaded : BOOLEAN,
         tools : SUBSET Names, step : {"idle", "agents", "tools"}]
Sweeps == [st : {"none", "listed", "marks"}, id : Nat, targets : SUBSET Catalog!Targets, matched : BOOLEAN]

CatalogTyped ==
    /\ rule \in Rls /\ user \in Usr /\ agent \in BOOLEAN
    /\ DOMAIN tools = Names
    /\ cat \in Cats /\ sweep \in [Sweepers -> Sweeps]
    /\ hit \in BOOLEAN /\ told \in Nat /\ stale \in BOOLEAN /\ changes \in Nat

Closed(t) ==
    \/ ~Catalog!Allowed(cat.access.rule, cat.access.user, t)
    \/ ~Catalog!Allowed(cat.access.rule, cat.access.user, Agent)

ShutInCatalog == \A t \in shut : Closed(t)

\* The rule's numbers are never given again; the marks of the rule.
RuleMarks ==
    /\ rule.id <= changes
    /\ told = IF rule.alerted THEN 1 ELSE 0
    /\ rule.alerted => rule.matched
    /\ rule.matched => hit \/ stale
    /\ rule.targets \cap Catalog!Refs # {} => hit

SweepsKnow ==
    \A s \in Sweepers : sweep[s].st # "none" =>
        /\ sweep[s].id <= changes
        /\ sweep[s].id = rule.id => /\ sweep[s].targets = rule.targets
                                    /\ sweep[s].st = "marks" /\ sweep[s].matched => hit

GInv == CatalogTyped /\ ShutInCatalog /\ RuleMarks /\ SweepsKnow

\* No rule, an empty catalog.
LEMMA CatalogBegins == ASSUME Catalog!Init PROVE GInv
<1>1. Catalog!NoRule \in Rls /\ Catalog!NoRule.targets = {} /\ ~Catalog!NoRule.matched /\ ~Catalog!NoRule.alerted
      /\ Catalog!NoRule.id = 0
    BY DEF Catalog!NoRule, Rls
<1>2. Catalog!NewCatalog \in Cats
  <2>1. [admin |-> FALSE, disabled |-> FALSE] \in Usr
      BY DEF Usr
  <2>. QED BY <1>1, <2>1 DEF Catalog!NewCatalog, Cats
<1>3. Catalog!NoSweep \in Sweeps /\ Catalog!NoSweep.st = "none"
    BY DEF Catalog!NoSweep, Sweeps
<1>4. CatalogTyped
    BY <1>1, <1>2, <1>3 DEF Catalog!Init, CatalogTyped, Usr
<1>5. ShutInCatalog /\ SweepsKnow
    BY <1>3 DEF Catalog!Init, ShutInCatalog, SweepsKnow
<1>6. RuleMarks
    BY <1>1 DEF Catalog!Init, RuleMarks
<1>. QED BY <1>4, <1>5, <1>6 DEF GInv

\* A step of a worker's tools or of a catalog's reads: the rule and the
\* sweeps stay, and what the rule comes to target is a hit.
LEMMA AsideKeeps ==
    ASSUME GInv, UNCHANGED <<rule, user, shut, sweep, told, stale>>,
           agent' \in BOOLEAN, DOMAIN tools' = Names, hit' \in BOOLEAN, hit => hit',
           cat' \in Cats, cat'.access = cat.access, changes' \in Nat, changes <= changes',
           rule.targets \cap Catalog!Refs' # {} => hit'
    PROVE  GInv'
<1>1. CatalogTyped'
    BY DEF GInv, CatalogTyped
<1>2. ShutInCatalog'
    BY DEF GInv, ShutInCatalog, Closed
<1>3. rule.id \in Nat /\ changes \in Nat /\ \A s \in Sweepers : sweep[s].id \in Nat
    BY DEF GInv, CatalogTyped, Rls, Sweeps
<1>4. RuleMarks'
  <2>1. rule'.id <= changes'
      BY <1>3 DEF GInv, RuleMarks
  <2>2. rule'.matched => (hit' \/ stale')
      BY DEF GInv, RuleMarks
  <2>. QED BY <2>1, <2>2 DEF GInv, RuleMarks
<1>5. SweepsKnow'
  <2>. SUFFICES ASSUME NEW s \in Sweepers, sweep[s].st # "none"
                PROVE  /\ sweep[s].id <= changes'
                       /\ sweep[s].id = rule.id => /\ sweep[s].targets = rule.targets
                                                   /\ sweep[s].st = "marks" /\ sweep[s].matched => hit'
      BY DEF SweepsKnow
  <2>. QED BY <1>3 DEF GInv, SweepsKnow
<1>. QED BY <1>1, <1>2, <1>4, <1>5 DEF GInv

\* A count of the changes, at its bound or not.
LEMMA Counted ==
    ASSUME GInv, changes' = changes \/ changes' = changes + 1
    PROVE  changes' \in Nat /\ changes <= changes'
    BY DEF GInv, CatalogTyped

\* The agent comes, or goes.
LEMMA AgentKeeps == ASSUME GInv, Catalog!WriteAgent PROVE GInv'
<1>0. /\ UNCHANGED <<rule, user, shut, sweep, told, stale, cat, tools>>
      /\ agent' = ~agent /\ changes' = changes + 1
      /\ hit' = (hit \/ rule.targets \cap (Catalog!Published \cup IF agent' THEN {Agent} ELSE {}) # {})
    BY DEF Catalog!WriteAgent, Catalog!Write, Catalog!Hits, Catalog!rights, Catalog!publishing
<1>1. /\ hit' \in BOOLEAN /\ (hit => hit') /\ agent' \in BOOLEAN
    BY <1>0
<1>2. rule.targets \cap Catalog!Refs' # {} => hit'
    BY <1>0 DEF Catalog!Refs, Catalog!Published
<1>3. DOMAIN tools' = Names /\ cat' \in Cats /\ cat'.access = cat.access
    BY <1>0 DEF GInv, CatalogTyped
<1>. QED BY <1>0, <1>1, <1>2, <1>3, Counted, AsideKeeps

\* What is withdrawn is targeted no more; the other steps leave the tools.
LEMMA FewerToolsKeep ==
    ASSUME GInv, UNCHANGED <<rule, user, agent, shut, sweep, hit, told, stale, cat>>,
           DOMAIN tools' = Names, \A n \in Names : tools'[n] # NoQueue => tools[n] # NoQueue,
           changes' = changes \/ changes' = changes + 1
    PROVE  GInv'
<1>1. rule.targets \cap Catalog!Refs' # {} => hit'
    BY DEF GInv, RuleMarks, Catalog!Refs, Catalog!Published
<1>2. agent' \in BOOLEAN /\ hit' \in BOOLEAN /\ (hit => hit') /\ cat' \in Cats
    BY DEF GInv, CatalogTyped
<1>. QED BY <1>1, <1>2, Counted, AsideKeeps

LEMMA WorkersKeep ==
    ASSUME GInv, NEW q \in Queues,
           \/ Catalog!WorkerStarts(q) \/ Catalog!WorkerStops(q) \/ Catalog!ListPublished(q)
           \/ Catalog!KeepPublishing(q)
           \/ \E n \in Names : Catalog!DeleteTool(q, n)
    PROVE  GInv'
<1>0. DOMAIN tools = Names
    BY DEF GInv, CatalogTyped
<1>1. CASE Catalog!WorkerStarts(q)
  <2>1. /\ UNCHANGED <<rule, user, agent, shut, sweep, hit, told, stale, cat>>
        /\ changes' = changes \/ changes' = changes + 1
      BY <1>1 DEF Catalog!WorkerStarts, Catalog!Write, Catalog!rights, Catalog!sweeping
  <2>2. DOMAIN tools' = Names /\ \A n \in Names : tools'[n] # NoQueue => tools[n] # NoQueue
      BY <1>1 DEF Catalog!WorkerStarts
  <2>. QED BY <2>1, <2>2, FewerToolsKeep
<1>2. CASE Catalog!WorkerStops(q) \/ Catalog!ListPublished(q) \/ Catalog!KeepPublishing(q)
  <2>1. /\ UNCHANGED <<rule, user, agent, shut, sweep, hit, told, stale, cat, tools>>
        /\ changes' = changes \/ changes' = changes + 1
      BY <1>2 DEF Catalog!WorkerStops, Catalog!ListPublished, Catalog!KeepPublishing, Catalog!Write,
                  Catalog!rights, Catalog!sweeping
  <2>. QED BY <1>0, <2>1, FewerToolsKeep
<1>3. ASSUME NEW n \in Names, Catalog!DeleteTool(q, n) PROVE GInv'
  <2>1. /\ UNCHANGED <<rule, user, agent, shut, sweep, hit, told, stale, cat>>
        /\ changes' = changes + 1
        /\ tools' = tools \/ tools' = [tools EXCEPT ![n] = NoQueue]
      BY <1>3 DEF Catalog!DeleteTool, Catalog!Write, Catalog!rights, Catalog!sweeping
  <2>2. DOMAIN tools' = Names /\ \A k \in Names : tools'[k] # NoQueue => tools[k] # NoQueue
      BY <1>0, <2>1
  <2>. QED BY <2>1, <2>2, FewerToolsKeep
<1>. QED BY <1>1, <1>2, <1>3

\* A tool published is a hit of the rule that targets it.
LEMMA PublishKeeps == ASSUME GInv, NEW q \in Queues, NEW n \in Names, Catalog!PublishTool(q, n) PROVE GInv'
<1>0. UNCHANGED <<rule, user, agent, shut, sweep, told, stale, cat, changes>> /\ DOMAIN tools = Names
    BY DEF Catalog!PublishTool, Catalog!rights, GInv, CatalogTyped
<1>1. CASE UNCHANGED <<tools, hit>>
    BY <1>0, <1>1, FewerToolsKeep
<1>2. CASE tools' = [tools EXCEPT ![n] = q] /\ Catalog!Hits(Catalog!Refs \cup {n})
  <2>1. hit' = (hit \/ rule.targets \cap (Catalog!Refs \cup {n}) # {})
      BY <1>2 DEF Catalog!Hits
  <2>2. Catalog!Refs' \subseteq Catalog!Refs \cup {n}
      BY <1>0, <1>2 DEF Catalog!Refs, Catalog!Published
  <2>3. hit' \in BOOLEAN /\ (hit => hit') /\ (rule.targets \cap Catalog!Refs' # {} => hit')
      BY <2>1, <2>2
  <2>4. agent' \in BOOLEAN /\ cat' \in Cats /\ DOMAIN tools' = Names /\ cat'.access = cat.access
      BY <1>0, <1>2 DEF GInv, CatalogTyped
  <2>. QED BY <1>0, <2>3, <2>4, Counted, AsideKeeps
<1>. QED BY <1>1, <1>2 DEF Catalog!PublishTool

\* The rights read are the ones that shut.
LEMMA ReadAccessKeeps == ASSUME GInv, Catalog!ReadAccess PROVE GInv'
<1>0. /\ UNCHANGED <<rule, user, agent, tools, sweep, hit, told, stale, changes>>
      /\ \/ /\ cat' = [cat EXCEPT !.access = [rule |-> rule, user |-> user], !.loaded = TRUE, !.step = "agents"]
            /\ shut' = Catalog!Shut
         \/ /\ cat' = [cat EXCEPT !.step = IF cat.loaded THEN "agents" ELSE "idle"]
            /\ shut' = shut
    BY DEF Catalog!ReadAccess, Catalog!rights, Catalog!publishing, Catalog!sweeping
<1>1. cat \in Cats /\ rule \in Rls /\ user \in Usr
    BY DEF GInv, CatalogTyped
<1>2. CASE /\ cat' = [cat EXCEPT !.access = [rule |-> rule, user |-> user], !.loaded = TRUE, !.step = "agents"]
           /\ shut' = Catalog!Shut
  <2>1. cat' \in Cats /\ cat'.access.rule = rule /\ cat'.access.user = user
      BY <1>1, <1>2 DEF Cats
  <2>2. CatalogTyped'
      BY <1>0, <2>1 DEF GInv, CatalogTyped
  <2>3. ShutInCatalog'
      BY <1>2, <2>1 DEF ShutInCatalog, Closed, Catalog!Shut
  <2>4. RuleMarks' /\ SweepsKnow'
      BY <1>0 DEF GInv, RuleMarks, SweepsKnow, Catalog!Refs, Catalog!Published
  <2>. QED BY <2>2, <2>3, <2>4 DEF GInv
<1>3. CASE /\ cat' = [cat EXCEPT !.step = IF cat.loaded THEN "agents" ELSE "idle"]
           /\ shut' = shut
  <2>1. cat' \in Cats /\ cat'.access = cat.access
      BY <1>1, <1>3 DEF Cats
  <2>2. CatalogTyped'
      BY <1>0, <2>1 DEF GInv, CatalogTyped
  <2>3. ShutInCatalog'
      BY <1>3, <2>1 DEF GInv, ShutInCatalog, Closed
  <2>4. RuleMarks' /\ SweepsKnow'
      BY <1>0 DEF GInv, RuleMarks, SweepsKnow, Catalog!Refs, Catalog!Published
  <2>. QED BY <2>2, <2>3, <2>4 DEF GInv
<1>. QED BY <1>0, <1>2, <1>3

\* The agents and the tools read leave the rights read before them.
LEMMA ReadRestKeeps == ASSUME GInv, Catalog!ReadAgents \/ Catalog!ReadTools PROVE GInv'
<1>0. UNCHANGED <<rule, user, agent, tools, shut, sweep, hit, told, stale, changes>>
    BY DEF Catalog!ReadAgents, Catalog!ReadTools, Catalog!rights, Catalog!publishing, Catalog!sweeping
<1>1. \/ cat' = [cat EXCEPT !.agent = agent, !.agentsLoaded = TRUE, !.step = "tools"]
      \/ cat' = [cat EXCEPT !.step = "tools"]
      \/ cat' = [cat EXCEPT !.tools = Catalog!Published, !.step = "idle"]
      \/ cat' = [cat EXCEPT !.step = "idle"]
    BY DEF Catalog!ReadAgents, Catalog!ReadTools
<1>2. cat \in Cats /\ agent \in BOOLEAN /\ Catalog!Published \subseteq Names
    BY DEF GInv, CatalogTyped, Catalog!Published
<1>3. cat' \in Cats /\ cat'.access = cat.access
    BY <1>1, <1>2 DEF Cats
<1>4. rule.targets \cap Catalog!Refs' # {} => hit'
    BY <1>0 DEF GInv, RuleMarks, Catalog!Refs, Catalog!Published
<1>5. agent' \in BOOLEAN /\ DOMAIN tools' = Names /\ hit' \in BOOLEAN /\ (hit => hit')
    BY <1>0 DEF GInv, CatalogTyped
<1>. QED BY <1>0, <1>3, <1>4, <1>5, Counted, AsideKeeps

\* The rule written has a number no sweep listed, and none of the marks.
LEMMA WriteRuleKeeps == ASSUME GInv, Catalog!WriteRule PROVE GInv'
<1>0. UNCHANGED <<user, agent, tools, cat, sweep, stale>> /\ changes' = changes + 1 /\ told' = 0
    BY DEF Catalog!WriteRule, Catalog!Write, Catalog!publishing
<1>1. PICK T \in SUBSET Catalog!Targets, holds \in BOOLEAN :
        /\ rule' = [Catalog!NoRule EXCEPT !.id = changes + 1, !.targets = T, !.holds = holds]
        /\ Catalog!StillShut(rule', user)
        /\ hit' = (T \cap Catalog!Refs # {})
    BY DEF Catalog!WriteRule
<1>2. changes \in Nat /\ \A s \in Sweepers : sweep[s].id \in Nat
    BY DEF GInv, CatalogTyped, Sweeps
<1>3. /\ rule' \in Rls /\ rule'.id = changes + 1 /\ rule'.targets = T
      /\ ~rule'.matched /\ ~rule'.alerted
  <2>. DEFINE n == changes + 1
  <2>1. n \in Nat /\ rule' = [Catalog!NoRule EXCEPT !.id = n, !.targets = T, !.holds = holds]
      BY <1>1, <1>2
  <2>. HIDE DEF n
  <2>2. /\ rule' \in Rls /\ rule'.id = n /\ rule'.targets = T
        /\ ~rule'.matched /\ ~rule'.alerted
      BY <2>1 DEF Catalog!NoRule, Rls
  <2>. QED BY <2>2 DEF n
<1>4. CatalogTyped'
    BY <1>0, <1>1, <1>2, <1>3 DEF GInv, CatalogTyped
<1>5. ShutInCatalog'
    BY <1>0, <1>1 DEF GInv, ShutInCatalog, Closed, Catalog!StillShut
<1>6. Catalog!Refs' = Catalog!Refs
    BY <1>0 DEF Catalog!Refs, Catalog!Published
<1>7. RuleMarks'
  <2>1. rule'.id <= changes'
      BY <1>0, <1>2, <1>3
  <2>. QED BY <1>0, <1>1, <1>3, <1>6, <2>1 DEF RuleMarks
<1>8. SweepsKnow'
    BY <1>0, <1>2, <1>3 DEF GInv, SweepsKnow
<1>. QED BY <1>4, <1>5, <1>7, <1>8 DEF GInv

\* The user's groups, role or account: what the rule targets stays.
LEMMA WriteUserKeeps == ASSUME GInv, Catalog!WriteUser PROVE GInv'
<1>0. UNCHANGED <<agent, tools, cat, sweep, hit, told, stale>> /\ changes' = changes + 1
    BY DEF Catalog!WriteUser, Catalog!Write, Catalog!publishing, Catalog!sweeping
<1>1. rule \in Rls /\ user \in Usr /\ changes \in Nat /\ \A s \in Sweepers : sweep[s].id \in Nat
    BY DEF GInv, CatalogTyped, Sweeps
<1>2. /\ rule' = rule \/ rule' = [rule EXCEPT !.holds = ~@]
      /\ user' = user \/ user' = [user EXCEPT !.admin = ~@] \/ user' = [user EXCEPT !.disabled = ~@]
      /\ Catalog!StillShut(rule', user')
    BY DEF Catalog!WriteUser
<1>3. /\ rule' \in Rls /\ rule'.id = rule.id /\ rule'.targets = rule.targets
      /\ rule'.matched = rule.matched /\ rule'.alerted = rule.alerted
    BY <1>1, <1>2 DEF Rls
<1>4. user' \in Usr
    BY <1>1, <1>2 DEF Usr
<1>5. CatalogTyped'
    BY <1>0, <1>1, <1>3, <1>4 DEF GInv, CatalogTyped
<1>6. ShutInCatalog'
    BY <1>0, <1>2 DEF GInv, ShutInCatalog, Closed, Catalog!StillShut
<1>7. Catalog!Refs' = Catalog!Refs
    BY <1>0 DEF Catalog!Refs, Catalog!Published
<1>8. rule.id \in Nat /\ rule.id <= changes
    BY <1>1 DEF Rls, GInv, RuleMarks
<1>9. RuleMarks'
  <2>1. rule'.id <= changes'
      BY <1>0, <1>1, <1>3, <1>8
  <2>. QED BY <1>0, <1>3, <1>7, <2>1 DEF GInv, RuleMarks
<1>10. SweepsKnow'
    BY <1>0, <1>1, <1>3 DEF GInv, SweepsKnow
<1>. QED BY <1>5, <1>6, <1>9, <1>10 DEF GInv

\* A sweep lists the rule, looks for its targets, or gives up.
LEMMA SweepKeeps == ASSUME GInv, NEW s \in Sweepers, Catalog!ListRules(s) \/ Catalog!PublishedRefs(s) PROVE GInv'
<1>0. UNCHANGED <<rule, user, agent, tools, cat, shut, hit, told, stale, changes>>
    BY DEF Catalog!ListRules, Catalog!PublishedRefs, Catalog!rights, Catalog!publishing
<1>1. rule \in Rls /\ sweep \in [Sweepers -> Sweeps]
    BY DEF GInv, CatalogTyped
<1>2. PICK x \in Sweeps : /\ sweep' = [sweep EXCEPT ![s] = x]
                          /\ x.st # "none" =>
                                /\ x.id <= changes
                                /\ x.id = rule.id => /\ x.targets = rule.targets
                                                     /\ x.st = "marks" /\ x.matched => hit
  <2>1. CASE Catalog!ListRules(s)
    <3>. DEFINE x == [st |-> "listed", id |-> rule.id, targets |-> rule.targets, matched |-> FALSE]
    <3>1. /\ x \in Sweeps /\ x.st = "listed" /\ x.id = rule.id /\ x.targets = rule.targets
          /\ sweep' = [sweep EXCEPT ![s] = x]
        BY <1>1, <2>1 DEF Rls, Sweeps, Catalog!ListRules
    <3>2. rule.id <= changes
        BY DEF GInv, RuleMarks
    <3>. HIDE DEF x
    <3>. QED BY <3>1, <3>2
  <2>2. CASE sweep' = [sweep EXCEPT ![s] = Catalog!NoSweep]
    <3>1. Catalog!NoSweep \in Sweeps /\ Catalog!NoSweep.st = "none"
        BY DEF Catalog!NoSweep, Sweeps
    <3>. QED BY <2>2, <3>1
  <2>3. CASE /\ sweep[s].st = "listed"
             /\ sweep' = [sweep EXCEPT ![s].st = "marks", ![s].matched = sweep[s].targets \cap Catalog!Refs # {}]
    <3>. DEFINE b == sweep[s].targets \cap Catalog!Refs # {}
                x == [sweep[s] EXCEPT !.st = "marks", !.matched = b]
    <3>1. sweep' = [sweep EXCEPT ![s] = x] /\ b \in BOOLEAN /\ sweep[s] \in Sweeps
        BY <1>1, <2>3
    <3>2. /\ sweep[s].id <= changes
          /\ sweep[s].id = rule.id => sweep[s].targets = rule.targets /\ (b => hit)
        BY <2>3 DEF GInv, SweepsKnow, RuleMarks
    <3>. HIDE DEF b
    <3>3. x \in Sweeps /\ x.st = "marks" /\ x.id = sweep[s].id /\ x.targets = sweep[s].targets /\ x.matched = b
        BY <3>1 DEF Sweeps
    <3>. HIDE DEF x
    <3>. QED BY <3>1, <3>2, <3>3
  <2>. QED BY <2>1, <2>2, <2>3 DEF Catalog!PublishedRefs
<1>3. sweep'[s] = x /\ (\A o \in Sweepers \ {s} : sweep'[o] = sweep[o]) /\ sweep' \in [Sweepers -> Sweeps]
    BY <1>1, <1>2
<1>4. CatalogTyped'
    BY <1>0, <1>3 DEF GInv, CatalogTyped
<1>5. ShutInCatalog' /\ RuleMarks'
    BY <1>0 DEF GInv, ShutInCatalog, Closed, RuleMarks, Catalog!Refs, Catalog!Published
<1>6. SweepsKnow'
    BY <1>0, <1>2, <1>3 DEF GInv, SweepsKnow
<1>. QED BY <1>4, <1>5, <1>6 DEF GInv

\* A sweep ends, and leaves a rule of the same targets.
LEMMA SweepEnds ==
    ASSUME GInv, NEW s \in Sweepers, sweep' = [sweep EXCEPT ![s] = Catalog!NoSweep],
           UNCHANGED <<user, agent, tools, cat, shut, hit, changes>>,
           rule' \in Rls, rule'.id = rule.id, rule'.targets = rule.targets,
           told' = IF rule'.alerted THEN 1 ELSE 0, rule'.alerted => rule'.matched,
           stale' \in BOOLEAN, rule'.matched => (hit \/ stale')
    PROVE  GInv'
<1>1. Catalog!NoSweep \in Sweeps /\ Catalog!NoSweep.st = "none" /\ sweep \in [Sweepers -> Sweeps]
    BY DEF Catalog!NoSweep, Sweeps, GInv, CatalogTyped
<1>2. /\ sweep'[s].st = "none" /\ (\A o \in Sweepers \ {s} : sweep'[o] = sweep[o])
      /\ sweep' \in [Sweepers -> Sweeps]
    BY <1>1
<1>3. CatalogTyped'
    BY <1>2 DEF GInv, CatalogTyped
<1>4. ShutInCatalog'
    BY DEF GInv, ShutInCatalog, Closed
<1>5. RuleMarks'
    BY DEF GInv, RuleMarks, Catalog!Refs, Catalog!Published
<1>6. SweepsKnow'
    BY <1>2 DEF GInv, SweepsKnow
<1>. QED BY <1>3, <1>4, <1>5, <1>6 DEF GInv

\* A rule is marked by a sweep that saw it hit, or the mark is told stale.
LEMMA MarksKeep == ASSUME GInv, NEW s \in Sweepers, Catalog!SetAccessRulesMatched(s) PROVE GInv'
<1>. DEFINE marks == ~rule.matched \/ rule.alerted
<1>0. /\ sweep[s].st = "marks" /\ sweep[s].matched /\ sweep' = [sweep EXCEPT ![s] = Catalog!NoSweep]
      /\ UNCHANGED <<user, agent, tools, cat, shut, hit, changes>>
      /\ rule' = IF marks THEN [rule EXCEPT !.matched = TRUE, !.alerted = FALSE] ELSE rule
      /\ told' = IF marks THEN 0 ELSE told
      /\ stale' = (stale \/ (marks /\ sweep[s].id # rule.id))
    BY DEF Catalog!SetAccessRulesMatched, Catalog!publishing
<1>1. rule \in Rls
    BY DEF GInv, CatalogTyped
<1>2. sweep[s].id = rule.id => hit
    BY <1>0 DEF GInv, SweepsKnow
<1>3. CASE marks
  <2>1. rule' \in Rls /\ rule'.id = rule.id /\ rule'.targets = rule.targets /\ rule'.matched /\ ~rule'.alerted
      BY <1>0, <1>1, <1>3 DEF Rls
  <2>2. told' = 0 /\ stale' \in BOOLEAN /\ (hit \/ stale')
      BY <1>0, <1>2, <1>3
  <2>. QED BY <1>0, <2>1, <2>2, SweepEnds
<1>4. CASE ~marks
  <2>1. rule' = rule /\ told' = told /\ stale' = stale
      BY <1>0, <1>4 DEF GInv, CatalogTyped
  <2>. QED BY <1>0, <1>1, <2>1, SweepEnds DEF GInv, RuleMarks, CatalogTyped
<1>. QED BY <1>3, <1>4

\* The alert is claimed of a rule that was marked, and told of no more.
LEMMA ClaimKeeps == ASSUME GInv, NEW s \in Sweepers, Catalog!ClaimUnmatchedAlert(s) PROVE GInv'
<1>. DEFINE claims == rule.matched /\ ~rule.alerted
<1>0. /\ sweep' = [sweep EXCEPT ![s] = Catalog!NoSweep]
      /\ UNCHANGED <<user, agent, tools, cat, shut, hit, changes, stale>>
      /\ rule' = IF claims THEN [rule EXCEPT !.alerted = TRUE] ELSE rule
      /\ told' = IF claims THEN told + 1 ELSE told
    BY DEF Catalog!ClaimUnmatchedAlert, Catalog!publishing
<1>1. rule \in Rls /\ stale' \in BOOLEAN
    BY <1>0 DEF GInv, CatalogTyped
<1>2. CASE claims
  <2>1. rule' \in Rls /\ rule'.id = rule.id /\ rule'.targets = rule.targets /\ rule'.matched /\ rule'.alerted
      BY <1>0, <1>1, <1>2 DEF Rls
  <2>2. told' = 1 /\ (hit \/ stale')
      BY <1>0, <1>2 DEF GInv, RuleMarks
  <2>. QED BY <1>0, <1>1, <2>1, <2>2, SweepEnds
<1>3. CASE ~claims
  <2>1. rule' = rule /\ told' = told
      BY <1>0, <1>3
  <2>. QED BY <1>0, <1>1, <2>1, SweepEnds DEF GInv, RuleMarks
<1>. QED BY <1>2, <1>3

\* Nothing happens.
LEMMA CatalogStutter == ASSUME GInv, UNCHANGED Catalog!vars PROVE GInv'
<1>1. CatalogTyped' /\ ShutInCatalog'
    BY DEF Catalog!vars, GInv, CatalogTyped, ShutInCatalog, Closed
<1>2. RuleMarks' /\ SweepsKnow'
    BY DEF Catalog!vars, GInv, RuleMarks, SweepsKnow, Catalog!Refs, Catalog!Published
<1>. QED BY <1>1, <1>2 DEF GInv

-----------------------------------------------------------------------------
\* The inductive invariant of the catalog holds of every step, whatever the
\* numbers of tools, queues, servers that sweep, writes and failed queries.
THEOREM CatalogInvariant == Catalog!Spec => []GInv
<1>1. Catalog!Init => GInv
    BY CatalogBegins
<1>2. GInv /\ [Catalog!Next]_Catalog!vars => GInv'
  <2>. SUFFICES ASSUME GInv, [Catalog!Next]_Catalog!vars PROVE GInv'
      OBVIOUS
  <2>1. CASE Catalog!WriteRule \/ Catalog!WriteUser \/ Catalog!WriteAgent
      BY <2>1, WriteRuleKeeps, WriteUserKeeps, AgentKeeps
  <2>2. CASE \E q \in Queues : \/ Catalog!WorkerStarts(q) \/ Catalog!WorkerStops(q)
                               \/ Catalog!ListPublished(q) \/ Catalog!KeepPublishing(q)
      BY <2>2, WorkersKeep
  <2>3. CASE \E q \in Queues, n \in Names : Catalog!PublishTool(q, n) \/ Catalog!DeleteTool(q, n)
      BY <2>3, PublishKeeps, WorkersKeep
  <2>4. CASE Catalog!ReadAccess \/ Catalog!ReadAgents \/ Catalog!ReadTools
      BY <2>4, ReadAccessKeeps, ReadRestKeeps
  <2>5. CASE \E s \in Sweepers : \/ Catalog!ListRules(s) \/ Catalog!PublishedRefs(s)
                                 \/ Catalog!SetAccessRulesMatched(s) \/ Catalog!ClaimUnmatchedAlert(s)
      BY <2>5, SweepKeeps, MarksKeep, ClaimKeeps
  <2>6. CASE UNCHANGED Catalog!vars
      BY <2>6, CatalogStutter
  <2>. QED BY <2>1, <2>2, <2>3, <2>4, <2>5, <2>6 DEF Catalog!Next
<1>. QED BY <1>1, <1>2, PTL DEF Catalog!Spec

\* A turn is given no tool shut to its user since before the catalog last
\* read the rights; and the admins are told once of a rule that lost its
\* targets, and only of one that had some (AllowedToolsFor in
\* activity/catalog.go, sweepAccessRules in cmd/agent/access.go).
THEOREM CatalogsAreRight == Catalog!Spec => []Catalog!CatalogRight
<1>1. GInv => Catalog!TurnObeysRules
    BY DEF GInv, ShutInCatalog, Closed, Catalog!TurnObeysRules, Catalog!ToolsFor
<1>2. GInv => Catalog!ToldOnce
    BY DEF GInv, CatalogTyped, RuleMarks, Catalog!ToldOnce
<1>3. GInv => Catalog!CatalogRight
    BY <1>1, <1>2 DEF Catalog!CatalogRight
<1>. QED BY <1>3, CatalogInvariant, PTL

-----------------------------------------------------------------------------
(* The reports of a fork. *)

Msgs == [id : Nat \ {0}, kind : {"said", "call", "result", "end", "summary"}, call : Nat]
Txs == [kind : {"none", "said", "step", "end"}, ids : Seq(Nat \ {0})]
Asks == [step : {"none", "load", "start"}, by : Members \cup {"none"}, from : 0 .. MaxId, upTo : 0 .. MaxId]
Workflows == [step : {"none", "summarize", "post", "done", "failed"}, by : Members \cup {"none"},
              upTo : 0 .. MaxId, part : SUBSET Nat]
Sent == [from : 0 .. MaxId, upTo : 0 .. MaxId, by : Members \cup {"none"}, part : SUBSET Nat]

ReportsTyped ==
    /\ fork \in [exists : BOOLEAN, linked : BOOLEAN, summary : Nat, reported : 0 .. MaxId]
    /\ messages \subseteq Msgs /\ writing \in [Writers -> Txs] /\ next \in 1 .. (MaxId + 1)
    /\ calls \in [Requests -> Asks] /\ runs \in [0 .. MaxId -> Workflows]
    /\ late \subseteq Sent /\ reports \subseteq Sent

\* An id is new where it is taken, and in one transaction until it commits.
Fresh ==
    /\ \A m \in messages : m.id < next
    /\ \A i \in Forks!Open : i \in Nat \ {0} /\ i < next /\ \A m \in messages : m.id # i
    /\ \A v, w \in Writers : v # w =>
          \A j \in DOMAIN writing[v].ids, k \in DOMAIN writing[w].ids : writing[v].ids[j] # writing[w].ids[k]

\* A step's two ids are taken in order.
InStep ==
    \A w \in Writers :
        /\ Len(writing[w].ids) <= Forks!Length(writing[w].kind)
        /\ Len(writing[w].ids) = 2 => writing[w].ids[1] < writing[w].ids[2]
        /\ writing[w].kind = "none" => writing[w].ids = <<>>

\* A call is stored with its result, after it.
Paired ==
    /\ \A m \in messages : m.kind = "call" => \E x \in messages : x.kind = "result" /\ x.call = m.id
    /\ \A m \in messages : m.kind = "result" =>
          m.call < m.id /\ \E x \in messages : x.kind = "call" /\ x.id = m.call

OneSummary == \A m, n \in messages : m.kind = "summary" /\ n.kind = "summary" => m = n

Stored == Fresh /\ InStep /\ Paired /\ OneSummary

\* A range may end at c: no call is on one side of it and its result on the
\* other, nor will be, unless its id was held when the range was read.
Cut(c) ==
    /\ c < next
    /\ \A i \in Forks!Open : i <= c => i \in raced
    /\ \A m \in messages : m.kind = "result" /\ m.call \notin raced => ~(m.call <= c /\ c < m.id)

Cuts ==
    /\ Cut(fork.reported)
    /\ \A r \in Requests : calls[r].step # "none" => Cut(calls[r].from)
    /\ \A r \in Requests : calls[r].step = "start" => Cut(calls[r].upTo) /\ calls[r].from < calls[r].upTo
    /\ \A f \in 0 .. MaxId : runs[f].step # "none" => Cut(f) /\ Cut(runs[f].upTo) /\ f < runs[f].upTo

\* A report posted, or still to be, has the messages of its range, but those
\* no summary could read.
Whole(from, upTo, part) ==
    /\ from < upTo /\ Cut(upTo)
    /\ \A i \in part : from < i /\ i <= upTo
    /\ \A i \in Forks!Open : i \notin part /\ (i <= upTo => i \in missed)
    /\ \A m \in messages : Forks!Reportable(m) /\ m.id \notin missed /\ from < m.id /\ m.id <= upTo => m.id \in part
    /\ \A m \in messages : m.kind = "result" /\ {m.id, m.call} \cap (raced \cup missed) = {} =>
          (m.id \in part <=> m.call \in part)

AllWhole ==
    /\ \A a \in late \cup reports : Whole(a.from, a.upTo, a.part)
    /\ \A f \in 0 .. MaxId : runs[f].step = "post" => Whole(f, runs[f].upTo, runs[f].part)

\* The reports follow one another, up to the last message reported.
Chain ==
    /\ \A p, q \in reports : p # q => p.upTo <= q.from \/ q.upTo <= p.from
    /\ fork.exists => \A p \in reports : p.upTo <= fork.reported
    /\ fork.exists => \A i \in 1 .. fork.reported : \E p \in reports : p.from < i /\ i <= p.upTo
    /\ summary = "none" => ~fork.exists /\ reports = {}

FInv == ReportsTyped /\ Stored /\ Cuts /\ AllWhole /\ Chain

-----------------------------------------------------------------------------
(* What happens to the messages leaves the ranges read before as they are. *)

\* Ids taken are new ones; messages stored were in a transaction, or are the
\* summary.
Onward ==
    /\ next <= next' /\ raced \subseteq raced' /\ missed \subseteq missed'
    /\ \A i \in Forks!Open' : i \in Forks!Open \/ i >= next
    /\ \A m \in messages' :
          \/ m \in messages
          \/ m.kind = "summary"
          \/ m.id \in Forks!Open /\ (m.kind = "result" => m.call \in Forks!Open /\ m.call < m.id)

\* The ids a transaction holds are those of its messages.
LEMMA OpenIs ==
    /\ \A i : i \in Forks!Open <=> \E w \in Writers : \E k \in DOMAIN writing[w].ids : i = writing[w].ids[k]
    /\ \A i : i \in Forks!Open' <=> \E w \in Writers : \E k \in DOMAIN writing'[w].ids : i = writing'[w].ids[k]
BY DEF Forks!Open

\* A range may still end where it might.
LEMMA CutLasts ==
    ASSUME Forks!ConstantsOK, ReportsTyped, ReportsTyped', Stored, Onward, NEW c \in 0 .. MaxId, Cut(c)
    PROVE  Cut(c)'
<1>1. next \in Nat /\ next' \in Nat /\ c \in Nat
    BY DEF ReportsTyped, Forks!ConstantsOK
<1>2. (c < next)'
    BY <1>1 DEF Cut, Onward
<1>3. ASSUME NEW i \in Forks!Open', i <= c PROVE i \in raced'
  <2>1. CASE i \in Forks!Open
      BY <2>1, <1>3 DEF Cut, Onward
  <2>2. CASE i >= next
    <3>1. i \in Nat
        BY <1>3, OpenIs DEF ReportsTyped, Txs
    <3>. QED BY <3>1, <2>2, <1>1, <1>3 DEF Cut
  <2>. QED BY <2>1, <2>2, <1>3 DEF Onward
<1>4. ASSUME NEW m \in messages', m.kind = "result", m.call \notin raced' PROVE ~(m.call <= c /\ c < m.id)
  <2>1. CASE m \in messages
      BY <2>1, <1>4 DEF Cut, Onward
  <2>2. CASE m.call \in Forks!Open
      BY <2>2, <1>4 DEF Cut, Onward
  <2>. QED BY <2>1, <2>2, <1>4 DEF Onward
<1>. QED BY <1>2, <1>3, <1>4 DEF Cut

\* A report stays whole.
LEMMA WholeLasts ==
    ASSUME Forks!ConstantsOK, ReportsTyped, ReportsTyped', Stored, Onward,
           NEW b \in 0 .. MaxId, NEW c \in 0 .. MaxId, NEW p \in SUBSET Nat, Whole(b, c, p)
    PROVE  Whole(b, c, p)'
<1>1. next \in Nat /\ next' \in Nat /\ c \in Nat /\ b \in Nat /\ c < next
    BY DEF ReportsTyped, Forks!ConstantsOK, Whole, Cut
<1>2. (b < c /\ Cut(c))'
    BY CutLasts DEF Whole
<1>3. ASSUME NEW i \in Forks!Open' PROVE i \notin p /\ (i <= c => i \in missed')
  <2>1. CASE i \in Forks!Open
      BY <2>1 DEF Whole, Onward
  <2>2. CASE i >= next
    <3>1. i \in Nat
        BY <1>3, OpenIs DEF ReportsTyped, Txs
    <3>2. \A j \in p : j \in Nat /\ j <= c
        BY DEF Whole
    <3>. QED BY <3>1, <3>2, <2>2, <1>1
  <2>. QED BY <2>1, <2>2, <1>3 DEF Onward
<1>4. ASSUME NEW m \in messages', Forks!Reportable(m), m.id \notin missed', b < m.id, m.id <= c PROVE m.id \in p
  <2>1. CASE m \in messages
      BY <2>1, <1>4 DEF Whole, Onward
  <2>2. CASE m.id \in Forks!Open
      BY <2>2, <1>4 DEF Whole, Onward
  <2>. QED BY <2>1, <2>2, <1>4 DEF Onward, Forks!Reportable
<1>5. ASSUME NEW m \in messages', m.kind = "result", {m.id, m.call} \cap (raced' \cup missed') = {}
      PROVE  m.id \in p <=> m.call \in p
  <2>1. CASE m \in messages
    <3>1. {m.id, m.call} \cap (raced \cup missed) = {}
        BY <1>5 DEF Onward
    <3>. QED BY <2>1, <3>1, <1>5 DEF Whole
  <2>2. CASE m.id \in Forks!Open /\ m.call \in Forks!Open
      BY <2>2 DEF Whole
  <2>. QED BY <2>1, <2>2, <1>5 DEF Onward
<1>6. \A i \in p : b < i /\ i <= c
    BY DEF Whole
<1>. QED BY <1>2, <1>3, <1>4, <1>5, <1>6 DEF Whole, Forks!Reportable

\* A range may end before any message.
LEMMA CutAtNone == ASSUME Forks!ConstantsOK, ReportsTyped, Stored PROVE Cut(0)
<1>1. 0 < next /\ \A i \in Forks!Open : ~(i <= 0)
    BY DEF ReportsTyped, Stored, Fresh
<1>2. ASSUME NEW m \in messages, m.kind = "result" PROVE ~(m.call <= 0)
  <2>1. PICK x \in messages : x.id = m.call
      BY <1>2 DEF Stored, Paired
  <2>. QED BY <2>1 DEF ReportsTyped, Msgs
<1>. QED BY <1>1, <1>2 DEF Cut

\* A step that touches no call, run or post leaves them right.
LEMMA ControlKept ==
    ASSUME Forks!ConstantsOK, FInv, ReportsTyped', Stored', Onward, UNCHANGED <<calls, runs, late, reports>>,
           fork'.reported \in {fork.reported, 0},
           fork'.exists => \/ fork.exists /\ fork'.reported = fork.reported
                           \/ reports = {} /\ fork'.reported = 0,
           summary' = "none" => summary = "none" /\ ~fork'.exists
    PROVE  FInv'
<1>. USE DEF FInv
<1>1. \A c \in 0 .. MaxId : Cut(c) => Cut(c)'
    BY CutLasts
<1>2. \A b, c \in 0 .. MaxId, p \in SUBSET Nat : Whole(b, c, p) => Whole(b, c, p)'
    BY WholeLasts
<1>3. Cut(fork.reported)'
  <2>1. PICK c \in 0 .. MaxId : c = fork.reported /\ Cut(c)
      BY DEF ReportsTyped, Cuts
  <2>2. CASE fork'.reported = c
      BY <2>1, <2>2, <1>1 DEF Cut
  <2>3. CASE fork'.reported = 0
    <3>1. Cut(0)'
        BY CutAtNone, PTL
    <3>. QED BY <3>1, <2>3 DEF Cut
  <2>. QED BY <2>1, <2>2, <2>3
<1>4. ASSUME NEW r \in Requests, calls'[r].step # "none" PROVE Cut(calls[r].from)'
  <2>1. PICK c \in 0 .. MaxId : c = calls[r].from /\ Cut(c)
      BY <1>4 DEF ReportsTyped, Cuts, Asks
  <2>. QED BY <2>1, <1>1 DEF Cut
<1>5. ASSUME NEW r \in Requests, calls'[r].step = "start" PROVE (Cut(calls[r].upTo) /\ calls[r].from < calls[r].upTo)'
  <2>1. PICK c \in 0 .. MaxId : c = calls[r].upTo /\ Cut(c) /\ calls[r].from < calls[r].upTo
      BY <1>5 DEF ReportsTyped, Cuts, Asks
  <2>. QED BY <2>1, <1>1 DEF Cut
<1>6. ASSUME NEW f \in 0 .. MaxId, runs'[f].step # "none" PROVE (Cut(f) /\ Cut(runs[f].upTo) /\ f < runs[f].upTo)'
  <2>1. PICK c \in 0 .. MaxId : c = runs[f].upTo /\ Cut(c) /\ Cut(f) /\ f < runs[f].upTo
      BY <1>6 DEF ReportsTyped, Cuts, Workflows
  <2>. QED BY <2>1, <1>1 DEF Cut
<1>7. ASSUME NEW a \in late' \cup reports' PROVE Whole(a.from, a.upTo, a.part)'
  <2>1. a \in Sent /\ Whole(a.from, a.upTo, a.part)
      BY DEF ReportsTyped, AllWhole
  <2>. QED BY <2>1, <1>2 DEF Sent
<1>8. ASSUME NEW f \in 0 .. MaxId, runs'[f].step = "post" PROVE Whole(f, runs[f].upTo, runs[f].part)'
  <2>1. PICK c \in 0 .. MaxId, p \in SUBSET Nat : c = runs[f].upTo /\ p = runs[f].part /\ Whole(f, c, p)
      BY <1>8 DEF ReportsTyped, AllWhole, Workflows
  <2>2. Whole(f, c, p)' /\ c = runs'[f].upTo /\ p = runs'[f].part
      BY <2>1, <1>2
  <2>3. Cut(runs[f].upTo)'
      BY <2>2 DEF Whole, Cut
  <2>. QED BY <2>2, <2>3 DEF Whole
<1>9. Cuts'
    BY <1>3, <1>4, <1>5, <1>6 DEF Cuts
<1>10. AllWhole'
    BY <1>7, <1>8 DEF AllWhole
<1>11. Chain'
    BY DEF Chain
<1>. QED BY <1>9, <1>10, <1>11

\* Nothing is written, read or reported before there is a fork.
LEMMA ForkBegins == ASSUME Forks!ConstantsOK, Forks!Init PROVE FInv
<1>. USE DEF Forks!Init
<1>1. ReportsTyped
  <2>1. Forks!NoFork \in [exists : BOOLEAN, linked : BOOLEAN, summary : Nat, reported : 0 .. MaxId]
      BY DEF Forks!NoFork, Forks!ConstantsOK
  <2>2. Forks!NoTx \in Txs /\ Forks!NoRequest \in Asks /\ Forks!NoRun \in Workflows
      BY DEF Forks!NoTx, Forks!NoRequest, Forks!NoRun, Forks!ConstantsOK, Txs, Asks, Workflows
  <2>3. 1 \in 1 .. (MaxId + 1)
      BY DEF Forks!ConstantsOK
  <2>. QED BY <2>1, <2>2, <2>3 DEF ReportsTyped
<1>2. Forks!Open = {}
    BY OpenIs DEF Forks!NoTx
<1>3. Stored
  <2>1. Fresh
      BY <1>2 DEF Fresh, Forks!NoTx
  <2>2. InStep
      BY DEF InStep, Forks!NoTx, Forks!Length
  <2>. QED BY <2>1, <2>2 DEF Stored, Paired, OneSummary
<1>4. Cut(fork.reported) /\ fork.reported = 0 /\ ~fork.exists
  <2>1. fork.reported = 0 /\ ~fork.exists
      BY DEF Forks!NoFork
  <2>. QED BY <2>1, CutAtNone, <1>1, <1>3
<1>5. Cuts
    BY <1>4 DEF Cuts, Forks!NoRequest, Forks!NoRun
<1>6. AllWhole
    BY DEF AllWhole, Forks!NoRun
<1>7. Chain
    BY <1>4 DEF Chain
<1>. QED BY <1>1, <1>3, <1>5, <1>6, <1>7 DEF FInv

\* The messages stay, or all go with their session.
LEMMA StoreKept ==
    ASSUME ReportsTyped, Stored, messages' \in {messages, {}}, UNCHANGED <<writing, next>>,
           raced \subseteq raced', missed \subseteq missed'
    PROVE  Stored' /\ Onward /\ Forks!Open' = Forks!Open
<1>1. Forks!Open' = Forks!Open
    BY DEF Forks!Open
<1>2. Fresh'
    BY <1>1 DEF Stored, Fresh
<1>3. InStep' /\ OneSummary'
    BY DEF Stored, InStep, OneSummary, Forks!Length
<1>4. Paired'
    BY DEF Stored, Paired
<1>5. Onward
    BY <1>1 DEF Onward, ReportsTyped
<1>. QED BY <1>1, <1>2, <1>3, <1>4, <1>5 DEF Stored

\* The fork made, its summary under way, a session or a member gone.
LEMMA SessionKeeps ==
    ASSUME Forks!ConstantsOK, FInv,
           \/ \E u \in Members : Forks!CreateFork(u)
           \/ Forks!StartSummary \/ Forks!SummarizeConversation
           \/ \E s \in {"fork", "parent"} : Forks!Delete(s)
           \/ \E u \in Members : \E s \in {"fork", "parent"} : Forks!Leave(u, s)
    PROVE  FInv'
<1>. DEFINE Row == [exists : BOOLEAN, linked : BOOLEAN, summary : Nat, reported : 0 .. MaxId]
<1>1. UNCHANGED <<calls, runs, late, reports, writing, next, raced, missed>>
    BY DEF Forks!CreateFork, Forks!StartSummary, Forks!SummarizeConversation, Forks!Delete, Forks!Leave, Forks!writes
<1>2. messages' \in {messages, {}}
    BY DEF Forks!CreateFork, Forks!StartSummary, Forks!SummarizeConversation, Forks!Delete, Forks!Leave, Forks!writes,
           Forks!DeleteSession
<1>3. \/ fork' = fork
      \/ fork' = [fork EXCEPT !.linked = FALSE]
      \/ fork' = Forks!NoFork
      \/ fork' = [Forks!NoFork EXCEPT !.exists = TRUE, !.linked = TRUE] /\ summary = "none" /\ summary' = "starting"
    BY DEF Forks!CreateFork, Forks!StartSummary, Forks!SummarizeConversation, Forks!Delete, Forks!Leave,
           Forks!DeleteSession
<1>4. summary' = "none" => summary = "none"
    BY DEF Forks!CreateFork, Forks!StartSummary, Forks!SummarizeConversation, Forks!Delete, Forks!Leave
<1>5. fork \in Row /\ Forks!NoFork \in Row /\ Forks!NoFork.reported = 0 /\ ~Forks!NoFork.exists
    BY DEF FInv, ReportsTyped, Forks!NoFork, Forks!ConstantsOK
<1>6. /\ fork' \in Row /\ fork'.reported \in {fork.reported, 0}
      /\ fork'.exists => \/ fork.exists /\ fork'.reported = fork.reported
                         \/ fork'.reported = 0 /\ summary = "none" /\ summary' # "none"
  <2>1. CASE fork' = fork
      BY <2>1, <1>5
  <2>2. CASE fork' = [fork EXCEPT !.linked = FALSE]
      BY <2>2, <1>5
  <2>3. CASE fork' = Forks!NoFork
      BY <2>3, <1>5
  <2>4. CASE fork' = [Forks!NoFork EXCEPT !.exists = TRUE, !.linked = TRUE] /\ summary = "none" /\ summary' = "starting"
      BY <2>4, <1>5 DEF Forks!NoFork
  <2>. QED BY <1>3, <2>1, <2>2, <2>3, <2>4
<1>. HIDE DEF Row
<1>7. ReportsTyped'
    BY <1>1, <1>2, <1>6 DEF FInv, ReportsTyped, Row
<1>8. Stored' /\ Onward
    BY <1>1, <1>2, StoreKept DEF FInv
<1>9. summary = "none" => ~fork.exists /\ reports = {}
    BY DEF FInv, Chain
<1>. QED BY <1>1, <1>4, <1>6, <1>7, <1>8, <1>9, ControlKept

\* A message stored under a key that was free.
LEMMA SummaryStored ==
    ASSUME Forks!ConstantsOK, FInv, \A m \in messages : m.kind # "summary", next <= MaxId,
           messages' = messages \cup {[id |-> next, kind |-> "summary", call |-> 0]}, next' = next + 1,
           UNCHANGED <<writing, raced, missed>>
    PROVE  Stored' /\ Onward /\ messages' \subseteq Msgs /\ next' \in 1 .. (MaxId + 1)
<1>. DEFINE n == [id |-> next, kind |-> "summary", call |-> 0]
<1>1. n.id = next /\ n.kind = "summary" /\ n \in Msgs /\ messages' = messages \cup {n} /\ next \in Nat
    BY DEF FInv, ReportsTyped, Msgs
<1>. HIDE DEF n
<1>2. Forks!Open' = Forks!Open
    BY DEF Forks!Open
<1>3. messages' \subseteq Msgs /\ next' \in 1 .. (MaxId + 1) /\ \A m \in messages : m.id \in Nat
    BY <1>1 DEF FInv, ReportsTyped, Forks!ConstantsOK, Msgs
<1>4. Fresh'
  <2>1. \A m \in messages' : m.id < next'
      BY <1>1, <1>3 DEF FInv, Stored, Fresh
  <2>2. \A i \in Forks!Open' : i \in Nat \ {0} /\ i < next' /\ \A m \in messages' : m.id # i
      BY <1>1, <1>2 DEF FInv, Stored, Fresh
  <2>. QED BY <2>1, <2>2 DEF FInv, Stored, Fresh
<1>5. InStep' /\ OneSummary'
    BY <1>1 DEF FInv, Stored, InStep, OneSummary, Forks!Length
<1>6. Paired'
    BY <1>1 DEF FInv, Stored, Paired
<1>7. Onward
    BY <1>1, <1>2 DEF Onward
<1>. QED BY <1>3, <1>4, <1>5, <1>6, <1>7 DEF Stored

\* The fork's summary posted, once, or its workflow over.
LEMMA PostSummaryKeeps == ASSUME Forks!ConstantsOK, FInv, Forks!PostForkSummary PROVE FInv'
<1>1. UNCHANGED <<calls, runs, late, reports, writing, raced, missed>> /\ summary' # "none"
    BY DEF Forks!PostForkSummary
<1>2. CASE Forks!AppendForkSummary
  <2>1. Stored' /\ Onward /\ messages' \subseteq Msgs /\ next' \in 1 .. (MaxId + 1) /\ \E m \in messages' : m.kind = "summary"
    <3>1. CASE UNCHANGED <<messages, next>> /\ \E m \in messages : m.kind = "summary"
      <4>1. Stored' /\ Onward
          BY <3>1, <1>1, StoreKept DEF FInv
      <4>. QED BY <3>1, <4>1 DEF FInv, ReportsTyped
    <3>2. CASE ~ \E m \in messages : m.kind = "summary"
      <4>1. /\ \A m \in messages : m.kind # "summary"
            /\ next <= MaxId /\ messages' = messages \cup {[id |-> next, kind |-> "summary", call |-> 0]}
            /\ next' = next + 1
          BY <1>2, <3>2 DEF Forks!AppendForkSummary
      <4>2. [id |-> next, kind |-> "summary", call |-> 0] \in messages'
          BY <4>1
      <4>3. Stored' /\ Onward /\ messages' \subseteq Msgs /\ next' \in 1 .. (MaxId + 1)
          BY <4>1, <1>1, SummaryStored
      <4>. QED BY <4>2, <4>3
    <3>. QED BY <3>1, <3>2, <1>2 DEF Forks!AppendForkSummary
  <2>2. PICK m \in messages' : m = CHOOSE x \in messages' : x.kind = "summary"
      BY <2>1
  <2>3. fork' = [fork EXCEPT !.summary = m.id] /\ m.id \in Nat
      BY <1>2, <2>1, <2>2 DEF Forks!AppendForkSummary, Msgs
  <2>4. fork' \in [exists : BOOLEAN, linked : BOOLEAN, summary : Nat, reported : 0 .. MaxId]
        /\ fork'.reported = fork.reported /\ fork'.exists = fork.exists
      BY <2>3 DEF FInv, ReportsTyped
  <2>5. ReportsTyped'
      BY <1>1, <2>1, <2>4 DEF FInv, ReportsTyped
  <2>. QED BY <1>1, <2>1, <2>4, <2>5, ControlKept
<1>3. CASE UNCHANGED <<fork, messages, next>>
  <2>1. Stored' /\ Onward
      BY <1>1, <1>3, StoreKept DEF FInv
  <2>2. ReportsTyped'
      BY <1>1, <1>3 DEF FInv, ReportsTyped
  <2>. QED BY <1>1, <1>3, <2>1, <2>2, ControlKept
<1>. QED BY <1>2, <1>3 DEF Forks!PostForkSummary

\* An id taken, the next one.
LEMMA InsertKeeps ==
    ASSUME Forks!ConstantsOK, FInv, NEW w \in Writers, NEW k \in {"said", "step", "end"}, Forks!Insert(w, k)
    PROVE  FInv'
<1>. DEFINE s == writing[w].ids
            t == Append(s, next)
<1>1. /\ UNCHANGED <<fork, summary, messages, raced, missed, calls, runs, late, reports>>
      /\ next <= MaxId /\ next' = next + 1 /\ writing[w].kind \in {"none", k} /\ Len(s) < Forks!Length(k)
    BY DEF Forks!Insert, Forks!forking
<1>2. writing' = [writing EXCEPT ![w] = [kind |-> k, ids |-> t]]
    BY DEF Forks!Insert
<1>3. s \in Seq(Nat \ {0}) /\ next \in Nat \ {0} /\ writing \in [Writers -> Txs]
    BY DEF FInv, ReportsTyped, Txs
<1>4. /\ t \in Seq(Nat \ {0}) /\ Len(t) = Len(s) + 1 /\ Len(s) \in Nat
      /\ \A j \in DOMAIN t : t[j] = next \/ (j \in DOMAIN s /\ t[j] = s[j])
      /\ Len(t) = 2 => 1 \in DOMAIN s /\ t[1] = s[1] /\ t[2] = next
    BY <1>3
<1>5. \A i \in Forks!Open : i \in Nat \ {0} /\ i < next /\ \A m \in messages : m.id # i
    BY DEF FInv, Stored, Fresh
<1>6. \A j \in DOMAIN s : s[j] \in Forks!Open
    BY OpenIs
<1>7. /\ writing'[w].ids = t /\ writing'[w].kind = k
      /\ \A v \in Writers \ {w} : writing'[v] = writing[v]
      /\ writing' \in [Writers -> Txs]
    BY <1>2, <1>3, <1>4 DEF Txs
<1>. HIDE DEF t
<1>8. ReportsTyped'
  <2>1. next' \in 1 .. (MaxId + 1)
      BY <1>1, <1>3 DEF Forks!ConstantsOK
  <2>. QED BY <1>1, <1>7, <2>1 DEF FInv, ReportsTyped
<1>9. \A i \in Forks!Open' : i \in Forks!Open \/ i = next
  <2>. SUFFICES ASSUME NEW i \in Forks!Open' PROVE i \in Forks!Open \/ i = next
      OBVIOUS
  <2>1. PICK v \in Writers : \E j \in DOMAIN writing'[v].ids : i = writing'[v].ids[j]
      BY OpenIs
  <2>2. CASE v = w
      BY <2>1, <2>2, <1>4, <1>6, <1>7
  <2>3. CASE v # w
      BY <2>1, <2>3, <1>7, OpenIs
  <2>. QED BY <2>2, <2>3
<1>10. Fresh'
  <2>1. \A m \in messages' : m.id < next'
      BY <1>1, <1>3 DEF FInv, Stored, Fresh, ReportsTyped, Msgs
  <2>2. \A i \in Forks!Open' : i \in Nat \ {0} /\ i < next' /\ \A m \in messages' : m.id # i
    <3>1. \A m \in messages : m.id < next /\ m.id # next
        BY <1>3 DEF FInv, Stored, Fresh, ReportsTyped, Msgs
    <3>. QED BY <3>1, <1>1, <1>3, <1>5, <1>9
  <2>3. ASSUME NEW u \in Writers, NEW v \in Writers, u # v, NEW j \in DOMAIN writing'[u].ids, NEW l \in DOMAIN writing'[v].ids
        PROVE  writing'[u].ids[j] # writing'[v].ids[l]
    <3>1. \A x \in Writers : \A y \in DOMAIN writing[x].ids : writing[x].ids[y] \in Forks!Open /\ writing[x].ids[y] # next
      <4>1. \A x \in Writers : \A y \in DOMAIN writing[x].ids : writing[x].ids[y] \in Forks!Open
          BY OpenIs
      <4>2. \A i \in Forks!Open : i # next
          BY <1>3, <1>5
      <4>. QED BY <4>1, <4>2
    <3>2. \A x \in Writers \ {w} : \A y \in DOMAIN writing[x].ids, z \in DOMAIN s : writing[x].ids[y] # s[z]
        BY DEF FInv, Stored, Fresh
    <3>3. CASE u = w
        BY <2>3, <3>1, <3>2, <3>3, <1>4, <1>7
    <3>4. CASE v = w
        BY <2>3, <3>1, <3>2, <3>4, <1>4, <1>7
    <3>5. CASE u # w /\ v # w
        BY <2>3, <3>5, <1>7 DEF FInv, Stored, Fresh
    <3>. QED BY <3>3, <3>4, <3>5
  <2>. QED BY <2>1, <2>2, <2>3 DEF Fresh
<1>11. InStep'
  <2>1. ASSUME NEW v \in Writers
        PROVE  (/\ Len(writing[v].ids) <= Forks!Length(writing[v].kind)
                /\ Len(writing[v].ids) = 2 => writing[v].ids[1] < writing[v].ids[2]
                /\ writing[v].kind = "none" => writing[v].ids = <<>>)'
    <3>1. CASE v = w
      <4>1. Len(t) <= Forks!Length(k)
          BY <1>1, <1>4 DEF Forks!Length
      <4>2. Len(t) = 2 => t[1] < t[2]
          BY <1>4, <1>5, <1>6
      <4>. QED BY <3>1, <4>1, <4>2, <1>7 DEF Forks!Length
    <3>2. CASE v # w
        BY <3>2, <1>7 DEF FInv, Stored, InStep, Forks!Length
    <3>. QED BY <3>1, <3>2
  <2>. QED BY <2>1 DEF InStep, Forks!Length
<1>12. Stored'
    BY <1>1, <1>10, <1>11 DEF FInv, Stored, Paired, OneSummary
<1>13. Onward
    BY <1>1, <1>3, <1>9 DEF Onward
<1>14. fork'.reported = fork.reported /\ fork'.exists = fork.exists /\ (summary' = "none" => summary = "none" /\ ~fork'.exists)
    BY <1>1 DEF FInv, Chain
<1>. QED BY <1>1, <1>8, <1>12, <1>13, <1>14, ControlKept

\* What a transaction stores: its ids, a call before its result.
LEMMA RowsOf ==
    ASSUME FInv, NEW w \in Writers, writing[w] # Forks!NoTx, Len(writing[w].ids) = Forks!Length(writing[w].kind)
    PROVE  /\ Forks!Rows(writing[w]) \subseteq Msgs
           /\ \A m \in Forks!Rows(writing[w]) :
                 /\ m.kind # "summary" /\ \E j \in DOMAIN writing[w].ids : m.id = writing[w].ids[j]
                 /\ m.kind = "call" => \E x \in Forks!Rows(writing[w]) : x.kind = "result" /\ x.call = m.id
                 /\ m.kind = "result" => /\ m.call < m.id /\ \E j \in DOMAIN writing[w].ids : m.call = writing[w].ids[j]
                                         /\ \E x \in Forks!Rows(writing[w]) : x.kind = "call" /\ x.id = m.call
<1>. DEFINE t == writing[w]
<1>1. t \in Txs /\ t # Forks!NoTx /\ Len(t.ids) = Forks!Length(t.kind)
      /\ (Len(t.ids) = 2 => t.ids[1] < t.ids[2]) /\ (t.kind = "none" => t.ids = <<>>)
    BY DEF FInv, ReportsTyped, Stored, InStep
<1>. HIDE DEF t
<1>2. CASE t.kind = "step"
  <2>. DEFINE a == [id |-> t.ids[1], kind |-> "call", call |-> t.ids[1]]
              b == [id |-> t.ids[2], kind |-> "result", call |-> t.ids[1]]
  <2>1. 1 \in DOMAIN t.ids /\ 2 \in DOMAIN t.ids /\ t.ids[1] < t.ids[2] /\ t.ids[1] \in Nat \ {0} /\ t.ids[2] \in Nat \ {0}
      BY <1>1, <1>2 DEF Txs, Forks!Length
  <2>2. Forks!Rows(t) = {a, b}
      BY <1>2 DEF Forks!Rows
  <2>3. a \in Msgs /\ a.kind = "call" /\ a.id = t.ids[1] /\ b \in Msgs /\ b.kind = "result" /\ b.id = t.ids[2] /\ b.call = t.ids[1]
      BY <2>1 DEF Msgs
  <2>. HIDE DEF a, b
  <2>. QED BY <2>1, <2>2, <2>3 DEF t
<1>3. CASE t.kind # "step"
  <2>. DEFINE a == [id |-> t.ids[1], kind |-> t.kind, call |-> 0]
  <2>1. 1 \in DOMAIN t.ids /\ t.ids[1] \in Nat \ {0} /\ t.kind \in {"said", "end"}
      BY <1>1, <1>3 DEF Txs, Forks!Length
  <2>2. Forks!Rows(t) = {a}
      BY <1>3 DEF Forks!Rows
  <2>3. a \in Msgs /\ a.kind \in {"said", "end"} /\ a.id = t.ids[1]
      BY <2>1 DEF Msgs
  <2>. HIDE DEF a
  <2>. QED BY <2>1, <2>2, <2>3 DEF t
<1>. QED BY <1>2, <1>3

\* A transaction commits: all of a step, or none of it.
LEMMA CommitKeeps == ASSUME Forks!ConstantsOK, FInv, NEW w \in Writers, Forks!Commit(w) PROVE FInv'
<1>. DEFINE new == Forks!Rows(writing[w])
<1>1. /\ UNCHANGED <<fork, summary, next, raced, missed, calls, runs, late, reports>>
      /\ messages' = messages \cup new /\ writing' = [writing EXCEPT ![w] = Forks!NoTx]
    BY DEF Forks!Commit, Forks!forking
<1>2. /\ new \subseteq Msgs
      /\ \A m \in new : m.kind # "summary" /\ \E j \in DOMAIN writing[w].ids : m.id = writing[w].ids[j]
      /\ \A m \in new : m.kind = "call" => \E x \in new : x.kind = "result" /\ x.call = m.id
      /\ \A m \in new : m.kind = "result" => /\ m.call < m.id /\ \E j \in DOMAIN writing[w].ids : m.call = writing[w].ids[j]
                                             /\ \E x \in new : x.kind = "call" /\ x.id = m.call
    BY RowsOf DEF Forks!Commit
<1>. HIDE DEF new
<1>3. \A j \in DOMAIN writing[w].ids : writing[w].ids[j] \in Forks!Open
    BY OpenIs
<1>4. /\ writing'[w].ids = <<>> /\ writing'[w].kind = "none"
      /\ \A v \in Writers \ {w} : writing'[v] = writing[v]
      /\ writing' \in [Writers -> Txs]
    BY <1>1 DEF FInv, ReportsTyped, Forks!NoTx, Txs
<1>5. ReportsTyped'
    BY <1>1, <1>2, <1>4 DEF FInv, ReportsTyped
<1>6. \A i \in Forks!Open' : i \in Forks!Open /\ \A j \in DOMAIN writing[w].ids : i # writing[w].ids[j]
  <2>. SUFFICES ASSUME NEW i \in Forks!Open'
                PROVE  i \in Forks!Open /\ \A j \in DOMAIN writing[w].ids : i # writing[w].ids[j]
      OBVIOUS
  <2>1. PICK v \in Writers : \E j \in DOMAIN writing'[v].ids : i = writing'[v].ids[j]
      BY OpenIs
  <2>2. v # w /\ writing'[v] = writing[v]
      BY <2>1, <1>4
  <2>3. \A l \in DOMAIN writing[v].ids, j \in DOMAIN writing[w].ids : writing[v].ids[l] # writing[w].ids[j]
      BY <2>2 DEF FInv, Stored, Fresh
  <2>. QED BY <2>1, <2>2, <2>3, OpenIs
<1>7. Fresh'
  <2>1. \A m \in messages' : m.id < next'
      BY <1>1, <1>2, <1>3 DEF FInv, Stored, Fresh
  <2>2. \A i \in Forks!Open' : i \in Nat \ {0} /\ i < next' /\ \A m \in messages' : m.id # i
      BY <1>1, <1>2, <1>6 DEF FInv, Stored, Fresh
  <2>3. ASSUME NEW u \in Writers, NEW v \in Writers, u # v, NEW j \in DOMAIN writing'[u].ids, NEW l \in DOMAIN writing'[v].ids
        PROVE  writing'[u].ids[j] # writing'[v].ids[l]
    <3>1. u # w /\ v # w
        BY <1>4, <2>3
    <3>. QED BY <3>1, <2>3, <1>4 DEF FInv, Stored, Fresh
  <2>. QED BY <2>1, <2>2, <2>3 DEF Fresh
<1>8. InStep'
  <2>1. ASSUME NEW v \in Writers
        PROVE  (/\ Len(writing[v].ids) <= Forks!Length(writing[v].kind)
                /\ Len(writing[v].ids) = 2 => writing[v].ids[1] < writing[v].ids[2]
                /\ writing[v].kind = "none" => writing[v].ids = <<>>)'
    <3>1. CASE v = w
        BY <3>1, <1>4 DEF Forks!Length
    <3>2. CASE v # w
        BY <3>2, <1>4 DEF FInv, Stored, InStep, Forks!Length
    <3>. QED BY <3>1, <3>2
  <2>. QED BY <2>1 DEF InStep, Forks!Length
<1>9. Paired' /\ OneSummary'
    BY <1>1, <1>2 DEF FInv, Stored, Paired, OneSummary
<1>10. Onward
  <2>1. \A m \in messages' : \/ m \in messages
                             \/ m.id \in Forks!Open /\ (m.kind = "result" => m.call \in Forks!Open /\ m.call < m.id)
      BY <1>1, <1>2, <1>3
  <2>. QED BY <2>1, <1>1, <1>6 DEF Onward, FInv, ReportsTyped
<1>11. fork'.reported = fork.reported /\ fork'.exists = fork.exists /\ (summary' = "none" => summary = "none" /\ ~fork'.exists)
    BY <1>1 DEF FInv, Chain
<1>12. Stored'
    BY <1>7, <1>8, <1>9 DEF Stored
<1>. QED BY <1>1, <1>5, <1>10, <1>11, <1>12, ControlKept

-----------------------------------------------------------------------------
(* The calls and the reports' workflows. *)

CallRight(r) ==
    /\ calls[r].step # "none" => Cut(calls[r].from)
    /\ calls[r].step = "start" => Cut(calls[r].upTo) /\ calls[r].from < calls[r].upTo

RunRight(f) ==
    /\ runs[f].step # "none" => Cut(f) /\ Cut(runs[f].upTo) /\ f < runs[f].upTo
    /\ runs[f].step = "post" => Whole(f, runs[f].upTo, runs[f].part)

\* What a step does not touch stays right: it is enough to look at the rest.
LEMMA RestKept ==
    ASSUME Forks!ConstantsOK, FInv, ReportsTyped', Stored', Onward, Cut(fork.reported)', Chain',
           \A r \in Requests : calls'[r] = calls[r] \/ CallRight(r)',
           \A f \in 0 .. MaxId : runs'[f] = runs[f] \/ RunRight(f)',
           \A a \in late' \cup reports' : a \in late \cup reports \/ Whole(a.from, a.upTo, a.part)'
    PROVE  FInv'
<1>. USE DEF FInv
<1>1. \A c \in 0 .. MaxId : Cut(c) => Cut(c)'
    BY CutLasts
<1>2. \A b, c \in 0 .. MaxId, p \in SUBSET Nat : Whole(b, c, p) => Whole(b, c, p)'
    BY WholeLasts
<1>3. ASSUME NEW r \in Requests PROVE CallRight(r)'
  <2>1. CASE calls'[r] = calls[r]
    <3>1. PICK b \in 0 .. MaxId, c \in 0 .. MaxId : b = calls[r].from /\ c = calls[r].upTo
        BY DEF ReportsTyped, Asks
    <3>2. calls'[r].step # "none" => Cut(b)'
        BY <3>1, <2>1, <1>1 DEF Cuts
    <3>3. calls'[r].step = "start" => Cut(c)' /\ b < c
        BY <3>1, <2>1, <1>1 DEF Cuts
    <3>4. b = calls'[r].from /\ c = calls'[r].upTo
        BY <3>1, <2>1
    <3>. QED BY <3>2, <3>3, <3>4 DEF CallRight, Cut
  <2>. QED BY <2>1
<1>4. ASSUME NEW f \in 0 .. MaxId PROVE RunRight(f)'
  <2>1. CASE runs'[f] = runs[f]
    <3>1. PICK c \in 0 .. MaxId, p \in SUBSET Nat : c = runs[f].upTo /\ p = runs[f].part
        BY DEF ReportsTyped, Workflows
    <3>2. runs'[f].step # "none" => Cut(f)' /\ Cut(c)' /\ f < c
        BY <3>1, <2>1, <1>1 DEF Cuts
    <3>3. runs'[f].step = "post" => Whole(f, c, p)'
        BY <3>1, <2>1, <1>2 DEF AllWhole
    <3>4. c = runs'[f].upTo /\ p = runs'[f].part
        BY <3>1, <2>1
    <3>5. Cut(c)' => Cut(runs[f].upTo)'
        BY <3>4 DEF Cut
    <3>6. Whole(f, c, p)' => Whole(f, runs[f].upTo, runs[f].part)'
        BY <3>4, <3>5 DEF Whole
    <3>. QED BY <3>2, <3>3, <3>4, <3>5, <3>6 DEF RunRight
  <2>. QED BY <2>1
<1>5. Cuts'
    BY <1>3, <1>4 DEF Cuts, CallRight, RunRight
<1>6. ASSUME NEW a \in late' \cup reports' PROVE Whole(a.from, a.upTo, a.part)'
  <2>1. CASE a \in late \cup reports
    <3>1. a \in Sent /\ Whole(a.from, a.upTo, a.part)
        BY <2>1 DEF ReportsTyped, AllWhole
    <3>. QED BY <3>1, <1>2 DEF Sent
  <2>. QED BY <2>1
<1>7. AllWhole'
    BY <1>4, <1>6 DEF AllWhole, RunRight
<1>. QED BY <1>5, <1>7

\* The fork's row as it was.
LEMMA SameRow ==
    ASSUME Forks!ConstantsOK, FInv, ReportsTyped', Stored', Onward, UNCHANGED <<fork, summary, reports>>
    PROVE  Cut(fork.reported)' /\ Chain'
<1>1. PICK c \in 0 .. MaxId : c = fork.reported /\ Cut(c)
    BY DEF FInv, ReportsTyped, Cuts
<1>2. Cut(c)' /\ c = fork'.reported
    BY <1>1, CutLasts DEF FInv
<1>3. Cut(fork.reported)'
    BY <1>2 DEF Cut
<1>. QED BY <1>3 DEF FInv, Chain

\* A call reads the last message reported, or is over.
LEMMA CallKeeps ==
    ASSUME Forks!ConstantsOK, FInv, NEW r \in Requests,
           (\E u \in Members : Forks!Ask(r, u)) \/ Forks!RequestFails(r)
    PROVE  FInv'
<1>1. UNCHANGED <<fork, summary, messages, writing, next, raced, missed, runs, late, reports>>
    BY DEF Forks!Ask, Forks!RequestFails, Forks!forking, Forks!writes
<1>2. Stored' /\ Onward
    BY <1>1, StoreKept DEF FInv
<1>3. PICK x \in Asks : /\ calls' = [calls EXCEPT ![r] = x]
                        /\ x.step = "none" \/ (x.step = "load" /\ x.from = fork.reported)
  <2>1. CASE Forks!RequestFails(r)
    <3>1. Forks!NoRequest \in Asks /\ Forks!NoRequest.step = "none"
        BY DEF Forks!NoRequest, Asks, Forks!ConstantsOK
    <3>. QED BY <2>1, <3>1 DEF Forks!RequestFails
  <2>2. ASSUME NEW u \in Members, Forks!Ask(r, u) PROVE \E x \in Asks : /\ calls' = [calls EXCEPT ![r] = x]
                                                                      /\ x.step = "load" /\ x.from = fork.reported
    <3>. DEFINE x == [step |-> "load", by |-> u, from |-> fork.reported, upTo |-> 0]
    <3>1. x \in Asks /\ x.step = "load" /\ x.from = fork.reported
        BY DEF Asks, FInv, ReportsTyped, Forks!ConstantsOK
    <3>2. calls' = [calls EXCEPT ![r] = x]
        BY <2>2 DEF Forks!Ask
    <3>. QED BY <3>1, <3>2
  <2>. QED BY <2>1, <2>2
<1>4. calls' \in [Requests -> Asks] /\ calls'[r] = x /\ \A q \in Requests \ {r} : calls'[q] = calls[q]
    BY <1>3 DEF FInv, ReportsTyped
<1>5. ReportsTyped'
    BY <1>1, <1>4 DEF FInv, ReportsTyped
<1>6. Cut(fork.reported)' /\ Chain'
    BY <1>1, <1>2, <1>5, SameRow
<1>7. CallRight(r)'
  <2>1. CASE x.step = "none"
      BY <2>1, <1>4 DEF CallRight
  <2>2. CASE x.step = "load" /\ x.from = fork.reported
    <3>1. calls'[r].from = fork'.reported /\ calls'[r].step = "load"
        BY <2>2, <1>1, <1>4
    <3>2. Cut(calls[r].from)'
        BY <3>1, <1>6 DEF Cut
    <3>. QED BY <3>1, <3>2 DEF CallRight
  <2>. QED BY <1>3, <2>1, <2>2
<1>. QED BY <1>1, <1>2, <1>4, <1>5, <1>6, <1>7, RestKept

\* A bounded set of numbers has a greatest one.
LEMMA Greatest ==
    ASSUME NEW S \in SUBSET Nat, S # {}, NEW b \in Nat, \A i \in S : i <= b
    PROVE  \E i \in S : \A j \in S : j <= i
<1>. DEFINE T == {b - i : i \in S}
            R == OpToRel(<, Nat)
<1>1. T \subseteq Nat /\ T # {}
  <2>1. \A i \in S : b - i \in Nat
      OBVIOUS
  <2>2. PICK i \in S : TRUE
      OBVIOUS
  <2>. QED BY <2>1, <2>2
<1>2. IsWellFoundedOn(R, Nat)
    BY NatLessThanWellFounded
<1>3. \A x, y \in Nat : <<x, y>> \in R <=> x < y
    BY DEF OpToRel
<1>. HIDE DEF R
<1>4. PICK x \in T : \A y \in T : ~(<<y, x>> \in R)
    BY <1>1, <1>2, WFMin
<1>5. PICK i \in S : x = b - i
    BY <1>4
<1>6. ASSUME NEW j \in S PROVE j <= i
  <2>1. b - j \in T
      OBVIOUS
  <2>2. ~(b - j < x)
      BY <2>1, <1>1, <1>3, <1>4
  <2>. QED BY <2>2, <1>5
<1>. QED BY <1>6

\* Every call stored has its result: the range read ends at the last message.
LEMMA NonePending == ASSUME FInv PROVE Forks!Whole(messages) = messages
BY DEF FInv, Stored, Paired, Forks!Whole

\* A range is read: it ends at the last message, and the ids held then are
\* told from the others.
LEMMA LoadKeeps == ASSUME Forks!ConstantsOK, FInv, NEW r \in Requests, Forks!Load(r) PROVE FInv'
<1>1. UNCHANGED <<fork, summary, messages, writing, next, missed, runs, late, reports>> /\ calls[r].step = "load"
    BY DEF Forks!Load, Forks!forking
<1>2. CASE calls' = [calls EXCEPT ![r] = Forks!NoRequest] /\ UNCHANGED raced
  <2>1. Forks!NoRequest \in Asks /\ Forks!NoRequest.step = "none"
      BY DEF Forks!NoRequest, Asks, Forks!ConstantsOK
  <2>2. calls' \in [Requests -> Asks] /\ calls'[r].step = "none" /\ \A q \in Requests \ {r} : calls'[q] = calls[q]
      BY <1>2, <2>1 DEF FInv, ReportsTyped
  <2>3. ReportsTyped'
      BY <1>1, <2>2 DEF FInv, ReportsTyped
  <2>4. Stored' /\ Onward
      BY <1>1, <1>2, StoreKept DEF FInv
  <2>5. Cut(fork.reported)' /\ Chain'
      BY <1>1, <2>3, <2>4, SameRow
  <2>6. CallRight(r)'
      BY <2>2 DEF CallRight
  <2>. QED BY <1>1, <2>2, <2>3, <2>4, <2>5, <2>6, RestKept
<1>3. CASE ~(calls' = [calls EXCEPT ![r] = Forks!NoRequest] /\ UNCHANGED raced)
  <2>. DEFINE S == {m.id : m \in messages}
              n == CHOOSE i \in S : \A m \in messages : m.id <= i
  <2>1. /\ \E m \in messages : m.id > calls[r].from
        /\ calls' = [calls EXCEPT ![r].step = "start", ![r].upTo = n]
        /\ raced' = raced \cup Forks!Open
      BY <1>3, NonePending DEF Forks!Load
  <2>2. next \in Nat /\ \A m \in messages : m.id \in Nat /\ m.id < next
      BY DEF FInv, ReportsTyped, Msgs, Stored, Fresh
  <2>3. \E i \in S : \A j \in S : j <= i
    <3>1. S \in SUBSET Nat /\ S # {} /\ \A i \in S : i <= next
        BY <2>1, <2>2
    <3>. HIDE DEF S
    <3>. QED BY <3>1, <2>2, Greatest
  <2>4. n \in S /\ \A m \in messages : m.id <= n
    <3>1. \E i \in S : \A m \in messages : m.id <= i
        BY <2>3
    <3>. QED BY <3>1
  <2>. HIDE DEF n
  <2>5. n \in 0 .. MaxId /\ n \in Nat /\ n < next
    <3>1. n \in Nat /\ n < next
        BY <2>2, <2>4
    <3>. QED BY <3>1 DEF FInv, ReportsTyped, Forks!ConstantsOK
  <2>. HIDE DEF S
  <2>6. calls[r] \in Asks
      BY DEF FInv, ReportsTyped
  <2>7. /\ calls' \in [Requests -> Asks] /\ \A q \in Requests \ {r} : calls'[q] = calls[q]
        /\ calls'[r].step = "start" /\ calls'[r].upTo = n /\ calls'[r].from = calls[r].from
      BY <2>1, <2>5, <2>6 DEF FInv, ReportsTyped, Asks
  <2>8. ReportsTyped'
      BY <1>1, <2>7 DEF FInv, ReportsTyped
  <2>9. Stored' /\ Onward /\ Forks!Open' = Forks!Open
      BY <1>1, <2>1, StoreKept DEF FInv
  <2>10. Cut(fork.reported)' /\ Chain'
      BY <1>1, <2>8, <2>9, SameRow
  <2>11. Cut(calls[r].upTo)'
      BY <1>1, <2>1, <2>2, <2>4, <2>5, <2>7, <2>9 DEF Cut
  <2>12. Cut(calls[r].from)'
    <3>1. PICK c \in 0 .. MaxId : c = calls[r].from /\ Cut(c)
        BY <1>1, <2>6 DEF FInv, Cuts, Asks
    <3>2. Cut(c)' /\ c = calls'[r].from
        BY <3>1, <2>7, <2>8, <2>9, CutLasts DEF FInv
    <3>. QED BY <3>2 DEF Cut
  <2>13. calls'[r].from < calls'[r].upTo
      BY <2>1, <2>2, <2>4, <2>5, <2>6, <2>7 DEF Asks, Forks!ConstantsOK
  <2>14. CallRight(r)'
      BY <2>11, <2>12, <2>13 DEF CallRight
  <2>. QED BY <1>1, <2>7, <2>8, <2>9, <2>10, <2>14, RestKept
<1>. QED BY <1>2, <1>3

\* A workflow is started with its call's range.
LEMMA ReportStarts == ASSUME Forks!ConstantsOK, FInv, NEW r \in Requests, Forks!Start(r) PROVE FInv'
<1>. DEFINE f == calls[r].from
            x == [step |-> "summarize", by |-> calls[r].by, upTo |-> calls[r].upTo, part |-> {}]
<1>1. UNCHANGED <<fork, summary, messages, writing, next, raced, missed, late, reports>> /\ calls[r].step = "start"
      /\ calls' = [calls EXCEPT ![r] = Forks!NoRequest]
      /\ (runs' = runs \/ runs' = [runs EXCEPT ![f] = x])
    BY DEF Forks!Start, Forks!forking, Forks!writes
<1>2. Stored' /\ Onward
    BY <1>1, StoreKept DEF FInv
<1>3. Forks!NoRequest \in Asks /\ Forks!NoRequest.step = "none" /\ calls[r] \in Asks
    BY DEF Forks!NoRequest, Asks, Forks!ConstantsOK, FInv, ReportsTyped
<1>4. calls' \in [Requests -> Asks] /\ calls'[r].step = "none" /\ \A q \in Requests \ {r} : calls'[q] = calls[q]
    BY <1>1, <1>3 DEF FInv, ReportsTyped
<1>5. PICK b \in 0 .. MaxId, c \in 0 .. MaxId : b = f /\ c = calls[r].upTo /\ Cut(b) /\ Cut(c) /\ b < c
    BY <1>1, <1>3 DEF FInv, Cuts, Asks
<1>6. x \in Workflows /\ x.step = "summarize" /\ x.upTo = c
    BY <1>3, <1>5 DEF Workflows, Asks
<1>. HIDE DEF x, f
<1>7. /\ runs' \in [0 .. MaxId -> Workflows] /\ \A g \in 0 .. MaxId : g # b => runs'[g] = runs[g]
      /\ runs' = runs \/ runs'[b] = x
    BY <1>1, <1>5, <1>6 DEF FInv, ReportsTyped
<1>8. ReportsTyped'
    BY <1>1, <1>4, <1>7 DEF FInv, ReportsTyped
<1>9. Cut(fork.reported)' /\ Chain'
    BY <1>1, <1>2, <1>8, SameRow
<1>10. Cut(b)' /\ Cut(c)'
    BY <1>2, <1>5, <1>8, CutLasts DEF FInv
<1>11. runs' = runs \/ RunRight(b)'
  <2>1. CASE runs'[b] = x
    <3>1. runs'[b].step = "summarize" /\ runs'[b].upTo = c
        BY <2>1, <1>6
    <3>2. Cut(runs[b].upTo)'
        BY <3>1, <1>10 DEF Cut
    <3>. QED BY <3>1, <3>2, <1>5, <1>10 DEF RunRight
  <2>. QED BY <2>1, <1>7
<1>12. CallRight(r)'
    BY <1>4 DEF CallRight
<1>. QED BY <1>1, <1>2, <1>4, <1>7, <1>8, <1>9, <1>11, <1>12, RestKept

\* A workflow that is over keeps the range it had.
LEMMA RunEnds ==
    ASSUME Forks!ConstantsOK, FInv, NEW f \in 0 .. MaxId, runs[f].step # "none",
           \/ UNCHANGED runs
           \/ \E s \in {"done", "failed"} : runs' = [runs EXCEPT ![f].step = s]
    PROVE  /\ runs' \in [0 .. MaxId -> Workflows]
           /\ ReportsTyped' /\ Onward => \A g \in 0 .. MaxId : runs'[g] = runs[g] \/ RunRight(g)'
<1>1. CASE UNCHANGED runs
    BY <1>1 DEF FInv, ReportsTyped
<1>2. ASSUME NEW s \in {"done", "failed"}, runs' = [runs EXCEPT ![f].step = s]
      PROVE  /\ runs' \in [0 .. MaxId -> Workflows]
             /\ ReportsTyped' /\ Onward => \A g \in 0 .. MaxId : runs'[g] = runs[g] \/ RunRight(g)'
  <2>1. runs[f] \in Workflows
      BY DEF FInv, ReportsTyped
  <2>2. /\ runs' \in [0 .. MaxId -> Workflows] /\ \A g \in 0 .. MaxId : g # f => runs'[g] = runs[g]
        /\ runs'[f].step = s /\ runs'[f].upTo = runs[f].upTo
      BY <1>2, <2>1 DEF FInv, ReportsTyped, Workflows
  <2>3. ASSUME ReportsTyped', Onward PROVE RunRight(f)'
    <3>1. PICK c \in 0 .. MaxId : c = runs[f].upTo /\ Cut(f) /\ Cut(c) /\ f < c
        BY <2>1 DEF FInv, Cuts, Workflows
    <3>2. Cut(f)' /\ Cut(c)' /\ c = runs'[f].upTo
        BY <2>2, <2>3, <3>1, CutLasts DEF FInv
    <3>3. Cut(runs[f].upTo)'
        BY <3>2 DEF Cut
    <3>. QED BY <2>2, <3>1, <3>2, <3>3 DEF RunRight
  <2>. QED BY <2>2, <2>3
<1>. QED BY <1>1, <1>2

\* A summary reads the messages of its range, and tells those it misses.
LEMMA SummarizeKeeps ==
    ASSUME Forks!ConstantsOK, FInv, NEW f \in 0 .. MaxId, Forks!SummarizeForkReport(f)
    PROVE  FInv'
<1>. DEFINE part == {m \in Forks!UpTo(runs[f].upTo) : m.id > f /\ m.kind # "summary"}
            ids == {m.id : m \in part}
<1>1. UNCHANGED <<fork, summary, messages, writing, next, raced, calls, late, reports>> /\ runs[f].step = "summarize"
    BY DEF Forks!SummarizeForkReport, Forks!forking
<1>2. CASE runs' = [runs EXCEPT ![f].step = "failed"] /\ UNCHANGED missed
  <2>1. Stored' /\ Onward
      BY <1>1, <1>2, StoreKept DEF FInv
  <2>2. runs' \in [0 .. MaxId -> Workflows] /\ (ReportsTyped' => \A g \in 0 .. MaxId : runs'[g] = runs[g] \/ RunRight(g)')
      BY <1>1, <1>2, <2>1, RunEnds
  <2>3. ReportsTyped'
      BY <1>1, <2>2 DEF FInv, ReportsTyped
  <2>4. Cut(fork.reported)' /\ Chain'
      BY <1>1, <2>1, <2>3, SameRow
  <2>. QED BY <1>1, <2>1, <2>2, <2>3, <2>4, RestKept
<1>3. CASE /\ runs' = [runs EXCEPT ![f].step = "post", ![f].part = ids]
           /\ missed' = missed \cup (Forks!Open \cap 1 .. runs[f].upTo)
  <2>1. Stored' /\ Onward /\ Forks!Open' = Forks!Open
      BY <1>1, <1>3, StoreKept DEF FInv
  <2>2. runs[f] \in Workflows
      BY DEF FInv, ReportsTyped
  <2>3. PICK c \in 0 .. MaxId : c = runs[f].upTo /\ Cut(f) /\ Cut(c) /\ f < c
      BY <1>1, <2>2 DEF FInv, Cuts, Workflows
  <2>4. PICK p \in SUBSET Nat :
            p = ids /\ \A i : i \in p <=> \E m \in messages : m.id = i /\ i <= c /\ i > f /\ m.kind # "summary"
    <3>1. ids \in SUBSET Nat /\ \A i : i \in ids <=> \E m \in messages : m.id = i /\ i <= c /\ i > f /\ m.kind # "summary"
        BY <2>3 DEF Forks!UpTo, FInv, ReportsTyped, Msgs
    <3>. QED BY <3>1
  <2>. HIDE DEF ids, part
  <2>5. /\ runs' \in [0 .. MaxId -> Workflows] /\ \A g \in 0 .. MaxId : g # f => runs'[g] = runs[g]
        /\ runs'[f].step = "post" /\ runs'[f].part = p /\ runs'[f].upTo = c
      BY <1>3, <2>2, <2>3, <2>4 DEF FInv, ReportsTyped, Workflows
  <2>6. ReportsTyped'
      BY <1>1, <2>5 DEF FInv, ReportsTyped
  <2>7. Cut(fork.reported)' /\ Chain'
      BY <1>1, <2>1, <2>6, SameRow
  <2>8. Cut(f)' /\ Cut(c)'
      BY <2>1, <2>3, <2>6, CutLasts DEF FInv
  <2>9. Whole(f, c, p)'
    <3>1. \A i \in p : f < i /\ i <= c
        BY <2>4
    <3>2. ASSUME NEW i \in Forks!Open' PROVE i \notin p /\ (i <= c => i \in missed')
      <4>1. i \in Nat \ {0} /\ \A m \in messages : m.id # i
          BY <2>1 DEF FInv, Stored, Fresh
      <4>. QED BY <4>1, <1>3, <2>1, <2>3, <2>4
    <3>3. \A m \in messages' : Forks!Reportable(m) /\ f < m.id /\ m.id <= c => m.id \in p
        BY <1>1, <2>4 DEF Forks!Reportable
    <3>4. ASSUME NEW m \in messages', m.kind = "result", m.call \notin raced' PROVE m.id \in p <=> m.call \in p
      <4>1. m \in messages /\ m \in Msgs /\ m.call < m.id
          BY <1>1, <3>4 DEF FInv, ReportsTyped, Stored, Paired
      <4>2. PICK y \in messages : y.kind = "call" /\ y.id = m.call
          BY <4>1, <3>4 DEF FInv, Stored, Paired
      <4>3. ~(m.call <= f /\ f < m.id) /\ ~(m.call <= c /\ c < m.id)
          BY <1>1, <2>3, <3>4, <4>1 DEF Cut
      <4>4. f \in Nat /\ c \in Nat /\ m.id \in Nat /\ m.call \in Nat
          BY <4>1 DEF Msgs
      <4>5. (f < m.id /\ m.id <= c) <=> (f < m.call /\ m.call <= c)
          BY <4>1, <4>3, <4>4
      <4>6. m.id \in p <=> (f < m.id /\ m.id <= c)
          BY <4>1, <3>4, <2>4, <4>4
      <4>7. m.call \in p <=> (f < m.call /\ m.call <= c)
          BY <4>2, <2>4, <4>4
      <4>. QED BY <4>5, <4>6, <4>7
    <3>5. \A m \in messages' : m.kind = "result" /\ {m.id, m.call} \cap (raced' \cup missed') = {} => (m.id \in p <=> m.call \in p)
        BY <3>4
    <3>. QED BY <2>3, <2>8, <3>1, <3>2, <3>3, <3>5 DEF Whole, Forks!Reportable
  <2>10. Cut(runs[f].upTo)'
      BY <2>5, <2>8 DEF Cut
  <2>11. Whole(f, runs[f].upTo, runs[f].part)'
      BY <2>5, <2>9, <2>10 DEF Whole
  <2>12. RunRight(f)'
      BY <2>3, <2>5, <2>8, <2>10, <2>11 DEF RunRight
  <2>. QED BY <1>1, <2>1, <2>5, <2>6, <2>7, <2>12, RestKept
<1>. QED BY <1>2, <1>3 DEF Forks!SummarizeForkReport

\* A post lands, after the last one or not at all.
LEMMA AppendKeeps ==
    ASSUME Forks!ConstantsOK, FInv, NEW a \in Sent, Whole(a.from, a.upTo, a.part),
           UNCHANGED <<messages, writing, next, raced, missed, summary>>,
           Forks!AppendForkReport(a) \/ UNCHANGED <<fork, reports>>
    PROVE  /\ fork' \in [exists : BOOLEAN, linked : BOOLEAN, summary : Nat, reported : 0 .. MaxId]
           /\ reports' \subseteq reports \cup {a}
           /\ Cut(fork.reported)' /\ Chain'
<1>. DEFINE Row == [exists : BOOLEAN, linked : BOOLEAN, summary : Nat, reported : 0 .. MaxId]
<1>1. ASSUME NEW c \in 0 .. MaxId, Cut(c), c = fork'.reported PROVE Cut(fork.reported)'
    BY <1>1 DEF Cut, Forks!Open
<1>2. CASE UNCHANGED <<fork, reports>>
  <2>1. Cut(fork.reported)'
      BY <1>1, <1>2 DEF FInv, ReportsTyped, Cuts
  <2>2. Chain'
      BY <1>2 DEF FInv, Chain
  <2>. QED BY <1>2, <2>1, <2>2 DEF FInv, ReportsTyped
<1>3. CASE Forks!AppendForkReport(a) /\ ~Forks!PostedAs(a)
  <2>1. fork.exists /\ fork.reported = a.from /\ reports' = reports \cup {a} /\ fork' = [fork EXCEPT !.reported = a.upTo]
      BY <1>3 DEF Forks!AppendForkReport, Forks!Refused
  <2>2. fork \in Row /\ a.upTo \in 0 .. MaxId /\ a.from \in 0 .. MaxId
      BY DEF FInv, ReportsTyped, Sent
  <2>3. fork' \in Row /\ fork'.reported = a.upTo /\ fork'.exists
      BY <2>1, <2>2
  <2>4. Cut(fork.reported)'
      BY <1>1, <2>2, <2>3 DEF Whole
  <2>5. a.from < a.upTo
      BY DEF Whole
  <2>6. \A q \in reports : q \in Sent /\ q.upTo <= a.from
      BY <2>1 DEF FInv, ReportsTyped, Chain
  <2>7. \A q \in reports' : q.upTo <= fork'.reported
      BY <2>1, <2>2, <2>3, <2>5, <2>6 DEF Sent, Forks!ConstantsOK
  <2>8. \A u, v \in reports' : u # v => u.upTo <= v.from \/ v.upTo <= u.from
      BY <2>1, <2>6 DEF FInv, Chain
  <2>9. ASSUME NEW i \in 1 .. fork'.reported PROVE \E u \in reports' : u.from < i /\ i <= u.upTo
    <3>1. CASE i <= a.from
      <4>1. i \in 1 .. fork.reported
          BY <3>1, <2>1, <2>2, <2>3 DEF Forks!ConstantsOK
      <4>. QED BY <4>1, <2>1 DEF FInv, Chain
    <3>2. CASE ~(i <= a.from)
        BY <3>2, <2>1, <2>2, <2>3 DEF Forks!ConstantsOK
    <3>. QED BY <3>1, <3>2
  <2>10. summary # "none"
      BY <2>1 DEF FInv, Chain
  <2>11. Chain'
      BY <2>7, <2>8, <2>9, <2>10 DEF Chain
  <2>. QED BY <2>1, <2>3, <2>4, <2>11
<1>4. CASE Forks!AppendForkReport(a) /\ Forks!PostedAs(a)
  <2>1. UNCHANGED <<fork, reports>>
      BY <1>4 DEF Forks!AppendForkReport
  <2>. QED BY <2>1, <1>2
<1>. QED BY <1>2, <1>3, <1>4

\* A workflow posts, once or more, and goes on or is over.
LEMMA PostKeeps == ASSUME Forks!ConstantsOK, FInv, NEW f \in 0 .. MaxId, Forks!PostForkReport(f) PROVE FInv'
<1>1. UNCHANGED <<summary, messages, writing, next, raced, missed, calls>> /\ runs[f].step = "post"
    BY DEF Forks!PostForkReport, Forks!writes
<1>2. runs[f] \in Workflows
    BY DEF FInv, ReportsTyped
<1>3. PICK a \in Sent : a = Forks!PostOf(f) /\ a.from = f /\ a.upTo = runs[f].upTo /\ a.part = runs[f].part
  <2>. DEFINE b == Forks!PostOf(f)
  <2>1. b \in Sent /\ b.from = f /\ b.upTo = runs[f].upTo /\ b.part = runs[f].part
      BY <1>2 DEF Forks!PostOf, Sent, Workflows
  <2>. QED BY <2>1
<1>4. /\ Forks!AppendForkReport(a) \/ UNCHANGED <<fork, reports>>
      /\ UNCHANGED runs \/ \E s \in {"done", "failed"} : runs' = [runs EXCEPT ![f].step = s]
      /\ late' \subseteq late \cup {a}
    BY <1>3 DEF Forks!PostForkReport
<1>5. Whole(a.from, a.upTo, a.part)
    BY <1>1, <1>3 DEF FInv, AllWhole
<1>6. /\ fork' \in [exists : BOOLEAN, linked : BOOLEAN, summary : Nat, reported : 0 .. MaxId]
      /\ reports' \subseteq reports \cup {a} /\ Cut(fork.reported)' /\ Chain'
    BY <1>1, <1>4, <1>3, <1>5, AppendKeeps
<1>7. Stored' /\ Onward
    BY <1>1, StoreKept DEF FInv
<1>8. runs' \in [0 .. MaxId -> Workflows] /\ (ReportsTyped' => \A g \in 0 .. MaxId : runs'[g] = runs[g] \/ RunRight(g)')
    BY <1>1, <1>4, <1>7, RunEnds
<1>9. ReportsTyped'
    BY <1>1, <1>4, <1>3, <1>6, <1>8 DEF FInv, ReportsTyped
<1>10. Whole(a.from, a.upTo, a.part)'
    BY <1>3, <1>5, <1>7, <1>9, WholeLasts DEF Sent, FInv
<1>11. \A x \in late' \cup reports' : x \in late \cup reports \/ x = a
    BY <1>4, <1>6
<1>12. \A x \in late' \cup reports' : x \in late \cup reports \/ Whole(x.from, x.upTo, x.part)'
    BY <1>10, <1>11
<1>. QED BY <1>1, <1>6, <1>7, <1>8, <1>9, <1>12, RestKept

\* A post given up on lands, or is refused.
LEMMA LateKeeps == ASSUME Forks!ConstantsOK, FInv, Forks!LatePost PROVE FInv'
<1>1. UNCHANGED <<summary, messages, writing, next, raced, missed, calls, runs>>
    BY DEF Forks!LatePost, Forks!writes
<1>2. PICK a \in late : late' = late \ {a} /\ (Forks!AppendForkReport(a) \/ UNCHANGED <<fork, reports>>)
    BY DEF Forks!LatePost
<1>3. a \in Sent /\ Whole(a.from, a.upTo, a.part)
    BY DEF FInv, ReportsTyped, AllWhole
<1>4. /\ fork' \in [exists : BOOLEAN, linked : BOOLEAN, summary : Nat, reported : 0 .. MaxId]
      /\ reports' \subseteq reports \cup {a} /\ Cut(fork.reported)' /\ Chain'
    BY <1>1, <1>2, <1>3, AppendKeeps
<1>5. Stored' /\ Onward
    BY <1>1, StoreKept DEF FInv
<1>6. ReportsTyped'
    BY <1>1, <1>2, <1>3, <1>4 DEF FInv, ReportsTyped
<1>7. \A x \in late' \cup reports' : x \in late \cup reports
    BY <1>2, <1>4
<1>. QED BY <1>1, <1>4, <1>5, <1>6, <1>7, RestKept

\* A step of something else.
LEMMA ForkStutters == ASSUME Forks!ConstantsOK, FInv, UNCHANGED Forks!vars PROVE FInv'
<1>1. UNCHANGED <<fork, summary, messages, writing, next, raced, missed, calls, runs, late, reports>>
    BY DEF Forks!vars
<1>2. Stored' /\ Onward
    BY <1>1, StoreKept DEF FInv
<1>3. ReportsTyped'
    BY <1>1 DEF FInv, ReportsTyped
<1>4. Cut(fork.reported)' /\ Chain'
    BY <1>1, <1>2, <1>3, SameRow
<1>. QED BY <1>1, <1>2, <1>3, <1>4, RestKept

-----------------------------------------------------------------------------
\* The inductive invariant of the reports holds of every step, whatever the
\* numbers of members, writers, calls, messages and faults.
THEOREM ReportsInvariant == ASSUME Forks!ConstantsOK PROVE Forks!Spec => []FInv
<1>1. Forks!Init => FInv
    BY ForkBegins
<1>2. FInv /\ [Forks!Next]_Forks!vars => FInv'
  <2>. SUFFICES ASSUME FInv, [Forks!Next]_Forks!vars PROVE FInv'
      OBVIOUS
  <2>1. CASE \/ \E u \in Members : Forks!CreateFork(u)
             \/ Forks!StartSummary \/ Forks!SummarizeConversation
             \/ \E s \in {"fork", "parent"} : Forks!Delete(s)
             \/ \E u \in Members : \E s \in {"fork", "parent"} : Forks!Leave(u, s)
      BY <2>1, SessionKeeps
  <2>2. CASE Forks!PostForkSummary
      BY <2>2, PostSummaryKeeps
  <2>3. CASE \E w \in Writers : \E k \in {"said", "step", "end"} : Forks!Insert(w, k)
      BY <2>3, InsertKeeps
  <2>4. CASE \E w \in Writers : Forks!Commit(w)
      BY <2>4, CommitKeeps
  <2>5. CASE \E r \in Requests : (\E u \in Members : Forks!Ask(r, u)) \/ Forks!RequestFails(r)
      BY <2>5, CallKeeps
  <2>6. CASE \E r \in Requests : Forks!Load(r)
      BY <2>6, LoadKeeps
  <2>7. CASE \E r \in Requests : Forks!Start(r)
      BY <2>7, ReportStarts
  <2>8. CASE \E f \in 0 .. MaxId : Forks!SummarizeForkReport(f)
      BY <2>8, SummarizeKeeps
  <2>9. CASE \E f \in 0 .. MaxId : Forks!PostForkReport(f)
      BY <2>9, PostKeeps
  <2>10. CASE Forks!LatePost
      BY <2>10, LateKeeps
  <2>11. CASE UNCHANGED Forks!vars
      BY <2>11, ForkStutters
  <2>. QED BY <2>1, <2>2, <2>3, <2>4, <2>5, <2>6, <2>7, <2>8, <2>9, <2>10, <2>11 DEF Forks!Next
<1>. QED BY <1>1, <1>2, PTL DEF Forks!Spec

\* A message up to the last one reported is in one report, whichever.
LEMMA CoveredOnce ==
    ASSUME Forks!ConstantsOK, FInv, fork.exists, NEW m \in messages, Forks!Reportable(m), m.id \notin missed
    PROVE  Cardinality(Forks!Covering(m.id)) = IF m.id <= fork.reported THEN 1 ELSE 0
<1>1. m.id \in Nat \ {0} /\ fork.reported \in Nat
    BY DEF FInv, ReportsTyped, Msgs, Forks!ConstantsOK
<1>2. \A p \in reports : /\ p.from \in Nat /\ p.upTo \in Nat /\ p.upTo <= fork.reported
                         /\ m.id \in p.part <=> (p.from < m.id /\ m.id <= p.upTo)
  <2>. SUFFICES ASSUME NEW p \in reports
                PROVE  /\ p.from \in Nat /\ p.upTo \in Nat /\ p.upTo <= fork.reported
                       /\ m.id \in p.part <=> (p.from < m.id /\ m.id <= p.upTo)
      OBVIOUS
  <2>1. p \in Sent /\ Whole(p.from, p.upTo, p.part) /\ p.upTo <= fork.reported
      BY DEF FInv, ReportsTyped, AllWhole, Chain
  <2>. QED BY <2>1 DEF Whole, Sent, Forks!ConstantsOK
<1>3. CASE m.id <= fork.reported
  <2>1. PICK p \in reports : p.from < m.id /\ m.id <= p.upTo
      BY <1>1, <1>3 DEF FInv, Chain
  <2>2. \A q \in reports : q # p => m.id \notin q.part
      BY <1>1, <1>2, <2>1 DEF FInv, Chain
  <2>3. Forks!Covering(m.id) = {p}
      BY <1>2, <2>1, <2>2 DEF Forks!Covering
  <2>. QED BY <1>3, <2>3, FS_Singleton
<1>4. CASE ~(m.id <= fork.reported)
  <2>1. Forks!Covering(m.id) = {}
      BY <1>1, <1>2, <1>4 DEF Forks!Covering
  <2>. QED BY <1>4, <2>1, FS_EmptySet
<1>. QED BY <1>3, <1>4

\* The instance counts as its module does.
LEMMA SameCount == \A S : Forks!Cardinality(S) = Cardinality(S)
BY DEF Forks!Cardinality, Cardinality

\* Every message to report is in one report and no more, a call and its
\* result in the same, whatever calls crossed, answers were lost or posts
\* came late; a fork has one summary (store/report.go, session/report.go,
\* workflow/report.go).
THEOREM MessagesAreReportedOnce == ASSUME Forks!ConstantsOK PROVE Forks!Spec => []Forks!ReportedOnce
<1>1. FInv => Forks!ReportedOnce
  <2>. SUFFICES ASSUME FInv PROVE Forks!ReportedOnce
      OBVIOUS
  <2>1. ASSUME NEW m \in messages, m.kind = "result", {m.id, m.call} \cap (raced \cup missed) = {}
        PROVE  Forks!Covering(m.id) = Forks!Covering(m.call)
      BY <2>1 DEF FInv, AllWhole, Whole, Forks!Covering
  <2>2. Cardinality({m \in messages : m.kind = "summary"}) <= 1
    <3>. DEFINE S == {m \in messages : m.kind = "summary"}
    <3>1. CASE S = {}
        BY <3>1, FS_EmptySet
    <3>2. CASE S # {}
      <4>1. PICK m \in S : S = {m}
          BY <3>2 DEF FInv, Stored, OneSummary
      <4>2. Cardinality(S) = 1
          BY <4>1, FS_Singleton
      <4>. QED BY <4>2
    <3>. QED BY <3>1, <3>2
  <2>3. fork.exists => \A m \in messages : Forks!Reportable(m) /\ m.id \notin missed =>
            Cardinality(Forks!Covering(m.id)) = IF m.id <= fork.reported THEN 1 ELSE 0
      BY CoveredOnce
  <2>. QED BY <2>1, <2>2, <2>3, SameCount DEF Forks!ReportedOnce
<1>. QED BY <1>1, ReportsInvariant, PTL
-----------------------------------------------------------------------------
(* What the server shows of a participant. *)

Wfs == [run : BOOLEAN, inbox : Seq(Messages), cur : Messages \cup {0}, at : {"none", "check", "turn", "done"},
        dropping : Seq(Messages)]
Events == [started : BOOLEAN, msg : Messages \cup {0}]
Views == [known : BOOLEAN, working : BOOLEAN, turn : Messages \cup {0}, told : BOOLEAN, trusted : BOOLEAN,
          young : BOOLEAN, pending : SUBSET Messages]
Listings == [st : {"nil", "young", "old"}, run : BOOLEAN, behind : BOOLEAN]
Caches == [value : Listings, loading : Nat]
Loads == [id : Nat, same : BOOLEAN, read : Listings]
Replies == [st : {"nil", "young"}, works : BOOLEAN, queued : Nat, behind : BOOLEAN]
Readers == [st : {"none", "gets", "waits", "asks", "asked", "done"}, quiet : BOOLEAN, waits : Nat,
            working : BOOLEAN, queued : Nat, same : BOOLEAN, read : Replies]
Deliveries == {"none", "stored", "refused", "calls", "expected", "sent", "done"}

\* How far a participant is with its message, and what it drops.
Placed(x) ==
    /\ x.at = "none" <=> x.cur = 0
    /\ x.at \in {"check", "done"} => x.dropping = <<>>

ShownTyped ==
    /\ wf \in Wfs /\ Placed(wf) /\ listed \in BOOLEAN /\ events \in Seq(Events) /\ observing \in BOOLEAN
    /\ view \in Views /\ IsFiniteSet(view.pending)
    /\ cache \in Caches /\ loads \subseteq Loads /\ IsFiniteSet(loads)
    /\ states \in Replies /\ dlv \in [Messages \cup {0} -> Deliveries] /\ reader \in Readers

\* A load that read its listing before the caches were invalidated is of the
\* generation before.
NoneBehind == Turns!NoStaleListing /\ \A l \in loads : l.same => ~l.read.behind

\* What the events tell of a participant: its turn, and what waits, the message
\* it checks and those it drops before its inbox.
Turn == IF wf.at = "turn" THEN wf.cur ELSE 0
Queue == (IF wf.at = "check" THEN <<wf.cur>> ELSE <<>>) \o wf.dropping \o wf.inbox

\* w tells the events on their way: the turn the server knows before each, and
\* the participant's after them all.
Tells(w) ==
    /\ w \in [0 .. Len(events) -> Messages \cup {0}]
    /\ view.working => view.turn # 0
    /\ w[0] = IF view.working THEN view.turn ELSE 0
    /\ w[Len(events)] = Turn
    /\ \A i \in 1 .. Len(events) :
          IF events[i].started THEN w[i - 1] = 0 /\ w[i] = events[i].msg /\ events[i].msg # 0
          ELSE w[i] = IF w[i - 1] = events[i].msg THEN 0 ELSE w[i - 1]

Inbox == {Queue[i] : i \in 1 .. Len(Queue)}

\* The event of m that takes it off what waits is on its way.
ToCome(w, m) == \E i \in 1 .. Len(events) : events[i].msg = m /\ w[i - 1] # m

Met(w, m) == (\E i \in 0 .. Len(events) : w[i] = m) \/ \E i \in 1 .. Len(events) : events[i].msg = m

\* A message has one place: with its sender, in the participant's queue, or
\* with its turn, whose events are its first and its last.
OnePlace(w) ==
    /\ \A m \in Messages : dlv[m] \notin {"sent", "done"} => m \notin Inbox
    /\ \A m \in Messages : dlv[m] \notin {"sent", "done"} \/ m \in Inbox => ~Met(w, m)
    /\ \A i, j \in 1 .. Len(Queue) : Queue[i] = Queue[j] => i = j
    /\ \A i \in 1 .. Len(events) : \A j \in 1 .. i - 1 :
          events[i].msg # 0 /\ events[i].msg \in {w[j], events[j].msg} => w[i - 1] = events[i].msg

\* What waits, as the server knows it.
Awaited(w) ==
    \A m \in Messages : m \in view.pending <=> dlv[m] = "expected" \/ m \in Inbox \/ ToCome(w, m)

Followed == \E w \in [0 .. Len(events) -> Messages \cup {0}] : Tells(w) /\ OnePlace(w) /\ Awaited(w)

\* What is known of a participant that runs, or is about to.
Heard == wf.run \/ (\E m \in Messages : dlv[m] = "expected") => view.known
Runs == wf.cur # 0 \/ Queue # <<>> => wf.run

ListingRight ==
    /\ listed /\ (cache.value.st = "young" => cache.value.run)
    /\ \A l \in loads : l.read.st # "nil" => l.read.run

\* Past its trust, what the server knows of a participant at work is what
\* every listing says.
Lags ==
    /\ \A m \in Messages : dlv[m] = "expected" => view.young
    /\ ~view.trusted /\ view.working /\ Turn = view.turn => ListingRight
    /\ ~view.trusted /\ ~view.young /\ Queue # <<>> => ListingRight

\* The caches are still to be invalidated.
Unsettled == events # <<>> \/ observing \/ \E m \in Messages : dlv[m] = "sent"

\* An answer is the participant's, or was before it went on without telling.
IsState(q) == q.behind \/ ((q.works <=> wf.cur # 0) /\ q.queued = Len(wf.inbox))

\* A request shows what the events tell, or what the participant answers.
Shown(b, n) ==
    \/ (b <=> Turn # 0) /\ n = Len(Queue)
    \/ (b <=> wf.cur # 0) /\ n = Len(wf.inbox)

\* A request that nothing disturbed, and the answers kept.
Reads ==
    /\ reader.quiet => Turns!Quiet
    /\ reader.st = "done" => reader.quiet /\ Shown(reader.working, reader.queued)
    /\ reader.st = "asked" => reader.read.st # "nil"
    /\ reader.st = "asked" /\ reader.quiet => IsState(reader.read)
    /\ reader.st = "asked" /\ reader.same => IsState(reader.read) \/ Unsettled
    /\ states.st # "nil" => IsState(states) \/ Unsettled

VInv ==
    /\ ShownTyped /\ NoneBehind
    /\ viewFaults = {} => Followed /\ Heard /\ Runs /\ Lags /\ Reads

\* No message, no listing, no answer and no request are of their kinds.
LEMMA Nones ==
    /\ Turns!NoMsg = 0 /\ Turns!Relayed = 0
    /\ Turns!NoTurns \in Views /\ Turns!NoTurns.pending = {}
    /\ Turns!NoValue \in Listings /\ Turns!NoValue.st = "nil" /\ ~Turns!NoValue.behind
    /\ Turns!NoState \in Replies /\ Turns!NoState.st = "nil"
    /\ Turns!NoRequest \in Readers /\ Turns!NoRequest.st = "none" /\ ~Turns!NoRequest.quiet
BY DEF Turns!NoMsg, Turns!Relayed, Turns!NoTurns, Views, Turns!NoValue, Listings, Turns!NoState, Replies,
       Turns!NoRequest, Readers

\* A request disturbed.
LEMMA DisturbIs ==
    ASSUME reader \in Readers
    PROVE  /\ Turns!Disturb(reader) \in Readers /\ Turns!Disturb(reader).st # "done" /\ ~Turns!Disturb(reader).quiet
           /\ Turns!Disturb(reader).st = "asked" =>
                /\ reader.st = "asked" /\ Turns!Disturb(reader).read = reader.read
                /\ Turns!Disturb(reader).same = reader.same
<1>1. CASE reader.st = "done"
    BY <1>1, Nones DEF Turns!Disturb
<1>2. CASE reader.st # "done"
  <2>1. Turns!Disturb(reader) = [reader EXCEPT !.quiet = FALSE]
      BY <1>2 DEF Turns!Disturb
  <2>. QED BY <1>2, <2>1 DEF Readers
<1>. QED BY <1>1, <1>2

\* An answer left behind.
LEMMA BehindIs ==
    ASSUME NEW q \in Replies
    PROVE  /\ Turns!Behind(q) \in Replies /\ Turns!Behind(q).st = q.st
           /\ q.st # "nil" => Turns!Behind(q).behind
<1>. DEFINE b == q.st # "nil"
<1>1. Turns!Behind(q) = [q EXCEPT !.behind = b] /\ b \in BOOLEAN
    BY DEF Turns!Behind
<1>2. [q EXCEPT !.behind = b] = [st |-> q.st, works |-> q.works, queued |-> q.queued, behind |-> b]
    BY DEF Replies
<1>. QED BY <1>1, <1>2 DEF Replies

\* A participant goes on without telling.
LEMMA QuietlyIs ==
    ASSUME ShownTyped, NEW nxt, Turns!Quietly(nxt)
    PROVE  /\ wf' = nxt /\ UNCHANGED <<listed, events, observing, view, cache, loads, dlv>>
           /\ states' \in Replies /\ states'.st = states.st /\ (states'.st # "nil" => states'.behind)
           /\ reader' \in Readers /\ reader'.st # "done" /\ ~reader'.quiet
           /\ reader'.st = "asked" =>
                reader.st = "asked" /\ reader'.read.st = reader.read.st /\ (reader.read.st # "nil" => reader'.read.behind)
<1>. DEFINE d == Turns!Disturb(reader)
<1>1. /\ wf' = nxt /\ UNCHANGED <<listed, events, observing, view, cache, loads, dlv>>
      /\ states' = Turns!Behind(states) /\ reader' = [d EXCEPT !.read = Turns!Behind(d.read)]
    BY DEF Turns!Quietly
<1>2. /\ d \in Readers /\ d.st # "done" /\ ~d.quiet
      /\ d.st = "asked" => reader.st = "asked" /\ d.read = reader.read
    BY DisturbIs DEF ShownTyped
<1>. HIDE DEF d
<1>3. d.read \in Replies /\ states \in Replies
    BY <1>2 DEF Readers, ShownTyped
<1>4. reader' \in Readers /\ reader'.st = d.st /\ reader'.quiet = d.quiet /\ reader'.read = Turns!Behind(d.read)
    BY <1>1, <1>2, <1>3, BehindIs DEF Readers
<1>. QED BY <1>1, <1>2, <1>3, <1>4, BehindIs

\* The same participant, the same turn and queue.
LEMMA SameWf == ASSUME wf' = wf PROVE Turn' = Turn /\ Queue' = Queue
    BY DEF Turn, Queue

\* What a participant's turn and queue are, wherever it is.
LEMMA QueueIs ==
    ASSUME Turns!ConstantsOK, ShownTyped
    PROVE  /\ Turn \in Messages \cup {0} /\ Queue \in Seq(Messages)
           /\ wf.at = "check" => Turn = 0 /\ wf.cur \in Messages /\ Queue = <<wf.cur>> \o wf.inbox
           /\ wf.at = "turn" => Turn = wf.cur /\ wf.cur \in Messages /\ Queue = wf.dropping \o wf.inbox
           /\ wf.at \in {"none", "done"} => Turn = 0 /\ Queue = wf.dropping \o wf.inbox
           /\ wf.at \in {"check", "done"} => wf.dropping = <<>>
<1>1. /\ wf.inbox \in Seq(Messages) /\ wf.dropping \in Seq(Messages) /\ wf.cur \in Messages \cup {0}
      /\ wf.at \in {"none", "check", "turn", "done"} /\ Placed(wf)
    BY DEF ShownTyped, Wfs
<1>2. wf.at # "none" => wf.cur \in Messages
    BY <1>1 DEF Placed
<1>3. \A q \in Seq(Messages) : <<>> \o q = q
    OBVIOUS
<1>4. CASE wf.at = "check"
  <2>1. wf.dropping = <<>> /\ <<wf.cur>> \in Seq(Messages) /\ <<wf.cur>> \o <<>> = <<wf.cur>>
      BY <1>1, <1>2, <1>4 DEF Placed
  <2>2. Queue = <<wf.cur>> \o wf.inbox
      BY <1>4, <2>1 DEF Queue
  <2>. QED BY <1>1, <1>2, <1>4, <2>1, <2>2 DEF Turn
<1>5. CASE wf.at # "check"
  <2>1. Queue = wf.dropping \o wf.inbox
      BY <1>1, <1>3, <1>5 DEF Queue
  <2>2. wf.at = "turn" => Turn = wf.cur
      BY DEF Turn
  <2>3. wf.at # "turn" => Turn = 0
      BY DEF Turn
  <2>4. Queue \in Seq(Messages)
      BY <1>1, <2>1
  <2>5. wf.at = "done" => wf.dropping = <<>>
      BY <1>1 DEF Placed
  <2>. QED BY <1>1, <1>2, <1>5, <2>1, <2>2, <2>3, <2>4, <2>5
<1>. QED BY <1>4, <1>5

\* The caches invalidated.
LEMMA InvalidateIs ==
    ASSUME ShownTyped, Turns!Invalidate
    PROVE  /\ cache' \in Caches /\ cache'.value = Turns!NoValue
           /\ states' = Turns!NoState
           /\ loads' \subseteq Loads /\ IsFiniteSet(loads') /\ (\A l \in loads' : ~l.same)
           /\ \A l \in loads' : \E k \in loads : l.read.st = k.read.st /\ l.read.run = k.read.run
           /\ reader' \in Readers /\ reader'.st # "done" /\ ~reader'.quiet /\ ~reader'.same
           /\ reader'.st = "asked" => reader.st = "asked" /\ reader'.read = reader.read
<1>1. cache' = [value |-> Turns!NoValue, loading |-> 0] /\ states' = Turns!NoState
      /\ reader' = [Turns!Disturb(reader) EXCEPT !.same = FALSE]
    BY DEF Turns!Invalidate
<1>2. cache' \in Caches /\ cache'.value = Turns!NoValue
    BY <1>1, Nones DEF Caches
<1>3. reader' \in Readers /\ reader'.st # "done" /\ ~reader'.quiet /\ ~reader'.same
      /\ (reader'.st = "asked" => reader.st = "asked" /\ reader'.read = reader.read)
    BY <1>1, DisturbIs DEF ShownTyped, Readers
<1>. DEFINE B(l) == [l EXCEPT !.same = FALSE, !.read.behind = l.read.st # "nil"]
<1>4. loads' = {B(l) : l \in loads}
    BY DEF Turns!Invalidate
<1>5. ASSUME NEW l \in loads
      PROVE  B(l) \in Loads /\ ~B(l).same /\ B(l).read.st = l.read.st /\ B(l).read.run = l.read.run
  <2>1. l \in Loads /\ l.read \in Listings
      BY DEF ShownTyped, Loads
  <2>2. B(l) = [id |-> l.id, same |-> FALSE, read |-> [l.read EXCEPT !.behind = l.read.st # "nil"]]
    <3>. DEFINE v == l.read.st # "nil"
    <3>1. B(l) = [l EXCEPT !.same = FALSE, !.read.behind = v]
        OBVIOUS
    <3>. HIDE DEF v, B
    <3>. QED BY <2>1, <3>1 DEF Loads, v
  <2>3. [l.read EXCEPT !.behind = l.read.st # "nil"] \in Listings
        /\ [l.read EXCEPT !.behind = l.read.st # "nil"].st = l.read.st
        /\ [l.read EXCEPT !.behind = l.read.st # "nil"].run = l.read.run
      BY <2>1 DEF Listings
  <2>. QED BY <2>1, <2>2, <2>3 DEF Loads
<1>6. IsFiniteSet(loads')
  <2>. DEFINE f == [l \in loads |-> B(l)]
  <2>1. f \in Surjection(loads, loads')
    <3>1. f \in [loads -> loads']
        BY <1>4
    <3>2. \A x \in loads' : \E l \in loads : f[l] = x
        BY <1>4
    <3>. HIDE DEF f
    <3>. QED BY <3>1, <3>2 DEF Surjection
  <2>. QED BY <2>1, FS_Surjection DEF ShownTyped
<1>. HIDE DEF B
<1>7. loads' \subseteq Loads /\ \A l \in loads' : ~l.same /\ \E k \in loads : l.read.st = k.read.st /\ l.read.run = k.read.run
    BY <1>4, <1>5
<1>. QED BY <1>1, <1>2, <1>3, <1>6, <1>7

\* The server's counts are numbers.
LEMMA Counts ==
    ASSUME ShownTyped
    PROVE  /\ Turns!Cardinality(loads) = Cardinality(loads) /\ Cardinality(loads) \in Nat
           /\ Turns!Cardinality(view.pending) = Cardinality(view.pending) /\ Cardinality(view.pending) \in Nat
<1>1. \A S : Turns!Cardinality(S) = Cardinality(S)
    BY DEF Turns!Cardinality, Cardinality
<1>. QED BY <1>1, FS_CardinalityType DEF ShownTyped

\* Of one number more than there are loads, one is free.
LEMMA FreeNumber ==
    ASSUME NEW L, IsFiniteSet(L)
    PROVE  Cardinality(L) \in Nat /\ \E i \in 1 .. Cardinality(L) + 1 : \A l \in L : l.id # i
<1>1. PICK n \in Nat : n = Cardinality(L)
    BY FS_CardinalityType
<1>2. \E i \in 1 .. n + 1 : \A l \in L : l.id # i
  <2>. SUFFICES ASSUME \A i \in 1 .. n + 1 : \E l \in L : l.id = i PROVE FALSE
      OBVIOUS
  <2>. DEFINE f == [i \in 1 .. n + 1 |-> CHOOSE l \in L : l.id = i]
              I == 1 .. n + 1
  <2>1. \A i \in I : f[i] \in L /\ f[i].id = i
      OBVIOUS
  <2>2. f \in [I -> L]
      BY <2>1
  <2>3. IsFiniteSet(I) /\ Cardinality(I) = n + 1
    <3>1. 1 \in Int /\ n + 1 \in Int /\ ~(1 > n + 1) /\ (n + 1) - 1 + 1 = n + 1
        OBVIOUS
    <3>. QED BY <3>1, FS_Interval
  <2>. HIDE DEF f, I
  <2>4. Cardinality(L) < Cardinality(I)
      BY <1>1, <2>3
  <2>5. PICK x, y \in I : x # y /\ f[x] = f[y]
      BY <2>2, <2>3, <2>4, FS_PigeonHole
  <2>. QED BY <2>1, <2>5
<1>. QED BY <1>1, <1>2

\* A load begun has a number no other has.
LEMMA LoadBegins ==
    ASSUME ShownTyped, Turns!StartLoad
    PROVE  /\ cache' \in Caches /\ cache'.value = cache.value
           /\ \E i \in Nat : loads' = loads \cup {[id |-> i, same |-> TRUE, read |-> Turns!NoValue]}
<1>. DEFINE n == Cardinality(loads)
            Free(i) == \A l \in loads : l.id # i
            c == CHOOSE i \in 1 .. n + 1 : Free(i)
<1>1. cache' = [cache EXCEPT !.loading = c] /\ loads' = loads \cup {[id |-> c, same |-> TRUE, read |-> Turns!NoValue]}
    BY Counts DEF Turns!StartLoad
<1>2. n \in Nat
    BY Counts
<1>3. \E i \in 1 .. n + 1 : Free(i)
    BY FreeNumber DEF ShownTyped
<1>4. c \in Nat
  <2>1. c \in 1 .. n + 1
      BY <1>3
  <2>. QED BY <2>1, <1>2
<1>. HIDE DEF c
<1>. QED BY <1>1, <1>4 DEF ShownTyped, Caches

\* Before anything, no turn is known.
LEMMA ShownBegins == ASSUME Turns!ConstantsOK, Turns!Init PROVE VInv
<1>. USE Nones DEF Turns!Init
<1>1. /\ wf = [run |-> FALSE, inbox |-> <<>>, cur |-> 0, at |-> "none", dropping |-> <<>>]
      /\ dlv = [m \in Messages \cup {0} |-> "none"] /\ view = Turns!NoTurns /\ events = <<>>
    OBVIOUS
<1>a. Queue = <<>> /\ Turn = 0 /\ ~wf.run /\ wf.cur = 0
  <2>1. (<<>> \o <<>>) \o <<>> = <<>>
      OBVIOUS
  <2>. QED BY <1>1, <2>1 DEF Turn, Queue
<1>2. view \in Views /\ view.pending = {} /\ ~view.working /\ ~view.trusted
    BY <1>1 DEF Turns!NoTurns
<1>3. ShownTyped
  <2>1. wf \in Wfs /\ Placed(wf) /\ dlv \in [Messages \cup {0} -> Deliveries] /\ events \in Seq(Events)
      BY <1>1 DEF Wfs, Deliveries, Placed
  <2>2. cache \in Caches
      BY DEF Caches
  <2>. QED BY <1>2, <2>1, <2>2, FS_EmptySet DEF ShownTyped
<1>4. NoneBehind
    BY DEF NoneBehind, Turns!NoStaleListing
<1>5. Followed
  <2>. DEFINE w == [i \in 0 .. 0 |-> 0]
  <2>1. w \in [0 .. Len(events) -> Messages \cup {0}] /\ w[0] = 0 /\ Len(events) = 0
      BY <1>1
  <2>2. Inbox = {} /\ Len(Queue) = 0
      BY <1>a DEF Inbox
  <2>3. \A i \in 0 .. 0 : w[i] = 0
      OBVIOUS
  <2>. HIDE DEF w
  <2>4. Tells(w)
      BY <1>1, <1>2, <1>a, <2>1 DEF Tells
  <2>5. \A m \in Messages : ~Met(w, m)
      BY <2>1, <2>3 DEF Met, Turns!ConstantsOK
  <2>6. OnePlace(w)
      BY <2>1, <2>2, <2>5 DEF OnePlace
  <2>7. Awaited(w)
      BY <1>1, <1>2, <2>1, <2>2 DEF Awaited, ToCome
  <2>. QED BY <2>1, <2>4, <2>6, <2>7 DEF Followed
<1>6. Heard /\ Runs /\ Lags
    BY <1>1, <1>2, <1>a DEF Heard, Runs, Lags
<1>7. Reads
    BY DEF Reads
<1>. QED BY <1>3, <1>4, <1>5, <1>6, <1>7 DEF VInv

\* The variables of each kind of step.
LEMMA QuietTypedOf ==
    ASSUME ShownTyped, NoneBehind, NEW nxt, Turns!Quietly(nxt), nxt \in Wfs, Placed(nxt)
    PROVE  ShownTyped' /\ NoneBehind'
<1>2. /\ wf' = nxt /\ UNCHANGED <<listed, events, observing, view, cache, loads, dlv>>
      /\ states' \in Replies /\ reader' \in Readers
    BY QuietlyIs
<1>3. ShownTyped'
    BY <1>2 DEF ShownTyped
<1>4. NoneBehind'
    BY <1>2 DEF NoneBehind, Turns!NoStaleListing
<1>. QED BY <1>3, <1>4

LEMMA QuietTyped ==
    ASSUME Turns!ConstantsOK, ShownTyped, NoneBehind, Turns!Takes \/ Turns!TurnOver \/ Turns!Clear \/ Turns!Close
    PROVE  ShownTyped' /\ NoneBehind'
<1>1. /\ wf \in Wfs /\ wf.inbox \in Seq(Messages) /\ wf.dropping \in Seq(Messages)
      /\ wf.cur \in Messages \cup {0} /\ Placed(wf) /\ 0 \notin Messages
    BY Nones DEF ShownTyped, Wfs, Turns!ConstantsOK
<1>2. CASE Turns!Takes
  <2>. DEFINE nxt == [wf EXCEPT !.cur = Head(wf.inbox), !.inbox = Tail(wf.inbox), !.at = "check"]
  <2>1. Turns!Quietly(nxt) /\ wf.inbox # <<>> /\ wf.dropping = <<>>
      BY <1>2 DEF Turns!Takes
  <2>a. Head(wf.inbox) \in Messages /\ Tail(wf.inbox) \in Seq(Messages)
      BY <1>1, <2>1
  <2>b. PICK h, t : h = Head(wf.inbox) /\ t = Tail(wf.inbox)
      OBVIOUS
  <2>2. h \in Messages /\ t \in Seq(Messages) /\ h = Head(wf.inbox) /\ t = Tail(wf.inbox)
      BY <2>a, <2>b
  <2>3. nxt = [wf EXCEPT !.cur = h, !.inbox = t, !.at = "check"]
      BY <2>2
  <2>. HIDE DEF nxt
  <2>4. nxt \in Wfs /\ nxt.cur = h /\ nxt.at = "check" /\ nxt.dropping = wf.dropping
      BY <1>1, <2>2, <2>3 DEF Wfs
  <2>5. Placed(nxt)
      BY <1>1, <2>1, <2>2, <2>4 DEF Placed
  <2>. QED BY <2>1, <2>4, <2>5, QuietTypedOf
<1>3. CASE Turns!TurnOver
  <2>. DEFINE nxt == [wf EXCEPT !.cur = 0, !.at = "none"]
  <2>1. Turns!Quietly(nxt)
      BY <1>3, Nones DEF Turns!TurnOver
  <2>2. nxt \in Wfs /\ nxt.cur = 0 /\ nxt.at = "none"
      BY <1>1 DEF Wfs
  <2>. HIDE DEF nxt
  <2>3. Placed(nxt)
      BY <2>2 DEF Placed
  <2>. QED BY <2>1, <2>2, <2>3, QuietTypedOf
<1>4. CASE Turns!Clear
  <2>. DEFINE c == IF wf.at = "turn" THEN wf.cur ELSE 0
              a == IF wf.at = "turn" THEN wf.at ELSE "none"
              nxt == [wf EXCEPT !.inbox = <<>>, !.dropping = wf.inbox, !.cur = c, !.at = a]
  <2>1. Turns!Quietly(nxt)
      BY <1>4, Nones DEF Turns!Clear
  <2>3. c \in Messages \cup {0} /\ a \in {"none", "turn"} /\ (a = "none" <=> c = 0) /\ <<>> \in Seq(Messages)
      BY <1>1 DEF Placed
  <2>. HIDE DEF a, c
  <2>2. nxt \in Wfs /\ nxt.cur = c /\ nxt.at = a
      BY <1>1, <2>3 DEF Wfs
  <2>. HIDE DEF nxt
  <2>4. Placed(nxt)
      BY <2>2, <2>3 DEF Placed
  <2>. QED BY <2>1, <2>2, <2>4, QuietTypedOf
<1>5. CASE Turns!Close
  <2>. DEFINE nxt == [wf EXCEPT !.run = FALSE]
  <2>1. Turns!Quietly(nxt)
      BY <1>5 DEF Turns!Close
  <2>2. nxt \in Wfs /\ nxt.cur = wf.cur /\ nxt.at = wf.at /\ nxt.dropping = wf.dropping
      BY <1>1 DEF Wfs
  <2>. HIDE DEF nxt
  <2>3. Placed(nxt)
      BY <1>1, <2>2 DEF Placed
  <2>. QED BY <2>1, <2>2, <2>3, QuietTypedOf
<1>. QED BY <1>2, <1>3, <1>4, <1>5

LEMMA TellingTypedOf ==
    ASSUME ShownTyped, NoneBehind, NEW nxt, NEW b \in BOOLEAN, NEW m \in Messages \cup {0},
           Turns!Telling(nxt, b, m), nxt \in Wfs, Placed(nxt)
    PROVE  ShownTyped' /\ NoneBehind'
<1>. DEFINE e == [started |-> b, msg |-> m]
<1>2. /\ wf' = nxt /\ UNCHANGED <<listed, observing, view, cache, loads, states, dlv>>
      /\ reader' = Turns!Disturb(reader) /\ events' = Append(events, e) /\ e \in Events
    BY DEF Turns!Telling, Turns!Disturbed, Events
<1>. HIDE DEF e
<1>3. events' \in Seq(Events) /\ reader' \in Readers
    BY <1>2, DisturbIs DEF ShownTyped
<1>4. ShownTyped'
    BY <1>2, <1>3 DEF ShownTyped
<1>5. NoneBehind'
    BY <1>2 DEF NoneBehind, Turns!NoStaleListing
<1>. QED BY <1>4, <1>5

LEMMA TellingTyped ==
    ASSUME Turns!ConstantsOK, ShownTyped, NoneBehind, Turns!TurnStarted \/ Turns!TurnDone \/ Turns!Dropped
    PROVE  ShownTyped' /\ NoneBehind'
<1>1. /\ wf \in Wfs /\ wf.inbox \in Seq(Messages) /\ wf.dropping \in Seq(Messages)
      /\ wf.cur \in Messages \cup {0} /\ Placed(wf)
    BY DEF ShownTyped, Wfs
<1>2. CASE Turns!TurnStarted
  <2>. DEFINE nxt == [wf EXCEPT !.at = "turn"]
  <2>1. Turns!Telling(nxt, TRUE, wf.cur) /\ wf.at = "check"
      BY <1>2 DEF Turns!TurnStarted
  <2>2. nxt \in Wfs /\ nxt.cur = wf.cur /\ nxt.at = "turn" /\ nxt.dropping = wf.dropping
      BY <1>1 DEF Wfs
  <2>. HIDE DEF nxt
  <2>3. Placed(nxt)
      BY <1>1, <2>1, <2>2 DEF Placed
  <2>. QED BY <1>1, <2>1, <2>2, <2>3, TellingTypedOf
<1>3. CASE Turns!TurnDone
  <2>. DEFINE nxt == [wf EXCEPT !.at = "done"]
  <2>1. Turns!Telling(nxt, FALSE, wf.cur) /\ wf.at \in {"check", "turn"} /\ wf.dropping = <<>>
      BY <1>3 DEF Turns!TurnDone
  <2>2. nxt \in Wfs /\ nxt.cur = wf.cur /\ nxt.at = "done" /\ nxt.dropping = wf.dropping
      BY <1>1 DEF Wfs
  <2>. HIDE DEF nxt
  <2>3. Placed(nxt)
      BY <1>1, <2>1, <2>2 DEF Placed
  <2>. QED BY <1>1, <2>1, <2>2, <2>3, TellingTypedOf
<1>4. CASE Turns!Dropped
  <2>. DEFINE nxt == [wf EXCEPT !.dropping = Tail(wf.dropping)]
  <2>1. Turns!Telling(nxt, FALSE, Head(wf.dropping)) /\ wf.dropping # <<>>
      BY <1>4 DEF Turns!Dropped
  <2>a. Head(wf.dropping) \in Messages /\ Tail(wf.dropping) \in Seq(Messages)
      BY <1>1, <2>1
  <2>b. PICK h, t : h = Head(wf.dropping) /\ t = Tail(wf.dropping)
      OBVIOUS
  <2>2. h \in Messages /\ t \in Seq(Messages) /\ h = Head(wf.dropping) /\ t = Tail(wf.dropping)
      BY <2>a, <2>b
  <2>3. nxt = [wf EXCEPT !.dropping = t]
      BY <2>2
  <2>. HIDE DEF nxt
  <2>4. nxt \in Wfs /\ nxt.cur = wf.cur /\ nxt.at = wf.at
      BY <1>1, <2>2, <2>3 DEF Wfs
  <2>5. Placed(nxt)
      BY <1>1, <2>1, <2>4 DEF Placed
  <2>. QED BY <2>1, <2>2, <2>4, <2>5, TellingTypedOf
<1>. QED BY <1>2, <1>3, <1>4

LEMMA WorkflowTyped ==
    ASSUME Turns!ConstantsOK, ShownTyped, NoneBehind, Turns!RelayFailed \/ Turns!Listed
    PROVE  ShownTyped' /\ NoneBehind'
<1>1. UNCHANGED <<wf, observing, view, cache, loads, states>> /\ reader' = Turns!Disturb(reader)
    BY DEF Turns!RelayFailed, Turns!Listed, Turns!Disturbed
<1>2. events' \in Seq(Events) /\ listed' \in BOOLEAN /\ dlv' \in [Messages \cup {0} -> Deliveries]
  <2>1. CASE Turns!RelayFailed
    <3>1. UNCHANGED <<listed, wf>> /\ dlv' = [dlv EXCEPT ![0] = "done"]
          /\ events' = Append(events, [started |-> FALSE, msg |-> 0])
        BY <2>1, Nones DEF Turns!RelayFailed
    <3>2. [started |-> FALSE, msg |-> 0] \in Events /\ events \in Seq(Events)
        BY DEF ShownTyped, Events
    <3>3. events' \in Seq(Events)
        BY <3>1, <3>2
    <3>. QED BY <3>1, <3>3 DEF ShownTyped, Deliveries
  <2>2. CASE Turns!Listed
      BY <2>2 DEF Turns!Listed, ShownTyped, Wfs
  <2>. QED BY <2>1, <2>2
<1>3. reader' \in Readers
    BY <1>1, DisturbIs DEF ShownTyped
<1>4. ShownTyped'
    BY <1>1, <1>2, <1>3 DEF ShownTyped
<1>5. NoneBehind'
    BY <1>1 DEF NoneBehind, Turns!NoStaleListing
<1>. QED BY <1>4, <1>5

\* What an event tells.
LEMMA SetIs ==
    ASSUME ShownTyped, NEW e \in Events
    PROVE  LET v == Turns!Set(e) IN
           /\ v \in Views /\ v.pending = view.pending \ {e.msg} /\ v.known /\ v.young = view.young
           /\ \/ e.started /\ v.working /\ v.turn = e.msg /\ v.trusted
              \/ ~e.started /\ (~view.working \/ view.turn = e.msg) /\ ~v.working /\ v.trusted
              \/ /\ ~e.started /\ view.working /\ view.turn # e.msg
                 /\ v.working /\ v.turn = view.turn /\ v.trusted = view.trusted
<1>. DEFINE p == [view EXCEPT !.known = TRUE, !.pending = view.pending \ {e.msg}]
<1>1. /\ p \in Views /\ p.pending = view.pending \ {e.msg} /\ p.known /\ p.young = view.young
      /\ p.working = view.working /\ p.turn = view.turn /\ p.trusted = view.trusted
    BY DEF ShownTyped, Views
<1>2. Turns!Set(e) = IF e.started
                     THEN [p EXCEPT !.working = TRUE, !.turn = e.msg, !.told = TRUE, !.trusted = TRUE]
                     ELSE IF ~p.working \/ p.turn = e.msg
                     THEN [p EXCEPT !.working = FALSE, !.turn = e.msg, !.told = TRUE, !.trusted = TRUE]
                     ELSE p
    BY DEF Turns!Set
<1>. HIDE DEF p
<1>3. e.started \in BOOLEAN /\ e.msg \in Messages \cup {0}
    BY DEF Events
<1>4. CASE e.started
    BY <1>1, <1>2, <1>3, <1>4 DEF Views
<1>5. CASE ~e.started /\ (~p.working \/ p.turn = e.msg)
    BY <1>1, <1>2, <1>3, <1>5 DEF Views
<1>6. CASE ~e.started /\ ~(~p.working \/ p.turn = e.msg)
    BY <1>1, <1>2, <1>3, <1>6 DEF Views, ShownTyped
<1>. QED BY <1>4, <1>5, <1>6

LEMMA ServerTyped ==
    ASSUME Turns!ConstantsOK, ShownTyped, NoneBehind,
           \/ Turns!Observe \/ Turns!Observed \/ Turns!EventLost \/ Turns!TrustEnds \/ Turns!ValuesAge \/ Turns!Restart
    PROVE  ShownTyped' /\ NoneBehind'
<1>1. CASE Turns!Observe
  <2>1. /\ UNCHANGED <<wf, listed, cache, loads, states, dlv>> /\ reader' = Turns!Disturb(reader)
        /\ events # <<>> /\ view' = Turns!Set(Head(events)) /\ events' = Tail(events) /\ observing' = TRUE
      BY <1>1 DEF Turns!Observe, Turns!Disturbed
  <2>2. Head(events) \in Events /\ events' \in Seq(Events)
      BY <2>1 DEF ShownTyped
  <2>3. view' \in Views /\ view'.pending \subseteq view.pending
      BY <2>1, <2>2, SetIs
  <2>4. IsFiniteSet(view'.pending)
      BY <2>3, FS_Subset DEF ShownTyped
  <2>5. reader' \in Readers
      BY <2>1, DisturbIs DEF ShownTyped
  <2>. QED BY <2>1, <2>2, <2>3, <2>4, <2>5 DEF ShownTyped, NoneBehind, Turns!NoStaleListing
<1>2. CASE Turns!Observed
  <2>1. Turns!Invalidate /\ observing' = FALSE /\ UNCHANGED <<wf, listed, events, view, dlv>>
      BY <1>2 DEF Turns!Observed
  <2>. QED BY <2>1, InvalidateIs, Nones DEF ShownTyped, NoneBehind, Turns!NoStaleListing
<1>3. CASE Turns!EventLost
  <2>1. events # <<>> /\ events' = Tail(events)
        /\ UNCHANGED <<wf, listed, observing, view, cache, loads, states, dlv, reader>>
      BY <1>3 DEF Turns!EventLost
  <2>2. events' \in Seq(Events)
      BY <2>1 DEF ShownTyped
  <2>. QED BY <2>1, <2>2 DEF ShownTyped, NoneBehind, Turns!NoStaleListing
<1>4. CASE Turns!TrustEnds
  <2>1. /\ UNCHANGED <<wf, listed, events, observing, cache, loads, states, dlv>> /\ reader' = Turns!Disturb(reader)
        /\ view' = [view EXCEPT !.trusted = FALSE, !.young = FALSE]
      BY <1>4 DEF Turns!TrustEnds, Turns!Disturbed
  <2>2. view' \in Views /\ view'.pending = view.pending
      BY <2>1 DEF ShownTyped, Views
  <2>3. reader' \in Readers
      BY <2>1, DisturbIs DEF ShownTyped
  <2>. QED BY <2>1, <2>2, <2>3 DEF ShownTyped, NoneBehind, Turns!NoStaleListing
<1>5. CASE Turns!ValuesAge
  <2>1. /\ UNCHANGED <<wf, listed, events, observing, view, loads, dlv>> /\ reader' = Turns!Disturb(reader)
        /\ cache' = [cache EXCEPT !.value.st = IF @ = "young" THEN "old" ELSE @] /\ states' = Turns!NoState
      BY <1>5 DEF Turns!ValuesAge, Turns!Disturbed
  <2>2. cache' \in Caches /\ cache'.value.behind = cache.value.behind
      BY <2>1 DEF ShownTyped, Caches, Listings
  <2>3. reader' \in Readers
      BY <2>1, DisturbIs DEF ShownTyped
  <2>. QED BY <2>1, <2>2, <2>3, Nones DEF ShownTyped, NoneBehind, Turns!NoStaleListing
<1>6. CASE Turns!Restart
  <2>1. /\ view' = Turns!NoTurns /\ cache' = [value |-> Turns!NoValue, loading |-> 0] /\ loads' = {}
        /\ states' = Turns!NoState /\ reader' = Turns!NoRequest /\ UNCHANGED <<wf, listed, events, observing, dlv>>
      BY <1>6 DEF Turns!Restart
  <2>2. cache' \in Caches /\ cache'.value = Turns!NoValue
      BY <2>1, Nones DEF Caches
  <2>. QED BY <2>1, <2>2, Nones, FS_EmptySet DEF ShownTyped, NoneBehind, Turns!NoStaleListing
<1>. QED BY <1>1, <1>2, <1>3, <1>4, <1>5, <1>6

LEMMA DeliverTyped ==
    ASSUME Turns!ConstantsOK, ShownTyped, NoneBehind, NEW m \in Messages,
           Turns!Resolve(m) \/ Turns!Expect(m) \/ Turns!SignalWithStart(m) \/ Turns!Delivered(m)
    PROVE  ShownTyped' /\ NoneBehind'
<1>1. CASE Turns!Resolve(m)
  <2>1. UNCHANGED <<wf, listed, events, observing, view, cache, loads, states, reader>>
      BY <1>1 DEF Turns!Resolve
  <2>2. \E x \in Deliveries : dlv' = [dlv EXCEPT ![m] = x]
      BY <1>1 DEF Turns!Resolve, Turns!At, Deliveries
  <2>. QED BY <2>1, <2>2 DEF ShownTyped, NoneBehind, Turns!NoStaleListing
<1>2. CASE Turns!Expect(m)
  <2>1. /\ UNCHANGED <<wf, listed, events, observing, cache, loads, states>> /\ reader' = Turns!Disturb(reader)
        /\ dlv' = [dlv EXCEPT ![m] = "expected"]
        /\ view' = [view EXCEPT !.known = TRUE, !.young = TRUE, !.pending = @ \cup {m}]
      BY <1>2 DEF Turns!Expect, Turns!At, Turns!Disturbed
  <2>2. view' \in Views /\ view'.pending = view.pending \cup {m}
      BY <2>1 DEF ShownTyped, Views
  <2>3. IsFiniteSet(view'.pending)
    <3>1. IsFiniteSet(view.pending)
        BY DEF ShownTyped
    <3>2. IsFiniteSet(view.pending \cup {m})
        BY <3>1, FS_AddElement
    <3>. QED BY <2>2, <3>2
  <2>4. reader' \in Readers
      BY <2>1, DisturbIs DEF ShownTyped
  <2>. QED BY <2>1, <2>2, <2>3, <2>4 DEF ShownTyped, NoneBehind, Turns!NoStaleListing, Deliveries
<1>3. CASE Turns!SignalWithStart(m)
  <2>1. /\ UNCHANGED <<listed, events, observing, cache, loads, states>> /\ reader' = Turns!Disturb(reader)
        /\ dlv' = [dlv EXCEPT ![m] = "sent"]
        /\ view' = view \/ view' = [view EXCEPT !.pending = @ \ {m}]
        /\ wf' = wf \/ wf' = [wf EXCEPT !.run = TRUE, !.inbox = Append(@, m)]
      BY <1>3 DEF Turns!SignalWithStart, Turns!At, Turns!Disturbed
  <2>2. view' \in Views /\ view'.pending \subseteq view.pending
      BY <2>1 DEF ShownTyped, Views
  <2>3. IsFiniteSet(view'.pending)
      BY <2>2, FS_Subset DEF ShownTyped
  <2>4. reader' \in Readers
      BY <2>1, DisturbIs DEF ShownTyped
  <2>5. wf' \in Wfs /\ Placed(wf')
    <3>1. wf.inbox \in Seq(Messages) /\ wf \in Wfs /\ Placed(wf)
        BY DEF ShownTyped, Wfs
    <3>a. Append(wf.inbox, m) \in Seq(Messages)
        BY <3>1
    <3>2. PICK q : q = Append(wf.inbox, m)
        OBVIOUS
    <3>b. q \in Seq(Messages)
        BY <3>a, <3>2
    <3>3. CASE wf' = wf
        BY <3>1, <3>3
    <3>4. CASE wf' = [wf EXCEPT !.run = TRUE, !.inbox = q]
      <4>1. wf' \in Wfs /\ wf'.cur = wf.cur /\ wf'.at = wf.at /\ wf'.dropping = wf.dropping
          BY <3>1, <3>b, <3>4 DEF Wfs
      <4>. QED BY <3>1, <4>1 DEF Placed
    <3>. QED BY <2>1, <3>2, <3>3, <3>4
  <2>. QED BY <2>1, <2>2, <2>3, <2>4, <2>5 DEF ShownTyped, NoneBehind, Turns!NoStaleListing, Deliveries
<1>4. CASE Turns!Delivered(m)
  <2>1. Turns!Invalidate /\ dlv' = [dlv EXCEPT ![m] = "done"] /\ UNCHANGED <<wf, listed, events, observing, view>>
      BY <1>4 DEF Turns!Delivered, Turns!At
  <2>2. dlv' \in [Messages \cup {0} -> Deliveries]
      BY <2>1 DEF ShownTyped, Deliveries
  <2>. QED BY <2>1, <2>2, InvalidateIs, Nones DEF ShownTyped, NoneBehind, Turns!NoStaleListing
<1>. QED BY <1>1, <1>2, <1>3, <1>4

\* A request ends, and is of interest if nothing disturbed it.
LEMMA EndedIs ==
    ASSUME NEW r \in Readers
    PROVE  /\ Turns!Ended(r) \in Readers
           /\ Turns!Ended(r).quiet => r.quiet /\ Turns!Ended(r).st = "done"
           /\ Turns!Ended(r).st \in {"none", "done"}
           /\ Turns!Ended(r).st = "done" =>
                r.quiet /\ Turns!Ended(r).quiet /\ Turns!Ended(r).working = r.working /\ Turns!Ended(r).queued = r.queued
<1>1. CASE r.quiet
  <2>1. Turns!Ended(r) = [Turns!NoRequest EXCEPT !.st = "done", !.quiet = TRUE, !.working = r.working, !.queued = r.queued]
      BY <1>1 DEF Turns!Ended
  <2>2. Turns!NoRequest \in Readers
      BY Nones
  <2>. QED BY <1>1, <2>1, <2>2 DEF Readers
<1>2. CASE ~r.quiet
  <2>1. Turns!Ended(r) = Turns!NoRequest
      BY <1>2 DEF Turns!Ended
  <2>. QED BY <2>1, Nones
<1>. QED BY <1>1, <1>2

\* What a snapshot holds.
LEMMA SnapshotIs ==
    ASSUME ShownTyped, NEW b \in BOOLEAN
    PROVE  LET s == Turns!Snapshot(b) IN s.working \in BOOLEAN /\ s.turn \in BOOLEAN /\ s.queued \in Nat
<1>1. /\ view.known \in BOOLEAN /\ view.working \in BOOLEAN /\ view.trusted \in BOOLEAN /\ view.young \in BOOLEAN
      /\ Turns!Cardinality(view.pending) \in Nat
    BY Counts DEF ShownTyped, Views
<1>. QED BY <1>1 DEF Turns!Snapshot

\* A request shows, or asks.
LEMMA ShowsIs ==
    ASSUME ShownTyped, NEW v \in Listings, NEW old \in BOOLEAN, Turns!Shows(v, old)
    PROVE  /\ reader' \in Readers
           /\ reader'.quiet => reader.quiet /\ ~old
           /\ reader'.st \in {"none", "asks", "done"}
           /\ reader'.st = "done" => LET s == Turns!Snapshot(v.run) IN
                /\ reader'.quiet /\ ~(s.working /\ ~s.turn)
                /\ reader'.working = s.working /\ reader'.queued = s.queued
<1>. DEFINE s == Turns!Snapshot(v.run)
            r == [reader EXCEPT !.working = s.working, !.queued = s.queued, !.quiet = reader.quiet /\ ~old]
<1>1. v.run \in BOOLEAN
    BY DEF Listings
<1>2. s.working \in BOOLEAN /\ s.turn \in BOOLEAN /\ s.queued \in Nat
    BY <1>1, SnapshotIs
<1>3. reader' = IF s.working /\ ~s.turn THEN [r EXCEPT !.st = "asks", !.waits = 0] ELSE Turns!Ended(r)
    BY DEF Turns!Shows
<1>. HIDE DEF s
<1>4. reader.quiet \in BOOLEAN /\ (reader.quiet /\ ~old) \in BOOLEAN
    BY DEF ShownTyped, Readers
<1>5. r \in Readers /\ r.working = s.working /\ r.queued = s.queued /\ r.quiet = (reader.quiet /\ ~old)
    BY <1>2, <1>4 DEF ShownTyped, Readers
<1>. HIDE DEF r
<1>6. CASE s.working /\ ~s.turn
  <2>1. reader' = [r EXCEPT !.st = "asks", !.waits = 0]
      BY <1>3, <1>6
  <2>2. reader' \in Readers /\ reader'.st = "asks" /\ reader'.quiet = r.quiet
      BY <2>1, <1>5 DEF Readers
  <2>. QED BY <2>2, <1>5
<1>7. CASE ~(s.working /\ ~s.turn)
  <2>1. reader' = Turns!Ended(r)
      BY <1>3, <1>7
  <2>. QED BY <2>1, <1>5, <1>7, EndedIs DEF s
<1>. QED BY <1>6, <1>7

\* Getting the listing.
LEMMA GetIs ==
    ASSUME ShownTyped, Turns!Get
    PROVE  /\ cache' \in Caches /\ cache'.value = cache.value
           /\ loads' = loads \/ \E i \in Nat : loads' = loads \cup {[id |-> i, same |-> TRUE, read |-> Turns!NoValue]}
           /\ reader.st = "gets" /\ reader' \in Readers
           /\ \/ Turns!Shows(cache.value, FALSE) /\ cache.value.st = "young"
              \/ Turns!Shows(cache.value, TRUE)
              \/ reader'.st = "waits" /\ reader'.quiet = reader.quiet
<1>1. cache \in Caches /\ cache.value \in Listings
    BY DEF ShownTyped, Caches
<1>2. CASE cache.value.st = "young"
  <2>1. Turns!Shows(cache.value, FALSE) /\ UNCHANGED <<cache, loads>> /\ reader.st = "gets"
      BY <1>2 DEF Turns!Get
  <2>. QED BY <1>1, <1>2, <2>1, ShowsIs
<1>3. CASE cache.value.st # "young"
  <2>1. Turns!StartLoad \/ UNCHANGED <<cache, loads>>
      BY <1>3 DEF Turns!Get
  <2>2. /\ cache' \in Caches /\ cache'.value = cache.value
        /\ loads' = loads \/ \E i \in Nat : loads' = loads \cup {[id |-> i, same |-> TRUE, read |-> Turns!NoValue]}
      BY <1>1, <2>1, LoadBegins
  <2>3. reader.st = "gets"
        /\ (Turns!Shows(cache.value, TRUE) \/ reader' = [reader EXCEPT !.st = "waits", !.waits = cache'.loading])
      BY <1>3 DEF Turns!Get
  <2>4. CASE Turns!Shows(cache.value, TRUE)
      BY <1>1, <2>2, <2>3, <2>4, ShowsIs
  <2>5. CASE reader' = [reader EXCEPT !.st = "waits", !.waits = cache'.loading]
    <3>1. cache'.loading \in Nat
        BY <2>2 DEF Caches
    <3>2. reader' \in Readers /\ reader'.st = "waits" /\ reader'.quiet = reader.quiet
        BY <2>5, <3>1 DEF ShownTyped, Readers
    <3>. QED BY <2>2, <2>3, <3>2
  <2>. QED BY <2>3, <2>4, <2>5
<1>. QED BY <1>2, <1>3

\* A load reads its listing, or fails.
LEMMA LoadIs ==
    ASSUME ShownTyped, NEW l \in loads, Turns!LoadVisible(l)
    PROVE  /\ UNCHANGED <<wf, listed, events, observing, view, cache, states, dlv, reader>>
           /\ \E b \in BOOLEAN : \E k \in Loads :
                /\ loads' = (loads \ {l}) \cup {k} /\ ~k.read.behind /\ k.read.run = b /\ k.read.st = "young"
                /\ b = listed \/ viewFaults' # {}
<1>1. UNCHANGED <<wf, listed, events, observing, view, cache, states, dlv, reader>>
    BY DEF Turns!LoadVisible
<1>2. ASSUME NEW b \in BOOLEAN
      PROVE  LET k == [l EXCEPT !.read = [st |-> "young", run |-> b, behind |-> FALSE]]
             IN  k \in Loads /\ ~k.read.behind /\ k.read.run = b /\ k.read.st = "young"
    BY DEF ShownTyped, Loads, Listings
<1>3. \E b \in BOOLEAN : /\ loads' = (loads \ {l}) \cup {[l EXCEPT !.read = [st |-> "young", run |-> b, behind |-> FALSE]]}
                         /\ b = listed \/ viewFaults' # {}
    BY DEF Turns!LoadVisible, Turns!Fault, ShownTyped
<1>. QED BY <1>1, <1>2, <1>3

\* A load ends.
LEMMA RefreshIs ==
    ASSUME ShownTyped, NEW l \in loads, Turns!Refresh(l)
    PROVE  /\ UNCHANGED <<wf, listed, events, observing, view, states, dlv>> /\ loads' = loads \ {l}
           /\ l.read.st # "nil" /\ l.read \in Listings
           /\ cache' \in Caches /\ cache'.value \in {cache.value, l.read} /\ (~l.same => cache'.value = cache.value)
           /\ reader' \in Readers /\ reader'.quiet = reader.quiet
           /\ reader' = reader \/ reader'.st = "gets"
<1>1. /\ UNCHANGED <<wf, listed, events, observing, view, states, dlv>> /\ loads' = loads \ {l} /\ l.read.st # "nil"
      /\ cache' = [cache EXCEPT !.value = IF l.same THEN l.read ELSE cache.value,
                                !.loading = IF cache.loading = l.id THEN 0 ELSE cache.loading]
      /\ reader' = reader \/ reader' = [reader EXCEPT !.st = "gets", !.waits = 0]
    BY DEF Turns!Refresh, Turns!Kept
<1>2. l.read \in Listings /\ l.same \in BOOLEAN
    BY DEF ShownTyped, Loads
<1>3. cache' \in Caches /\ cache'.value = IF l.same THEN l.read ELSE cache.value
    BY <1>1, <1>2 DEF ShownTyped, Caches
<1>4. reader' \in Readers /\ reader'.quiet = reader.quiet /\ (reader' = reader \/ reader'.st = "gets")
  <2>1. reader \in Readers
      BY DEF ShownTyped
  <2>2. CASE reader' = [reader EXCEPT !.st = "gets", !.waits = 0]
      BY <2>1, <2>2 DEF Readers
  <2>. QED BY <1>1, <2>1, <2>2
<1>. QED BY <1>1, <1>2, <1>3, <1>4

LEMMA ReadingTyped ==
    ASSUME Turns!ConstantsOK, ShownTyped, NoneBehind, Turns!Reading
    PROVE  ShownTyped' /\ NoneBehind'
<1>1. CASE Turns!Get
  <2>1. UNCHANGED <<wf, listed, events, observing, view, states, dlv>>
      BY <1>1 DEF Turns!Get
  <2>2. cache' \in Caches /\ cache'.value = cache.value /\ reader' \in Readers
      BY <1>1, GetIs
  <2>3. loads' \subseteq Loads /\ IsFiniteSet(loads') /\ \A l \in loads' : l.same => ~l.read.behind
    <3>1. CASE loads' = loads
        BY <3>1 DEF ShownTyped, NoneBehind
    <3>2. ASSUME NEW i \in Nat, loads' = loads \cup {[id |-> i, same |-> TRUE, read |-> Turns!NoValue]}
          PROVE  loads' \subseteq Loads /\ IsFiniteSet(loads') /\ \A l \in loads' : l.same => ~l.read.behind
      <4>1. IsFiniteSet(loads')
          BY <3>2, FS_AddElement DEF ShownTyped
      <4>. QED BY <3>2, <4>1, Nones DEF ShownTyped, NoneBehind, Loads
    <3>. QED BY <1>1, <3>1, <3>2, GetIs
  <2>. QED BY <2>1, <2>2, <2>3 DEF ShownTyped, NoneBehind, Turns!NoStaleListing
<1>2. ASSUME NEW l \in loads, Turns!LoadVisible(l) PROVE ShownTyped' /\ NoneBehind'
  <2>1. UNCHANGED <<wf, listed, events, observing, view, cache, states, dlv, reader>>
      BY <1>2, LoadIs
  <2>2. PICK k \in Loads : loads' = (loads \ {l}) \cup {k} /\ ~k.read.behind
      BY <1>2, LoadIs
  <2>3. IsFiniteSet(loads')
      BY <2>2, FS_RemoveElement, FS_AddElement DEF ShownTyped
  <2>. QED BY <2>1, <2>2, <2>3 DEF ShownTyped, NoneBehind, Turns!NoStaleListing
<1>3. ASSUME NEW l \in loads, Turns!Refresh(l) PROVE ShownTyped' /\ NoneBehind'
  <2>1. IsFiniteSet(loads')
      BY <1>3, RefreshIs, FS_RemoveElement DEF ShownTyped
  <2>2. ~cache'.value.behind
      BY <1>3, RefreshIs DEF NoneBehind, Turns!NoStaleListing
  <2>. QED BY <1>3, <2>1, <2>2, RefreshIs DEF ShownTyped, NoneBehind, Turns!NoStaleListing
<1>4. CASE Turns!Request \/ Turns!AsksKept \/ Turns!QueryState \/ Turns!StateAnswered \/ Turns!RequestEnds
  <2>1. UNCHANGED <<wf, listed, events, observing, view, cache, loads, dlv>>
      BY <1>4 DEF Turns!Request, Turns!AsksKept, Turns!QueryState, Turns!StateAnswered, Turns!RequestEnds
  <2>2. reader \in Readers /\ states \in Replies /\ reader.read \in Replies
      BY DEF ShownTyped, Readers
  <2>3. states' \in Replies
      BY <1>4, <2>2 DEF Turns!Request, Turns!AsksKept, Turns!QueryState, Turns!StateAnswered, Turns!RequestEnds
  <2>4. \A q \in Replies : Turns!Answer(q) => reader' \in Readers
    <3>. TAKE q \in Replies
    <3>. DEFINE b == reader.quiet /\ ~q.behind
                r == [reader EXCEPT !.working = q.works, !.queued = q.queued, !.quiet = b]
    <3>1. b \in BOOLEAN /\ q.works \in BOOLEAN /\ q.queued \in Nat
        BY <2>2 DEF Replies, Readers
    <3>. HIDE DEF b
    <3>2. r \in Readers
        BY <2>2, <3>1 DEF Readers
    <3>. HIDE DEF r
    <3>. QED BY <3>2, EndedIs DEF Turns!Answer, r, b
  <2>5. reader' \in Readers
    <3>1. CASE Turns!Request
      <4>1. reader' = [Turns!NoRequest EXCEPT !.st = "gets", !.quiet = Turns!Quiet]
          BY <3>1 DEF Turns!Request
      <4>2. Turns!Quiet \in BOOLEAN
          BY DEF Turns!Quiet
      <4>. QED BY <4>1, <4>2, Nones DEF Readers
    <3>2. CASE Turns!QueryState
      <4>1. [st |-> "young", works |-> Turns!Answers.works, queued |-> Turns!Answers.queued, behind |-> FALSE] \in Replies
          BY DEF ShownTyped, Wfs, Replies, Turns!Answers
      <4>. QED BY <2>2, <3>2, <4>1 DEF Turns!QueryState, Readers
    <3>. QED BY <1>4, <2>2, <2>4, <3>1, <3>2, Nones DEF Turns!AsksKept, Turns!StateAnswered, Turns!RequestEnds
  <2>. QED BY <2>1, <2>3, <2>5 DEF ShownTyped, NoneBehind, Turns!NoStaleListing
<1>. QED BY <1>1, <1>2, <1>3, <1>4 DEF Turns!Reading

-----------------------------------------------------------------------------
\* What the events tell is told still by a step that leaves them, the turn and
\* what waits as they are.
LEMMA SameTold ==
    ASSUME NEW w, Tells(w), OnePlace(w), Awaited(w), events' = events,
           view'.working = view.working, view'.turn = view.turn, view'.pending = view.pending,
           Turn' = Turn, Queue' = Queue,
           \A m \in Messages : /\ dlv'[m] = "expected" <=> dlv[m] = "expected"
                               /\ dlv'[m] \in {"sent", "done"} <=> dlv[m] \in {"sent", "done"}
    PROVE  Followed'
<1>1. Tells(w)'
    BY DEF Tells
<1>2. OnePlace(w)'
    BY DEF OnePlace, Inbox, Met
<1>3. Awaited(w)'
    BY DEF Awaited, Inbox, ToCome
<1>4. w \in [0 .. Len(events) -> Messages \cup {0}]'
    BY DEF Tells
<1>. QED BY <1>1, <1>2, <1>3, <1>4 DEF Followed

\* An event of the participant's is told after the others.
LEMMA OneMoreTold ==
    ASSUME Turns!ConstantsOK, ShownTyped, NEW w, Tells(w), OnePlace(w), Awaited(w), NEW e \in Events,
           events' = Append(events, e), view' = view, Turn' \in Messages \cup {0},
           IF e.started THEN Turn = 0 /\ Turn' = e.msg /\ e.msg # 0
           ELSE Turn' = IF Turn = e.msg THEN 0 ELSE Turn,
           e.msg # 0 => \/ e.msg \in Inbox /\ Turn # e.msg
                        \/ e.msg = Turn,
           \A m \in Messages : m \in Inbox' <=> m \in Inbox /\ m # e.msg,
           \A i, j \in 1 .. Len(Queue') : Queue'[i] = Queue'[j] => i = j,
           \A m \in Messages : dlv'[m] = dlv[m]
    PROVE  Followed'
<1>. DEFINE n == Len(events)
<1>1. n \in Nat /\ events \in Seq(Events) /\ Turn' \in Messages \cup {0} /\ e.msg \in Messages \cup {0}
    BY DEF ShownTyped, Events
<1>2. Len(events') = n + 1 /\ events'[n + 1] = e /\ \A i \in 1 .. n : events'[i] = events[i]
    BY <1>1
<1>3. PICK x \in [0 .. n + 1 -> Messages \cup {0}] : x[n + 1] = Turn' /\ \A i \in 0 .. n : x[i] = w[i]
  <2>0. PICK t \in Messages \cup {0} : t = Turn'
      BY <1>1
  <2>. DEFINE y == [i \in 0 .. n + 1 |-> IF i = n + 1 THEN t ELSE w[i]]
  <2>1. \A i \in 0 .. n : y[i] = w[i] /\ w[i] \in Messages \cup {0}
      BY <1>1 DEF Tells
  <2>2. y[n + 1] = t
      BY <1>1
  <2>3. \A i \in 0 .. n + 1 : i = n + 1 \/ i \in 0 .. n
      BY <1>1
  <2>4. \A i \in 0 .. n + 1 : (IF i = n + 1 THEN t ELSE w[i]) \in Messages \cup {0}
      BY <2>0, <2>1, <2>3
  <2>5. y \in [0 .. n + 1 -> Messages \cup {0}]
      BY <2>4
  <2>. HIDE DEF y
  <2>. QED BY <2>0, <2>1, <2>2, <2>5
<1>4. x[n] = Turn
    BY <1>1, <1>3 DEF Tells
<1>. HIDE DEF n
<1>5. \A i \in 1 .. n + 1 : i = n + 1 \/ (i \in 1 .. n /\ i - 1 \in 0 .. n /\ i \in 0 .. n)
    BY <1>1
<1>6. Tells(x)'
  <2>1. x \in [0 .. Len(events') -> Messages \cup {0}] /\ x[Len(events')] = Turn'
      BY <1>2, <1>3
  <2>2. (view'.working => view'.turn # 0) /\ x[0] = IF view'.working THEN view'.turn ELSE 0
      BY <1>1, <1>3 DEF Tells
  <2>3. ASSUME NEW i \in 1 .. Len(events')
        PROVE  IF events'[i].started THEN x[i - 1] = 0 /\ x[i] = events'[i].msg /\ events'[i].msg # 0
               ELSE x[i] = IF x[i - 1] = events'[i].msg THEN 0 ELSE x[i - 1]
    <3>1. CASE i = n + 1
      <4>1. x[i - 1] = Turn /\ x[i] = Turn' /\ events'[i] = e
          BY <3>1, <1>1, <1>2, <1>3, <1>4
      <4>. QED BY <4>1
    <3>2. CASE i # n + 1
      <4>1. i \in 1 .. n /\ x[i - 1] = w[i - 1] /\ x[i] = w[i] /\ events'[i] = events[i]
          BY <3>2, <1>2, <1>3, <1>5
      <4>. QED BY <4>1 DEF Tells, n
    <3>. QED BY <3>1, <3>2
  <2>. QED BY <2>1, <2>2, <2>3 DEF Tells
<1>7. e.msg \notin Inbox => e.msg = 0 \/ e.msg = Turn
    OBVIOUS
<1>8. \A m \in Messages : Met(x, m)' <=> Met(w, m) \/ m = e.msg
  <2>. TAKE m \in Messages
  <2>1. m # 0 /\ (Turn' = m => m = e.msg \/ Turn = m)
      BY DEF Turns!ConstantsOK, Turns!Relayed
  <2>2. ASSUME Met(w, m) \/ m = e.msg PROVE Met(x, m)'
    <3>1. ASSUME NEW i \in 0 .. n, w[i] = m PROVE i \in 0 .. n + 1 /\ x[i] = m
        BY <3>1, <1>1, <1>3
    <3>2. ASSUME NEW i \in 1 .. n, events[i].msg = m PROVE i \in 1 .. n + 1 /\ events'[i].msg = m
        BY <3>2, <1>1, <1>2
    <3>3. m = e.msg => n + 1 \in 1 .. n + 1 /\ events'[n + 1].msg = m
        BY <1>1, <1>2
    <3>. QED BY <2>2, <3>1, <3>2, <3>3, <1>2 DEF Met, n
  <2>3. ASSUME Met(x, m)' PROVE Met(w, m) \/ m = e.msg
    <3>1. ASSUME NEW i \in 0 .. n + 1, x[i] = m PROVE Met(w, m) \/ m = e.msg
      <4>1. CASE i = n + 1
        <5>1. Turn' = m
            BY <3>1, <4>1, <1>3
        <5>2. Turn = m => Met(w, m)
            BY <1>1, <1>3, <1>4 DEF Met, n
        <5>. QED BY <5>1, <5>2, <2>1
      <4>2. CASE i # n + 1
          BY <3>1, <4>2, <1>1, <1>3 DEF Met, n
      <4>. QED BY <4>1, <4>2
    <3>2. ASSUME NEW i \in 1 .. n + 1, events'[i].msg = m PROVE Met(w, m) \/ m = e.msg
        BY <3>2, <1>1, <1>2 DEF Met, n
    <3>. QED BY <2>3, <3>1, <3>2, <1>2 DEF Met
  <2>. QED BY <2>2, <2>3
<1>9. Turn # 0 => Met(w, Turn)
    BY <1>1, <1>3, <1>4 DEF Met, n
<1>10. OnePlace(x)'
  <2>1. \A m \in Messages : dlv'[m] \notin {"sent", "done"} => m \notin Inbox'
      BY DEF OnePlace
  <2>2. ASSUME NEW m \in Messages, dlv'[m] \notin {"sent", "done"} \/ m \in Inbox' PROVE ~Met(x, m)'
    <3>1. dlv[m] \notin {"sent", "done"} \/ m \in Inbox
        BY <2>2
    <3>2. ~Met(w, m) /\ m # 0
        BY <3>1 DEF OnePlace, Turns!ConstantsOK, Turns!Relayed
    <3>3. m # e.msg
        BY <2>2, <3>2, <1>9 DEF OnePlace
    <3>. QED BY <3>2, <3>3, <1>8
  <2>3. ASSUME NEW i \in 1 .. Len(events'), NEW j \in 1 .. i - 1, events'[i].msg # 0,
               events'[i].msg \in {x[j], events'[j].msg}
        PROVE  x[i - 1] = events'[i].msg
    <3>1. j \in 1 .. n /\ x[j] = w[j] /\ events'[j] = events[j]
        BY <1>1, <1>2, <1>3
    <3>2. CASE i = n + 1
      <4>1. events'[i] = e /\ x[i - 1] = Turn
          BY <3>2, <1>1, <1>2, <1>4
      <4>2. Met(w, e.msg)
          BY <2>3, <3>1, <4>1, <1>1 DEF Met, n
      <4>3. e.msg \notin Inbox
          BY <4>1, <4>2, <2>3, <1>1 DEF OnePlace
      <4>. QED BY <4>1, <4>3, <1>7, <2>3
    <3>3. CASE i # n + 1
      <4>1. i \in 1 .. n /\ x[i - 1] = w[i - 1] /\ events'[i] = events[i]
          BY <3>3, <1>2, <1>3, <1>5
      <4>. QED BY <2>3, <3>1, <4>1 DEF OnePlace, n
    <3>. QED BY <3>2, <3>3
  <2>. QED BY <2>1, <2>2, <2>3 DEF OnePlace
<1>11. Awaited(x)'
  <2>1. ASSUME NEW m \in Messages PROVE ToCome(x, m)' <=> ToCome(w, m) \/ (m = e.msg /\ Turn # m)
    <3>1. ASSUME ToCome(w, m) PROVE ToCome(x, m)'
      <4>1. PICK i \in 1 .. n : events[i].msg = m /\ w[i - 1] # m
          BY <3>1 DEF ToCome, n
      <4>2. i \in 1 .. n + 1 /\ events'[i].msg = m /\ x[i - 1] # m
          BY <4>1, <1>1, <1>2, <1>3
      <4>. QED BY <4>2, <1>2 DEF ToCome
    <3>2. ASSUME m = e.msg, Turn # m PROVE ToCome(x, m)'
      <4>1. n + 1 \in 1 .. n + 1 /\ events'[n + 1].msg = m /\ x[(n + 1) - 1] # m
          BY <3>2, <1>1, <1>2, <1>4
      <4>. QED BY <4>1, <1>2 DEF ToCome
    <3>3. ASSUME ToCome(x, m)' PROVE ToCome(w, m) \/ (m = e.msg /\ Turn # m)
      <4>1. PICK i \in 1 .. n + 1 : events'[i].msg = m /\ x[i - 1] # m
          BY <3>3, <1>2 DEF ToCome
      <4>2. CASE i = n + 1
          BY <4>1, <4>2, <1>1, <1>2, <1>4
      <4>3. CASE i # n + 1
          BY <4>1, <4>3, <1>2, <1>3, <1>5 DEF ToCome, n
      <4>. QED BY <4>2, <4>3
    <3>. QED BY <3>1, <3>2, <3>3
  <2>2. ASSUME NEW m \in Messages
        PROVE  m \in view'.pending <=> dlv'[m] = "expected" \/ m \in Inbox' \/ ToCome(x, m)'
    <3>1. m # 0
        BY DEF Turns!ConstantsOK, Turns!Relayed
    <3>2. m \in view.pending <=> dlv[m] = "expected" \/ m \in Inbox \/ ToCome(w, m)
        BY DEF Awaited
    <3>3. CASE m # e.msg
        BY <3>2, <3>3, <2>1
    <3>4. CASE m = e.msg
      <4>1. (m \in Inbox /\ Turn # m) \/ (m \notin Inbox /\ m = Turn)
          BY <3>1, <3>4, <1>9 DEF OnePlace
      <4>. QED BY <3>2, <3>4, <4>1, <2>1
    <3>. QED BY <3>3, <3>4
  <2>. QED BY <2>2 DEF Awaited
<1>12. x \in [0 .. Len(events') -> Messages \cup {0}]
    BY <1>2
<1>. QED BY <1>6, <1>10, <1>11, <1>12 DEF Followed

\* The first event is observed: the others tell the rest.
LEMMA OneLessTold ==
    ASSUME Turns!ConstantsOK, ShownTyped, NEW w, Tells(w), OnePlace(w), Awaited(w), events # <<>>,
           events' = Tail(events), view' = Turns!Set(Head(events)), UNCHANGED <<wf, dlv>>
    PROVE  Followed'
<1>. DEFINE n == Len(events)
<1>0. n \in Nat /\ n > 0 /\ events \in Seq(Events) /\ Head(events) = events[1] /\ events[1] \in Events
    BY DEF ShownTyped
<1>a. PICK e \in Events : e = events[1]
    BY <1>0
<1>1. n \in Nat /\ n > 0 /\ events \in Seq(Events) /\ Head(events) = e /\ e = events[1] /\ e.msg \in Messages \cup {0}
    BY <1>0, <1>a DEF Events
<1>2. Len(events') = n - 1 /\ \A i \in 1 .. n - 1 : events'[i] = events[i + 1]
    BY <1>1
<1>3. PICK x \in [0 .. n - 1 -> Messages \cup {0}] : \A i \in 0 .. n - 1 : x[i] = w[i + 1]
  <2>. DEFINE y == [i \in 0 .. n - 1 |-> w[i + 1]]
  <2>1. \A i \in 0 .. n - 1 : y[i] = w[i + 1] /\ y[i] \in Messages \cup {0}
      BY <1>1 DEF Tells
  <2>2. y \in [0 .. n - 1 -> Messages \cup {0}]
      BY <2>1
  <2>. HIDE DEF y
  <2>. QED BY <2>1, <2>2
<1>4. /\ IF e.started THEN w[0] = 0 /\ w[1] = e.msg /\ e.msg # 0
         ELSE w[1] = IF w[0] = e.msg THEN 0 ELSE w[0]
      /\ w[0] = IF view.working THEN view.turn ELSE 0
      /\ view.working => view.turn # 0
  <2>1. 1 \in 1 .. n /\ 1 - 1 = 0
      BY <1>1
  <2>. QED BY <2>1, <1>1 DEF Tells
<1>5. /\ view'.pending = view.pending \ {e.msg}
      /\ \/ e.started /\ view'.working /\ view'.turn = e.msg
         \/ ~e.started /\ (~view.working \/ view.turn = e.msg) /\ ~view'.working
         \/ ~e.started /\ view.working /\ view.turn # e.msg /\ view'.working /\ view'.turn = view.turn
    BY <1>1, SetIs
<1>6. (view'.working => view'.turn # 0) /\ w[1] = IF view'.working THEN view'.turn ELSE 0
    BY <1>4, <1>5
<1>. HIDE DEF n
<1>7. Tells(x)'
  <2>1. x \in [0 .. Len(events') -> Messages \cup {0}]
      BY <1>2
  <2>2. x[Len(events')] = Turn'
    <3>1. x[n - 1] = w[n]
        BY <1>1, <1>3
    <3>. QED BY <3>1, <1>2, SameWf DEF Tells, n
  <2>3. x[0] = w[1]
      BY <1>1, <1>3
  <2>4. ASSUME NEW i \in 1 .. Len(events')
        PROVE  IF events'[i].started THEN x[i - 1] = 0 /\ x[i] = events'[i].msg /\ events'[i].msg # 0
               ELSE x[i] = IF x[i - 1] = events'[i].msg THEN 0 ELSE x[i - 1]
    <3>1. /\ i + 1 \in 1 .. n /\ (i + 1) - 1 = i /\ events'[i] = events[i + 1] /\ x[i] = w[i + 1]
          /\ x[i - 1] = w[i]
      <4>1. i \in 1 .. n - 1 /\ i - 1 \in 0 .. n - 1 /\ (i - 1) + 1 = i /\ i \in 0 .. n - 1
          BY <1>1, <1>2
      <4>2. x[i - 1] = w[(i - 1) + 1] /\ x[i] = w[i + 1]
          BY <4>1, <1>3
      <4>. QED BY <1>1, <1>2, <4>1, <4>2
    <3>2. IF events[i + 1].started THEN w[i] = 0 /\ w[i + 1] = events[i + 1].msg /\ events[i + 1].msg # 0
          ELSE w[i + 1] = IF w[i] = events[i + 1].msg THEN 0 ELSE w[i]
        BY <3>1 DEF Tells, n
    <3>. QED BY <3>1, <3>2
  <2>. QED BY <1>6, <2>1, <2>2, <2>3, <2>4 DEF Tells
<1>8. \A m \in Messages : Met(x, m)' => Met(w, m)
  <2>. SUFFICES ASSUME NEW m \in Messages, Met(x, m)' PROVE Met(w, m)
      OBVIOUS
  <2>1. ASSUME NEW i \in 0 .. n - 1, x[i] = m PROVE Met(w, m)
    <3>1. i + 1 \in 0 .. n /\ w[i + 1] = m
        BY <2>1, <1>1, <1>3
    <3>. QED BY <3>1 DEF Met, n
  <2>2. ASSUME NEW i \in 1 .. n - 1, events'[i].msg = m PROVE Met(w, m)
    <3>1. i + 1 \in 1 .. n /\ events[i + 1].msg = m
        BY <2>2, <1>1, <1>2
    <3>. QED BY <3>1 DEF Met, n
  <2>. QED BY <2>1, <2>2, <1>2 DEF Met
<1>9. Inbox' = Inbox /\ Queue' = Queue
    BY SameWf DEF Inbox
<1>10. OnePlace(x)'
  <2>1. ASSUME NEW i \in 1 .. Len(events'), NEW j \in 1 .. i - 1, events'[i].msg # 0,
               events'[i].msg \in {x[j], events'[j].msg}
        PROVE  x[i - 1] = events'[i].msg
    <3>1. /\ i + 1 \in 1 .. n /\ (i + 1) - 1 = i /\ j + 1 \in 1 .. (i + 1) - 1
          /\ i \in 1 .. n - 1 /\ j \in 1 .. n - 1 /\ i - 1 \in 0 .. n - 1 /\ (i - 1) + 1 = i /\ j \in 0 .. n - 1
        BY <1>1, <1>2
    <3>2. events'[i] = events[i + 1] /\ events'[j] = events[j + 1] /\ x[j] = w[j + 1] /\ x[i - 1] = w[i]
      <4>1. x[i - 1] = w[(i - 1) + 1]
          BY <3>1, <1>3
      <4>. QED BY <3>1, <4>1, <1>2, <1>3
    <3>3. w[(i + 1) - 1] = events[i + 1].msg
        BY <2>1, <3>1, <3>2 DEF OnePlace, n
    <3>. QED BY <3>1, <3>2, <3>3
  <2>2. \A m \in Messages : dlv'[m] \notin {"sent", "done"} \/ m \in Inbox' => ~Met(x, m)'
      BY <1>8, <1>9 DEF OnePlace
  <2>3. /\ \A m \in Messages : dlv'[m] \notin {"sent", "done"} => m \notin Inbox'
        /\ \A i, j \in 1 .. Len(Queue') : Queue'[i] = Queue'[j] => i = j
      BY <1>9 DEF OnePlace
  <2>. QED BY <2>1, <2>2, <2>3 DEF OnePlace
<1>11. ASSUME NEW m \in Messages PROVE m # e.msg => (ToCome(x, m)' <=> ToCome(w, m))
  <2>. SUFFICES ASSUME m # e.msg PROVE ToCome(x, m)' <=> ToCome(w, m)
      OBVIOUS
  <2>1. ASSUME ToCome(x, m)' PROVE ToCome(w, m)
    <3>1. PICK i \in 1 .. n - 1 : events'[i].msg = m /\ x[i - 1] # m
        BY <2>1, <1>2 DEF ToCome
    <3>2. i + 1 \in 1 .. n /\ (i + 1) - 1 = i /\ i - 1 \in 0 .. n - 1 /\ (i - 1) + 1 = i
        BY <1>1
    <3>3. x[i - 1] = w[(i - 1) + 1]
        BY <3>2, <1>3
    <3>4. events[i + 1].msg = m /\ w[(i + 1) - 1] # m
        BY <3>1, <3>2, <3>3, <1>2
    <3>. QED BY <3>2, <3>4 DEF ToCome, n
  <2>2. ASSUME ToCome(w, m) PROVE ToCome(x, m)'
    <3>1. PICK i \in 1 .. n : events[i].msg = m /\ w[i - 1] # m
        BY <2>2 DEF ToCome, n
    <3>2. i # 1
        BY <3>1, <1>1
    <3>3. i - 1 \in 1 .. n - 1 /\ (i - 1) + 1 = i /\ (i - 1) - 1 \in 0 .. n - 1 /\ ((i - 1) - 1) + 1 = i - 1
        BY <3>2, <1>1
    <3>4. events'[i - 1] = events[(i - 1) + 1] /\ x[(i - 1) - 1] = w[((i - 1) - 1) + 1]
        BY <3>3, <1>2, <1>3
    <3>5. events'[i - 1].msg = m /\ x[(i - 1) - 1] # m
        BY <3>1, <3>3, <3>4
    <3>. QED BY <3>3, <3>5, <1>2 DEF ToCome
  <2>. QED BY <2>1, <2>2
<1>12. e.msg \in Messages => Met(w, e.msg) /\ ~ToCome(x, e.msg)'
  <2>. HAVE e.msg \in Messages
  <2>1. Met(w, e.msg)
      BY <1>1 DEF Met, n
  <2>2. ASSUME NEW i \in 1 .. n - 1, events'[i].msg = e.msg PROVE x[i - 1] = e.msg
    <3>1. /\ i + 1 \in 1 .. n /\ (i + 1) - 1 = i /\ i - 1 \in 0 .. n - 1 /\ (i - 1) + 1 = i
          /\ 1 \in 1 .. (i + 1) - 1 /\ e.msg # 0
        BY <2>2, <1>1 DEF Turns!ConstantsOK, Turns!Relayed
    <3>2. x[i - 1] = w[(i - 1) + 1] /\ events'[i] = events[i + 1]
        BY <3>1, <1>2, <1>3
    <3>3. w[(i + 1) - 1] = events[i + 1].msg
        BY <2>2, <3>1, <3>2, <1>1 DEF OnePlace, n
    <3>. QED BY <2>2, <3>1, <3>2, <3>3
  <2>. QED BY <2>1, <2>2, <1>2 DEF ToCome
<1>13. Awaited(x)'
  <2>1. ASSUME NEW m \in Messages
        PROVE  m \in view'.pending <=> dlv'[m] = "expected" \/ m \in Inbox' \/ ToCome(x, m)'
    <3>1. m \in view.pending <=> dlv[m] = "expected" \/ m \in Inbox \/ ToCome(w, m)
        BY DEF Awaited
    <3>2. CASE m # e.msg
        BY <3>1, <3>2, <1>5, <1>9, <1>11
    <3>3. CASE m = e.msg
      <4>1. Met(w, m) /\ ~ToCome(x, m)'
          BY <3>3, <1>12
      <4>2. dlv[m] # "expected" /\ m \notin Inbox
          BY <4>1 DEF OnePlace
      <4>. QED BY <3>3, <4>1, <4>2, <1>5, <1>9
    <3>. QED BY <3>2, <3>3
  <2>. QED BY <2>1 DEF Awaited
<1>14. x \in [0 .. Len(events') -> Messages \cup {0}]
    BY <1>2
<1>. QED BY <1>7, <1>10, <1>13, <1>14 DEF Followed

-----------------------------------------------------------------------------
\* What the head of a queue is, and what is left.
LEMMA HeadOfInbox ==
    ASSUME Turns!ConstantsOK, ShownTyped, NEW w, OnePlace(w), Queue # <<>>, Queue' = Tail(Queue)
    PROVE  /\ Head(Queue) \in Messages /\ Head(Queue) \in Inbox
           /\ \A m \in Messages : m \in Inbox' <=> m \in Inbox /\ m # Head(Queue)
           /\ \A i, j \in 1 .. Len(Queue') : Queue'[i] = Queue'[j] => i = j
<1>. DEFINE q == Queue
            n == Len(q)
<1>1. q \in Seq(Messages) /\ n \in Nat /\ n > 0 /\ Head(q) = q[1] /\ q[1] \in Messages
    BY QueueIs
<1>2. Len(Queue') = n - 1 /\ \A i \in 1 .. n - 1 : Queue'[i] = q[i + 1]
    BY <1>1
<1>3. \A i, j \in 1 .. n : q[i] = q[j] => i = j
    BY DEF OnePlace
<1>4. Inbox = {q[i] : i \in 1 .. n} /\ Inbox' = {Queue'[i] : i \in 1 .. n - 1}
    BY <1>2 DEF Inbox
<1>. HIDE DEF q, n
<1>5. Head(q) \in Inbox
    BY <1>1, <1>4
<1>6. \A i, j \in 1 .. n - 1 : Queue'[i] = Queue'[j] => i = j
  <2>. TAKE i, j \in 1 .. n - 1
  <2>1. i + 1 \in 1 .. n /\ j + 1 \in 1 .. n /\ (i + 1 = j + 1 => i = j)
      BY <1>1
  <2>. QED BY <2>1, <1>2, <1>3
<1>7. ASSUME NEW m \in Messages PROVE m \in Inbox' <=> m \in Inbox /\ m # Head(q)
  <2>1. ASSUME m \in Inbox' PROVE m \in Inbox /\ m # Head(q)
    <3>1. PICK i \in 1 .. n - 1 : m = q[i + 1]
        BY <2>1, <1>2, <1>4
    <3>2. i + 1 \in 1 .. n /\ i + 1 # 1 /\ 1 \in 1 .. n
        BY <1>1
    <3>. QED BY <3>1, <3>2, <1>1, <1>3, <1>4
  <2>2. ASSUME m \in Inbox, m # Head(q) PROVE m \in Inbox'
    <3>1. PICK i \in 1 .. n : m = q[i]
        BY <2>2, <1>4
    <3>2. i # 1
        BY <2>2, <3>1, <1>1
    <3>3. i - 1 \in 1 .. n - 1 /\ (i - 1) + 1 = i
        BY <3>2, <1>1
    <3>4. Queue'[i - 1] = q[(i - 1) + 1]
        BY <3>3, <1>2
    <3>. QED BY <3>1, <3>3, <3>4, <1>4
  <2>. QED BY <2>1, <2>2
<1>. QED BY <1>1, <1>2, <1>5, <1>6, <1>7 DEF q

-----------------------------------------------------------------------------
\* What a step keeps, with no fault so far.
Sound == Followed /\ Heard /\ Runs /\ Lags /\ Reads

\* A request disturbed, and the answers kept, when what they are of changes
\* before the caches are invalidated, or does not.
LEMMA DisturbedReads ==
    ASSUME ShownTyped, Reads, reader' = Turns!Disturb(reader), states' \in {states, Turns!NoState},
           \/ Unsettled'
           \/ (Unsettled => Unsettled') /\ wf'.cur = wf.cur /\ wf'.inbox = wf.inbox
    PROVE  Reads'
<1>1. /\ reader'.st # "done" /\ ~reader'.quiet
      /\ reader'.st = "asked" => reader.st = "asked" /\ reader'.read = reader.read /\ reader'.same = reader.same
    BY DisturbIs DEF ShownTyped
<1>2. states'.st # "nil" => states' = states
    BY Nones
<1>3. reader'.st = "asked" /\ reader'.same => IsState(reader.read)' \/ Unsettled'
    BY <1>1 DEF Reads, IsState
<1>4. states'.st # "nil" => IsState(states)' \/ Unsettled'
    BY <1>2 DEF Reads, IsState
<1>. QED BY <1>1, <1>3, <1>4 DEF Reads, IsState

\* Nor when the participant goes on without telling: they are behind.
LEMMA QuietReads == ASSUME ShownTyped, Reads, NEW nxt, Turns!Quietly(nxt) PROVE Reads'
<1>1. /\ states'.st # "nil" => states'.behind
      /\ reader'.st # "done" /\ ~reader'.quiet
      /\ reader'.st = "asked" =>
           reader.st = "asked" /\ reader'.read.st = reader.read.st /\ (reader.read.st # "nil" => reader'.read.behind)
    BY QuietlyIs
<1>2. reader'.st = "asked" => reader'.read.st # "nil" /\ reader'.read.behind
    BY <1>1 DEF Reads
<1>. QED BY <1>1, <1>2 DEF Reads, IsState

LEMMA InvalidatedReads == ASSUME ShownTyped, Reads, Turns!Invalidate PROVE Reads'
    BY InvalidateIs, Nones DEF Reads

\* The listings, when what they are of stays, or is known at first hand.
LEMMA SameLags ==
    ASSUME Lags, UNCHANGED <<listed, cache, loads>>,
           \A m \in Messages : dlv'[m] = "expected" => view'.young,
           ~view'.trusted /\ view'.working /\ Turn' = view'.turn => ~view.trusted /\ view.working /\ Turn = view.turn,
           ~view'.trusted /\ ~view'.young /\ Queue' # <<>> => ~view.trusted /\ ~view.young /\ Queue # <<>>
    PROVE  Lags'
<1>1. ListingRight => ListingRight'
    BY DEF ListingRight
<1>. QED BY <1>1 DEF Lags

\* The head of two queues, one after the other.
LEMMA HeadOfTwo ==
    ASSUME NEW S, NEW a \in Seq(S), a # <<>>, NEW b \in Seq(S)
    PROVE  a \o b # <<>> /\ Head(a \o b) = Head(a) /\ Tail(a \o b) = Tail(a) \o b
<1>1. Len(a) > 0 /\ Len(a \o b) = Len(a) + Len(b) /\ Len(b) \in Nat
    OBVIOUS
<1>2. a \o b # <<>> /\ Head(a \o b) = Head(a)
    BY <1>1
<1>3. Tail(a \o b) = Tail(a) \o b
    BY <1>1
<1>. QED BY <1>2, <1>3

\* The first of what waits is told started, or done without a turn.
LEMMA TurnKeeps ==
    ASSUME Turns!ConstantsOK, ShownTyped, ShownTyped', Sound, NEW b \in BOOLEAN, Queue # <<>>,
           events' = Append(events, [started |-> b, msg |-> Head(Queue)]), Queue' = Tail(Queue),
           b => Turn = 0 /\ Turn' = Head(Queue), ~b => Turn' = Turn,
           wf'.run = wf.run, reader' = Turns!Disturb(reader),
           UNCHANGED <<listed, observing, view, cache, loads, states, dlv>>
    PROVE  Sound'
<1>. DEFINE e == [started |-> b, msg |-> Head(Queue)]
<1>0. PICK w : Tells(w) /\ OnePlace(w) /\ Awaited(w)
    BY DEF Sound, Followed
<1>1. wf.run
    BY DEF Sound, Runs
<1>2. PICK h : h = Head(Queue)
    OBVIOUS
<1>3. /\ h \in Messages /\ h \in Inbox /\ h # 0
      /\ \A m \in Messages : m \in Inbox' <=> m \in Inbox /\ m # h
      /\ \A i, j \in 1 .. Len(Queue') : Queue'[i] = Queue'[j] => i = j
    BY <1>0, <1>2, HeadOfInbox DEF Turns!ConstantsOK, Turns!Relayed
<1>4. e \in Events /\ e.msg = h /\ e.started = b /\ events' = Append(events, e)
    BY <1>2, <1>3 DEF Events
<1>. HIDE DEF e
<1>a. Turn # h
  <2>1. Turn = 0 \/ Met(w, Turn)
      BY <1>0 DEF Tells, Met, ShownTyped
  <2>. QED BY <2>1, <1>0, <1>3 DEF OnePlace
<1>5. Followed'
  <2>1. IF e.started THEN Turn = 0 /\ Turn' = e.msg /\ e.msg # 0
        ELSE Turn' = IF Turn = e.msg THEN 0 ELSE Turn
      BY <1>2, <1>3, <1>4, <1>a
  <2>2. /\ e.msg # 0 => (e.msg \in Inbox /\ Turn # e.msg) \/ e.msg = Turn
        /\ \A m \in Messages : m \in Inbox' <=> m \in Inbox /\ m # e.msg
        /\ \A m \in Messages : dlv'[m] = dlv[m]
      BY <1>3, <1>4, <1>a
  <2>3. Turn' \in Messages \cup {0}
      BY <1>2, <1>3, QueueIs
  <2>. QED BY <1>0, <1>3, <1>4, <2>1, <2>2, <2>3, OneMoreTold
<1>6. Heard' /\ Runs'
    BY <1>1 DEF Sound, Heard, Runs
<1>7. Lags'
  <2>1. view.working => view.turn # 0 /\ view.turn # h
    <3>1. view.working => w[0] = view.turn /\ view.turn # 0 /\ 0 \in 0 .. Len(events)
        BY <1>0 DEF Tells, ShownTyped
    <3>2. ~Met(w, h)
        BY <1>0, <1>3 DEF OnePlace
    <3>. QED BY <3>1, <3>2 DEF Met
  <2>2. \A m \in Messages : dlv'[m] = "expected" => view'.young
      BY DEF Sound, Lags
  <2>3. view'.working /\ Turn' = view'.turn => Turn = view.turn
      BY <1>2, <2>1
  <2>4. Lags
      BY DEF Sound
  <2>. QED BY <2>2, <2>3, <2>4, SameLags
<1>8. Reads'
  <2>1. events' # <<>>
      BY <1>4 DEF ShownTyped
  <2>. QED BY <2>1, DisturbedReads DEF Sound, Unsettled
<1>. QED BY <1>5, <1>6, <1>7, <1>8 DEF Sound

\* The turn is told done, or another message whose relay here failed.
LEMMA TurnEndKeeps ==
    ASSUME Turns!ConstantsOK, ShownTyped, ShownTyped', Sound, NEW e \in Events,
           events' = Append(events, e), ~e.started, Queue' = Queue,
           \/ e.msg = Turn /\ Turn # 0 /\ Turn' = 0
           \/ e.msg = 0 /\ Turn' = Turn,
           wf'.cur = wf.cur, wf'.run = wf.run, reader' = Turns!Disturb(reader),
           \A m \in Messages : dlv'[m] = dlv[m],
           UNCHANGED <<listed, observing, view, cache, loads, states>>
    PROVE  Sound'
<1>0. PICK w : Tells(w) /\ OnePlace(w) /\ Awaited(w)
    BY DEF Sound, Followed
<1>4. Followed'
  <2>1. IF e.started THEN Turn = 0 /\ Turn' = e.msg /\ e.msg # 0
        ELSE Turn' = IF Turn = e.msg THEN 0 ELSE Turn
      OBVIOUS
  <2>2. e.msg # 0 => (e.msg \in Inbox /\ Turn # e.msg) \/ e.msg = Turn
      OBVIOUS
  <2>3. \A m \in Messages : m \in Inbox' <=> m \in Inbox /\ m # e.msg
    <3>1. Inbox' = Inbox
        BY DEF Inbox
    <3>2. ASSUME e.msg \in Messages PROVE e.msg \notin Inbox
      <4>1. e.msg = Turn
          BY <3>2 DEF Turns!ConstantsOK, Turns!Relayed
      <4>2. Met(w, e.msg)
          BY <4>1, <1>0 DEF Tells, Met, ShownTyped
      <4>. QED BY <3>2, <4>2, <1>0 DEF OnePlace
    <3>. QED BY <3>1, <3>2
  <2>4. \A i, j \in 1 .. Len(Queue') : Queue'[i] = Queue'[j] => i = j
      BY <1>0 DEF OnePlace
  <2>5. Turn' \in Messages \cup {0}
      BY QueueIs
  <2>. QED BY <1>0, <2>1, <2>2, <2>3, <2>4, <2>5, OneMoreTold
<1>5. Heard' /\ Runs'
    BY DEF Sound, Heard, Runs
<1>6. Lags'
  <2>1. view.working => view.turn # 0
      BY <1>0 DEF Tells
  <2>2. \A m \in Messages : dlv'[m] = "expected" => view'.young
      BY DEF Sound, Lags
  <2>3. view'.working /\ Turn' = view'.turn => Turn = view.turn
      BY <2>1
  <2>4. Lags
      BY DEF Sound
  <2>. QED BY <2>2, <2>3, <2>4, SameLags
<1>7. Reads'
  <2>1. events' # <<>>
      BY DEF ShownTyped
  <2>. QED BY <2>1, DisturbedReads DEF Sound, Unsettled
<1>. QED BY <1>4, <1>5, <1>6, <1>7 DEF Sound

\* The participant's events.
LEMMA TellingKeeps ==
    ASSUME Turns!ConstantsOK, ShownTyped, ShownTyped', Sound,
           Turns!TurnStarted \/ Turns!TurnDone \/ Turns!Dropped \/ Turns!RelayFailed
    PROVE  Sound'
<1>0. /\ wf.inbox \in Seq(Messages) /\ wf.dropping \in Seq(Messages) /\ wf \in Wfs
      /\ wf.at \in {"none", "check", "turn", "done"}
    BY DEF ShownTyped, Wfs
<1>1. CASE Turns!TurnStarted
  <2>1. /\ wf.at = "check" /\ Turns!Telling([wf EXCEPT !.at = "turn"], TRUE, wf.cur)
      BY <1>1 DEF Turns!TurnStarted
  <2>2. /\ wf' = [wf EXCEPT !.at = "turn"] /\ events' = Append(events, [started |-> TRUE, msg |-> wf.cur])
        /\ reader' = Turns!Disturb(reader) /\ UNCHANGED <<listed, observing, view, cache, loads, states, dlv>>
      BY <2>1 DEF Turns!Telling, Turns!Disturbed
  <2>3. wf'.at = "turn" /\ wf'.cur = wf.cur /\ wf'.inbox = wf.inbox /\ wf'.dropping = wf.dropping /\ wf'.run = wf.run
      BY <1>0, <2>2 DEF Wfs
  <2>4. Turn = 0 /\ wf.cur \in Messages /\ Queue = <<wf.cur>> \o wf.inbox /\ wf.dropping = <<>>
      BY <2>1, QueueIs
  <2>5. Turn' = wf.cur /\ Queue' = wf.inbox
    <3>1. (<<>> \o <<>>) \o wf.inbox = wf.inbox
        BY <1>0
    <3>. QED BY <2>3, <2>4, <3>1 DEF Turn, Queue
  <2>6. Queue # <<>> /\ Head(Queue) = wf.cur /\ Tail(Queue) = wf.inbox
      BY <1>0, <2>4
  <2>. QED BY <2>2, <2>3, <2>4, <2>5, <2>6, TurnKeeps
<1>2. CASE Turns!TurnDone
  <2>1. /\ wf.at \in {"check", "turn"} /\ wf.dropping = <<>> /\ Turns!Telling([wf EXCEPT !.at = "done"], FALSE, wf.cur)
      BY <1>2 DEF Turns!TurnDone
  <2>2. /\ wf' = [wf EXCEPT !.at = "done"] /\ events' = Append(events, [started |-> FALSE, msg |-> wf.cur])
        /\ reader' = Turns!Disturb(reader) /\ UNCHANGED <<listed, observing, view, cache, loads, states, dlv>>
      BY <2>1 DEF Turns!Telling, Turns!Disturbed
  <2>3. wf'.at = "done" /\ wf'.cur = wf.cur /\ wf'.inbox = wf.inbox /\ wf'.dropping = wf.dropping /\ wf'.run = wf.run
      BY <1>0, <2>2 DEF Wfs
  <2>4. Turn' = 0 /\ Queue' = wf.inbox
    <3>1. (<<>> \o <<>>) \o wf.inbox = wf.inbox
        BY <1>0
    <3>. QED BY <2>1, <2>3, <3>1 DEF Turn, Queue
  <2>5. CASE wf.at = "check"
    <3>1. Turn = 0 /\ wf.cur \in Messages /\ Queue = <<wf.cur>> \o wf.inbox
        BY <2>5, QueueIs
    <3>2. Queue # <<>> /\ Head(Queue) = wf.cur /\ Tail(Queue) = wf.inbox
        BY <1>0, <3>1
    <3>. QED BY <2>2, <2>3, <2>4, <3>1, <3>2, TurnKeeps
  <2>6. CASE wf.at = "turn"
    <3>. DEFINE e == [started |-> FALSE, msg |-> wf.cur]
    <3>1. Turn = wf.cur /\ wf.cur \in Messages /\ Queue = wf.dropping \o wf.inbox
        BY <2>6, QueueIs
    <3>2. Queue = wf.inbox
        BY <1>0, <2>1, <3>1
    <3>3. e \in Events /\ ~e.started /\ e.msg = wf.cur /\ wf.cur # 0 /\ events' = Append(events, e)
        BY <2>2, <3>1 DEF Events, Turns!ConstantsOK, Turns!Relayed
    <3>. HIDE DEF e
    <3>. QED BY <2>2, <2>3, <2>4, <3>1, <3>2, <3>3, TurnEndKeeps
  <2>. QED BY <2>1, <2>5, <2>6
<1>3. CASE Turns!Dropped
  <2>1. wf.dropping # <<>> /\ Turns!Telling([wf EXCEPT !.dropping = Tail(@)], FALSE, Head(wf.dropping))
      BY <1>3 DEF Turns!Dropped
  <2>2. /\ wf' = [wf EXCEPT !.dropping = Tail(@)] /\ events' = Append(events, [started |-> FALSE, msg |-> Head(wf.dropping)])
        /\ reader' = Turns!Disturb(reader) /\ UNCHANGED <<listed, observing, view, cache, loads, states, dlv>>
      BY <2>1 DEF Turns!Telling, Turns!Disturbed
  <2>3. wf'.at = wf.at /\ wf'.cur = wf.cur /\ wf'.inbox = wf.inbox /\ wf'.dropping = Tail(wf.dropping) /\ wf'.run = wf.run
      BY <1>0, <2>2 DEF Wfs
  <2>4. wf.at # "check" /\ Queue = wf.dropping \o wf.inbox
      BY <1>0, <2>1, QueueIs
  <2>5. Turn' = Turn /\ Queue' = Tail(wf.dropping) \o wf.inbox
    <3>1. Tail(wf.dropping) \in Seq(Messages)
        BY <1>0, <2>1
    <3>2. \A q \in Seq(Messages) : <<>> \o q = q
        OBVIOUS
    <3>3. <<>> \o Tail(wf.dropping) = Tail(wf.dropping)
        BY <3>1, <3>2
    <3>. QED BY <2>3, <2>4, <3>3 DEF Turn, Queue
  <2>6. Queue # <<>> /\ Head(Queue) = Head(wf.dropping) /\ Tail(Queue) = Tail(wf.dropping) \o wf.inbox
      BY <1>0, <2>1, <2>4, HeadOfTwo
  <2>. QED BY <2>2, <2>3, <2>5, <2>6, TurnKeeps
<1>4. CASE Turns!RelayFailed
  <2>. DEFINE e == [started |-> FALSE, msg |-> 0]
  <2>1. /\ wf' = wf /\ events' = Append(events, e) /\ e \in Events /\ e.msg = 0 /\ ~e.started
        /\ dlv' = [dlv EXCEPT ![0] = "done"] /\ reader' = Turns!Disturb(reader)
        /\ UNCHANGED <<listed, observing, view, cache, loads, states>>
      BY <1>4, Nones DEF Turns!RelayFailed, Turns!Disturbed, Events
  <2>2. \A m \in Messages : dlv'[m] = dlv[m]
      BY <2>1 DEF ShownTyped, Turns!ConstantsOK, Turns!Relayed
  <2>. HIDE DEF e
  <2>. QED BY <2>1, <2>2, SameWf, TurnEndKeeps
<1>. QED BY <1>1, <1>2, <1>3, <1>4

\* A participant that goes on without telling has the turn and the queue its
\* events told.
LEMMA QuietKeeps ==
    ASSUME Turns!ConstantsOK, ShownTyped, ShownTyped', Sound, NEW nxt, Turns!Quietly(nxt), Turn' = Turn, Queue' = Queue,
           wf'.run \/ (wf'.cur = 0 /\ Queue = <<>>), wf'.run => wf.run
    PROVE  Sound'
<1>0. PICK w : Tells(w) /\ OnePlace(w) /\ Awaited(w)
    BY DEF Sound, Followed
<1>1. UNCHANGED <<listed, events, observing, view, cache, loads, dlv>>
    BY QuietlyIs
<1>3. Followed'
    BY <1>0, <1>1, SameTold
<1>4. Heard' /\ Runs'
    BY <1>1 DEF Sound, Heard, Runs
<1>5. Lags'
    BY <1>1, SameLags DEF Sound, Lags
<1>6. Reads'
    BY QuietReads DEF Sound
<1>. QED BY <1>3, <1>4, <1>5, <1>6 DEF Sound

LEMMA LoopKeeps ==
    ASSUME Turns!ConstantsOK, ShownTyped, ShownTyped', Sound,
           Turns!Takes \/ Turns!TurnOver \/ Turns!Clear \/ Turns!Close
    PROVE  Sound'
<1>0. /\ wf.inbox \in Seq(Messages) /\ wf.dropping \in Seq(Messages) /\ wf \in Wfs
      /\ wf.at \in {"none", "check", "turn", "done"} /\ Placed(wf)
    BY DEF ShownTyped, Wfs
<1>a. \A q \in Seq(Messages) : <<>> \o q = q /\ q \o <<>> = q
    OBVIOUS
<1>1. CASE Turns!Takes
  <2>. DEFINE nxt == [wf EXCEPT !.cur = Head(wf.inbox), !.inbox = Tail(wf.inbox), !.at = "check"]
  <2>1. Turns!Quietly(nxt) /\ wf.run /\ wf.at \in {"none", "done"} /\ wf.dropping = <<>> /\ wf.inbox # <<>>
      BY <1>1 DEF Turns!Takes
  <2>2. wf' = nxt
      BY <2>1, QuietlyIs
  <2>3. wf'.at = "check" /\ wf'.cur = Head(wf.inbox) /\ wf'.inbox = Tail(wf.inbox) /\ wf'.dropping = <<>> /\ wf'.run = wf.run
      BY <1>0, <2>1, <2>2 DEF Wfs
  <2>. HIDE DEF nxt
  <2>4. Turn = 0 /\ Queue = wf.inbox
      BY <1>0, <1>a, <2>1, QueueIs
  <2>5. PICK h, q : h = Head(wf.inbox) /\ q = Tail(wf.inbox)
      OBVIOUS
  <2>6. h \in Messages /\ q \in Seq(Messages) /\ <<h>> \o q = wf.inbox /\ <<h>> \o <<>> = <<h>>
      BY <1>0, <2>1, <2>5
  <2>7. Turn' = 0 /\ Queue' = (<<h>> \o <<>>) \o q
      BY <2>3, <2>5 DEF Turn, Queue
  <2>. QED BY <2>1, <2>3, <2>4, <2>6, <2>7, QuietKeeps
<1>2. CASE Turns!TurnOver
  <2>. DEFINE nxt == [wf EXCEPT !.cur = Turns!NoMsg, !.at = "none"]
  <2>1. Turns!Quietly(nxt) /\ wf.at = "done" /\ wf.inbox = <<>>
      BY <1>2 DEF Turns!TurnOver
  <2>2. wf' = nxt
      BY <2>1, QuietlyIs
  <2>3. wf'.at = "none" /\ wf'.cur = 0 /\ wf'.inbox = wf.inbox /\ wf'.dropping = wf.dropping /\ wf'.run = wf.run
      BY <1>0, <2>2, Nones DEF Wfs
  <2>. HIDE DEF nxt
  <2>4. Turn' = Turn /\ Queue' = Queue
      BY <2>1, <2>3 DEF Turn, Queue
  <2>5. wf.cur # 0
      BY <1>0, <2>1 DEF Placed
  <2>6. wf'.run /\ wf.run
      BY <2>3, <2>5 DEF Sound, Runs
  <2>. QED BY <2>1, <2>4, <2>6, QuietKeeps
<1>3. CASE Turns!Clear
  <2>. DEFINE nxt == [wf EXCEPT !.inbox = <<>>, !.dropping = wf.inbox,
                                 !.cur = IF wf.at = "turn" THEN @ ELSE Turns!NoMsg,
                                 !.at = IF @ = "turn" THEN @ ELSE "none"]
  <2>1. Turns!Quietly(nxt) /\ wf.run /\ wf.at # "check" /\ wf.dropping = <<>>
      BY <1>3 DEF Turns!Clear
  <2>2. wf' = nxt
      BY <2>1, QuietlyIs
  <2>3. /\ wf'.inbox = <<>> /\ wf'.dropping = wf.inbox /\ wf'.run = wf.run
        /\ wf'.at = IF wf.at = "turn" THEN "turn" ELSE "none"
        /\ wf.at = "turn" => wf'.cur = wf.cur
      BY <1>0, <2>2 DEF Wfs
  <2>. HIDE DEF nxt
  <2>4. Queue = wf.inbox
      BY <1>0, <1>a, <2>1, QueueIs
  <2>5. Turn' = Turn
      BY <2>3 DEF Turn
  <2>6. Queue' = Queue
      BY <1>0, <1>a, <2>3, <2>4 DEF Queue
  <2>. QED BY <2>1, <2>3, <2>5, <2>6, QuietKeeps
<1>4. CASE Turns!Close
  <2>. DEFINE nxt == [wf EXCEPT !.run = FALSE]
  <2>1. Turns!Quietly(nxt) /\ wf.at = "none" /\ wf.dropping = <<>> /\ wf.inbox = <<>>
      BY <1>4 DEF Turns!Close
  <2>2. wf' = nxt
      BY <2>1, QuietlyIs
  <2>3. wf'.at = wf.at /\ wf'.cur = wf.cur /\ wf'.inbox = wf.inbox /\ wf'.dropping = wf.dropping /\ ~wf'.run
      BY <1>0, <2>2 DEF Wfs
  <2>. HIDE DEF nxt
  <2>4. Turn' = Turn /\ Queue' = Queue
      BY <2>3 DEF Turn, Queue
  <2>5. wf'.cur = 0 /\ Queue = <<>>
      BY <1>0, <1>a, <2>1, <2>3, QueueIs DEF Placed
  <2>. QED BY <2>1, <2>3, <2>4, <2>5, QuietKeeps
<1>. QED BY <1>1, <1>2, <1>3, <1>4

\* Temporal's listing catches up: one that said a participant at work runs was
\* right already.
LEMMA ListedKeeps == ASSUME Turns!ConstantsOK, ShownTyped, ShownTyped', Sound, Turns!Listed PROVE Sound'
<1>0. PICK w : Tells(w) /\ OnePlace(w) /\ Awaited(w)
    BY DEF Sound, Followed
<1>1. /\ UNCHANGED <<wf, events, observing, view, cache, loads, states, dlv>> /\ reader' = Turns!Disturb(reader)
      /\ listed # wf.run /\ listed \in BOOLEAN /\ wf.run \in BOOLEAN
    BY DEF Turns!Listed, Turns!Disturbed, ShownTyped, Wfs
<1>2. Followed'
    BY <1>0, <1>1, SameWf, SameTold
<1>3. Heard' /\ Runs'
    BY <1>1, SameWf DEF Sound, Heard, Runs
<1>4. Lags'
  <2>1. view.working => view.turn # 0
      BY <1>0 DEF Tells
  <2>a. Turn # 0 => wf.cur # 0
      BY DEF Turn
  <2>2. ~(~view.trusted /\ view.working /\ Turn = view.turn)
      BY <1>1, <2>1, <2>a DEF Sound, Lags, Runs, ListingRight
  <2>3. ~(~view.trusted /\ ~view.young /\ Queue # <<>>)
      BY <1>1 DEF Sound, Lags, Runs, ListingRight
  <2>. QED BY <1>1, <2>2, <2>3, SameWf DEF Sound, Lags
<1>5. Reads'
    BY <1>1, DisturbedReads DEF Sound, Unsettled
<1>. QED BY <1>2, <1>3, <1>4, <1>5 DEF Sound

\* The first event is taken: what it says is known at first hand.
LEMMA ObserveKeeps == ASSUME Turns!ConstantsOK, ShownTyped, ShownTyped', Sound, Turns!Observe PROVE Sound'
<1>0. PICK w : Tells(w) /\ OnePlace(w) /\ Awaited(w)
    BY DEF Sound, Followed
<1>1. /\ UNCHANGED <<wf, listed, cache, loads, states, dlv>> /\ reader' = Turns!Disturb(reader)
      /\ events # <<>> /\ view' = Turns!Set(Head(events)) /\ events' = Tail(events) /\ observing' = TRUE
    BY DEF Turns!Observe, Turns!Disturbed
<1>2. Followed'
    BY <1>0, <1>1, OneLessTold
<1>3. /\ view'.known /\ view'.young = view.young
      /\ ~view'.trusted /\ view'.working => ~view.trusted /\ view.working /\ view'.turn = view.turn
      /\ ~view'.trusted => ~view.trusted
  <2>1. Head(events) \in Events
      BY <1>1 DEF ShownTyped
  <2>2. view.trusted \in BOOLEAN /\ view'.trusted \in BOOLEAN
      BY DEF ShownTyped, Views
  <2>. QED BY <1>1, <2>1, <2>2, SetIs
<1>4. Heard' /\ Runs'
    BY <1>1, <1>3, SameWf DEF Sound, Heard, Runs
<1>5. Lags'
  <2>1. Lags /\ \A m \in Messages : dlv'[m] = "expected" => view'.young
      BY <1>1, <1>3 DEF Sound, Lags
  <2>. QED BY <1>1, <1>3, <2>1, SameWf, SameLags
<1>6. Reads'
    BY <1>1, DisturbedReads DEF Sound, Unsettled
<1>. QED BY <1>2, <1>4, <1>5, <1>6 DEF Sound

\* The caches are invalidated, after an event or a delivery.
LEMMA InvalidateKeeps ==
    ASSUME Turns!ConstantsOK, ShownTyped, ShownTyped', Sound,
           Turns!Observed \/ \E m \in Messages : Turns!Delivered(m)
    PROVE  Sound'
<1>0. PICK w : Tells(w) /\ OnePlace(w) /\ Awaited(w)
    BY DEF Sound, Followed
<1>1. Turns!Invalidate /\ UNCHANGED <<wf, listed, events, view>>
    BY DEF Turns!Observed, Turns!Delivered
<1>2. \A m \in Messages : /\ dlv'[m] = "expected" <=> dlv[m] = "expected"
                          /\ dlv'[m] \in {"sent", "done"} <=> dlv[m] \in {"sent", "done"}
    BY DEF Turns!Observed, Turns!Delivered, Turns!At, ShownTyped
<1>3. Followed'
    BY <1>0, <1>1, <1>2, SameWf, SameTold
<1>4. Heard' /\ Runs'
    BY <1>1, <1>2, SameWf DEF Sound, Heard, Runs
<1>5. Lags'
  <2>1. ListingRight => ListingRight'
      BY <1>1, InvalidateIs, Nones DEF ListingRight
  <2>. QED BY <1>1, <1>2, <2>1, SameWf DEF Sound, Lags
<1>6. Reads'
    BY <1>1, InvalidatedReads DEF Sound
<1>. QED BY <1>3, <1>4, <1>5, <1>6 DEF Sound

\* The trust ends once the listings have had the time to be right.
LEMMA TrustEndsKeeps == ASSUME Turns!ConstantsOK, ShownTyped, ShownTyped', Sound, Turns!TrustEnds PROVE Sound'
<1>0. PICK w : Tells(w) /\ OnePlace(w) /\ Awaited(w)
    BY DEF Sound, Followed
<1>1. /\ UNCHANGED <<wf, listed, events, observing, cache, loads, states, dlv>> /\ reader' = Turns!Disturb(reader)
      /\ view' = [view EXCEPT !.trusted = FALSE, !.young = FALSE]
      /\ listed = wf.run /\ loads = {} /\ \A m \in Messages : dlv[m] \notin {"expected", "sent"}
      /\ cache.value.st # "nil" => cache.value.st = "old" \/ cache.value.run = wf.run
    BY DEF Turns!TrustEnds, Turns!Disturbed
<1>2. /\ view'.working = view.working /\ view'.turn = view.turn /\ view'.pending = view.pending
      /\ view'.known = view.known
    BY <1>1 DEF ShownTyped, Views
<1>3. Followed'
    BY <1>0, <1>1, <1>2, SameWf, SameTold
<1>4. Heard' /\ Runs'
    BY <1>1, <1>2, SameWf DEF Sound, Heard, Runs
<1>5. Lags'
  <2>1. wf.run => ListingRight'
      BY <1>1 DEF ListingRight
  <2>2. view.working => view.turn # 0
      BY <1>0 DEF Tells
  <2>3. (view.working /\ Turn = view.turn) \/ Queue # <<>> => wf.run
      BY <2>2 DEF Sound, Runs, Turn
  <2>. QED BY <1>1, <1>2, <2>1, <2>3, SameWf DEF Lags
<1>6. Reads'
    BY <1>1, DisturbedReads DEF Sound, Unsettled
<1>. QED BY <1>3, <1>4, <1>5, <1>6 DEF Sound

LEMMA ValuesAgeKeeps == ASSUME Turns!ConstantsOK, ShownTyped, ShownTyped', Sound, Turns!ValuesAge PROVE Sound'
<1>0. PICK w : Tells(w) /\ OnePlace(w) /\ Awaited(w)
    BY DEF Sound, Followed
<1>1. /\ UNCHANGED <<wf, listed, events, observing, view, loads, dlv>> /\ reader' = Turns!Disturb(reader)
      /\ cache' = [cache EXCEPT !.value.st = IF @ = "young" THEN "old" ELSE @] /\ states' = Turns!NoState
    BY DEF Turns!ValuesAge, Turns!Disturbed
<1>2. Followed'
    BY <1>0, <1>1, SameWf, SameTold
<1>3. Heard' /\ Runs'
    BY <1>1, SameWf DEF Sound, Heard, Runs
<1>4. Lags'
  <2>1. cache'.value.st # "young"
      BY <1>1 DEF ShownTyped, Caches, Listings
  <2>2. ListingRight => ListingRight'
      BY <1>1, <2>1 DEF ListingRight
  <2>. QED BY <1>1, <2>2, SameWf DEF Sound, Lags
<1>5. Reads'
    BY <1>1, DisturbedReads DEF Sound, Unsettled
<1>. QED BY <1>2, <1>3, <1>4, <1>5 DEF Sound

LEMMA ResolveKeeps ==
    ASSUME Turns!ConstantsOK, ShownTyped, ShownTyped', Sound, NEW m \in Messages, Turns!Resolve(m)
    PROVE  Sound'
<1>0. PICK w : Tells(w) /\ OnePlace(w) /\ Awaited(w)
    BY DEF Sound, Followed
<1>1. UNCHANGED <<wf, listed, events, observing, view, cache, loads, states, reader>> /\ dlv[m] = "none"
    BY DEF Turns!Resolve
<1>2. \E x \in {"stored", "refused", "calls"} : dlv' = [dlv EXCEPT ![m] = x]
    BY DEF Turns!Resolve, Turns!At
<1>3. \A k \in Messages : /\ dlv'[k] = "expected" <=> dlv[k] = "expected"
                          /\ dlv'[k] \in {"sent", "done"} <=> dlv[k] \in {"sent", "done"}
                          /\ dlv'[k] = "sent" <=> dlv[k] = "sent"
    BY <1>1, <1>2 DEF ShownTyped
<1>4. Followed'
    BY <1>0, <1>1, <1>3, SameWf, SameTold
<1>5. Heard' /\ Runs' /\ Lags'
    BY <1>1, <1>3, SameWf DEF Sound, Heard, Runs, Lags, ListingRight
<1>6. Reads'
  <2>1. (Turns!Quiet => Turns!Quiet') /\ (Unsettled => Unsettled')
      BY <1>1, <1>3 DEF Turns!Quiet, Unsettled
  <2>. QED BY <1>1, <2>1, SameWf DEF Sound, Reads, IsState, Shown
<1>. QED BY <1>4, <1>5, <1>6 DEF Sound

\* A message expected waits, before the participant has it.
LEMMA ExpectKeeps ==
    ASSUME Turns!ConstantsOK, ShownTyped, ShownTyped', Sound, NEW m \in Messages, Turns!Expect(m)
    PROVE  Sound'
<1>0. PICK w : Tells(w) /\ OnePlace(w) /\ Awaited(w)
    BY DEF Sound, Followed
<1>1. /\ UNCHANGED <<wf, listed, events, observing, cache, loads, states>> /\ reader' = Turns!Disturb(reader)
      /\ dlv[m] = "calls" /\ dlv' = [dlv EXCEPT ![m] = "expected"]
      /\ view' = [view EXCEPT !.known = TRUE, !.young = TRUE, !.pending = @ \cup {m}]
    BY DEF Turns!Expect, Turns!At, Turns!Disturbed
<1>2. /\ view'.working = view.working /\ view'.turn = view.turn /\ view'.pending = view.pending \cup {m}
      /\ view'.known /\ view'.young /\ view'.trusted = view.trusted
    BY <1>1 DEF ShownTyped, Views
<1>3. dlv'[m] = "expected" /\ \A k \in Messages : k # m => dlv'[k] = dlv[k]
    BY <1>1 DEF ShownTyped
<1>4. Followed'
  <2>1. Tells(w)'
      BY <1>0, <1>1, <1>2, SameWf DEF Tells
  <2>2. OnePlace(w)'
    <3>1. Inbox' = Inbox /\ \A k \in Messages : Met(w, k)' <=> Met(w, k)
        BY <1>1, SameWf DEF Inbox, Met
    <3>2. \A k \in Messages : dlv'[k] \in {"sent", "done"} <=> dlv[k] \in {"sent", "done"}
        BY <1>1, <1>3
    <3>. QED BY <1>0, <1>1, <3>1, <3>2, SameWf DEF OnePlace
  <2>3. Awaited(w)'
    <3>1. Inbox' = Inbox /\ \A k \in Messages : ToCome(w, k)' <=> ToCome(w, k)
        BY <1>1, SameWf DEF Inbox, ToCome
    <3>2. ASSUME NEW k \in Messages
          PROVE  k \in view'.pending <=> dlv'[k] = "expected" \/ k \in Inbox' \/ ToCome(w, k)'
        BY <1>0, <1>2, <1>3, <3>1 DEF Awaited
    <3>. QED BY <3>2 DEF Awaited
  <2>4. w \in [0 .. Len(events') -> Messages \cup {0}]
      BY <1>0, <1>1 DEF Tells
  <2>. QED BY <2>1, <2>2, <2>3, <2>4 DEF Followed
<1>5. Heard' /\ Runs'
    BY <1>1, <1>2, SameWf DEF Sound, Heard, Runs
<1>6. Lags'
  <2>1. Lags
      BY DEF Sound
  <2>. QED BY <1>1, <1>2, <2>1, SameWf, SameLags
<1>7. Reads'
  <2>1. Unsettled => Unsettled'
      BY <1>1, <1>3 DEF Unsettled
  <2>. QED BY <1>1, <2>1, DisturbedReads DEF Sound
<1>. QED BY <1>4, <1>5, <1>6, <1>7 DEF Sound

\* A message signalled waits in the participant's queue.
LEMMA SignalKeeps ==
    ASSUME Turns!ConstantsOK, ShownTyped, ShownTyped', Sound, viewFaults' = {},
           NEW m \in Messages, Turns!SignalWithStart(m)
    PROVE  Sound'
<1>0. PICK w : Tells(w) /\ OnePlace(w) /\ Awaited(w)
    BY DEF Sound, Followed
<1>1. /\ UNCHANGED <<listed, events, observing, view, cache, loads, states>> /\ reader' = Turns!Disturb(reader)
      /\ dlv[m] = "expected" /\ dlv' = [dlv EXCEPT ![m] = "sent"]
      /\ wf' = [wf EXCEPT !.run = TRUE, !.inbox = Append(@, m)]
    BY DEF Turns!SignalWithStart, Turns!At, Turns!Disturbed, Turns!Fault
<1>a. /\ wf'.run /\ wf'.at = wf.at /\ wf'.cur = wf.cur /\ wf'.dropping = wf.dropping
      /\ wf'.inbox = Append(wf.inbox, m) /\ wf.inbox \in Seq(Messages) /\ wf.dropping \in Seq(Messages)
    BY <1>1 DEF ShownTyped, Wfs
<1>2. wf'.run /\ Turn' = Turn /\ Queue' = Append(Queue, m) /\ Queue \in Seq(Messages)
  <2>. DEFINE h == IF wf.at = "check" THEN <<wf.cur>> ELSE <<>>
  <2>1. h \in Seq(Messages)
      BY QueueIs
  <2>2. Queue = (h \o wf.dropping) \o wf.inbox /\ Queue' = (h \o wf.dropping) \o Append(wf.inbox, m)
      BY <1>a DEF Queue
  <2>. HIDE DEF h
  <2>3. h \o wf.dropping \in Seq(Messages)
      BY <1>a, <2>1
  <2>4. \A a, b \in Seq(Messages) : a \o Append(b, m) = Append(a \o b, m) /\ a \o b \in Seq(Messages)
      OBVIOUS
  <2>5. Queue' = Append(Queue, m) /\ Queue \in Seq(Messages)
      BY <1>a, <2>2, <2>3, <2>4
  <2>. QED BY <1>a, <2>5 DEF Turn
<1>3. dlv'[m] = "sent" /\ \A k \in Messages : k # m => dlv'[k] = dlv[k]
    BY <1>1 DEF ShownTyped
<1>4. m \notin Inbox /\ ~Met(w, m)
    BY <1>0, <1>1 DEF OnePlace
<1>5. /\ \A k \in Messages : k \in Inbox' <=> k \in Inbox \/ k = m
      /\ \A i, j \in 1 .. Len(Queue') : Queue'[i] = Queue'[j] => i = j
  <2>. DEFINE q == Queue
              n == Len(q)
  <2>1. n \in Nat /\ Len(Queue') = n + 1 /\ Queue'[n + 1] = m /\ \A i \in 1 .. n : Queue'[i] = q[i]
      BY <1>2
  <2>2. Inbox = {q[i] : i \in 1 .. n} /\ Inbox' = {Queue'[i] : i \in 1 .. n + 1}
      BY <2>1 DEF Inbox
  <2>3. \A i, j \in 1 .. n : q[i] = q[j] => i = j
      BY <1>0 DEF OnePlace
  <2>. HIDE DEF q, n
  <2>4. \A i \in 1 .. n + 1 : i = n + 1 \/ i \in 1 .. n
      BY <2>1
  <2>5. \A i \in 1 .. n : q[i] # m
      BY <2>2, <1>4
  <2>6. \A k \in Messages : k \in Inbox' <=> k \in Inbox \/ k = m
    <3>1. n + 1 \in 1 .. n + 1 /\ \A i \in 1 .. n : i \in 1 .. n + 1
        BY <2>1
    <3>. QED BY <2>1, <2>2, <2>4, <3>1
  <2>7. \A i, j \in 1 .. n + 1 : Queue'[i] = Queue'[j] => i = j
      BY <2>1, <2>3, <2>4, <2>5
  <2>. QED BY <2>1, <2>6, <2>7
<1>6. Followed'
  <2>1. Tells(w)'
      BY <1>0, <1>1, <1>2 DEF Tells
  <2>2. OnePlace(w)'
    <3>1. \A k \in Messages : Met(w, k)' <=> Met(w, k)
        BY <1>1 DEF Met
    <3>2. \A k \in Messages : dlv'[k] \notin {"sent", "done"} => k # m /\ dlv[k] \notin {"sent", "done"}
        BY <1>3
    <3>3. /\ \A k \in Messages : dlv'[k] \notin {"sent", "done"} => k \notin Inbox'
          /\ \A k \in Messages : dlv'[k] \notin {"sent", "done"} \/ k \in Inbox' => ~Met(w, k)'
        BY <1>0, <1>4, <1>5, <3>1, <3>2 DEF OnePlace
    <3>4. \A i \in 1 .. Len(events') : \A j \in 1 .. i - 1 :
             events'[i].msg # 0 /\ events'[i].msg \in {w[j], events'[j].msg} => w[i - 1] = events'[i].msg
        BY <1>0, <1>1 DEF OnePlace
    <3>. QED BY <1>5, <3>3, <3>4 DEF OnePlace
  <2>3. Awaited(w)'
    <3>1. \A k \in Messages : ToCome(w, k)' <=> ToCome(w, k)
        BY <1>1 DEF ToCome
    <3>2. ASSUME NEW k \in Messages
          PROVE  k \in view'.pending <=> dlv'[k] = "expected" \/ k \in Inbox' \/ ToCome(w, k)'
      <4>1. k \in view.pending <=> dlv[k] = "expected" \/ k \in Inbox \/ ToCome(w, k)
          BY <1>0 DEF Awaited
      <4>. QED BY <4>1, <1>1, <1>3, <1>5, <3>1
    <3>. QED BY <3>2 DEF Awaited
  <2>4. w \in [0 .. Len(events') -> Messages \cup {0}]
      BY <1>0, <1>1 DEF Tells
  <2>. QED BY <2>1, <2>2, <2>3, <2>4 DEF Followed
<1>7. Heard' /\ Runs'
    BY <1>1, <1>2 DEF Sound, Heard, Runs
<1>8. Lags'
  <2>1. Lags /\ view'.young
      BY <1>1 DEF Sound, Lags
  <2>. QED BY <1>1, <1>2, <2>1, SameLags
<1>9. Reads'
  <2>1. Unsettled'
      BY <1>3 DEF Unsettled
  <2>. QED BY <1>1, <2>1, DisturbedReads DEF Sound
<1>. QED BY <1>6, <1>7, <1>8, <1>9 DEF Sound

-----------------------------------------------------------------------------
\* With no event on its way and no delivery under way, what the server knows
\* is the participant's state.
LEMMA KnownAtRest ==
    ASSUME Turns!ConstantsOK, ShownTyped, Followed, Turns!Quiet
    PROVE  /\ view.working <=> Turn # 0
           /\ view.working => view.turn = Turn
           /\ view.pending = {} <=> Queue = <<>>
           /\ Cardinality(view.pending) = Len(Queue)
<1>0. PICK w : Tells(w) /\ OnePlace(w) /\ Awaited(w)
    BY DEF Followed
<1>1. events = <<>> /\ Len(events) = 0 /\ \A m \in Messages : dlv[m] # "expected"
    BY DEF Turns!Quiet
<1>2. (view.working <=> Turn # 0) /\ (view.working => view.turn = Turn)
    BY <1>0, <1>1, QueueIs DEF Tells, ShownTyped, Views
<1>. DEFINE q == Queue
            n == Len(q)
<1>3. q \in Seq(Messages) /\ n \in Nat /\ q \in [1 .. n -> Messages]
    BY QueueIs
<1>4. \A m \in Messages : ~ToCome(w, m)
    BY <1>1 DEF ToCome
<1>5. view.pending = {q[i] : i \in 1 .. n}
  <2>1. view.pending \subseteq Messages /\ \A m \in Messages : m \in view.pending <=> m \in Inbox
      BY <1>0, <1>1, <1>4 DEF Awaited, ShownTyped, Views
  <2>. QED BY <2>1, <1>3 DEF Inbox
<1>6. \A i, j \in 1 .. n : q[i] = q[j] => i = j
    BY <1>0 DEF OnePlace
<1>7. q = <<>> <=> n = 0
    BY <1>3
<1>. HIDE DEF q, n
<1>8. Cardinality(view.pending) = n
  <2>1. ExistsBijection(1 .. n, view.pending)
    <3>1. q \in [1 .. n -> view.pending]
        BY <1>3, <1>5
    <3>2. q \in Bijection(1 .. n, view.pending)
        BY <3>1, <1>5, <1>6 DEF Bijection, Injection, Surjection, IsInjective
    <3>. QED BY <3>2 DEF ExistsBijection
  <2>2. IsFiniteSet(1 .. n) /\ Cardinality(1 .. n) = n
    <3>1. 1 \in Int /\ n \in Int /\ (1 > n => n = 0) /\ n - 1 + 1 = n
        BY <1>3
    <3>. QED BY <3>1, FS_Interval
  <2>. QED BY <2>1, <2>2, FS_Bijection
<1>9. view.pending = {} <=> n = 0
  <2>1. n = 0 => view.pending = {}
      BY <1>5
  <2>2. n # 0 => 1 \in 1 .. n
      BY <1>3
  <2>. QED BY <2>1, <2>2, <1>5
<1>. QED BY <1>2, <1>7, <1>8, <1>9 DEF q, n

\* A listing not past its time leaves the participant unclear, or shows it as
\* it is.
LEMMA SnapshotRight ==
    ASSUME Turns!ConstantsOK, ShownTyped, Sound, Turns!Quiet, cache.value.st = "young",
           NEW s, s = Turns!Snapshot(cache.value.run), ~(s.working /\ ~s.turn)
    PROVE  (s.working <=> Turn # 0) /\ s.queued = Len(Queue)
<1>. DEFINE b == cache.value.run
            k == Turns!Cardinality(view.pending)
<1>1. /\ b \in BOOLEAN /\ view.known \in BOOLEAN /\ view.working \in BOOLEAN /\ view.trusted \in BOOLEAN
      /\ view.young \in BOOLEAN
    BY DEF ShownTyped, Caches, Listings, Views
<1>2. /\ view.working <=> Turn # 0
      /\ view.working => view.turn = Turn
      /\ view.pending = {} <=> Queue = <<>>
      /\ k = Len(Queue)
    BY KnownAtRest, Counts DEF Sound
<1>3. Len(<<>>) = 0
    OBVIOUS
<1>4. CASE ~view.known
  <2>1. s = [working |-> b, turn |-> FALSE, queued |-> 0]
      BY <1>4 DEF Turns!Snapshot
  <2>2. ~wf.run /\ Turn = 0 /\ Queue = <<>>
      BY <1>4 DEF Sound, Heard, Runs, Turn
  <2>. QED BY <2>1, <2>2, <1>1, <1>3
<1>5. CASE view.known /\ view.trusted
  <2>1. s = [working |-> view.working, turn |-> view.working /\ view.working, queued |-> k]
      BY <1>5 DEF Turns!Snapshot
  <2>. QED BY <2>1, <1>1, <1>2
<1>6. CASE view.known /\ ~view.trusted
  <2>. DEFINE works == b /\ (view.working \/ view.pending # {})
              queued == IF b \/ view.young THEN k ELSE 0
  <2>1. s = [working |-> works, turn |-> works /\ view.working, queued |-> queued]
      BY <1>6 DEF Turns!Snapshot
  <2>2. s.working = works /\ s.turn = (works /\ view.working) /\ s.queued = queued
      BY <2>1
  <2>3. ~(works /\ ~view.working)
      BY <2>2, <1>1
  <2>4. view.working => b
      BY <1>1, <1>2, <1>6 DEF Sound, Lags, ListingRight
  <2>5. ~b /\ ~view.young => Queue = <<>>
      BY <1>1, <1>6 DEF Sound, Lags, ListingRight
  <2>6. works <=> Turn # 0
      BY <1>1, <1>2, <2>3, <2>4
  <2>7. queued = Len(Queue)
      BY <1>2, <1>3, <2>5
  <2>. QED BY <2>2, <2>6, <2>7
<1>. QED BY <1>1, <1>4, <1>5, <1>6

\* A step of a request or of a load leaves the participant and what is known
\* of it.
LEMMA ReadingFrame ==
    ASSUME Sound, UNCHANGED <<wf, listed, events, observing, view, dlv>>,
           cache'.value.st = "young" => cache'.value = cache.value \/ (ListingRight => cache'.value.run),
           \A l \in loads' : l \in loads \/ l.read.st = "nil" \/ (ListingRight => l.read.run)
    PROVE  /\ Followed' /\ Heard' /\ Runs' /\ Lags'
           /\ Turns!Quiet' = Turns!Quiet /\ Unsettled' = Unsettled
<1>1. Followed'
  <2>1. PICK w : Tells(w) /\ OnePlace(w) /\ Awaited(w)
      BY DEF Sound, Followed
  <2>. QED BY <2>1, SameWf, SameTold
<1>2. Heard' /\ Runs'
    BY SameWf DEF Sound, Heard, Runs
<1>3. Lags'
  <2>1. ListingRight => ListingRight'
      BY DEF ListingRight
  <2>. QED BY <2>1, SameWf DEF Sound, Lags
<1>4. Turns!Quiet' = Turns!Quiet /\ Unsettled' = Unsettled
    BY DEF Turns!Quiet, Unsettled
<1>. QED BY <1>1, <1>2, <1>3, <1>4

LEMMA GetKeeps == ASSUME Turns!ConstantsOK, ShownTyped, ShownTyped', Sound, Turns!Get PROVE Sound'
<1>1. UNCHANGED <<wf, listed, events, observing, view, states, dlv>>
    BY DEF Turns!Get
<1>2. cache'.value = cache.value /\ \A l \in loads' : l \in loads \/ l.read.st = "nil"
    BY GetIs, Nones
<1>3. Followed' /\ Heard' /\ Runs' /\ Lags' /\ Turns!Quiet' = Turns!Quiet /\ Unsettled' = Unsettled
    BY <1>1, <1>2, ReadingFrame
<1>4. cache.value \in Listings /\ TRUE \in BOOLEAN /\ FALSE \in BOOLEAN
    BY DEF ShownTyped, Caches
<1>5. /\ reader'.st # "asked" /\ (reader'.quiet => reader.quiet)
      /\ reader'.st = "done" => reader'.quiet /\ (reader'.working <=> Turn # 0) /\ reader'.queued = Len(Queue)
  <2>1. CASE Turns!Shows(cache.value, FALSE) /\ cache.value.st = "young"
    <3>. DEFINE s == Turns!Snapshot(cache.value.run)
    <3>1. /\ reader'.quiet => reader.quiet
          /\ reader'.st \in {"none", "asks", "done"}
          /\ reader'.st = "done" =>
                reader'.quiet /\ ~(s.working /\ ~s.turn) /\ reader'.working = s.working /\ reader'.queued = s.queued
        BY <2>1, <1>4, ShowsIs
    <3>2. reader.quiet => Turns!Quiet
        BY DEF Sound, Reads
    <3>3. Turns!Quiet /\ ~(s.working /\ ~s.turn) => (s.working <=> Turn # 0) /\ s.queued = Len(Queue)
        BY <2>1, SnapshotRight
    <3>. HIDE DEF s
    <3>. QED BY <3>1, <3>2, <3>3
  <2>2. CASE Turns!Shows(cache.value, TRUE)
    <3>1. ~reader'.quiet /\ reader'.st \in {"none", "asks", "done"} /\ (reader'.st = "done" => reader'.quiet)
        BY <2>2, <1>4, ShowsIs
    <3>. QED BY <3>1
  <2>3. CASE reader'.st = "waits" /\ reader'.quiet = reader.quiet
      BY <2>3
  <2>. QED BY <2>1, <2>2, <2>3, GetIs
<1>6. reader'.st = "done" => Shown(reader.working, reader.queued)'
    BY <1>1, <1>5, SameWf DEF Shown
<1>7. Reads'
  <2>1. reader'.quiet => Turns!Quiet'
      BY <1>3, <1>5 DEF Sound, Reads
  <2>2. states'.st # "nil" => IsState(states)' \/ Unsettled'
      BY <1>1, <1>3 DEF Sound, Reads, IsState
  <2>. QED BY <1>1, <1>5, <1>6, <2>1, <2>2 DEF Reads
<1>. QED BY <1>3, <1>7 DEF Sound

LEMMA ListingLoadKeeps ==
    ASSUME Turns!ConstantsOK, ShownTyped, ShownTyped', Sound, viewFaults' = {},
           NEW l \in loads, Turns!LoadVisible(l) \/ Turns!Refresh(l)
    PROVE  Sound'
<1>1. CASE Turns!LoadVisible(l)
  <2>1. UNCHANGED <<wf, listed, events, observing, view, cache, states, dlv, reader>>
      BY <1>1, LoadIs
  <2>2. PICK k \in Loads : loads' = (loads \ {l}) \cup {k} /\ k.read.run = listed
      BY <1>1, LoadIs
  <2>3. \A j \in loads' : j \in loads \/ (ListingRight => j.read.run)
      BY <2>2 DEF ListingRight
  <2>4. Followed' /\ Heard' /\ Runs' /\ Lags' /\ Turns!Quiet' = Turns!Quiet /\ Unsettled' = Unsettled
      BY <2>1, <2>3, ReadingFrame
  <2>5. Reads'
      BY <2>1, <2>4, SameWf DEF Sound, Reads, IsState, Shown
  <2>. QED BY <2>4, <2>5 DEF Sound
<1>2. CASE Turns!Refresh(l)
  <2>1. /\ UNCHANGED <<wf, listed, events, observing, view, states, dlv>> /\ loads' = loads \ {l}
        /\ l.read.st # "nil" /\ cache'.value \in {cache.value, l.read}
        /\ reader'.quiet = reader.quiet /\ (reader' = reader \/ reader'.st = "gets")
      BY <1>2, RefreshIs
  <2>2. cache'.value = cache.value \/ (ListingRight => cache'.value.run)
      BY <2>1 DEF ListingRight
  <2>3. Followed' /\ Heard' /\ Runs' /\ Lags' /\ Turns!Quiet' = Turns!Quiet /\ Unsettled' = Unsettled
      BY <2>1, <2>2, ReadingFrame
  <2>4. Reads'
      BY <2>1, <2>3, SameWf DEF Sound, Reads, IsState, Shown
  <2>. QED BY <2>3, <2>4 DEF Sound
<1>. QED BY <1>1, <1>2

\* An answer that is the participant's state is shown.
LEMMA AnswerRight ==
    ASSUME ShownTyped, ShownTyped', NEW q \in Replies, Turns!Answer(q), reader.quiet => IsState(q)
    PROVE  /\ reader'.quiet => reader.quiet
           /\ reader'.st # "asked"
           /\ reader'.st = "done" => reader'.quiet /\ Shown(reader'.working, reader'.queued)
<1>. DEFINE b == reader.quiet /\ ~q.behind
            r == [reader EXCEPT !.working = q.works, !.queued = q.queued, !.quiet = b]
<1>1. b \in BOOLEAN /\ q.works \in BOOLEAN /\ q.queued \in Nat /\ (b => reader.quiet /\ ~q.behind)
    BY DEF Replies, ShownTyped, Readers
<1>2. reader' = Turns!Ended(r)
    BY DEF Turns!Answer
<1>. HIDE DEF b
<1>3. r \in Readers /\ r.quiet = b /\ r.working = q.works /\ r.queued = q.queued
    BY <1>1 DEF ShownTyped, Readers
<1>. HIDE DEF r
<1>4. /\ reader'.quiet => b
      /\ reader'.st \in {"none", "done"}
      /\ reader'.st = "done" => b /\ reader'.quiet /\ reader'.working = q.works /\ reader'.queued = q.queued
    BY <1>2, <1>3, EndedIs
<1>5. b => Shown(q.works, q.queued)
    BY <1>1 DEF IsState, Shown
<1>. QED BY <1>1, <1>4, <1>5

LEMMA AskKeeps ==
    ASSUME Turns!ConstantsOK, ShownTyped, ShownTyped', Sound, viewFaults' = {},
           Turns!Request \/ Turns!AsksKept \/ Turns!QueryState \/ Turns!StateAnswered \/ Turns!RequestEnds
    PROVE  Sound'
<1>1. UNCHANGED <<wf, listed, events, observing, view, cache, loads, dlv>>
    BY DEF Turns!Request, Turns!AsksKept, Turns!QueryState, Turns!StateAnswered, Turns!RequestEnds
<1>2. Followed' /\ Heard' /\ Runs' /\ Lags' /\ Turns!Quiet' = Turns!Quiet /\ Unsettled' = Unsettled
    BY <1>1, ReadingFrame
<1>3. reader \in Readers /\ states \in Replies /\ reader.read \in Replies
    BY DEF ShownTyped, Readers
<1>4. Turns!Quiet => ~Unsettled
    BY DEF Turns!Quiet, Unsettled
<1>5. /\ reader.quiet => Turns!Quiet
      /\ reader.st = "asked" => reader.read.st # "nil"
      /\ reader.st = "asked" /\ reader.quiet => IsState(reader.read)
      /\ reader.st = "asked" /\ reader.same => IsState(reader.read) \/ Unsettled
      /\ states.st # "nil" => IsState(states) \/ Unsettled
    BY DEF Sound, Reads
<1>7. Reads'
  <2>1. CASE Turns!Request
    <3>1. states' = states /\ reader' = [Turns!NoRequest EXCEPT !.st = "gets", !.quiet = Turns!Quiet]
        BY <2>1 DEF Turns!Request
    <3>2. reader'.st = "gets" /\ reader'.quiet = Turns!Quiet
        BY <3>1, Nones DEF Readers
    <3>. QED BY <1>1, <1>2, <1>5, <3>1, <3>2 DEF Reads, IsState, Shown
  <2>2. CASE Turns!AsksKept
    <3>1. states' = states /\ Turns!Answer(states) /\ states.st # "nil"
        BY <2>2 DEF Turns!AsksKept
    <3>2. reader.quiet => IsState(states)
        BY <3>1, <1>4, <1>5
    <3>3. /\ reader'.quiet => reader.quiet
          /\ reader'.st # "asked"
          /\ reader'.st = "done" => reader'.quiet /\ Shown(reader'.working, reader'.queued)
        BY <1>3, <3>1, <3>2, AnswerRight
    <3>. QED BY <1>1, <1>2, <1>5, <3>1, <3>3, SameWf DEF Reads, IsState, Shown
  <2>3. CASE Turns!QueryState
    <3>. DEFINE a == wf.cur # 0
                q == [st |-> "young", works |-> a, queued |-> Len(wf.inbox), behind |-> FALSE]
    <3>1. states' = states /\ reader' = [reader EXCEPT !.st = "asked", !.same = TRUE, !.read = q]
        BY <2>3, Nones DEF Turns!QueryState, Turns!Answers
    <3>2. (q.works <=> wf.cur # 0) /\ q.queued = Len(wf.inbox) /\ q.st = "young"
        OBVIOUS
    <3>. HIDE DEF q
    <3>3. reader'.st = "asked" /\ reader'.quiet = reader.quiet /\ reader'.read = q
        BY <1>3, <3>1 DEF Readers
    <3>. QED BY <1>1, <1>2, <1>5, <3>1, <3>2, <3>3 DEF Reads, IsState, Shown
  <2>4. CASE Turns!StateAnswered
    <3>1. /\ reader.st = "asked" /\ Turns!Answer(reader.read)
          /\ states' = IF reader.same THEN reader.read ELSE states
        BY <2>4 DEF Turns!StateAnswered, Turns!Fault
    <3>2. /\ reader'.quiet => reader.quiet
          /\ reader'.st # "asked"
          /\ reader'.st = "done" => reader'.quiet /\ Shown(reader'.working, reader'.queued)
        BY <1>3, <1>5, <3>1, AnswerRight
    <3>3. states'.st # "nil" => IsState(states)' \/ Unsettled
        BY <1>1, <1>5, <3>1 DEF IsState
    <3>. QED BY <1>1, <1>2, <1>5, <3>2, <3>3, SameWf DEF Reads, IsState, Shown
  <2>5. CASE Turns!RequestEnds
    <3>1. states' = states /\ reader' = Turns!NoRequest
        BY <2>5 DEF Turns!RequestEnds
    <3>. QED BY <1>1, <1>2, <1>5, <3>1, Nones DEF Reads, IsState, Shown
  <2>. QED BY <2>1, <2>2, <2>3, <2>4, <2>5
<1>. QED BY <1>2, <1>7 DEF Sound

-----------------------------------------------------------------------------
\* The invariant of what the server shows holds, for any messages, loads and
\* faults: with no fault so far, the events on their way tell the participant's
\* state from the server's, and what is kept is right or to be invalidated.
THEOREM ShownInvariant == ASSUME Turns!ConstantsOK PROVE Turns!Spec => []VInv
<1>1. Turns!Init => VInv
    BY ShownBegins
<1>2. VInv /\ [Turns!Next]_(Turns!vars) => VInv'
  <2>. SUFFICES ASSUME VInv, [Turns!Next]_(Turns!vars) PROVE VInv'
      OBVIOUS
  <2>1. CASE Turns!Next
    <3>1. ShownTyped' /\ NoneBehind'
      <4>1. ShownTyped /\ NoneBehind
          BY DEF VInv
      <4>. QED BY <2>1, <4>1, QuietTyped, TellingTyped, WorkflowTyped, ServerTyped, DeliverTyped, ReadingTyped DEF Turns!Next, Turns!Server
    <3>2. viewFaults' = {} => viewFaults = {}
        BY <2>1 DEF Turns!Next, Turns!Server, Turns!Reading, Turns!Takes, Turns!TurnOver, Turns!TurnStarted,
                    Turns!TurnDone, Turns!Clear, Turns!Dropped, Turns!Quietly, Turns!Telling,
                    Turns!RelayFailed, Turns!Close, Turns!Listed, Turns!NoFault, Turns!Fault,
                    Turns!Observe, Turns!Observed, Turns!EventLost, Turns!TrustEnds, Turns!ValuesAge, Turns!Restart,
                    Turns!Resolve, Turns!Expect, Turns!SignalWithStart, Turns!Delivered, Turns!Request, Turns!Get,
                    Turns!AsksKept, Turns!QueryState, Turns!StateAnswered, Turns!RequestEnds, Turns!LoadVisible,
                    Turns!Refresh
    <3>3. ASSUME viewFaults' = {} PROVE Sound'
      <4>1. ShownTyped /\ Sound
          BY <3>2, <3>3 DEF VInv, Sound
      <4>2. ~Turns!EventLost /\ ~Turns!Restart
          BY <3>3 DEF Turns!EventLost, Turns!Restart, Turns!Fault
      <4>3. CASE \/ Turns!Takes \/ Turns!TurnOver \/ Turns!TurnStarted \/ Turns!TurnDone \/ Turns!Clear
                 \/ Turns!Dropped \/ Turns!RelayFailed \/ Turns!Close \/ Turns!Listed
          BY <3>1, <4>1, <4>3, TellingKeeps, LoopKeeps, ListedKeeps
      <4>4. CASE Turns!Server
        <5>1. CASE Turns!Observe \/ Turns!Observed \/ Turns!TrustEnds \/ Turns!ValuesAge
            BY <3>1, <4>1, <5>1, ObserveKeeps, InvalidateKeeps, TrustEndsKeeps, ValuesAgeKeeps
        <5>2. ASSUME NEW m \in Messages,
                     Turns!Resolve(m) \/ Turns!Expect(m) \/ Turns!SignalWithStart(m) \/ Turns!Delivered(m)
              PROVE  Sound'
            BY <3>1, <3>3, <4>1, <5>2, ResolveKeeps, ExpectKeeps, SignalKeeps, InvalidateKeeps
        <5>. QED BY <4>2, <4>4, <5>1, <5>2 DEF Turns!Server
      <4>5. CASE Turns!Reading
        <5>1. ASSUME NEW l \in loads, Turns!LoadVisible(l) \/ Turns!Refresh(l) PROVE Sound'
            BY <3>1, <3>3, <4>1, <5>1, ListingLoadKeeps
        <5>. QED BY <3>1, <3>3, <4>1, <4>5, <5>1, GetKeeps, AskKeeps DEF Turns!Reading
      <4>. QED BY <2>1, <4>3, <4>4, <4>5 DEF Turns!Next
    <3>. QED BY <3>1, <3>3 DEF VInv, Sound
  <2>2. CASE UNCHANGED Turns!vars
    <3>1. UNCHANGED <<wf, listed, events, observing, view, cache, loads, states, dlv, reader, viewFaults>>
        BY <2>2 DEF Turns!vars
    <3>2. ShownTyped' /\ NoneBehind'
        BY <3>1 DEF VInv, ShownTyped, NoneBehind, Turns!NoStaleListing
    <3>3. Sound => Sound'
      <4>. HAVE Sound
      <4>1. Followed' /\ Heard' /\ Runs' /\ Lags' /\ Turns!Quiet' = Turns!Quiet /\ Unsettled' = Unsettled
          BY <3>1, ReadingFrame
      <4>2. Reads'
          BY <3>1, <4>1, SameWf DEF Sound, Reads, IsState, Shown
      <4>. QED BY <4>1, <4>2 DEF Sound
    <3>. QED BY <3>1, <3>2, <3>3 DEF VInv, Sound
  <2>. QED BY <2>1, <2>2
<1>. QED BY <1>1, <1>2, PTL DEF Turns!Spec

LEMMA JoinedLen == \A a, b \in Seq(Messages) : Len(a \o b) = Len(b) + Len(a) + 0
OBVIOUS

\* Both halves of what the server says of a participant.
ParticipantShown == Turns!ShownRight /\ Turns!NoStaleListing

\* With its events come, a participant is shown as it is, and no listing read
\* before an action is kept after it (session/turns.go, session/status.go).
THEOREM ParticipantsAreShown == ASSUME Turns!ConstantsOK PROVE Turns!Spec => []ParticipantShown
<1>1. VInv => ParticipantShown
  <2>. SUFFICES ASSUME VInv PROVE Turns!ShownRight /\ Turns!NoStaleListing
      BY DEF ParticipantShown
  <2>1. Turns!NoStaleListing
      BY DEF VInv, NoneBehind
  <2>2. ASSUME reader.st = "done", viewFaults = {}
        PROVE  [works |-> reader.working, queued |-> reader.queued] \in {Turns!Tells, Turns!Answers}
    <3>1. reader.working \in BOOLEAN /\ Shown(reader.working, reader.queued) /\ ShownTyped
        BY <2>2 DEF VInv, Reads, ShownTyped, Readers
    <3>2. ASSUME reader.working <=> Turn # 0, reader.queued = Len(Queue)
          PROVE  [works |-> reader.working, queued |-> reader.queued] = Turns!Tells
      <4>1. /\ wf.inbox \in Seq(Messages) /\ wf.dropping \in Seq(Messages)
            /\ wf.at \in {"none", "check", "turn", "done"}
          BY <3>1 DEF ShownTyped, Wfs
      <4>2. Turn # 0 <=> wf.at = "turn"
          BY <3>1, <4>1, QueueIs DEF Turns!ConstantsOK, Turns!Relayed
      <4>3. reader.working = (wf.at = "turn")
          BY <3>1, <3>2, <4>2
      <4>4. Len(Queue) = Len(wf.inbox) + Len(wf.dropping) + (IF wf.at = "check" THEN 1 ELSE 0)
        <5>1. CASE wf.at = "check"
          <6>1. Queue = <<wf.cur>> \o wf.inbox /\ wf.cur \in Messages /\ wf.dropping = <<>>
              BY <3>1, <5>1, QueueIs
          <6>. QED BY <4>1, <5>1, <6>1
        <5>2. CASE wf.at # "check"
          <6>1. Queue = wf.dropping \o wf.inbox
              BY <3>1, <4>1, <5>2, QueueIs
          <6>2. (IF wf.at = "check" THEN 1 ELSE 0) = 0
              BY <5>2
          <6>3. Len(wf.dropping \o wf.inbox) = Len(wf.inbox) + Len(wf.dropping) + 0
              BY <4>1, JoinedLen
          <6>. QED BY <6>1, <6>2, <6>3
        <5>. QED BY <5>1, <5>2
      <4>. QED BY <3>2, <4>3, <4>4 DEF Turns!Tells
    <3>3. ASSUME reader.working <=> wf.cur # 0, reader.queued = Len(wf.inbox)
          PROVE  [works |-> reader.working, queued |-> reader.queued] = Turns!Answers
      <4>1. reader.working = (wf.cur # 0)
          BY <3>1, <3>3
      <4>. QED BY <3>3, <4>1, Nones DEF Turns!Answers
    <3>. QED BY <3>1, <3>2, <3>3 DEF Shown
  <2>. QED BY <2>1, <2>2 DEF Turns!ShownRight
<1>. QED BY <1>1, ShownInvariant, PTL

=============================================================================
