----------------------------- MODULE Enrollment -----------------------------
(***************************************************************************)
(* How a machine becomes its owner's: by a device request whose code a     *)
(* logged-in user types and approves, or by an enrollment token they       *)
(* created (gateway/enroll.go, store/machine.go, the pages of              *)
(* cmd/agent/machines.go), and the command on the machine that asks, polls *)
(* and keeps the token it is granted (machine/connect/enroll.go,           *)
(* cmd/agent/connect.go).                                                  *)
(*                                                                         *)
(* Requests to the gateway lose their answers or are carried out late;     *)
(* codes are few, and given again once theirs is forgotten.                *)
(***************************************************************************)
EXTENDS Naturals, FiniteSets

CONSTANTS Users,
          Homes,       \* machines' directories, each with one command at a time
          Codes,       \* user codes
          NoCode, Nobody,
          MaxPending,  \* device requests waiting at once (maxPendingDevices)
          Tries,       \* codes a user may miss in a window
          MaxIds,      \* bound: enrollments
          MaxFaults    \* bound: answers lost, late, commands killed

VARIABLES
    rows,      \* rows[i]: the enrollment i
    next,      \* the next enrollment
    made,      \* made[i]: the machines enrollment i made, and the last one's owner
    home,      \* home[h]: the command there, its enrollment
    late,      \* polls given up on, still on their way
    page,      \* page[u]: the request the activation page shows them
    tokens,    \* enrollment tokens created, not shown yet (machinesUI.tokens)
    told,      \* enrollment tokens shown
    tries,     \* tries[u]: codes missed
    viewed,    \* history: who was shown which request, or created which token
    asker,     \* history: asker[i]: where the request i came from
    faults

vars == <<rows, next, made, home, late, page, tokens, told, tries, viewed, asker, faults>>
ui == <<page, tokens, told, tries, viewed>>

\* What tells the codes, the users and the machines from their absence.
ConstantsOK ==
    /\ MaxIds \in Nat
    /\ NoCode \notin Codes /\ Nobody \notin Users \cup Homes

Ids == 1..MaxIds
NoRow == [kind |-> "none", code |-> NoCode, by |-> Nobody, expired |-> FALSE]
New == [st |-> "new", id |-> 0]
NoPage == [id |-> 0, code |-> NoCode]

Init ==
    /\ rows = [i \in Ids |-> NoRow] /\ next = 1
    /\ made = [i \in Ids |-> [n |-> 0, owner |-> Nobody]]
    /\ home = [h \in Homes |-> New] /\ late = {}
    /\ page = [u \in Users |-> NoPage] /\ tokens = {} /\ told = {}
    /\ tries = [u \in Users |-> 0]
    /\ viewed = {} /\ asker = [i \in Ids |-> Nobody]
    /\ faults = 0

Fault == faults < MaxFaults /\ faults' = faults + 1

-----------------------------------------------------------------------------
(* A device request. *)

Pending == {i \in Ids : rows[i].kind = "device" /\ ~rows[i].expired /\ made[i].n = 0}

\* CreateMachineEnrollment: a code is of one row, expired or not, until the
\* row is forgotten.
Free(c) == \A i \in Ids : rows[i].code # c

\* ServeDevice; the command whose answer is lost ends.
ServeDevice(h) ==
    /\ home[h] = New /\ next <= MaxIds
    /\ Cardinality(Pending) < MaxPending
    /\ \E c \in Codes : /\ Free(c)
                        /\ rows' = [rows EXCEPT ![next] = [NoRow EXCEPT !.kind = "device", !.code = c]]
    /\ next' = next + 1
    /\ asker' = [asker EXCEPT ![next] = h]
    /\ \/ home' = [home EXCEPT ![h] = [st |-> "polls", id |-> next]] /\ UNCHANGED faults
       \/ Fault /\ UNCHANGED home
    /\ UNCHANGED <<made, late, ui>>

\* FindRequest: a code that is no request's counts as a try.
FindRequest(u) ==
    /\ tries[u] < Tries
    /\ \/ \E i \in Ids :
             /\ rows[i].kind = "device" /\ ~rows[i].expired /\ rows[i].by = Nobody
             /\ page' = [page EXCEPT ![u] = [id |-> i, code |-> rows[i].code]]
             /\ viewed' = viewed \cup {<<u, i>>}
             /\ UNCHANGED tries
       \/ /\ tries' = [tries EXCEPT ![u] = @ + 1]
          /\ page' = [page EXCEPT ![u] = NoPage]
          /\ UNCHANGED viewed
    /\ UNCHANGED <<rows, next, made, home, late, tokens, told, asker, faults>>

\* ApproveDeviceRequest: the request shown, by its id and its code.
\* Mutant: by its code alone.
ApprovedByCode(p, u) ==
    [i \in Ids |-> IF rows[i].code = p.code /\ rows[i].kind = "device" /\ ~rows[i].expired /\ rows[i].by = Nobody
                   THEN [rows[i] EXCEPT !.by = u] ELSE rows[i]]

Approved(p, u) ==
    [i \in Ids |-> IF i = p.id /\ rows[i].code = p.code /\ rows[i].kind = "device" /\ ~rows[i].expired /\ rows[i].by = Nobody
                   THEN [rows[i] EXCEPT !.by = u] ELSE rows[i]]

Approve(u) ==
    /\ page[u] # NoPage /\ tries[u] < Tries
    /\ rows' = Approved(page[u], u)
    /\ tries' = [tries EXCEPT ![u] = IF rows' = rows THEN @ + 1 ELSE 0]
    /\ page' = [page EXCEPT ![u] = NoPage]
    /\ UNCHANGED <<next, made, home, late, tokens, told, viewed, asker, faults>>

-----------------------------------------------------------------------------
(* An enrollment token: shown once, within a minute, to who created it. *)

CreateEnrollmentToken(u) ==
    /\ next <= MaxIds
    /\ rows' = [rows EXCEPT ![next] = [NoRow EXCEPT !.kind = "token", !.by = u]]
    /\ next' = next + 1
    /\ tokens' = tokens \cup {next} /\ viewed' = viewed \cup {<<u, next>>}
    /\ UNCHANGED <<made, home, late, page, told, tries, asker, faults>>

Take(i) ==
    /\ i \in tokens /\ tokens' = tokens \ {i}
    /\ told' \in {told, told \cup {i}}
    /\ UNCHANGED <<rows, next, made, home, late, page, tries, viewed, asker, faults>>

-----------------------------------------------------------------------------
(* RedeemMachineEnrollment, and the command that asks for it. *)

Answer(i) ==
    IF rows[i].kind = "none" \/ made[i].n > 0 THEN "invalid"
    ELSE IF rows[i].expired THEN "expired"
    ELSE IF rows[i].by = Nobody THEN "pending" ELSE "granted"

Redeem(i) == made' = IF Answer(i) = "granted" THEN [made EXCEPT ![i] = [n |-> @.n + 1, owner |-> rows[i].by]] ELSE made

\* ByCode: polls until an answer that is not "pending"; one that does not
\* come is asked for again, the request perhaps carried out later.
Poll(h) ==
    LET i == home[h].id
    IN  /\ home[h].st = "polls"
        /\ \/ /\ Redeem(i)
              /\ home' = [home EXCEPT ![h] = CASE Answer(i) = "granted" -> [st |-> "granted", id |-> i]
                                               [] Answer(i) = "pending" -> @
                                               [] OTHER -> New]
              /\ UNCHANGED <<late, faults>>
           \/ Fault /\ Redeem(i) /\ UNCHANGED <<home, late>>
           \/ Fault /\ late' = late \cup {i} /\ UNCHANGED <<home, made>>
        /\ UNCHANGED <<rows, next, ui, asker>>

LatePoll(i) ==
    /\ i \in late /\ late' = late \ {i}
    /\ Redeem(i)
    /\ UNCHANGED <<rows, next, home, ui, asker, faults>>

\* ByToken: one try, with a token pasted into any number of machines.
ByToken(h, i) ==
    /\ home[h] = New /\ i \in told
    /\ Redeem(i)
    /\ \/ /\ home' = IF Answer(i) = "granted" THEN [home EXCEPT ![h] = [st |-> "granted", id |-> i]] ELSE home
          /\ UNCHANGED faults
       \/ Fault /\ UNCHANGED home
    /\ UNCHANGED <<rows, next, late, ui, asker>>

\* The token granted is kept in the machine's directory.
Save(h) ==
    /\ home[h].st = "granted"
    /\ home' = [home EXCEPT ![h].st = "enrolled"]
    /\ UNCHANGED <<rows, next, made, late, ui, asker, faults>>

\* The command is stopped, or killed, and run again.
Killed(h) ==
    /\ home[h].st \in {"polls", "granted"} /\ Fault
    /\ home' = [home EXCEPT ![h] = New]
    /\ UNCHANGED <<rows, next, made, late, ui, asker>>

-----------------------------------------------------------------------------
(* Time, and the server's restarts. *)

Expire(i) ==
    /\ rows[i].kind # "none" /\ ~rows[i].expired
    /\ rows' = [rows EXCEPT ![i].expired = TRUE]
    /\ UNCHANGED <<next, made, home, late, ui, asker, faults>>

DeleteExpiredEnrollments ==
    /\ \E i \in Ids : rows[i].expired
    /\ rows' = [i \in Ids |-> IF rows[i].expired THEN NoRow ELSE rows[i]]
    /\ UNCHANGED <<next, made, home, late, ui, asker, faults>>

TriesForgotten(u) ==
    /\ tries[u] > 0 /\ tries' = [tries EXCEPT ![u] = 0]
    /\ UNCHANGED <<rows, next, made, home, late, page, tokens, told, viewed, asker, faults>>

Restart ==
    /\ Fault
    /\ tokens' = {} /\ tries' = [u \in Users |-> 0]
    /\ UNCHANGED <<rows, next, made, home, late, page, told, viewed, asker>>

Next ==
    \/ \E h \in Homes : ServeDevice(h) \/ Poll(h) \/ Save(h) \/ Killed(h)
    \/ \E h \in Homes, i \in Ids : ByToken(h, i)
    \/ \E u \in Users : FindRequest(u) \/ Approve(u) \/ CreateEnrollmentToken(u) \/ TriesForgotten(u)
    \/ \E i \in Ids : Take(i) \/ LatePoll(i) \/ Expire(i)
    \/ DeleteExpiredEnrollments
    \/ Restart

Spec == Init /\ [][Next]_vars

-----------------------------------------------------------------------------
\* An enrollment makes one machine at most, whatever polls crossed, were
\* lost or came late; its owner was shown the very request it comes from, or
\* created its token, though codes expire and are given again while a page
\* shows them; and its token is in one directory, a request's in the one
\* that asked.
EnrolledRightly ==
    /\ \A i \in Ids : made[i].n <= 1 /\ (made[i].n = 1 => <<made[i].owner, i>> \in viewed)
    /\ \A h \in Homes : home[h].st \in {"granted", "enrolled"} =>
          /\ made[home[h].id].n = 1
          /\ asker[home[h].id] \in {Nobody, h}
          /\ \A k \in Homes \ {h} : home[k].st \in {"granted", "enrolled"} => home[k].id # home[h].id
=============================================================================
