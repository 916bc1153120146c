----------------------------- MODULE PeerProofs -----------------------------
(***************************************************************************)
(* What the system promises of those it talks to: the machines that enroll *)
(* (Enrollment) and the MCP servers its workers call (McpClient), for      *)
(* every number of users, machines, codes, requests, sessions and faults;  *)
(* what a worker publishes of those servers' tools (McpServers); and what  *)
(* a browser's page is shown (EventStream).                                *)
(*                                                                         *)
(* EnrolledRightly says nothing of a request before it is granted.  What   *)
(* makes it last is said of everything that may still be granted: a row's  *)
(* approver was shown that very row, and so was a page's reader (Shown);   *)
(* nothing names an enrollment that is not made yet, so its number is new  *)
(* wherever it comes up (Unborn); a command polls for the request it made  *)
(* itself, and a token's enrollment was asked for by none (Asked).         *)
(*                                                                         *)
(* CallsRight says nothing of a call under way.  The server has not run    *)
(* the one that may still be sent, and a number is given to one call and   *)
(* stays with it, so what comes back under it is its answer (RanOnce,      *)
(* Numbered, OnWire); while a session is being opened, there is no other   *)
(* (OneHandshake), so the one it becomes replaces none.                    *)
(*                                                                         *)
(* PublishedRight says nothing while a publish is under way.  A row that   *)
(* is not as the registry has it is then on a list of the publisher that   *)
(* may write it (Settled): main's for a tool the registry has (ByMain),    *)
(* run's for the server the name is still of, or for any when none has it  *)
(* (ByRun); and what run writes is what the registry has (JobsRight).      *)
(*                                                                         *)
(* PageRight says something of a page only once it has caught up, so it is *)
(* not inductive.  PageInv follows a change on its way: what was published *)
(* on a topic is in its ring or at or before its floor (Rings, through     *)
(* sweeps and rings past their limit), so a stream opened at a position    *)
(* the rings cover has every later event to relay, one after the other     *)
(* (Streaming), and a change the page lacks is to be fetched or has an     *)
(* event still to come (Covered).  Leaves says that the event that told a  *)
(* user's leaving comes, on every stream still open, before any late one.  *)
(***************************************************************************)
EXTENDS Enrollment, SequenceTheorems, FiniteSetTheorems, WellFoundedInduction, TLAPS

CONSTANTS Requests, NoRequest, MaxResumes, MaxSessions, Servers, Names, Contracts, MaxToolChanges

VARIABLES transport, conn, handshake, sess, known, req, ids, wire, runs, mcpFaults
VARIABLES gives, reg, table, served, found, job, retry, left, running, stale, before, changes, pubFaults

CONSTANTS Keep, Buffer, MaxChanges, MaxDrops, MaxRestarts

VARIABLES epoch, seq, topics, dropped, log, sub, missed, stream, stored, owed, unsaid, leaving, browser,
          leaked, drops

\* The client of an MCP server.
Mcp == INSTANCE McpClient WITH faults <- mcpFaults

\* The tools of a worker's MCP servers.
Pub == INSTANCE McpServers WITH rows <- table, late <- stale, MaxChanges <- MaxToolChanges, faults <- pubFaults

\* The browser's page and its event stream.
Page == INSTANCE EventStream WITH client <- browser

-----------------------------------------------------------------------------
(* The enrollments. *)

Rows == [kind : {"none", "device", "token"}, code : Codes \cup {NoCode}, by : Users \cup {Nobody},
         expired : BOOLEAN]

TypeOK ==
    /\ rows \in [Ids -> Rows] /\ next \in 1 .. (MaxIds + 1)
    /\ made \in [Ids -> [n : Nat, owner : Users \cup {Nobody}]]
    /\ home \in [Homes -> [st : {"new", "polls", "granted", "enrolled"}, id : 0 .. MaxIds]]
    /\ late \subseteq Ids
    /\ page \in [Users -> [id : 0 .. MaxIds, code : Codes \cup {NoCode}]]
    /\ tokens \subseteq Ids /\ told \subseteq Ids /\ tries \in [Users -> Nat]
    /\ viewed \subseteq Users \X Ids /\ asker \in [Ids -> Homes \cup {Nobody}] /\ faults \in Nat

Shown ==
    /\ \A i \in Ids : rows[i].by # Nobody => <<rows[i].by, i>> \in viewed
    /\ \A u \in Users : page[u].id # 0 => <<u, page[u].id>> \in viewed

Unborn ==
    \A i \in Ids : i >= next =>
        /\ made[i].n = 0 /\ asker[i] = Nobody
        /\ i \notin tokens \cup told \cup late
        /\ \A h \in Homes : home[h].id # i

Asked ==
    /\ \A i \in tokens \cup told : asker[i] = Nobody
    /\ \A h \in Homes : home[h].st # "new" => home[h].id \in Ids
    /\ \A h \in Homes : home[h].st = "polls" => asker[home[h].id] = h

\* The two halves of EnrolledRightly.
MadeOnce == \A i \in Ids : made[i].n <= 1 /\ (made[i].n = 1 => <<made[i].owner, i>> \in viewed)

Has(h) == home[h].st \in {"granted", "enrolled"}

HeldOnce ==
    \A h \in Homes : Has(h) =>
        /\ made[home[h].id].n = 1
        /\ asker[home[h].id] \in {Nobody, h}
        /\ \A k \in Homes \ {h} : Has(k) => home[k].id # home[h].id

IInv == TypeOK /\ Shown /\ Unborn /\ Asked /\ MadeOnce /\ HeldOnce

-----------------------------------------------------------------------------
\* At first there is no enrollment, and nothing names one.
LEMMA Begins == ASSUME ConstantsOK, Init PROVE IInv
<1>1. TypeOK
    BY DEF ConstantsOK, Init, TypeOK, Rows, Ids, NoRow, New, NoPage
<1>2. Shown /\ Unborn /\ MadeOnce
    BY DEF ConstantsOK, Init, Shown, Unborn, MadeOnce, Ids, NoRow, New, NoPage
<1>3. Asked /\ HeldOnce
    BY DEF Init, Asked, HeldOnce, Has, New
<1>. QED BY <1>1, <1>2, <1>3 DEF IInv

\* A request found is one the page's reader is shown; a code missed, none.
LEMMA FindKeeps == ASSUME ConstantsOK, IInv, NEW u \in Users, FindRequest(u) PROVE IInv'
<1>0. /\ UNCHANGED <<rows, next, made, home, late, tokens, told, asker, faults>>
      /\ viewed \subseteq viewed'
    BY DEF FindRequest
<1>1. PICK p \in [id : 0 .. MaxIds, code : Codes \cup {NoCode}] :
        /\ page' = [page EXCEPT ![u] = p]
        /\ p.id # 0 => <<u, p.id>> \in viewed'
  <2>1. ASSUME NEW i \in Ids, page' = [page EXCEPT ![u] = [id |-> i, code |-> rows[i].code]],
               viewed' = viewed \cup {<<u, i>>}
        PROVE  \E p \in [id : 0 .. MaxIds, code : Codes \cup {NoCode}] :
                 /\ page' = [page EXCEPT ![u] = p]
                 /\ p.id # 0 => <<u, p.id>> \in viewed'
    <3>. DEFINE p == [id |-> i, code |-> rows[i].code]
    <3>1. p \in [id : 0 .. MaxIds, code : Codes \cup {NoCode}]
        BY DEF ConstantsOK, IInv, TypeOK, Ids, Rows
    <3>2. p.id # 0 => <<u, p.id>> \in viewed'
        BY <2>1
    <3>. QED BY <3>1, <3>2, <2>1
  <2>2. ASSUME page' = [page EXCEPT ![u] = NoPage]
        PROVE  \E p \in [id : 0 .. MaxIds, code : Codes \cup {NoCode}] :
                 /\ page' = [page EXCEPT ![u] = p]
                 /\ p.id # 0 => <<u, p.id>> \in viewed'
    <3>1. NoPage \in [id : 0 .. MaxIds, code : Codes \cup {NoCode}] /\ NoPage.id = 0
        BY DEF NoPage, ConstantsOK
    <3>. QED BY <2>2, <3>1
  <2>. QED BY <2>1, <2>2 DEF FindRequest
<1>2. viewed' \subseteq Users \X Ids /\ tries' \in [Users -> Nat]
    BY DEF FindRequest, IInv, TypeOK
<1>3. TypeOK'
  <2>1. page' \in [Users -> [id : 0 .. MaxIds, code : Codes \cup {NoCode}]]
      BY <1>1 DEF IInv, TypeOK
  <2>. QED BY <1>0, <1>2, <2>1 DEF IInv, TypeOK, Ids, Rows
<1>4. Shown'
    BY <1>0, <1>1 DEF IInv, TypeOK, Shown
<1>5. Unborn' /\ Asked'
    BY <1>0 DEF IInv, Unborn, Asked
<1>6. MadeOnce' /\ HeldOnce'
    BY <1>0 DEF IInv, MadeOnce, HeldOnce, Has
<1>. QED BY <1>3, <1>4, <1>5, <1>6 DEF IInv

\* The row approved is the one the approver's page shows: by its number.
LEMMA ApproveKeeps == ASSUME ConstantsOK, IInv, NEW u \in Users, Approve(u) PROVE IInv'
<1>0. UNCHANGED <<next, made, home, late, tokens, told, viewed, asker, faults>>
    BY DEF Approve
<1>1. /\ rows' \in [Ids -> Rows]
      /\ \A i \in Ids : rows'[i].by # Nobody => rows'[i].by = rows[i].by \/ (rows'[i].by = u /\ i = page[u].id)
  <2>1. ASSUME NEW i \in Ids
        PROVE  /\ rows'[i] \in Rows
               /\ rows'[i].by = rows[i].by \/ (rows'[i].by = u /\ i = page[u].id)
    <3>1. rows'[i] = rows[i] \/ (rows'[i] = [rows[i] EXCEPT !.by = u] /\ i = page[u].id)
        BY DEF Approve, Approved
    <3>2. rows[i] \in Rows
        BY DEF IInv, TypeOK
    <3>. QED BY <3>1, <3>2 DEF Rows
  <2>2. rows' = [i \in Ids |-> rows'[i]]
      BY DEF Approve, Approved
  <2>. QED BY <2>1, <2>2
<1>2. tries' \in [Users -> Nat]
  <2>1. tries \in [Users -> Nat]
      BY DEF IInv, TypeOK
  <2>2. tries' = [tries EXCEPT ![u] = tries[u] + 1] \/ tries' = [tries EXCEPT ![u] = 0]
      BY DEF Approve
  <2>. QED BY <2>1, <2>2
<1>3. page' = [page EXCEPT ![u] = NoPage]
    BY DEF Approve
<1>4. TypeOK'
  <2>1. page' \in [Users -> [id : 0 .. MaxIds, code : Codes \cup {NoCode}]]
      BY <1>3 DEF IInv, TypeOK, NoPage, ConstantsOK
  <2>. QED BY <1>0, <1>1, <1>2, <2>1 DEF IInv, TypeOK
<1>5. Shown'
  <2>1. ASSUME NEW i \in Ids, rows'[i].by # Nobody PROVE <<rows'[i].by, i>> \in viewed'
    <3>1. i # 0
        BY DEF Ids
    <3>. QED BY <1>0, <1>1, <2>1, <3>1 DEF IInv, Shown
  <2>2. ASSUME NEW v \in Users, page'[v].id # 0 PROVE <<v, page'[v].id>> \in viewed'
      BY <1>0, <1>3, <2>2 DEF IInv, TypeOK, Shown, NoPage
  <2>. QED BY <2>1, <2>2 DEF Shown
<1>6. Unborn' /\ Asked'
    BY <1>0 DEF IInv, Unborn, Asked
<1>7. MadeOnce' /\ HeldOnce'
    BY <1>0 DEF IInv, MadeOnce, HeldOnce, Has
<1>. QED BY <1>4, <1>5, <1>6, <1>7 DEF IInv

\* The number given to a new row is nobody's yet.
LEMMA NewRow ==
    ASSUME ConstantsOK, IInv, next <= MaxIds, NEW x \in Rows, rows' = [rows EXCEPT ![next] = x],
           next' = next + 1
    PROVE  /\ next \in Ids /\ next' \in 1 .. (MaxIds + 1)
           /\ rows' \in [Ids -> Rows]
           /\ \A i \in Ids : i # next => rows'[i] = rows[i]
           /\ rows'[next] = x
           /\ \A i \in Ids : i >= next' => i >= next /\ i # next
    BY DEF ConstantsOK, IInv, TypeOK, Ids

\* A request is its command's: the number is new, so no machine has it.
LEMMA DeviceKeeps == ASSUME ConstantsOK, IInv, NEW h \in Homes, ServeDevice(h) PROVE IInv'
<1>. USE DEF ConstantsOK
<1>0. UNCHANGED <<made, late, page, tokens, told, tries, viewed>>
    BY DEF ServeDevice, ui
<1>1. PICK c \in Codes : rows' = [rows EXCEPT ![next] = [NoRow EXCEPT !.kind = "device", !.code = c]]
    BY DEF ServeDevice
<1>2. next <= MaxIds /\ next' = next + 1 /\ asker' = [asker EXCEPT ![next] = h]
    BY DEF ServeDevice
<1>3. home[h] = New /\ faults' \in Nat
    BY DEF ServeDevice, Fault, IInv, TypeOK
<1>4. home' = home \/ home' = [home EXCEPT ![h] = [st |-> "polls", id |-> next]]
    BY DEF ServeDevice
<1>. DEFINE x == [NoRow EXCEPT !.kind = "device", !.code = c]
<1>5. x \in Rows /\ x.by = Nobody
    BY DEF Rows, NoRow
<1>6. /\ next \in Ids /\ next' \in 1 .. (MaxIds + 1)
      /\ rows' \in [Ids -> Rows]
      /\ \A i \in Ids : i # next => rows'[i] = rows[i]
      /\ rows'[next] = x
      /\ \A i \in Ids : i >= next' => i >= next /\ i # next
    BY <1>1, <1>2, <1>5, NewRow
<1>. HIDE DEF x
<1>7. TypeOK'
  <2>1. home' \in [Homes -> [st : {"new", "polls", "granted", "enrolled"}, id : 0 .. MaxIds]]
    <3>1. [st |-> "polls", id |-> next] \in [st : {"new", "polls", "granted", "enrolled"}, id : 0 .. MaxIds]
        BY <1>6 DEF Ids
    <3>. QED BY <1>4, <3>1 DEF IInv, TypeOK
  <2>2. asker' \in [Ids -> Homes \cup {Nobody}]
      BY <1>2, <1>6 DEF IInv, TypeOK
  <2>. QED BY <1>0, <1>3, <1>6, <2>1, <2>2 DEF IInv, TypeOK
<1>8. Shown'
    BY <1>0, <1>5, <1>6 DEF IInv, Shown
<1>9. Unborn'
  <2>. SUFFICES ASSUME NEW i \in Ids, i >= next'
                PROVE  /\ made'[i].n = 0 /\ asker'[i] = Nobody
                       /\ i \notin tokens' \cup told' \cup late'
                       /\ \A k \in Homes : home'[k].id # i
      BY DEF Unborn
  <2>1. i >= next /\ i # next
      BY <1>6
  <2>2. asker'[i] = Nobody
      BY <1>2, <2>1 DEF IInv, Unborn, TypeOK
  <2>3. \A k \in Homes : home'[k].id # i
      BY <1>4, <2>1 DEF IInv, Unborn, TypeOK
  <2>. QED BY <1>0, <2>1, <2>2, <2>3 DEF IInv, Unborn
<1>10. \A i \in Ids : i # next => asker'[i] = asker[i]
    BY <1>2 DEF IInv, TypeOK
<1>11. next >= next
    BY DEF IInv, TypeOK
<1>12. Asked'
  <2>1. \A i \in tokens' \cup told' : asker'[i] = Nobody
      BY <1>0, <1>6, <1>10, <1>11 DEF IInv, Asked, Unborn, TypeOK
  <2>2. ASSUME NEW k \in Homes, home'[k].st # "new"
        PROVE  home'[k].id \in Ids /\ (home'[k].st = "polls" => asker'[home'[k].id] = k)
    <3>1. CASE home'[k] = home[k]
      <4>1. home[k].id \in Ids /\ home[k].id # next
          BY <2>2, <3>1, <1>6, <1>11 DEF IInv, Asked, Unborn
      <4>. QED BY <2>2, <3>1, <4>1, <1>10 DEF IInv, Asked
    <3>2. CASE k = h /\ home'[k] = [st |-> "polls", id |-> next]
        BY <3>2, <1>2, <1>6 DEF IInv, TypeOK
    <3>. QED BY <3>1, <3>2, <1>4 DEF IInv, TypeOK
  <2>. QED BY <2>1, <2>2 DEF Asked
<1>13. MadeOnce'
    BY <1>0 DEF IInv, MadeOnce
<1>14. ASSUME NEW k \in Homes, Has(k)' PROVE home'[k] = home[k] /\ Has(k) /\ home[k].id \in Ids /\ home[k].id # next
  <2>1. home'[k] = home[k]
      BY <1>4, <1>14 DEF IInv, TypeOK, Has
  <2>2. Has(k)
      BY <1>14, <2>1 DEF Has
  <2>3. home[k].id \in Ids
      BY <2>2 DEF IInv, Asked, Has
  <2>. QED BY <2>1, <2>2, <2>3, <1>6, <1>11 DEF IInv, Unborn
<1>15. HeldOnce'
  <2>. SUFFICES ASSUME NEW k \in Homes, Has(k)'
                PROVE  /\ made'[home'[k].id].n = 1
                       /\ asker'[home'[k].id] \in {Nobody, k}
                       /\ \A j \in Homes \ {k} : Has(j)' => home'[j].id # home'[k].id
      BY DEF HeldOnce
  <2>. QED BY <1>0, <1>10, <1>14 DEF IInv, HeldOnce
<1>. QED BY <1>7, <1>8, <1>9, <1>12, <1>13, <1>15 DEF IInv

\* So is a token's, and it is shown to whoever created it.
LEMMA TokenKeeps == ASSUME ConstantsOK, IInv, NEW u \in Users, CreateEnrollmentToken(u) PROVE IInv'
<1>. USE DEF ConstantsOK
<1>0. UNCHANGED <<made, home, late, page, told, tries, asker, faults>>
    BY DEF CreateEnrollmentToken
<1>1. /\ rows' = [rows EXCEPT ![next] = [NoRow EXCEPT !.kind = "token", !.by = u]]
      /\ next <= MaxIds /\ next' = next + 1
      /\ tokens' = tokens \cup {next} /\ viewed' = viewed \cup {<<u, next>>}
    BY DEF CreateEnrollmentToken
<1>. DEFINE x == [NoRow EXCEPT !.kind = "token", !.by = u]
<1>2. x \in Rows /\ x.by = u
    BY DEF Rows, NoRow
<1>3. /\ next \in Ids /\ next' \in 1 .. (MaxIds + 1)
      /\ rows' \in [Ids -> Rows]
      /\ \A i \in Ids : i # next => rows'[i] = rows[i]
      /\ rows'[next] = x
      /\ \A i \in Ids : i >= next' => i >= next /\ i # next
    BY <1>1, <1>2, NewRow
<1>. HIDE DEF x
<1>4. TypeOK'
    BY <1>0, <1>1, <1>3 DEF IInv, TypeOK
<1>5. Shown'
    BY <1>0, <1>1, <1>2, <1>3 DEF IInv, Shown
<1>6. Unborn'
    BY <1>0, <1>1, <1>3 DEF IInv, Unborn
<1>7. next >= next
    BY DEF IInv, TypeOK
<1>8. Asked'
    BY <1>0, <1>1, <1>3, <1>7 DEF IInv, Asked, Unborn
<1>9. MadeOnce' /\ HeldOnce'
    BY <1>0, <1>1 DEF IInv, MadeOnce, HeldOnce, Has
<1>. QED BY <1>4, <1>5, <1>6, <1>8, <1>9 DEF IInv

\* What a token's page leaves: the token is shown, or forgotten.
LEMMA TakeKeeps == ASSUME ConstantsOK, IInv, NEW i \in Ids, Take(i) PROVE IInv'
<1>0. /\ UNCHANGED <<rows, next, made, home, late, page, tries, viewed, asker, faults>>
      /\ tokens' \subseteq tokens /\ told' \subseteq told \cup tokens
    BY DEF Take
<1>1. TypeOK' /\ Shown'
    BY <1>0 DEF IInv, TypeOK, Shown
<1>2. Unborn' /\ Asked'
    BY <1>0 DEF IInv, Unborn, Asked
<1>3. MadeOnce' /\ HeldOnce'
    BY <1>0 DEF IInv, MadeOnce, HeldOnce, Has
<1>. QED BY <1>1, <1>2, <1>3 DEF IInv

\* An enrollment granted had made no machine; it makes one, for its approver.
LEMMA RedeemMakesOne ==
    ASSUME ConstantsOK, IInv, NEW i \in Ids, Redeem(i)
    PROVE  /\ made' \in [Ids -> [n : Nat, owner : Users \cup {Nobody}]]
           /\ \A j \in Ids : j # i => made'[j] = made[j]
           /\ Answer(i) = "granted" => /\ made[i].n = 0 /\ made'[i].n = 1
                                       /\ <<made'[i].owner, i>> \in viewed
                                       /\ rows[i].kind # "none"
           /\ Answer(i) # "granted" => made' = made
<1>1. CASE Answer(i) # "granted"
    BY <1>1 DEF Redeem, IInv, TypeOK
<1>2. CASE Answer(i) = "granted"
  <2>1. made[i].n \in Nat /\ ~(made[i].n > 0) /\ rows[i].by # Nobody /\ rows[i].kind # "none"
      BY <1>2 DEF Answer, IInv, TypeOK
  <2>2. made[i].n = 0
      BY <2>1
  <2>3. made' = [made EXCEPT ![i] = [n |-> made[i].n + 1, owner |-> rows[i].by]]
      BY <1>2 DEF Redeem
  <2>4. rows[i].by \in Users \cup {Nobody}
      BY DEF IInv, TypeOK, Rows
  <2>5. made'[i] = [n |-> 1, owner |-> rows[i].by]
      BY <2>2, <2>3 DEF IInv, TypeOK
  <2>6. <<rows[i].by, i>> \in viewed
      BY <2>1 DEF IInv, Shown
  <2>7. made' \in [Ids -> [n : Nat, owner : Users \cup {Nobody}]] /\ \A j \in Ids : j # i => made'[j] = made[j]
      BY <2>2, <2>3, <2>4 DEF IInv, TypeOK
  <2>. QED BY <1>2, <2>1, <2>2, <2>5, <2>6, <2>7
<1>. QED BY <1>1, <1>2

\* A machine is made for one command at most: the one that is told, which
\* asked for it or was given its token.
LEMMA RedeemKeeps ==
    ASSUME ConstantsOK, IInv, NEW i \in Ids, Redeem(i), i < next,
           UNCHANGED <<rows, next, page, tokens, told, tries, viewed, asker>>,
           late' \subseteq {j \in Ids : j < next}, faults' \in Nat,
           \/ home' = home
           \/ \E h \in Homes : home' = [home EXCEPT ![h] = New]
           \/ \E h \in Homes : /\ home' = [home EXCEPT ![h] = [st |-> "granted", id |-> i]]
                               /\ Answer(i) = "granted" /\ asker[i] \in {Nobody, h}
    PROVE  IInv'
<1>0. /\ made' \in [Ids -> [n : Nat, owner : Users \cup {Nobody}]]
      /\ \A j \in Ids : j # i => made'[j] = made[j]
      /\ Answer(i) = "granted" => /\ made[i].n = 0 /\ made'[i].n = 1
                                  /\ <<made'[i].owner, i>> \in viewed
                                  /\ rows[i].kind # "none"
      /\ Answer(i) # "granted" => made' = made
    BY RedeemMakesOne
<1>1. ASSUME NEW k \in Homes
      PROVE  \/ home'[k] = home[k]
             \/ home'[k] = New
             \/ /\ home'[k] = [st |-> "granted", id |-> i]
                /\ Answer(i) = "granted" /\ asker[i] \in {Nobody, k}
                /\ \A j \in Homes \ {k} : home'[j] = home[j]
    BY DEF IInv, TypeOK
<1>2. home' \in [Homes -> [st : {"new", "polls", "granted", "enrolled"}, id : 0 .. MaxIds]]
  <2>1. /\ New \in [st : {"new", "polls", "granted", "enrolled"}, id : 0 .. MaxIds]
        /\ [st |-> "granted", id |-> i] \in [st : {"new", "polls", "granted", "enrolled"}, id : 0 .. MaxIds]
      BY DEF New, Ids, ConstantsOK
  <2>. QED BY <2>1 DEF IInv, TypeOK
<1>3. TypeOK' /\ Shown'
    BY <1>0, <1>2 DEF IInv, TypeOK, Shown
<1>4. i \notin {j \in Ids : j >= next} /\ 0 \notin Ids /\ \A j \in late' : ~(j >= next)
    BY DEF IInv, TypeOK, Ids, ConstantsOK
<1>5. Unborn'
  <2>. SUFFICES ASSUME NEW j \in Ids, j >= next'
                PROVE  /\ made'[j].n = 0 /\ asker'[j] = Nobody
                       /\ j \notin tokens' \cup told' \cup late'
                       /\ \A h \in Homes : home'[h].id # j
      BY DEF Unborn
  <2>1. j # i /\ j # 0 /\ j >= next
      BY <1>4
  <2>2. \A h \in Homes : home'[h].id # j
      BY <1>1, <2>1 DEF IInv, Unborn, New
  <2>. QED BY <1>0, <1>4, <2>1, <2>2 DEF IInv, Unborn
<1>6. Asked'
    BY <1>1 DEF IInv, Asked, New
<1>7. MadeOnce'
    BY <1>0 DEF IInv, MadeOnce
<1>8. ASSUME NEW k \in Homes, Has(k)'
      PROVE  \/ home'[k] = home[k] /\ Has(k)
             \/ /\ home'[k] = [st |-> "granted", id |-> i]
                /\ Answer(i) = "granted" /\ asker[i] \in {Nobody, k}
                /\ \A j \in Homes \ {k} : home'[j] = home[j]
    BY <1>1, <1>8 DEF Has, New
<1>9. \A k \in Homes : Has(k) /\ Answer(i) = "granted" => home[k].id # i
    BY <1>0 DEF IInv, HeldOnce
<1>10. HeldOnce'
  <2>. SUFFICES ASSUME NEW k \in Homes, Has(k)'
                PROVE  /\ made'[home'[k].id].n = 1
                       /\ asker'[home'[k].id] \in {Nobody, k}
                       /\ \A j \in Homes \ {k} : Has(j)' => home'[j].id # home'[k].id
      BY DEF HeldOnce
  <2>1. CASE home'[k] = home[k] /\ Has(k)
    <3>1. home[k].id \in Ids /\ made[home[k].id].n = 1 /\ asker[home[k].id] \in {Nobody, k}
        BY <2>1 DEF IInv, HeldOnce, Asked, Has
    <3>2. made'[home[k].id].n = 1
        BY <3>1, <1>0
    <3>3. ASSUME NEW j \in Homes \ {k}, Has(j)' PROVE home'[j].id # home'[k].id
      <4>1. CASE home'[j] = home[j] /\ Has(j)
          BY <2>1, <4>1 DEF IInv, HeldOnce
      <4>2. CASE home'[j] = [st |-> "granted", id |-> i] /\ Answer(i) = "granted"
          BY <2>1, <4>2, <1>9
      <4>. QED BY <1>8, <3>3, <4>1, <4>2
    <3>. QED BY <2>1, <3>1, <3>2, <3>3
  <2>2. CASE /\ home'[k] = [st |-> "granted", id |-> i]
             /\ Answer(i) = "granted" /\ asker[i] \in {Nobody, k}
             /\ \A j \in Homes \ {k} : home'[j] = home[j]
    <3>1. ASSUME NEW j \in Homes \ {k}, Has(j)' PROVE home'[j].id # i
      <4>1. Has(j) /\ home'[j] = home[j]
          BY <2>2, <3>1 DEF Has
      <4>. QED BY <2>2, <4>1, <1>9
    <3>. QED BY <2>2, <3>1, <1>0
  <2>. QED BY <2>1, <2>2, <1>8
<1>. QED BY <1>3, <1>5, <1>6, <1>7, <1>10 DEF IInv

\* What is named is made.
LEMMA Born == ASSUME ConstantsOK, IInv, NEW j \in Ids, ~(j >= next) PROVE j < next
    BY DEF IInv, TypeOK, Ids, ConstantsOK

\* A poll's enrollment is its command's; its answer, lost or late, makes the
\* machine and gives it to nobody.
LEMMA PollKeeps == ASSUME ConstantsOK, IInv, NEW h \in Homes, Poll(h) PROVE IInv'
<1>. DEFINE i == home[h].id
<1>0. /\ UNCHANGED <<rows, next, page, tokens, told, tries, viewed, asker>>
      /\ home[h].st = "polls" /\ faults' \in Nat
    BY DEF Poll, ui, Fault, IInv, TypeOK
<1>1. i \in Ids /\ asker[i] = h
    BY <1>0 DEF IInv, Asked
<1>2. i < next
  <2>1. ~(i >= next)
      BY <1>1 DEF IInv, Unborn
  <2>. QED BY <1>1, <2>1, Born
<1>3. late' \subseteq {j \in Ids : j < next}
  <2>1. late \subseteq {j \in Ids : j < next}
    <3>1. \A j \in late : j \in Ids /\ ~(j >= next)
        BY DEF IInv, TypeOK, Unborn
    <3>. QED BY <3>1, Born
  <2>. QED BY <1>1, <1>2, <2>1 DEF Poll
<1>4. \/ /\ Redeem(i)
         /\ home' = [home EXCEPT ![h] = CASE Answer(i) = "granted" -> [st |-> "granted", id |-> i]
                                           [] Answer(i) = "pending" -> home[h]
                                           [] OTHER -> New]
      \/ Redeem(i) /\ home' = home
      \/ made' = made /\ home' = home
    BY DEF Poll
<1>. HIDE DEF i
<1>5. CASE made' = made /\ home' = home
  <2>1. TypeOK' /\ Shown'
      BY <1>0, <1>3, <1>5 DEF IInv, TypeOK, Shown
  <2>2. Unborn' /\ Asked'
      BY <1>0, <1>3, <1>5 DEF IInv, Unborn, Asked, TypeOK, Ids, ConstantsOK
  <2>3. MadeOnce' /\ HeldOnce'
      BY <1>0, <1>5 DEF IInv, MadeOnce, HeldOnce, Has
  <2>. QED BY <2>1, <2>2, <2>3 DEF IInv
<1>6. CASE Redeem(i) /\ home' = home
    BY <1>0, <1>1, <1>2, <1>3, <1>6, RedeemKeeps
<1>7. CASE /\ Redeem(i)
           /\ home' = [home EXCEPT ![h] = CASE Answer(i) = "granted" -> [st |-> "granted", id |-> i]
                                             [] Answer(i) = "pending" -> home[h]
                                             [] OTHER -> New]
  <2>1. \/ home' = [home EXCEPT ![h] = [st |-> "granted", id |-> i]] /\ Answer(i) = "granted"
        \/ home' = [home EXCEPT ![h] = home[h]]
        \/ home' = [home EXCEPT ![h] = New]
      BY <1>7
  <2>2. home' = [home EXCEPT ![h] = home[h]] => home' = home
      BY DEF IInv, TypeOK
  <2>3. \/ home' = home
        \/ \E k \in Homes : home' = [home EXCEPT ![k] = New]
        \/ \E k \in Homes : /\ home' = [home EXCEPT ![k] = [st |-> "granted", id |-> i]]
                            /\ Answer(i) = "granted" /\ asker[i] \in {Nobody, k}
      BY <2>1, <2>2, <1>1
  <2>. QED BY <1>0, <1>1, <1>2, <1>3, <1>7, <2>3, RedeemKeeps
<1>. QED BY <1>4, <1>5, <1>6, <1>7

\* A poll that comes late, after its command gave up on it.
LEMMA LateKeeps == ASSUME ConstantsOK, IInv, NEW i \in Ids, LatePoll(i) PROVE IInv'
<1>0. /\ UNCHANGED <<rows, next, home, page, tokens, told, tries, viewed, asker, faults>>
      /\ i \in late /\ late' = late \ {i} /\ Redeem(i)
    BY DEF LatePoll, ui
<1>1. i < next /\ late' \subseteq {j \in Ids : j < next}
    BY <1>0 DEF IInv, TypeOK, Unborn, Ids, ConstantsOK
<1>2. faults' \in Nat
    BY <1>0 DEF IInv, TypeOK
<1>. QED BY <1>0, <1>1, <1>2, RedeemKeeps

\* A token is anyone's who has it: the first to bring it has the machine.
LEMMA ByTokenKeeps == ASSUME ConstantsOK, IInv, NEW h \in Homes, NEW i \in Ids, ByToken(h, i) PROVE IInv'
<1>0. /\ UNCHANGED <<rows, next, late, page, tokens, told, tries, viewed, asker>>
      /\ i \in told /\ Redeem(i)
      /\ home' = home \/ (home' = [home EXCEPT ![h] = [st |-> "granted", id |-> i]] /\ Answer(i) = "granted")
    BY DEF ByToken, ui
<1>1. faults' \in Nat
    BY DEF ByToken, Fault, IInv, TypeOK
<1>2. i < next /\ late' \subseteq {j \in Ids : j < next}
  <2>1. next \in Nat /\ Ids \subseteq Nat /\ late \subseteq Ids /\ late' = late
      BY <1>0 DEF IInv, TypeOK, Ids, ConstantsOK
  <2>2. \A j \in Ids : j >= next => j \notin late /\ j \notin told
      BY DEF IInv, Unborn
  <2>. QED BY <1>0, <2>1, <2>2
<1>3. asker[i] = Nobody
    BY <1>0 DEF IInv, Asked
<1>4. \/ home' = home
      \/ \E k \in Homes : home' = [home EXCEPT ![k] = New]
      \/ \E k \in Homes : /\ home' = [home EXCEPT ![k] = [st |-> "granted", id |-> i]]
                          /\ Answer(i) = "granted" /\ asker[i] \in {Nobody, k}
    BY <1>0, <1>3
<1>. QED BY <1>0, <1>1, <1>2, <1>4, RedeemKeeps

\* A machine keeps its token, or its command goes and what it had with it.
LEMMA HomeKeeps == ASSUME ConstantsOK, IInv, NEW h \in Homes, Save(h) \/ Killed(h) PROVE IInv'
<1>0. /\ UNCHANGED <<rows, next, made, late, page, tokens, told, tries, viewed, asker>> /\ faults' \in Nat
      /\ \/ Has(h) /\ home' = [home EXCEPT ![h].st = "enrolled"]
         \/ home' = [home EXCEPT ![h] = New]
    BY DEF Save, Killed, Fault, ui, Has, IInv, TypeOK
<1>1. ASSUME NEW k \in Homes
      PROVE  \/ home'[k] = home[k]
             \/ home'[k] = New
             \/ Has(k) /\ home'[k].st = "enrolled" /\ home'[k].id = home[k].id
    BY <1>0 DEF IInv, TypeOK
<1>2. home' \in [Homes -> [st : {"new", "polls", "granted", "enrolled"}, id : 0 .. MaxIds]]
  <2>1. New \in [st : {"new", "polls", "granted", "enrolled"}, id : 0 .. MaxIds]
      BY DEF New, ConstantsOK
  <2>. QED BY <1>0, <2>1 DEF IInv, TypeOK
<1>3. TypeOK' /\ Shown'
    BY <1>0, <1>2 DEF IInv, TypeOK, Shown
<1>4. Unborn'
  <2>1. 0 \notin Ids
      BY DEF Ids
  <2>. QED BY <1>0, <1>1, <2>1 DEF IInv, Unborn, New
<1>5. Asked'
    BY <1>0, <1>1 DEF IInv, Asked, New, Has
<1>6. MadeOnce'
    BY <1>0 DEF IInv, MadeOnce
<1>7. \A k \in Homes : Has(k)' => Has(k) /\ home'[k].id = home[k].id
    BY <1>1 DEF Has, New
<1>8. HeldOnce'
    BY <1>0, <1>7 DEF IInv, HeldOnce
<1>. QED BY <1>3, <1>4, <1>5, <1>6, <1>8 DEF IInv

\* A row that expires, or is forgotten, is approved by no one new.
LEMMA RowsGoKeeps == ASSUME ConstantsOK, IInv, (\E i \in Ids : Expire(i)) \/ DeleteExpiredEnrollments PROVE IInv'
<1>0. UNCHANGED <<next, made, home, late, page, tokens, told, tries, viewed, asker, faults>>
    BY DEF Expire, DeleteExpiredEnrollments, ui
<1>1. rows' \in [Ids -> Rows] /\ \A i \in Ids : rows'[i].by = rows[i].by \/ rows'[i].by = Nobody
  <2>1. ASSUME NEW i \in Ids, Expire(i)
        PROVE  rows' \in [Ids -> Rows] /\ \A j \in Ids : rows'[j].by = rows[j].by
    <3>1. rows' = [rows EXCEPT ![i] = [rows[i] EXCEPT !.expired = TRUE]] /\ rows[i] \in Rows
        BY <2>1 DEF Expire, IInv, TypeOK
    <3>2. [rows[i] EXCEPT !.expired = TRUE] \in Rows /\ [rows[i] EXCEPT !.expired = TRUE].by = rows[i].by
        BY <3>1 DEF Rows
    <3>. QED BY <3>1, <3>2 DEF IInv, TypeOK
  <2>2. CASE DeleteExpiredEnrollments
    <3>1. NoRow \in Rows /\ NoRow.by = Nobody
        BY DEF NoRow, Rows
    <3>. QED BY <2>2, <3>1 DEF DeleteExpiredEnrollments, IInv, TypeOK
  <2>. QED BY <2>1, <2>2
<1>2. TypeOK' /\ Shown'
    BY <1>0, <1>1 DEF IInv, TypeOK, Shown
<1>3. Unborn' /\ Asked'
    BY <1>0 DEF IInv, Unborn, Asked
<1>4. MadeOnce' /\ HeldOnce'
    BY <1>0 DEF IInv, MadeOnce, HeldOnce, Has
<1>. QED BY <1>2, <1>3, <1>4 DEF IInv

\* A restart of the server forgets the tokens not shown yet, and the tries.
LEMMA RestartKeeps == ASSUME ConstantsOK, IInv, Restart \/ (\E u \in Users : TriesForgotten(u)) PROVE IInv'
<1>0. /\ UNCHANGED <<rows, next, made, home, late, page, told, viewed, asker>>
      /\ tokens' \subseteq tokens /\ tries' \in [Users -> Nat] /\ faults' \in Nat
    BY DEF Restart, TriesForgotten, Fault, IInv, TypeOK
<1>1. TypeOK' /\ Shown'
    BY <1>0 DEF IInv, TypeOK, Shown
<1>2. Unborn' /\ Asked'
    BY <1>0 DEF IInv, Unborn, Asked
<1>3. MadeOnce' /\ HeldOnce'
    BY <1>0 DEF IInv, MadeOnce, HeldOnce, Has
<1>. QED BY <1>1, <1>2, <1>3 DEF IInv

\* Nothing happens.
LEMMA StutterKeeps == ASSUME IInv, UNCHANGED vars PROVE IInv'
<1>1. TypeOK' /\ Shown'
    BY DEF vars, IInv, TypeOK, Shown
<1>2. Unborn' /\ Asked'
    BY DEF vars, IInv, Unborn, Asked
<1>3. MadeOnce' /\ HeldOnce'
    BY DEF vars, IInv, MadeOnce, HeldOnce, Has
<1>. QED BY <1>1, <1>2, <1>3 DEF IInv

-----------------------------------------------------------------------------
\* The inductive invariant holds of every step of the enrollment, whatever
\* the numbers of users, machines, codes and enrollments, and of faults.
THEOREM EnrollmentInvariant == ASSUME ConstantsOK PROVE Spec => []IInv
<1>1. Init => IInv
    BY Begins
<1>2. IInv /\ [Next]_vars => IInv'
  <2>. SUFFICES ASSUME IInv, [Next]_vars PROVE IInv'
      OBVIOUS
  <2>1. CASE \E h \in Homes : ServeDevice(h) \/ Poll(h) \/ Save(h) \/ Killed(h)
      BY <2>1, DeviceKeeps, PollKeeps, HomeKeeps
  <2>2. CASE \E h \in Homes, i \in Ids : ByToken(h, i)
      BY <2>2, ByTokenKeeps
  <2>3. CASE \E u \in Users : FindRequest(u) \/ Approve(u) \/ CreateEnrollmentToken(u) \/ TriesForgotten(u)
      BY <2>3, FindKeeps, ApproveKeeps, TokenKeeps, RestartKeeps
  <2>4. CASE \E i \in Ids : Take(i) \/ LatePoll(i) \/ Expire(i)
      BY <2>4, TakeKeeps, LateKeeps, RowsGoKeeps
  <2>5. CASE DeleteExpiredEnrollments \/ Restart
      BY <2>5, RowsGoKeeps, RestartKeeps
  <2>6. CASE UNCHANGED vars
      BY <2>6, StutterKeeps
  <2>. QED BY <2>1, <2>2, <2>3, <2>4, <2>5, <2>6 DEF Next
<1>. QED BY <1>1, <1>2, PTL DEF Spec

\* An enrollment makes one machine at most, of the user who was shown that
\* very request or created that token, and one directory has its token, the
\* one that asked (RedeemMachineEnrollment, ApproveDeviceRequest in
\* store/machine.go; ByCode, ByToken in machine/connect/enroll.go).
THEOREM MachinesAreRightlyOwned == ASSUME ConstantsOK PROVE Spec => []EnrolledRightly
<1>1. IInv => EnrolledRightly
    BY DEF IInv, MadeOnce, HeldOnce, Has, EnrolledRightly
<1>. QED BY <1>1, EnrollmentInvariant, PTL

-----------------------------------------------------------------------------
(* The calls of an MCP server's tools. *)

Sess == [st : {"none", "handshake", "open", "lost"}, named : BOOLEAN, expired : BOOLEAN, done : BOOLEAN,
         closed : BOOLEAN]

\* Not run yet; taken by the server; waiting for what comes under a number.
Unsent == {"new", "waits", "dials", "notifies", "sends", "posted"}
Taken == {"streams", "resumes", "pending", "ok"}
Waits == {"posted", "streams", "resumes", "pending"}

Reqs == [pc : Unsent \cup Taken \cup {"failed"}, attempt : {0, 1}, on : 0 .. MaxSessions, id : Nat,
         resumes : Nat, got : Requests \cup {NoRequest}]

ClientTyped ==
    /\ conn \in 0 .. MaxSessions /\ handshake \in Requests \cup {NoRequest}
    /\ sess \in [Mcp!Sessions -> Sess]
    /\ req \in [Requests -> Reqs] /\ ids \in Nat
    /\ wire \subseteq [on : 0 .. MaxSessions, id : Nat, of : Requests]
    /\ runs \in [Requests -> Nat]

RanOnce ==
    \A r \in Requests : /\ req[r].pc \in Unsent => runs[r] = 0
                        /\ req[r].pc \in Taken => runs[r] = 1
                        /\ runs[r] <= 1
                        /\ req[r].pc = "ok" => req[r].got = r

Numbered ==
    /\ \A r \in Requests : req[r].id <= ids /\ (req[r].pc \in Waits => req[r].id > 0)
    /\ \A r, o \in Requests : r # o /\ req[r].id = req[o].id => req[r].id = 0

OnWire ==
    \A m \in wire : m.id > 0 /\ req[m.of].id = m.id /\ req[m.of].pc \notin Unsent

Calls == RanOnce /\ Numbered /\ OnWire

OneHandshake ==
    /\ \A r \in Requests : req[r].pc \in {"dials", "notifies"} => handshake = r
    /\ handshake # NoRequest => conn = Mcp!NoSession

NoneLeftOpen == \A s \in Mcp!Sessions : sess[s].st = "open" => conn = s \/ sess[s].closed

CInv == ClientTyped /\ Calls /\ OneHandshake /\ NoneLeftOpen

\* Before any call, no session.
LEMMA ClientBegins == ASSUME Mcp!ConstantsOK, Mcp!Init PROVE CInv
<1>1. Mcp!NoSess \in Sess /\ Mcp!NoSess.st = "none"
    BY DEF Mcp!NoSess, Sess
<1>2. /\ Mcp!NewReq \in Reqs /\ Mcp!NewReq.pc = "new" /\ Mcp!NewReq.id = 0
    BY DEF Mcp!NewReq, Mcp!NoSession, Mcp!ConstantsOK, Reqs, Unsent
<1>3. ClientTyped
    BY <1>1, <1>2 DEF Mcp!Init, Mcp!ConstantsOK, Mcp!NoSession, ClientTyped
<1>4. Calls
    BY <1>2 DEF Mcp!Init, Calls, RanOnce, Numbered, OnWire, Taken, Waits
<1>5. OneHandshake /\ NoneLeftOpen
    BY <1>1, <1>2 DEF Mcp!Init, OneHandshake, NoneLeftOpen
<1>. QED BY <1>3, <1>4, <1>5 DEF CInv

\* A call that goes on under its number, or back before it was run.
LEMMA CallGoesOn ==
    ASSUME CInv, NEW r \in Requests, NEW x \in Reqs, req' = [req EXCEPT ![r] = x], UNCHANGED <<ids, runs>>,
           wire' \subseteq wire, x.id = req[r].id,
           x.pc \in Unsent => req[r].pc \in Unsent,
           x.pc \in Taken => req[r].pc \in Taken,
           x.pc \in Waits => req[r].pc \in Waits,
           x.pc = "ok" => x.got = r
    PROVE  Calls' /\ req' \in [Requests -> Reqs]
<1>0. req \in [Requests -> Reqs]
    BY DEF CInv, ClientTyped
<1>1. req'[r] = x /\ (\A o \in Requests \ {r} : req'[o] = req[o]) /\ req' \in [Requests -> Reqs]
    BY <1>0
<1>2. RanOnce'
    BY <1>1 DEF CInv, Calls, RanOnce
<1>3. \A o \in Requests : req'[o].id = req[o].id
    BY <1>1
<1>4. Numbered'
    BY <1>1, <1>3 DEF CInv, Calls, Numbered
<1>5. \A o \in Requests : req'[o].pc \in Unsent => req[o].pc \in Unsent
    BY <1>1
<1>6. OnWire'
    BY <1>3, <1>5 DEF CInv, Calls, OnWire, ClientTyped
<1>. QED BY <1>1, <1>2, <1>4, <1>6 DEF Calls

\* The rest of the invariant, of what a call that goes on does to the sessions.
LEMMA Kept ==
    ASSUME CInv, Calls', req' \in [Requests -> Reqs], UNCHANGED <<ids, runs>>, wire' \subseteq wire,
           conn' \in 0 .. MaxSessions, handshake' \in Requests \cup {NoRequest},
           sess' \in [Mcp!Sessions -> Sess], OneHandshake', NoneLeftOpen'
    PROVE  CInv'
    BY DEF CInv, ClientTyped

\* A session of the client's that it closes is open to nobody.
LEMMA ClosesKeeps ==
    ASSUME CInv, NEW s \in 0 .. MaxSessions, Mcp!Closes(s), conn' = conn \/ conn = s
    PROVE  sess' \in [Mcp!Sessions -> Sess] /\ NoneLeftOpen'
<1>0. sess' = [sess EXCEPT ![s].closed = TRUE] /\ sess \in [Mcp!Sessions -> Sess]
    BY DEF Mcp!Closes, CInv, ClientTyped
<1>1. \A t \in Mcp!Sessions : /\ sess'[t].st = sess[t].st
                              /\ sess'[t].closed = (IF t = s THEN TRUE ELSE sess[t].closed)
    BY <1>0 DEF Sess
<1>2. sess' \in [Mcp!Sessions -> Sess]
    BY <1>0 DEF Sess
<1>. QED BY <1>1, <1>2 DEF CInv, NoneLeftOpen

\* current: a session that is dead is let go, and closed.
LEMMA CurrentKeeps ==
    ASSUME Mcp!ConstantsOK, CInv, Mcp!Current
    PROVE  /\ sess' \in [Mcp!Sessions -> Sess] /\ NoneLeftOpen'
           /\ conn' \in 0 .. MaxSessions /\ conn' \in {conn, Mcp!NoSession}
<1>1. CASE conn # Mcp!NoSession /\ ~Mcp!Alive(conn)
  <2>1. conn' = Mcp!NoSession /\ Mcp!Closes(conn) /\ conn \in 0 .. MaxSessions
      BY <1>1 DEF Mcp!Current, CInv, ClientTyped
  <2>. QED BY <2>1, ClosesKeeps DEF Mcp!NoSession, Mcp!ConstantsOK
<1>2. CASE ~(conn # Mcp!NoSession /\ ~Mcp!Alive(conn))
    BY <1>2 DEF Mcp!Current, CInv, ClientTyped, NoneLeftOpen
<1>. QED BY <1>1, <1>2

\* What a request in state y has of another: its number.
LEMMA ReqOf == ASSUME CInv, NEW r \in Requests PROVE req[r] \in Reqs /\ req \in [Requests -> Reqs]
    BY DEF CInv, ClientTyped

\* connect: the open session, or a wait for the handshake.
LEMMA ConnectKeeps == ASSUME Mcp!ConstantsOK, CInv, NEW r \in Requests, Mcp!Connect(r) PROVE CInv'
<1>. DEFINE x == [req[r] EXCEPT !.pc = IF conn' = Mcp!NoSession THEN "waits" ELSE "sends", !.on = conn']
<1>0. /\ req[r].pc = "new" /\ Mcp!Current /\ UNCHANGED <<handshake, ids, wire, runs>>
      /\ req' = [req EXCEPT ![r] = x]
    BY DEF Mcp!Connect, Mcp!At
<1>1. /\ sess' \in [Mcp!Sessions -> Sess] /\ NoneLeftOpen'
      /\ conn' \in 0 .. MaxSessions /\ conn' \in {conn, Mcp!NoSession}
    BY <1>0, CurrentKeeps
<1>2. x \in Reqs /\ x.pc \in {"waits", "sends"} /\ x.id = req[r].id
    BY <1>1, ReqOf DEF Reqs, Unsent
<1>. HIDE DEF x
<1>3. Calls' /\ req' \in [Requests -> Reqs]
    BY <1>0, <1>2, CallGoesOn DEF Unsent, Taken, Waits
<1>4. OneHandshake'
    BY <1>0, <1>1, <1>2, ReqOf DEF CInv, OneHandshake
<1>5. handshake' \in Requests \cup {NoRequest}
    BY <1>0 DEF CInv, ClientTyped
<1>. QED BY <1>0, <1>1, <1>3, <1>4, <1>5, Kept

\* The handshake is one call's, and there is no session meanwhile.
LEMMA AcquireKeeps == ASSUME Mcp!ConstantsOK, CInv, NEW r \in Requests, Mcp!Acquire(r) PROVE CInv'
<1>. DEFINE x == [req[r] EXCEPT !.pc = IF conn' = Mcp!NoSession THEN "dials" ELSE "sends", !.on = conn']
<1>0. /\ req[r].pc = "waits" /\ handshake = NoRequest /\ Mcp!Current /\ UNCHANGED <<ids, wire, runs>>
      /\ req' = [req EXCEPT ![r] = x]
      /\ handshake' = IF conn' = Mcp!NoSession THEN r ELSE NoRequest
    BY DEF Mcp!Acquire, Mcp!At
<1>1. /\ sess' \in [Mcp!Sessions -> Sess] /\ NoneLeftOpen'
      /\ conn' \in 0 .. MaxSessions
    BY <1>0, CurrentKeeps
<1>2. /\ x \in Reqs /\ x.id = req[r].id /\ x.pc \in {"dials", "sends"}
      /\ x.pc = "dials" => handshake' = r
    BY <1>0, <1>1, ReqOf DEF Reqs, Unsent
<1>. HIDE DEF x
<1>3. Calls' /\ req' \in [Requests -> Reqs]
    BY <1>0, <1>2, CallGoesOn DEF Unsent, Taken, Waits
<1>4. \A o \in Requests : req[o].pc \notin {"dials", "notifies"}
    BY <1>0 DEF CInv, OneHandshake, Mcp!ConstantsOK
<1>5. OneHandshake'
    BY <1>0, <1>2, <1>4, ReqOf DEF OneHandshake
<1>6. handshake' \in Requests \cup {NoRequest}
    BY <1>0
<1>. QED BY <1>0, <1>1, <1>3, <1>5, <1>6, Kept

\* What the calls of a handshake under way leave: one of them at most.
LEMMA HandshakeOf ==
    ASSUME Mcp!ConstantsOK, CInv, NEW r \in Requests, req[r].pc \in {"dials", "notifies"}
    PROVE  /\ handshake = r /\ conn = Mcp!NoSession
           /\ \A o \in Requests \ {r} : req[o].pc \notin {"dials", "notifies"}
    BY DEF CInv, OneHandshake, Mcp!ConstantsOK

\* A session is dialed, or not: it is not open yet.
LEMMA DialKeeps == ASSUME Mcp!ConstantsOK, CInv, NEW r \in Requests, Mcp!Dial(r) PROVE CInv'
<1>0. req[r].pc = "dials" /\ UNCHANGED <<conn, ids, wire, runs>>
    BY DEF Mcp!Dial, Mcp!At
<1>1. PICK s \in Mcp!Sessions : Mcp!Opened(r, s) \/ Mcp!NotOpened(r, s)
    BY DEF Mcp!Dial
<1>2. s \in 0 .. MaxSessions /\ conn \in 0 .. MaxSessions /\ sess \in [Mcp!Sessions -> Sess]
    BY DEF Mcp!Sessions, CInv, ClientTyped, Mcp!ConstantsOK
<1>3. /\ handshake = r /\ conn = Mcp!NoSession
      /\ \A o \in Requests \ {r} : req[o].pc \notin {"dials", "notifies"}
    BY <1>0, HandshakeOf
<1>4. CASE Mcp!Opened(r, s)
  <2>. DEFINE x == [req[r] EXCEPT !.pc = "notifies", !.on = s]
  <2>1. PICK named \in BOOLEAN : sess' = [sess EXCEPT ![s].st = "handshake", ![s].named = named]
      BY <1>4 DEF Mcp!Opened
  <2>2. req' = [req EXCEPT ![r] = x] /\ handshake' = handshake
      BY <1>4 DEF Mcp!Opened
  <2>3. x \in Reqs /\ x.pc = "notifies" /\ x.id = req[r].id
      BY <1>2, ReqOf DEF Reqs, Unsent
  <2>. HIDE DEF x
  <2>4. Calls' /\ req' \in [Requests -> Reqs]
      BY <1>0, <2>2, <2>3, CallGoesOn DEF Unsent, Taken, Waits
  <2>5. sess' \in [Mcp!Sessions -> Sess] /\ \A t \in Mcp!Sessions : sess'[t].st = "open" => sess'[t] = sess[t]
      BY <1>2, <2>1 DEF Sess
  <2>6. NoneLeftOpen'
      BY <1>0, <2>5 DEF CInv, NoneLeftOpen
  <2>7. OneHandshake' /\ handshake' \in Requests \cup {NoRequest}
      BY <1>0, <1>3, <2>2, <2>3, ReqOf DEF OneHandshake
  <2>. QED BY <1>0, <1>2, <2>4, <2>5, <2>6, <2>7, Kept
<1>5. CASE Mcp!NotOpened(r, s)
  <2>. DEFINE x == [req[r] EXCEPT !.pc = "failed"]
  <2>1. sess' = sess \/ sess' = [sess EXCEPT ![s].st = "lost", ![s].closed = TRUE]
      BY <1>5 DEF Mcp!NotOpened
  <2>2. req' = [req EXCEPT ![r] = x] /\ handshake' = NoRequest
      BY <1>5 DEF Mcp!NotOpened, Mcp!To
  <2>3. x \in Reqs /\ x.pc = "failed" /\ x.id = req[r].id
      BY ReqOf DEF Reqs
  <2>. HIDE DEF x
  <2>4. Calls' /\ req' \in [Requests -> Reqs]
      BY <1>0, <2>2, <2>3, CallGoesOn DEF Unsent, Taken, Waits
  <2>5. sess' \in [Mcp!Sessions -> Sess] /\ \A t \in Mcp!Sessions : sess'[t].st = "open" => sess'[t] = sess[t]
      BY <1>2, <2>1 DEF Sess
  <2>6. NoneLeftOpen'
      BY <1>0, <2>5 DEF CInv, NoneLeftOpen
  <2>7. OneHandshake' /\ handshake' \in Requests \cup {NoRequest}
      BY <1>0, <1>3, <2>2, <2>3, ReqOf DEF OneHandshake
  <2>. QED BY <1>0, <1>2, <2>4, <2>5, <2>6, <2>7, Kept
<1>. QED BY <1>1, <1>4, <1>5

\* The session becomes the client's, which had none; or it is lost.
LEMMA NotifyKeeps == ASSUME Mcp!ConstantsOK, CInv, NEW r \in Requests, Mcp!Notify(r) PROVE CInv'
<1>. DEFINE s == req[r].on
            x(pc) == [req[r] EXCEPT !.pc = pc]
<1>0. req[r].pc = "notifies" /\ UNCHANGED <<ids, wire, runs>> /\ handshake' = NoRequest
    BY DEF Mcp!Notify, Mcp!At
<1>1. \/ /\ sess' = [sess EXCEPT ![s].st = "open"] /\ conn' = s
         /\ req' = [req EXCEPT ![r] = x("sends")]
      \/ /\ \/ sess' = [sess EXCEPT ![s].st = "lost", ![s].expired = TRUE, ![s].closed = TRUE]
            \/ sess' = [sess EXCEPT ![s].st = "lost", ![s].closed = TRUE]
         /\ conn' = conn
         /\ req' = [req EXCEPT ![r] = x("failed")]
    BY DEF Mcp!Notify, Mcp!To
<1>2. /\ handshake = r /\ conn = Mcp!NoSession
      /\ \A o \in Requests \ {r} : req[o].pc \notin {"dials", "notifies"}
    BY <1>0, HandshakeOf
<1>3. s \in 0 .. MaxSessions /\ conn \in 0 .. MaxSessions /\ sess \in [Mcp!Sessions -> Sess]
    BY ReqOf DEF Reqs, CInv, ClientTyped
<1>4. \A pc \in {"sends", "failed"} : x(pc) \in Reqs /\ x(pc).pc = pc /\ x(pc).id = req[r].id
    BY ReqOf DEF Reqs, Unsent
<1>5. PICK pc \in {"sends", "failed"} : req' = [req EXCEPT ![r] = x(pc)]
    BY <1>1
<1>. HIDE DEF x
<1>6. Calls' /\ req' \in [Requests -> Reqs]
    BY <1>0, <1>4, <1>5, CallGoesOn DEF Unsent, Taken, Waits
<1>7. OneHandshake'
    BY <1>0, <1>2, <1>4, <1>5, ReqOf DEF OneHandshake
<1>8. sess' \in [Mcp!Sessions -> Sess] /\ conn' \in 0 .. MaxSessions
    BY <1>1, <1>3 DEF Sess
<1>9. \A t \in Mcp!Sessions : sess'[t].st = "open" => sess'[t] = sess[t] \/ (t = s /\ conn' = s)
    BY <1>1, <1>3 DEF Sess
<1>10. \A t \in Mcp!Sessions : conn # t
    BY <1>2 DEF Mcp!NoSession, Mcp!Sessions
<1>11. NoneLeftOpen'
    BY <1>9, <1>10 DEF CInv, NoneLeftOpen
<1>. QED BY <1>0, <1>6, <1>7, <1>8, <1>11, Kept

\* A call that waits for nothing of the handshake, and leaves the sessions.
LEMMA CallAlone ==
    ASSUME CInv, NEW r \in Requests, NEW x \in Reqs, req' = [req EXCEPT ![r] = x], Calls',
           UNCHANGED <<conn, handshake>>, sess' \in [Mcp!Sessions -> Sess], NoneLeftOpen',
           UNCHANGED <<ids, runs>>, wire' \subseteq wire,
           x.pc \notin {"dials", "notifies"}
    PROVE  CInv'
<1>1. OneHandshake' /\ req' \in [Requests -> Reqs]
    BY ReqOf DEF CInv, OneHandshake
<1>2. conn' \in 0 .. MaxSessions /\ handshake' \in Requests \cup {NoRequest}
    BY DEF CInv, ClientTyped
<1>. QED BY <1>1, <1>2, Kept

\* A call fails, or its stream breaks or goes on, with no session changed.
LEMMA CallMoves ==
    ASSUME CInv, NEW r \in Requests, NEW x \in Reqs, req' = [req EXCEPT ![r] = x],
           UNCHANGED <<conn, handshake, sess, ids, wire, runs>>,
           x.id = req[r].id,
           \/ x.pc = "failed"
           \/ req[r].pc \in {"streams", "resumes"} /\ x.pc \in {"streams", "resumes"}
           \/ req[r].pc = "streams" /\ x.pc = "ok" /\ x.got = r
    PROVE  CInv'
<1>1. Calls' /\ req' \in [Requests -> Reqs]
    BY CallGoesOn DEF Unsent, Taken, Waits
<1>2. NoneLeftOpen' /\ sess' \in [Mcp!Sessions -> Sess]
    BY DEF CInv, NoneLeftOpen, ClientTyped
<1>. QED BY <1>1, <1>2, CallAlone

LEMMA FailKeeps ==
    ASSUME CInv, NEW r \in Requests, Mcp!Lost(r) \/ Mcp!PendingEnds(r) \/ Mcp!Deadline(r)
    PROVE  CInv'
<1>. DEFINE x == [req[r] EXCEPT !.pc = "failed"]
<1>1. req' = [req EXCEPT ![r] = x] /\ UNCHANGED <<conn, handshake, sess, ids, wire, runs>>
    BY DEF Mcp!Lost, Mcp!PendingEnds, Mcp!Deadline, Mcp!To
<1>2. x \in Reqs /\ x.pc = "failed" /\ x.id = req[r].id
    BY ReqOf DEF Reqs
<1>. HIDE DEF x
<1>. QED BY <1>1, <1>2, CallMoves

LEMMA AnsweredKeeps == ASSUME CInv, NEW r \in Requests, Mcp!Answered(r) PROVE CInv'
<1>. DEFINE x == [req[r] EXCEPT !.pc = "ok", !.got = r]
<1>1. /\ req[r].pc = "streams" /\ req' = [req EXCEPT ![r] = x]
      /\ UNCHANGED <<conn, handshake, sess, ids, wire, runs>>
    BY DEF Mcp!Answered, Mcp!At
<1>2. x \in Reqs /\ x.pc = "ok" /\ x.got = r /\ x.id = req[r].id
    BY ReqOf DEF Reqs, Taken
<1>. HIDE DEF x
<1>. QED BY <1>1, <1>2, CallMoves

LEMMA BreaksKeeps == ASSUME CInv, NEW r \in Requests, Mcp!StreamBreaks(r) PROVE CInv'
<1>0. req[r].pc = "streams" /\ UNCHANGED <<conn, handshake, sess, ids, wire, runs>>
    BY DEF Mcp!StreamBreaks, Mcp!At
<1>1. PICK x \in Reqs : /\ req' = [req EXCEPT ![r] = x] /\ x.id = req[r].id
                        /\ x.pc \in {"failed", "resumes"}
  <2>1. /\ [req[r] EXCEPT !.pc = "failed"] \in Reqs
        /\ [req[r] EXCEPT !.pc = "failed"].id = req[r].id
        /\ [req[r] EXCEPT !.pc = "failed"].pc = "failed"
      BY ReqOf DEF Reqs
  <2>. DEFINE n == req[r].resumes + 1
  <2>2. n \in Nat
      BY ReqOf DEF Reqs
  <2>3. \/ req' = [req EXCEPT ![r] = [req[r] EXCEPT !.pc = "failed"]]
        \/ req' = [req EXCEPT ![r] = [req[r] EXCEPT !.pc = "resumes", !.resumes = n]]
      BY DEF Mcp!StreamBreaks, Mcp!To
  <2>. HIDE DEF n
  <2>4. /\ [req[r] EXCEPT !.pc = "resumes", !.resumes = n] \in Reqs
        /\ [req[r] EXCEPT !.pc = "resumes", !.resumes = n].id = req[r].id
        /\ [req[r] EXCEPT !.pc = "resumes", !.resumes = n].pc = "resumes"
      BY <2>2, ReqOf DEF Reqs, Taken
  <2>. QED BY <2>1, <2>3, <2>4
<1>. QED BY <1>0, <1>1, CallMoves

\* A session found forgotten: marked, and nothing more.
LEMMA ExpiresKeeps ==
    ASSUME CInv, NEW s, sess' = [sess EXCEPT ![s].expired = TRUE], conn' = conn
    PROVE  sess' \in [Mcp!Sessions -> Sess] /\ NoneLeftOpen'
<1>1. sess \in [Mcp!Sessions -> Sess]
    BY DEF CInv, ClientTyped
<1>2. \A t \in Mcp!Sessions : sess'[t].st = sess[t].st /\ sess'[t].closed = sess[t].closed
    BY <1>1 DEF Sess
<1>3. sess' \in [Mcp!Sessions -> Sess]
    BY <1>1 DEF Sess
<1>. QED BY <1>2, <1>3 DEF CInv, NoneLeftOpen

LEMMA ResumeKeeps == ASSUME CInv, NEW r \in Requests, Mcp!Resume(r) PROVE CInv'
<1>. DEFINE x(pc) == [req[r] EXCEPT !.pc = pc]
<1>0. req[r].pc = "resumes" /\ UNCHANGED <<conn, handshake, ids, wire, runs>>
    BY DEF Mcp!Resume, Mcp!At
<1>1. \/ req' = [req EXCEPT ![r] = x("streams")] /\ sess' = sess
      \/ req' = [req EXCEPT ![r] = x("failed")] /\ sess' = [sess EXCEPT ![req[r].on].expired = TRUE]
    BY DEF Mcp!Resume, Mcp!To
<1>2. \A pc \in {"streams", "failed"} : x(pc) \in Reqs /\ x(pc).pc = pc /\ x(pc).id = req[r].id
    BY ReqOf DEF Reqs, Taken
<1>. HIDE DEF x
<1>3. CASE req' = [req EXCEPT ![r] = x("streams")] /\ sess' = sess
    BY <1>0, <1>2, <1>3, CallMoves
<1>4. CASE req' = [req EXCEPT ![r] = x("failed")] /\ sess' = [sess EXCEPT ![req[r].on].expired = TRUE]
  <2>1. Calls'
      BY <1>0, <1>2, <1>4, CallGoesOn DEF Unsent, Taken, Waits
  <2>2. sess' \in [Mcp!Sessions -> Sess] /\ NoneLeftOpen'
      BY <1>0, <1>4, ExpiresKeeps
  <2>. QED BY <1>0, <1>2, <1>4, <2>1, <2>2, CallAlone
<1>. QED BY <1>1, <1>3, <1>4

\* The session the server forgot is let go, unless another replaced it, and
\* closed; the call, not run, begins again, once.
LEMMA NotFoundKeeps == ASSUME Mcp!ConstantsOK, CInv, NEW r \in Requests, Mcp!NotFound(r) PROVE CInv'
<1>. DEFINE s == req[r].on
<1>0. req[r].pc = "posted" /\ UNCHANGED <<handshake, ids, wire, runs>>
    BY DEF Mcp!NotFound, Mcp!At
<1>1. CASE /\ Mcp!Drop(s) /\ req' = [req EXCEPT ![r] = [req[r] EXCEPT !.pc = "new", !.attempt = 1]]
  <2>. DEFINE x == [req[r] EXCEPT !.pc = "new", !.attempt = 1]
  <2>1. x \in Reqs /\ x.pc = "new" /\ x.id = req[r].id
      BY ReqOf DEF Reqs, Unsent
  <2>2. req' = [req EXCEPT ![r] = x]
      BY <1>1
  <2>. HIDE DEF x
  <2>3. Calls' /\ req' \in [Requests -> Reqs]
      BY <1>0, <2>1, <2>2, CallGoesOn DEF Unsent, Taken, Waits
  <2>4. /\ conn' = IF conn = s THEN Mcp!NoSession ELSE conn
        /\ sess' = [sess EXCEPT ![s].expired = TRUE, ![s].closed = TRUE]
      BY <1>1 DEF Mcp!Drop
  <2>5. sess \in [Mcp!Sessions -> Sess] /\ conn \in 0 .. MaxSessions
      BY DEF CInv, ClientTyped
  <2>6. sess' \in [Mcp!Sessions -> Sess] /\ conn' \in 0 .. MaxSessions
    <3>1. conn' \in 0 .. MaxSessions
        BY <2>4, <2>5 DEF Mcp!NoSession, Mcp!ConstantsOK
    <3>2. sess' \in [Mcp!Sessions -> Sess]
        BY <2>4, <2>5 DEF Sess
    <3>. QED BY <3>1, <3>2
  <2>7. \A t \in Mcp!Sessions : /\ sess'[t].st = sess[t].st
                                /\ IF t = s THEN sess'[t].closed ELSE sess'[t].closed = sess[t].closed
      BY <2>4, <2>5 DEF Sess
  <2>8. NoneLeftOpen'
      BY <2>4, <2>7 DEF CInv, NoneLeftOpen
  <2>9. OneHandshake' /\ handshake' \in Requests \cup {NoRequest}
      BY <1>0, <2>1, <2>2, <2>4, ReqOf DEF CInv, OneHandshake, ClientTyped
  <2>. QED BY <1>0, <2>3, <2>6, <2>8, <2>9, Kept
<1>2. CASE /\ sess' = [sess EXCEPT ![s].expired = TRUE] /\ conn' = conn
           /\ req' = [req EXCEPT ![r] = [req[r] EXCEPT !.pc = "failed"]]
  <2>. DEFINE x == [req[r] EXCEPT !.pc = "failed"]
  <2>1. x \in Reqs /\ x.pc = "failed" /\ x.id = req[r].id
      BY ReqOf DEF Reqs
  <2>2. req' = [req EXCEPT ![r] = x]
      BY <1>2
  <2>. HIDE DEF x
  <2>3. Calls'
      BY <1>0, <2>1, <2>2, CallGoesOn DEF Unsent, Taken, Waits
  <2>4. sess' \in [Mcp!Sessions -> Sess] /\ NoneLeftOpen'
      BY <1>2, ExpiresKeeps
  <2>. QED BY <1>0, <1>2, <2>1, <2>2, <2>3, <2>4, CallAlone
<1>. QED BY <1>1, <1>2 DEF Mcp!NotFound, Mcp!To

\* A number of its own: no other call has it, and nothing comes under it yet.
LEMMA SendKeeps == ASSUME CInv, NEW r \in Requests, Mcp!Send(r) PROVE CInv'
<1>. DEFINE x == [req[r] EXCEPT !.pc = IF Mcp!Alive(req[r].on) THEN "posted" ELSE "failed", !.id = ids']
<1>0. /\ req[r].pc = "sends" /\ ids' = ids + 1 /\ req' = [req EXCEPT ![r] = x]
      /\ UNCHANGED <<conn, handshake, sess, wire, runs>>
    BY DEF Mcp!Send, Mcp!At
<1>1. ids \in Nat /\ req \in [Requests -> Reqs]
    BY DEF CInv, ClientTyped
<1>2. x \in Reqs /\ x.pc \in {"posted", "failed"} /\ x.id = ids + 1
  <2>. DEFINE n == ids + 1
              y(pc) == [req[r] EXCEPT !.pc = pc, !.id = n]
  <2>1. n \in Nat /\ (x = y("posted") \/ x = y("failed"))
    <3>1. ids' = n
        BY <1>0
    <3>2. n \in Nat
        BY <1>1
    <3>3. CASE Mcp!Alive(req[r].on)
        BY <3>1, <3>2, <3>3
    <3>4. CASE ~Mcp!Alive(req[r].on)
        BY <3>1, <3>2, <3>4
    <3>. QED BY <3>3, <3>4
  <2>. HIDE DEF n
  <2>2. \A pc \in {"posted", "failed"} : y(pc) \in Reqs /\ y(pc).pc = pc /\ y(pc).id = n
      BY <2>1, ReqOf DEF Reqs, Unsent
  <2>. QED BY <2>1, <2>2 DEF n
<1>. HIDE DEF x
<1>3. req'[r] = x /\ (\A o \in Requests \ {r} : req'[o] = req[o]) /\ req' \in [Requests -> Reqs]
    BY <1>0, <1>1, <1>2
<1>4. ClientTyped'
    BY <1>0, <1>1, <1>3 DEF CInv, ClientTyped
<1>5. RanOnce'
    BY <1>0, <1>2, <1>3 DEF CInv, Calls, RanOnce, Unsent, Taken
<1>6. \A o \in Requests : req[o].id \in Nat /\ req[o].id <= ids
    BY ReqOf DEF CInv, Calls, Numbered, Reqs
<1>7. Numbered'
  <2>1. \A o \in Requests : req'[o].id <= ids' /\ (req'[o].pc \in Waits => req'[o].id > 0)
      BY <1>0, <1>1, <1>2, <1>3, <1>6 DEF CInv, Calls, Numbered
  <2>2. \A a, o \in Requests : a # o /\ req'[a].id = req'[o].id => req'[a].id = 0
      BY <1>1, <1>2, <1>3, <1>6 DEF CInv, Calls, Numbered
  <2>. QED BY <2>1, <2>2 DEF Numbered
<1>8. OnWire'
  <2>1. \A m \in wire : m.of \in Requests /\ m.of # r
      BY <1>0 DEF CInv, Calls, OnWire, ClientTyped, Unsent
  <2>. QED BY <1>0, <1>3, <2>1 DEF CInv, Calls, OnWire
<1>9. OneHandshake' /\ NoneLeftOpen'
    BY <1>0, <1>2, <1>3 DEF CInv, OneHandshake, NoneLeftOpen
<1>. QED BY <1>4, <1>5, <1>7, <1>8, <1>9 DEF CInv, Calls

\* The server runs it, the first time: it is not sent again.
LEMMA RunKeeps == ASSUME CInv, NEW r \in Requests, Mcp!Run(r) PROVE CInv'
<1>. DEFINE m == [on |-> req[r].on, id |-> req[r].id, of |-> r]
<1>0. /\ req[r].pc = "posted" /\ runs' = [runs EXCEPT ![r] = @ + 1]
      /\ UNCHANGED <<conn, handshake, sess, ids>>
      /\ wire' \subseteq wire \cup {m}
    BY DEF Mcp!Run, Mcp!At
<1>1. PICK x \in Reqs : /\ req' = [req EXCEPT ![r] = x] /\ x.id = req[r].id
                        /\ \/ x.pc \in {"streams", "pending", "failed"}
                           \/ x.pc = "ok" /\ x.got = r
  <2>1. \A pc \in {"streams", "pending", "failed"} :
          /\ [req[r] EXCEPT !.pc = pc] \in Reqs
          /\ [req[r] EXCEPT !.pc = pc].id = req[r].id
          /\ [req[r] EXCEPT !.pc = pc].pc = pc
      BY ReqOf DEF Reqs, Taken
  <2>2. /\ [req[r] EXCEPT !.pc = "ok", !.got = r] \in Reqs
        /\ [req[r] EXCEPT !.pc = "ok", !.got = r].id = req[r].id
        /\ [req[r] EXCEPT !.pc = "ok", !.got = r].pc = "ok"
        /\ [req[r] EXCEPT !.pc = "ok", !.got = r].got = r
      BY ReqOf DEF Reqs, Taken
  <2>3. \/ req' = [req EXCEPT ![r] = [req[r] EXCEPT !.pc = "ok", !.got = r]]
        \/ \E pc \in {"streams", "pending", "failed"} : req' = [req EXCEPT ![r] = [req[r] EXCEPT !.pc = pc]]
      BY DEF Mcp!Run, Mcp!To
  <2>. QED BY <2>1, <2>2, <2>3
<1>2. req'[r] = x /\ (\A o \in Requests \ {r} : req'[o] = req[o]) /\ req' \in [Requests -> Reqs]
    BY <1>1, ReqOf
<1>3. runs[r] = 0 /\ req[r].id > 0 /\ runs \in [Requests -> Nat]
    BY <1>0 DEF CInv, Calls, RanOnce, Numbered, Unsent, Waits, ClientTyped
<1>4. runs'[r] = 1 /\ (\A o \in Requests \ {r} : runs'[o] = runs[o]) /\ runs' \in [Requests -> Nat]
    BY <1>0, <1>3
<1>5. m \in [on : 0 .. MaxSessions, id : Nat, of : Requests] /\ m.id = req[r].id /\ m.of = r
    BY ReqOf DEF Reqs
<1>. HIDE DEF m
<1>6. ClientTyped'
    BY <1>0, <1>2, <1>4, <1>5 DEF CInv, ClientTyped
<1>7. RanOnce'
    BY <1>1, <1>2, <1>4 DEF CInv, Calls, RanOnce, Unsent, Taken
<1>8. \A o \in Requests : req'[o].id = req[o].id
    BY <1>1, <1>2
<1>9. Numbered'
    BY <1>0, <1>2, <1>3, <1>8 DEF CInv, Calls, Numbered
<1>10. OnWire'
  <2>1. x.pc \notin Unsent
      BY <1>1 DEF Unsent
  <2>2. ASSUME NEW k \in wire' PROVE k.id > 0 /\ req'[k.of].id = k.id /\ req'[k.of].pc \notin Unsent
    <3>1. CASE k = m
        BY <1>2, <1>3, <1>5, <1>8, <2>1, <3>1
    <3>2. CASE k \in wire
      <4>1. k.of \in Requests /\ k.id > 0 /\ req[k.of].id = k.id /\ req[k.of].pc \notin Unsent
          BY <3>2 DEF CInv, ClientTyped, Calls, OnWire
      <4>. QED BY <1>2, <1>8, <2>1, <4>1
    <3>. QED BY <1>0, <3>1, <3>2
  <2>. QED BY <2>2 DEF OnWire
<1>11. OneHandshake' /\ NoneLeftOpen'
    BY <1>0, <1>1, <1>2 DEF CInv, OneHandshake, NoneLeftOpen
<1>. QED BY <1>6, <1>7, <1>9, <1>10, <1>11 DEF CInv, Calls

\* What comes under a number is the answer to the call that has it.
LEMMA DeliverKeeps == ASSUME CInv, NEW m \in wire, Mcp!Deliver(m) PROVE CInv'
<1>0. /\ wire' = wire \ {m} /\ UNCHANGED <<conn, handshake, sess, ids, runs>>
      /\ req' = [r \in Requests |-> IF Mcp!Answers(m, r) THEN [req[r] EXCEPT !.pc = "ok", !.got = m.of] ELSE req[r]]
    BY DEF Mcp!Deliver
<1>1. m.of \in Requests /\ m.id > 0 /\ m.id \in Nat /\ req[m.of].id = m.id
    BY DEF CInv, ClientTyped, Calls, OnWire
<1>2. ASSUME NEW r \in Requests, Mcp!Answers(m, r) PROVE r = m.of /\ req[r].pc = "pending"
    BY <1>1, <1>2 DEF Mcp!Answers, Mcp!At, CInv, Calls, Numbered
<1>3. ASSUME NEW r \in Requests
      PROVE  /\ req'[r] \in Reqs /\ req'[r].id = req[r].id
             /\ req'[r] = req[r] \/ (req[r].pc = "pending" /\ req'[r].pc = "ok" /\ req'[r].got = r)
  <2>1. CASE Mcp!Answers(m, r)
    <3>1. req'[r] = [req[r] EXCEPT !.pc = "ok", !.got = r] /\ req[r].pc = "pending"
        BY <1>0, <1>2, <2>1
    <3>. QED BY <3>1, ReqOf DEF Reqs, Taken
  <2>2. CASE ~Mcp!Answers(m, r)
      BY <1>0, <2>2, ReqOf
  <2>. QED BY <2>1, <2>2
<1>4. req' \in [Requests -> Reqs]
  <2>1. req' = [r \in Requests |-> req'[r]]
      BY <1>0
  <2>. QED BY <1>3, <2>1
<1>5. ClientTyped'
    BY <1>0, <1>4 DEF CInv, ClientTyped
<1>6. RanOnce'
  <2>. SUFFICES ASSUME NEW r \in Requests
                PROVE  /\ req'[r].pc \in Unsent => runs[r] = 0
                       /\ req'[r].pc \in Taken => runs[r] = 1
                       /\ runs[r] <= 1
                       /\ req'[r].pc = "ok" => req'[r].got = r
      BY <1>0 DEF RanOnce
  <2>1. CASE req'[r] = req[r]
      BY <2>1 DEF CInv, Calls, RanOnce
  <2>2. CASE req[r].pc = "pending" /\ req'[r].pc = "ok" /\ req'[r].got = r
      BY <2>2 DEF CInv, Calls, RanOnce, Unsent, Taken
  <2>. QED BY <1>3, <2>1, <2>2
<1>7. Numbered'
  <2>1. \A r \in Requests : req'[r].id = req[r].id
      BY <1>3
  <2>2. \A r \in Requests : req'[r].pc \in Waits => req[r].pc \in Waits
      BY <1>3 DEF Waits
  <2>. QED BY <1>0, <2>1, <2>2 DEF CInv, Calls, Numbered
<1>8. \A r \in Requests : req'[r].pc \in Unsent => req[r].pc \in Unsent
    BY <1>3 DEF Unsent
<1>9. OnWire'
  <2>1. \A r \in Requests : req'[r].id = req[r].id
      BY <1>3
  <2>2. \A k \in wire' : k \in wire /\ k.of \in Requests
      BY <1>0 DEF CInv, ClientTyped
  <2>. QED BY <1>8, <2>1, <2>2 DEF CInv, Calls, OnWire
<1>10. OneHandshake' /\ NoneLeftOpen'
    BY <1>0, <1>3 DEF CInv, OneHandshake, NoneLeftOpen
<1>. QED BY <1>5, <1>6, <1>7, <1>9, <1>10 DEF CInv, Calls

\* The server forgets a session, a stream ends, nothing happens: no call moves.
LEMMA MeanwhileKeeps ==
    ASSUME CInv, (\E s \in Mcp!Sessions : Mcp!Forget(s) \/ Mcp!StreamEnds(s)) \/ UNCHANGED Mcp!vars
    PROVE  CInv'
<1>0. /\ UNCHANGED <<conn, handshake, req, ids, runs>> /\ wire' \subseteq wire
      /\ sess' = sess \/ (\E s \in Mcp!Sessions : sess' = [sess EXCEPT ![s].done = TRUE])
    BY DEF Mcp!Forget, Mcp!StreamEnds, Mcp!vars
<1>1. sess \in [Mcp!Sessions -> Sess]
    BY DEF CInv, ClientTyped
<1>2. /\ sess' \in [Mcp!Sessions -> Sess]
      /\ \A t \in Mcp!Sessions : sess'[t].st = sess[t].st /\ sess'[t].closed = sess[t].closed
  <2>1. CASE sess' = sess
      BY <1>1, <2>1
  <2>2. ASSUME NEW s \in Mcp!Sessions, sess' = [sess EXCEPT ![s].done = TRUE]
        PROVE  /\ sess' \in [Mcp!Sessions -> Sess]
               /\ \A t \in Mcp!Sessions : sess'[t].st = sess[t].st /\ sess'[t].closed = sess[t].closed
      BY <1>1, <2>2 DEF Sess
  <2>. QED BY <1>0, <2>1, <2>2
<1>3. Calls' /\ req' \in [Requests -> Reqs]
    BY <1>0 DEF CInv, ClientTyped, Calls, RanOnce, Numbered, OnWire
<1>4. OneHandshake' /\ NoneLeftOpen'
    BY <1>0, <1>2 DEF CInv, OneHandshake, NoneLeftOpen
<1>5. conn' \in 0 .. MaxSessions /\ handshake' \in Requests \cup {NoRequest}
    BY <1>0 DEF CInv, ClientTyped
<1>. QED BY <1>0, <1>2, <1>3, <1>4, <1>5, Kept

-----------------------------------------------------------------------------
\* The inductive invariant of the client holds of every step, over either
\* transport, whatever the numbers of calls, sessions, resumes and faults.
THEOREM ClientInvariant == ASSUME Mcp!ConstantsOK PROVE Mcp!Spec => []CInv
<1>1. Mcp!Init => CInv
    BY ClientBegins
<1>2. CInv /\ [Mcp!Next]_Mcp!vars => CInv'
  <2>. SUFFICES ASSUME CInv, [Mcp!Next]_Mcp!vars PROVE CInv'
      OBVIOUS
  <2>1. CASE \E r \in Requests : Mcp!Connect(r) \/ Mcp!Acquire(r) \/ Mcp!Dial(r) \/ Mcp!Notify(r)
      BY <2>1, ConnectKeeps, AcquireKeeps, DialKeeps, NotifyKeeps
  <2>2. CASE \E r \in Requests : Mcp!Send(r) \/ Mcp!Run(r) \/ Mcp!NotFound(r)
      BY <2>2, SendKeeps, RunKeeps, NotFoundKeeps
  <2>3. CASE \E r \in Requests : Mcp!Lost(r) \/ Mcp!PendingEnds(r) \/ Mcp!Deadline(r)
      BY <2>3, FailKeeps
  <2>4. CASE \E r \in Requests : Mcp!Answered(r) \/ Mcp!StreamBreaks(r) \/ Mcp!Resume(r)
      BY <2>4, AnsweredKeeps, BreaksKeeps, ResumeKeeps
  <2>5. CASE \E m \in wire : Mcp!Deliver(m)
      BY <2>5, DeliverKeeps
  <2>6. CASE (\E s \in Mcp!Sessions : Mcp!Forget(s) \/ Mcp!StreamEnds(s)) \/ UNCHANGED Mcp!vars
      BY <2>6, MeanwhileKeeps
  <2>. QED BY <2>1, <2>2, <2>3, <2>4, <2>5, <2>6 DEF Mcp!Next
<1>. QED BY <1>1, <1>2, PTL DEF Mcp!Spec

\* A tool call is run once at most, its answer is its own, and no session is
\* left open that the client no longer holds (MCPClient.request, connect and
\* drop in tool/mcp.go, resume in tool/mcp_streamable.go, deliver in
\* tool/mcp_legacy.go).
THEOREM CallsAreRight == ASSUME Mcp!ConstantsOK PROVE Mcp!Spec => []Mcp!CallsRight
<1>1. CInv => Mcp!CallsRight
    BY DEF CInv, Calls, RanOnce, Taken, NoneLeftOpen, Mcp!CallsRight, Mcp!At
<1>. QED BY <1>1, ClientInvariant, PTL

-----------------------------------------------------------------------------
(* The tools of the MCP servers. *)

Values == Contracts \cup {1}
Regs == {Pub!NoReg} \cup [src : Servers \cup {Pub!BuiltIn}, v : Values]
Jobs == [st : {"idle", "lists", "writes"}, of : Servers \cup {0}, put : [Names -> Values \cup {0}],
         drop : SUBSET Names, seen : [Names -> {"none", "mine", "other"}], failed : SUBSET Names]

PublishTyped ==
    /\ gives \in [Servers -> Pub!Tools] /\ reg \in [Names -> Regs]
    /\ table \in [Names -> [q : {"none", "mine", "other"}, v : Values \cup {0}]]
    /\ found \in [Servers -> [st : {"none", "tools", "down"}, tools : Pub!Tools]]
    /\ job \in [Pub!Publishers -> Jobs] /\ retry \in [Servers -> SUBSET Names]
    /\ left \subseteq Names /\ running \in BOOLEAN

\* The registry stays as it is while run writes what it read from it.
JobsRight ==
    /\ \A p \in Pub!Publishers : job[p].st = "idle" => job[p] = Pub!NoJob
    /\ job["main"].drop = {}
    /\ job["run"].st # "idle" =>
          /\ job["run"].of \in Servers
          /\ \A n \in Names : job["run"].put[n] # 0 => reg[n] = [src |-> job["run"].of, v |-> job["run"].put[n]]
          /\ \A n \in job["run"].drop : reg[n] = Pub!NoReg
    /\ ~running => job["run"].st = "idle" /\ \A i \in Servers : found[i].st = "none"
    /\ \A n \in before : reg[n] = Pub!NoReg

RowRight(n) == IF Pub!Held(n) THEN table[n] = [q |-> "mine", v |-> reg[n].v] ELSE table[n].q # "mine"

\* To be written by main: a tool the registry has.
ByMain(n) ==
    /\ Pub!Held(n)
    /\ \/ job["main"].st = "idle" /\ (running => n \in left)
       \/ job["main"].put[n] # 0 \/ n \in job["main"].failed

\* To be written or withdrawn by run, for the server that gives it, or for
\* any when none does.
ByRun(n) ==
    \/ \E i \in Servers : i # job["run"].of /\ n \in retry[i] /\ reg[n].src \in {i, Pub!NoSource}
    \/ /\ reg[n].src \in {job["run"].of, Pub!NoSource}
       /\ job["run"].put[n] # 0 \/ n \in job["run"].drop \cup job["run"].failed

Settled == \A n \in Names \ (stale \cup before) : RowRight(n) \/ ByMain(n) \/ ByRun(n)

PInv == PublishTyped /\ JobsRight /\ Settled

\* A registry's entry has a tool or no source.
LEMMA RegIs ==
    ASSUME Pub!ConstantsOK, NEW x \in Regs
    PROVE  /\ x.src # Pub!NoSource => x.src \in Servers \cup {Pub!BuiltIn} /\ x.v \in Values /\ x.v # 0
           /\ x.src = Pub!NoSource => x = Pub!NoReg
           /\ Pub!NoReg \in Regs /\ Pub!NoReg.src = Pub!NoSource /\ Pub!NoReg.v = 0
BY DEF Regs, Values, Pub!NoReg, Pub!ConstantsOK

\* No job is one, with nothing to write.
LEMMA NoJobIs ==
    /\ Pub!NoJob \in Jobs /\ Pub!NoJob.st = "idle" /\ Pub!NoJob.of = 0 /\ Pub!NoJob.put = [n \in Names |-> 0]
    /\ Pub!NoJob.drop = {} /\ Pub!NoJob.failed = {} /\ Pub!NoJob.seen = [n \in Names |-> "none"]
    /\ Pub!NoTools \in [Names -> Values \cup {0}]
BY DEF Pub!NoJob, Pub!NoTools, Jobs, Values

\* What the two publishers hold.
LEMMA JobOf ==
    ASSUME PInv
    PROVE  /\ "main" \in Pub!Publishers /\ "run" \in Pub!Publishers /\ \A p \in Pub!Publishers : job[p] \in Jobs
           /\ \A p \in Pub!Publishers : job[p].st = "idle" =>
                job[p].of = 0 /\ job[p].drop = {} /\ job[p].failed = {} /\ \A n \in Names : job[p].put[n] = 0
<1>1. "main" \in Pub!Publishers /\ "run" \in Pub!Publishers
    BY DEF Pub!Publishers
<1>2. \A p \in Pub!Publishers : job[p] \in Jobs
    BY DEF PInv, PublishTyped
<1>. QED BY <1>1, <1>2, NoJobIs DEF PInv, JobsRight

\* Before the startup discovery, the built-in tools are to be published; a row
\* of the worker's with no tool is of its life before.
LEMMA PublishBegins == ASSUME Pub!ConstantsOK, Pub!Init PROVE PInv
<1>. USE DEF Pub!Init
<1>1. "main" \in Pub!Publishers /\ "run" \in Pub!Publishers /\ \A p \in Pub!Publishers : job[p] = Pub!NoJob
    BY DEF Pub!Publishers
<1>2. [src |-> Pub!BuiltIn, v |-> 1] \in Regs /\ Pub!NoReg \in Regs
    BY DEF Regs, Values
<1>3. Pub!NoRow \in [q : {"none", "mine", "other"}, v : Values \cup {0}] /\ Pub!NoRow.q = "none"
    BY DEF Pub!NoRow
<1>4. Pub!NoDiscovery \in [st : {"none", "tools", "down"}, tools : Pub!Tools] /\ Pub!NoDiscovery.st = "none"
    BY DEF Pub!NoDiscovery, Pub!Tools, Pub!NoTools
<1>5. PublishTyped
  <2>1. reg \in [Names -> Regs]
      BY <1>2
  <2>2. table \in [Names -> [q : {"none", "mine", "other"}, v : Values \cup {0}]]
      BY <1>3 DEF Values
  <2>3. found \in [Servers -> [st : {"none", "tools", "down"}, tools : Pub!Tools]]
      BY <1>4
  <2>4. job \in [Pub!Publishers -> Jobs]
      BY NoJobIs
  <2>. QED BY <2>1, <2>2, <2>3, <2>4 DEF PublishTyped
<1>6. JobsRight
    BY <1>1, <1>4, NoJobIs DEF JobsRight
<1>7. ASSUME NEW n \in Names \ (stale \cup before) PROVE RowRight(n) \/ ByMain(n)
  <2>1. CASE Pub!Held(n)
      BY <1>1, <2>1, NoJobIs DEF ByMain
  <2>2. CASE ~Pub!Held(n)
    <3>1. reg[n] = Pub!NoReg
        BY <2>2, RegIs, <1>5 DEF Pub!Held, PublishTyped
    <3>2. table[n].q # "mine"
        BY <1>7, <3>1
    <3>. QED BY <2>2, <3>2 DEF RowRight
  <2>. QED BY <2>1, <2>2
<1>. QED BY <1>5, <1>6, <1>7 DEF PInv, Settled

\* A set of numbers that is not empty has a least one.
LEMMA Least == ASSUME NEW S \in SUBSET Nat, S # {} PROVE \E i \in S : \A j \in S : i <= j
<1>. DEFINE R == OpToRel(<, Nat)
<1>1. IsWellFoundedOn(R, Nat)
    BY NatLessThanWellFounded
<1>2. \A x, y \in Nat : <<x, y>> \in R <=> x < y
    BY DEF OpToRel
<1>. HIDE DEF R
<1>3. PICK x \in S : \A y \in S : ~(<<y, x>> \in R)
    BY <1>1, WFMin
<1>4. ASSUME NEW y \in S PROVE x <= y
  <2>1. x \in Nat /\ y \in Nat /\ ~(y < x)
      BY <1>2, <1>3
  <2>. QED BY <2>1
<1>. QED BY <1>4

\* All of the registry is to be published.
LEMMA DiscoverKeeps == ASSUME Pub!ConstantsOK, PInv, Pub!Discover PROVE PInv'
<1>1. /\ UNCHANGED <<gives, table, found, retry, left, running, stale>> /\ ~running /\ job["main"].st = "idle"
      /\ job' = [job EXCEPT !["main"] = [Pub!NoJob EXCEPT !.st = "lists", !.put = [n \in Names |-> reg'[n].v]]]
      /\ before' = {n \in before : reg'[n] = Pub!NoReg}
    BY DEF Pub!Discover
<1>2. reg' \in [Names -> Regs] /\ \A n \in Names : Pub!Held(n) => reg'[n] = reg[n]
  <2>1. PICK up \in SUBSET Servers :
            reg' = [n \in Names |->
                      LET by == {i \in up : gives[i][n] # 0} IN
                      IF Pub!Held(n) \/ by = {} THEN reg[n]
                      ELSE LET i == CHOOSE i \in by : \A j \in by : i <= j IN [src |-> i, v |-> gives[i][n]]]
      BY DEF Pub!Discover
  <2>2. ASSUME NEW n \in Names PROVE reg'[n] \in Regs /\ (Pub!Held(n) => reg'[n] = reg[n])
    <3>. DEFINE by == {i \in up : gives[i][n] # 0}
                l == CHOOSE i \in by : \A j \in by : i <= j
    <3>1. reg'[n] = IF Pub!Held(n) \/ by = {} THEN reg[n] ELSE [src |-> l, v |-> gives[l][n]]
        BY <2>1
    <3>2. CASE Pub!Held(n) \/ by = {}
        BY <3>1, <3>2 DEF PInv, PublishTyped
    <3>3. CASE ~(Pub!Held(n) \/ by = {})
      <4>1. by \in SUBSET Nat /\ by # {}
          BY <3>3 DEF Pub!ConstantsOK
      <4>2. l \in by
        <5>1. \E i \in by : \A j \in by : i <= j
          <6>. HIDE DEF by
          <6>. QED BY <4>1, Least
        <5>. QED BY <5>1
      <4>3. l \in Servers /\ gives[l][n] \in Contracts
          BY <4>2 DEF PInv, PublishTyped, Pub!Tools
      <4>. HIDE DEF l, by
      <4>. QED BY <3>1, <3>3, <4>3 DEF Regs, Values
    <3>. QED BY <3>2, <3>3
  <2>. QED BY <2>1, <2>2
<1>3. /\ job'["run"] = job["run"] /\ job'["main"].st = "lists" /\ job'["main"].drop = {}
      /\ \A n \in Names : job'["main"].put[n] = reg'[n].v
      /\ job' \in [Pub!Publishers -> Jobs]
  <2>. DEFINE put == [n \in Names |-> reg'[n].v]
              x == [Pub!NoJob EXCEPT !.st = "lists", !.put = put]
  <2>1. put \in [Names -> Values \cup {0}]
      BY <1>2, RegIs
  <2>2. x \in Jobs /\ x.st = "lists" /\ x.drop = {} /\ x.put = put
      BY <2>1, NoJobIs DEF Jobs
  <2>. HIDE DEF x
  <2>3. job \in [Pub!Publishers -> Jobs] /\ "main" \in Pub!Publishers
      BY JobOf DEF PInv, PublishTyped
  <2>. QED BY <1>1, <2>2, <2>3 DEF x
<1>4. PublishTyped'
    BY <1>1, <1>2, <1>3 DEF PInv, PublishTyped
<1>5. job["run"].st = "idle" /\ job'["run"] = Pub!NoJob
    BY <1>1, <1>3, JobOf DEF PInv, JobsRight
<1>6. JobsRight'
  <2>1. \A p \in Pub!Publishers : job'[p].st = "idle" => job'[p] = Pub!NoJob
      BY <1>3, <1>5 DEF Pub!Publishers
  <2>. QED BY <1>1, <1>3, <1>5, <2>1, NoJobIs DEF PInv, JobsRight
<1>7. ASSUME NEW n \in Names, n \notin (stale \cup before)' PROVE (RowRight(n) \/ ByMain(n) \/ ByRun(n))'
  <2>1. reg'[n] \in Regs /\ reg[n] \in Regs
      BY <1>2 DEF PInv, PublishTyped
  <2>2. CASE reg'[n].src # Pub!NoSource
    <3>1. reg'[n].v # 0
        BY <2>1, <2>2, RegIs
    <3>. QED BY <3>1, <2>2, <1>3 DEF ByMain, Pub!Held
  <2>3. CASE reg'[n].src = Pub!NoSource
    <3>1. reg'[n] = reg[n] /\ reg[n] = Pub!NoReg /\ ~Pub!Held(n)
        BY <2>1, <2>3, <1>2, RegIs DEF Pub!Held
    <3>2. RowRight(n) \/ ByRun(n)
        BY <3>1, <1>1, <1>7 DEF PInv, Settled, ByMain
    <3>3. RowRight(n) => RowRight(n)'
        BY <3>1, <1>1 DEF RowRight, Pub!Held
    <3>4. ByRun(n) => ByRun(n)'
        BY <3>1, <1>1, <1>3 DEF ByRun
    <3>. QED BY <3>2, <3>3, <3>4
  <2>. QED BY <2>2, <2>3
<1>. QED BY <1>4, <1>6, <1>7 DEF PInv, Settled

\* A discovery made or failed; what the servers would give.
LEMMA WatchKeeps ==
    ASSUME Pub!ConstantsOK, PInv, NEW i \in Servers, Pub!Watch(i) \/ Pub!Down(i) \/ Pub!ServerChanges(i)
    PROVE  PInv'
<1>1. UNCHANGED <<reg, table, job, retry, left, running, stale, before>>
    BY DEF Pub!Watch, Pub!Down, Pub!ServerChanges
<1>2. gives' \in [Servers -> Pub!Tools]
    BY DEF Pub!Watch, Pub!Down, Pub!ServerChanges, PInv, PublishTyped
<1>3. /\ Pub!NoDiscovery \in [st : {"none", "tools", "down"}, tools : Pub!Tools] /\ Pub!NoDiscovery.st = "none"
      /\ Pub!NotListed \in [st : {"none", "tools", "down"}, tools : Pub!Tools]
      /\ Pub!Listed(i) \in [st : {"none", "tools", "down"}, tools : Pub!Tools]
    BY DEF Pub!NoDiscovery, Pub!NotListed, Pub!Listed, Pub!Tools, Pub!NoTools, PInv, PublishTyped
<1>4. found' \in [Servers -> [st : {"none", "tools", "down"}, tools : Pub!Tools]]
      /\ (~running => \A j \in Servers : found'[j].st = "none")
  <2>1. found \in [Servers -> [st : {"none", "tools", "down"}, tools : Pub!Tools]]
        /\ (~running => \A j \in Servers : found[j].st = "none")
      BY DEF PInv, PublishTyped, JobsRight
  <2>2. CASE Pub!Watch(i)
      BY <1>3, <2>1, <2>2 DEF Pub!Watch
  <2>3. CASE Pub!Down(i)
      BY <1>3, <2>1, <2>3 DEF Pub!Down
  <2>4. CASE Pub!ServerChanges(i)
      BY <2>1, <2>4 DEF Pub!ServerChanges
  <2>. QED BY <2>2, <2>3, <2>4
<1>5. PublishTyped'
    BY <1>1, <1>2, <1>4 DEF PInv, PublishTyped
<1>6. JobsRight'
    BY <1>1, <1>4 DEF PInv, JobsRight
<1>7. Settled'
    BY <1>1 DEF PInv, Settled, RowRight, ByMain, ByRun, Pub!Held
<1>. QED BY <1>5, <1>6, <1>7 DEF PInv

\* What the discovery changed, and what an earlier publish of this server's
\* could not write, is run's to write: the rest is as it was.
LEMMA ApplyKeeps == ASSUME Pub!ConstantsOK, PInv, NEW i \in Servers, Pub!Apply(i) PROVE PInv'
<1>. DEFINE put == [n \in Names |-> IF n \in Pub!ToPublish(i) /\ reg'[n].src = i THEN reg'[n].v ELSE 0]
            drop == {n \in Pub!ToPublish(i) : reg'[n] = Pub!NoReg}
            x == [Pub!NoJob EXCEPT !.st = IF Pub!Set(put) = {} THEN "writes" ELSE "lists", !.of = i,
                                   !.put = put, !.drop = drop]
<1>1. /\ UNCHANGED <<gives, table, left, running, stale>> /\ job["run"].st = "idle" /\ found[i].st = "tools"
      /\ before' = {n \in before : reg'[n] = Pub!NoReg}
      /\ found' = [found EXCEPT ![i] = Pub!NoDiscovery]
    BY DEF Pub!Apply
<1>2. \/ Pub!Set(put) = {} /\ drop = {} /\ retry' = [retry EXCEPT ![i] = {}] /\ UNCHANGED job
      \/ job' = [job EXCEPT !["run"] = x] /\ UNCHANGED retry
    BY DEF Pub!Apply
<1>3. running /\ i # 0 /\ i # Pub!NoSource /\ found[i].tools \in Pub!Tools
    BY <1>1 DEF PInv, PublishTyped, JobsRight, Pub!ConstantsOK
<1>4. /\ reg' \in [Names -> Regs]
      /\ \A n \in Names : reg'[n] = reg[n] \/ reg'[n] = Pub!NoReg \/ reg'[n].src = i
  <2>1. reg' = [n \in Names |->
                  IF found[i].tools[n] # 0 /\ reg[n].src \in {i, Pub!NoSource}
                  THEN [src |-> i, v |-> found[i].tools[n]]
                  ELSE IF reg[n].src = i THEN Pub!NoReg ELSE reg[n]]
      BY DEF Pub!Apply, Pub!SyncSource
  <2>2. ASSUME NEW n \in Names
        PROVE  reg'[n] \in Regs /\ (reg'[n] = reg[n] \/ reg'[n] = Pub!NoReg \/ reg'[n].src = i)
    <3>1. reg[n] \in Regs /\ Pub!NoReg \in Regs /\ found[i].tools[n] \in Contracts \cup {0}
        BY <1>3 DEF PInv, PublishTyped, Regs, Pub!Tools
    <3>2. CASE found[i].tools[n] # 0 /\ reg[n].src \in {i, Pub!NoSource}
        BY <2>1, <3>1, <3>2 DEF Regs, Values
    <3>3. CASE ~(found[i].tools[n] # 0 /\ reg[n].src \in {i, Pub!NoSource})
        BY <2>1, <3>1, <3>3
    <3>. QED BY <3>2, <3>3
  <2>. QED BY <2>1, <2>2
<1>5. /\ \A n \in Names : reg'[n].src = Pub!NoSource <=> reg'[n] = Pub!NoReg
      /\ \A n \in Names : reg'[n].src = i => reg'[n] = [src |-> i, v |-> reg'[n].v] /\ reg'[n].v # 0 /\ reg'[n].v \in Values
  <2>. SUFFICES ASSUME NEW n \in Names
                PROVE  /\ reg'[n].src = Pub!NoSource <=> reg'[n] = Pub!NoReg
                       /\ reg'[n].src = i => reg'[n] = [src |-> i, v |-> reg'[n].v] /\ reg'[n].v # 0 /\ reg'[n].v \in Values
      OBVIOUS
  <2>1. reg'[n] \in Regs
      BY <1>4
  <2>2. reg'[n].src = Pub!NoSource <=> reg'[n] = Pub!NoReg
      BY <2>1, RegIs
  <2>3. ASSUME reg'[n].src = i PROVE reg'[n] \in [src : Servers \cup {Pub!BuiltIn}, v : Values] /\ reg'[n].v # 0
      BY <2>1, <2>3, <1>3, RegIs DEF Regs
  <2>. QED BY <2>2, <2>3
<1>6. /\ put \in [Names -> Values \cup {0}] /\ drop \subseteq Names
      /\ \A n \in Names : put[n] # 0 => n \in Pub!ToPublish(i) /\ reg'[n].src = i /\ put[n] = reg'[n].v
      /\ \A n \in Pub!ToPublish(i) : n \in Names
      /\ \A n \in Pub!ToPublish(i) : reg'[n].src = i => put[n] # 0
      /\ \A n \in Names : n \in drop <=> n \in Pub!ToPublish(i) /\ reg'[n] = Pub!NoReg
  <2>1. Pub!ToPublish(i) \subseteq Names
      BY DEF Pub!ToPublish, PInv, PublishTyped
  <2>. QED BY <2>1, <1>5
<1>7. x \in Jobs /\ x.st # "idle" /\ x.of = i /\ x.put = put /\ x.drop = drop /\ x.failed = {}
    BY <1>6, NoJobIs DEF Jobs
<1>8. Pub!Set(put) = {} => \A n \in Names : put[n] = 0
    BY DEF Pub!Set
<1>9. \A n \in Names : (reg'[n] # reg[n] \/ n \in retry[i]) => n \in Pub!ToPublish(i)
    BY DEF Pub!ToPublish
<1>. HIDE DEF x, put, drop
<1>10. /\ job'["main"] = job["main"] /\ job' \in [Pub!Publishers -> Jobs]
       /\ retry' \in [Servers -> SUBSET Names] /\ \A j \in Servers \ {i} : retry'[j] = retry[j]
       /\ job'["run"] = x \/ (job'["run"] = job["run"] /\ drop = {} /\ \A n \in Names : put[n] = 0)
  <2>1. job \in [Pub!Publishers -> Jobs] /\ retry \in [Servers -> SUBSET Names] /\ "run" \in Pub!Publishers
        /\ "main" \in Pub!Publishers
      BY JobOf DEF PInv, PublishTyped
  <2>2. CASE drop = {} /\ Pub!Set(put) = {} /\ retry' = [retry EXCEPT ![i] = {}] /\ UNCHANGED job
      BY <2>1, <2>2, <1>8
  <2>3. CASE job' = [job EXCEPT !["run"] = x] /\ UNCHANGED retry
      BY <2>1, <2>3, <1>7
  <2>. QED BY <1>2, <2>2, <2>3
<1>11. PublishTyped'
  <2>1. Pub!NoDiscovery \in [st : {"none", "tools", "down"}, tools : Pub!Tools]
      BY DEF Pub!NoDiscovery, Pub!Tools, Pub!NoTools
  <2>2. found' \in [Servers -> [st : {"none", "tools", "down"}, tools : Pub!Tools]]
      BY <1>1, <2>1 DEF PInv, PublishTyped
  <2>. QED BY <1>1, <1>4, <1>10, <2>2 DEF PInv, PublishTyped
<1>12. JobsRight'
  <2>1. \A p \in Pub!Publishers : job'[p].st = "idle" => job'[p] = Pub!NoJob
      BY <1>7, <1>10 DEF PInv, JobsRight, Pub!Publishers
  <2>2. ASSUME job'["run"].st # "idle"
        PROVE  /\ job'["run"].of \in Servers
               /\ \A n \in Names : job'["run"].put[n] # 0 => reg'[n] = [src |-> job'["run"].of, v |-> job'["run"].put[n]]
               /\ \A n \in job'["run"].drop : reg'[n] = Pub!NoReg
    <3>1. job'["run"] = x
        BY <2>2, <1>1, <1>10
    <3>2. \A n \in Names : put[n] # 0 => reg'[n] = [src |-> i, v |-> put[n]]
        BY <1>5, <1>6
    <3>. QED BY <3>1, <3>2, <1>6, <1>7
  <2>. QED BY <2>1, <2>2, <1>1, <1>3, <1>10 DEF PInv, JobsRight
<1>13. ASSUME NEW n \in Names, n \notin (stale \cup before)' PROVE (RowRight(n) \/ ByMain(n) \/ ByRun(n))'
  <2>1. CASE n \in Pub!ToPublish(i) /\ reg'[n].src \in {i, Pub!NoSource}
    <3>1. put[n] # 0 \/ n \in drop
        BY <2>1, <1>5, <1>6
    <3>2. job'["run"] = x
        BY <3>1, <1>10
    <3>. QED BY <3>1, <3>2, <2>1, <1>7 DEF ByRun
  <2>2. CASE ~(n \in Pub!ToPublish(i) /\ reg'[n].src \in {i, Pub!NoSource})
    <3>1. reg'[n] = reg[n]
        BY <2>2, <1>4, <1>5, <1>9
    <3>2. n \notin stale \cup before
        BY <3>1, <1>1, <1>13 DEF PInv, JobsRight
    <3>3. RowRight(n) \/ ByMain(n) \/ ByRun(n)
        BY <3>2 DEF PInv, Settled
    <3>4. RowRight(n) => RowRight(n)'
        BY <3>1, <1>1 DEF RowRight, Pub!Held
    <3>5. ByMain(n) => ByMain(n)'
        BY <3>1, <1>1, <1>10 DEF ByMain, Pub!Held
    <3>6. ASSUME ByRun(n) PROVE ByRun(n)'
      <4>1. PICK j \in Servers : n \in retry[j] /\ reg[n].src \in {j, Pub!NoSource}
          BY <3>6, <1>1, JobOf DEF ByRun
      <4>2. j # i
          BY <4>1, <2>2, <3>1, <1>9
      <4>3. n \in retry'[j] /\ job'["run"].of # j
          BY <4>1, <4>2, <1>1, <1>7, <1>10, JobOf DEF Pub!ConstantsOK
      <4>. QED BY <4>1, <4>3, <3>1 DEF ByRun
    <3>. QED BY <3>3, <3>4, <3>5, <3>6
  <2>. QED BY <2>1, <2>2
<1>. QED BY <1>11, <1>12, <1>13 DEF PInv, Settled

\* The rows are read: nothing is written yet.
LEMMA ListKeeps == ASSUME Pub!ConstantsOK, PInv, NEW p \in Pub!Publishers, Pub!ListTools(p) PROVE PInv'
<1>1. UNCHANGED <<gives, reg, table, found, retry, left, running, stale, before>> /\ job[p].st = "lists"
    BY DEF Pub!ListTools
<1>2. job \in [Pub!Publishers -> Jobs] /\ job[p] \in Jobs
    BY DEF PInv, PublishTyped
<1>3. PICK y \in Jobs : /\ job' = [job EXCEPT ![p] = y] /\ y.st = "writes"
                        /\ y.of = job[p].of /\ y.put = job[p].put /\ y.drop = job[p].drop /\ y.failed = job[p].failed
  <2>. DEFINE y == [job[p] EXCEPT !.st = "writes", !.seen = [n \in Names |-> table[n].q]]
              z == [job[p] EXCEPT !.st = "writes"]
  <2>1. \A n \in Names : table[n].q \in {"none", "mine", "other"}
      BY DEF PInv, PublishTyped
  <2>2. y \in Jobs /\ z \in Jobs
      BY <1>2, <2>1 DEF Jobs
  <2>3. /\ y.st = "writes" /\ y.of = job[p].of /\ y.put = job[p].put /\ y.drop = job[p].drop /\ y.failed = job[p].failed
        /\ z.st = "writes" /\ z.of = job[p].of /\ z.put = job[p].put /\ z.drop = job[p].drop /\ z.failed = job[p].failed
      BY <1>2 DEF Jobs
  <2>4. job' = [job EXCEPT ![p] = y] \/ job' = [job EXCEPT ![p] = z]
      BY <1>2 DEF Pub!ListTools, Jobs
  <2>. HIDE DEF y, z
  <2>. QED BY <2>2, <2>3, <2>4
<1>4. job' \in [Pub!Publishers -> Jobs] /\ job'[p] = y /\ \A q \in Pub!Publishers : q # p => job'[q] = job[q]
    BY <1>2, <1>3
<1>5. \A q \in Pub!Publishers : /\ job'[q].of = job[q].of /\ job'[q].put = job[q].put /\ job'[q].drop = job[q].drop
                                /\ job'[q].failed = job[q].failed /\ (job'[q].st = "idle" <=> job[q].st = "idle")
    BY <1>1, <1>3, <1>4
<1>6. PublishTyped'
    BY <1>1, <1>4 DEF PInv, PublishTyped
<1>7. JobsRight'
  <2>1. \A q \in Pub!Publishers : job'[q].st = "idle" => job'[q] = Pub!NoJob
      BY <1>3, <1>4 DEF PInv, JobsRight
  <2>. QED BY <1>1, <1>5, <2>1, JobOf DEF PInv, JobsRight
<1>8. Settled'
  <2>1. ASSUME NEW n \in Names PROVE RowRight(n) \/ ByMain(n) \/ ByRun(n) => (RowRight(n) \/ ByMain(n) \/ ByRun(n))'
    <3>1. RowRight(n) => RowRight(n)'
        BY <1>1 DEF RowRight, Pub!Held
    <3>2. ByMain(n) => ByMain(n)'
        BY <1>1, <1>5, JobOf DEF ByMain, Pub!Held
    <3>3. ByRun(n) => ByRun(n)'
        BY <1>1, <1>5, JobOf DEF ByRun
    <3>. QED BY <3>1, <3>2, <3>3
  <2>. QED BY <1>1, <2>1 DEF PInv, Settled
<1>. QED BY <1>6, <1>7, <1>8 DEF PInv

\* A write made or failed touches one name, of one job.
LEMMA WriteKeeps ==
    ASSUME Pub!ConstantsOK, PInv, NEW p \in Pub!Publishers, NEW n \in Names, NEW y \in Jobs,
           job' = [job EXCEPT ![p] = y], job[p].st = "writes", y.st = "writes", y.of = job[p].of,
           \A m \in Names \ {n} : y.put[m] = job[p].put[m], y.put[n] \in {0, job[p].put[n]},
           y.drop \subseteq job[p].drop, \A m \in Names \ {n} : m \in job[p].drop => m \in y.drop,
           job[p].failed \subseteq y.failed,
           UNCHANGED <<gives, reg, found, retry, left, running, before>>,
           table' \in [Names -> [q : {"none", "mine", "other"}, v : Values \cup {0}]],
           \A m \in Names \ {n} : table'[m] = table[m] /\ (m \in stale' <=> m \in stale),
           n \notin stale' \cup before => (RowRight(n) \/ ByMain(n) \/ ByRun(n))'
    PROVE  PInv'
<1>1. job \in [Pub!Publishers -> Jobs] /\ "run" \in Pub!Publishers /\ "main" \in Pub!Publishers
    BY JobOf DEF PInv, PublishTyped
<1>2. job' \in [Pub!Publishers -> Jobs] /\ job'[p] = y /\ \A q \in Pub!Publishers : q # p => job'[q] = job[q]
    BY <1>1
<1>3. PublishTyped'
    BY <1>2 DEF PInv, PublishTyped
<1>4. \A q \in Pub!Publishers :
          /\ job'[q].of = job[q].of /\ (job'[q].st = "idle" <=> job[q].st = "idle")
          /\ job'[q].drop \subseteq job[q].drop /\ job[q].failed \subseteq job'[q].failed
          /\ \A m \in Names : job'[q].put[m] # 0 => job'[q].put[m] = job[q].put[m]
          /\ \A m \in Names \ {n} : job'[q].put[m] = job[q].put[m] /\ (m \in job[q].drop => m \in job'[q].drop)
    BY <1>2
<1>5. JobsRight'
  <2>1. \A q \in Pub!Publishers : job'[q].st = "idle" => job'[q] = Pub!NoJob
      BY <1>2 DEF PInv, JobsRight
  <2>2. job'["main"].drop = {}
      BY <1>1, <1>4 DEF PInv, JobsRight
  <2>3. ASSUME job'["run"].st # "idle"
        PROVE  /\ job'["run"].of \in Servers
               /\ \A m \in Names : job'["run"].put[m] # 0 => reg'[m] = [src |-> job'["run"].of, v |-> job'["run"].put[m]]
               /\ \A m \in job'["run"].drop : reg'[m] = Pub!NoReg
      BY <2>3, <1>1, <1>4 DEF PInv, JobsRight
  <2>4. /\ ~running' => job'["run"].st = "idle" /\ \A i \in Servers : found'[i].st = "none"
        /\ \A m \in before' : reg'[m] = Pub!NoReg
      BY <1>1, <1>4 DEF PInv, JobsRight
  <2>. QED BY <2>1, <2>2, <2>3, <2>4 DEF JobsRight
<1>6. ASSUME NEW m \in Names \ {n}, RowRight(m) \/ ByMain(m) \/ ByRun(m) PROVE (RowRight(m) \/ ByMain(m) \/ ByRun(m))'
  <2>1. RowRight(m) => RowRight(m)'
      BY DEF RowRight, Pub!Held
  <2>2. ByMain(m) => ByMain(m)'
      BY <1>1, <1>4 DEF ByMain, Pub!Held
  <2>3. ByRun(m) => ByRun(m)'
      BY <1>1, <1>4 DEF ByRun
  <2>. QED BY <1>6, <2>1, <2>2, <2>3
<1>7. Settled'
  <2>. SUFFICES ASSUME NEW m \in Names, m \notin (stale \cup before)' PROVE (RowRight(m) \/ ByMain(m) \/ ByRun(m))'
      BY DEF Settled
  <2>1. CASE m = n
      BY <2>1
  <2>2. CASE m # n
    <3>1. RowRight(m) \/ ByMain(m) \/ ByRun(m)
        BY <2>2 DEF PInv, Settled
    <3>. QED BY <2>2, <3>1, <1>6
  <2>. QED BY <2>1, <2>2
<1>. QED BY <1>3, <1>5, <1>7 DEF PInv

\* A name that could not be written is in the job's failures: run's for the
\* server that gives it, main's if the registry has it still.
LEMMA FailureKept ==
    ASSUME Pub!ConstantsOK, PInv, NEW p \in Pub!Publishers, NEW n \in Names \ (stale \cup before), NEW y \in Jobs,
           job' = [job EXCEPT ![p] = y], job[p].st = "writes", y.of = job[p].of, n \in y.failed,
           job[p].put[n] # 0 \/ n \in job[p].drop, UNCHANGED <<reg, table, retry, left, running>>
    PROVE  (RowRight(n) \/ ByMain(n) \/ ByRun(n))'
<1>1. job \in [Pub!Publishers -> Jobs] /\ "run" \in Pub!Publishers /\ "main" \in Pub!Publishers
    BY JobOf DEF PInv, PublishTyped
<1>2. job'[p] = y /\ \A q \in Pub!Publishers : q # p => job'[q] = job[q]
    BY <1>1
<1>3. RowRight(n) \/ ByMain(n) \/ ByRun(n)
    BY DEF PInv, Settled
<1>4. RowRight(n) => RowRight(n)'
    BY DEF RowRight, Pub!Held
<1>5. CASE p = "run"
  <2>1. reg[n].src \in {y.of, Pub!NoSource}
    <3>1. job["run"].st # "idle"
        BY <1>5
    <3>2. CASE job[p].put[n] # 0
      <4>1. reg[n] = [src |-> job[p].of, v |-> job[p].put[n]]
          BY <3>1, <3>2, <1>5 DEF PInv, JobsRight
      <4>. QED BY <4>1
    <3>3. CASE n \in job[p].drop
      <4>1. reg[n] = Pub!NoReg
          BY <3>1, <3>3, <1>5 DEF PInv, JobsRight
      <4>. QED BY <4>1 DEF Pub!NoReg
    <3>. QED BY <3>2, <3>3
  <2>2. ByRun(n)'
      BY <1>2, <1>5, <2>1 DEF ByRun
  <2>. QED BY <2>2
<1>6. CASE p = "main"
  <2>1. ByMain(n) => ByMain(n)'
      BY <1>2, <1>6 DEF ByMain, Pub!Held
  <2>2. ByRun(n) => ByRun(n)'
      BY <1>1, <1>2, <1>6 DEF ByRun
  <2>. QED BY <1>3, <1>4, <2>1, <2>2
<1>. QED BY <1>5, <1>6 DEF Pub!Publishers

LEMMA UpsertKeeps ==
    ASSUME Pub!ConstantsOK, PInv, NEW p \in Pub!Publishers, NEW n \in Names, Pub!UpsertTool(p, n)
    PROVE  PInv'
<1>1. UNCHANGED <<gives, reg, found, retry, left, running, before>> /\ job[p].st = "writes" /\ job[p].put[n] # 0
    BY DEF Pub!UpsertTool
<1>2. job \in [Pub!Publishers -> Jobs] /\ job[p] \in Jobs /\ reg[n] \in Regs
    BY DEF PInv, PublishTyped
<1>3. job[p].put \in [Names -> Values \cup {0}] /\ job[p].failed \subseteq Names
    BY <1>2 DEF Jobs
<1>4. CASE /\ table' = [table EXCEPT ![n] = [q |-> "mine", v |-> job[p].put[n]]]
           /\ stale' = IF p = "main" /\ reg[n].v # job[p].put[n] THEN stale \cup {n} ELSE stale \ {n}
           /\ job' = [job EXCEPT ![p].put[n] = 0]
  <2>1. PICK y \in Jobs :
            /\ job' = [job EXCEPT ![p] = y] /\ y.st = "writes" /\ y.of = job[p].of /\ y.drop = job[p].drop
            /\ y.failed = job[p].failed /\ \A m \in Names : y.put[m] = IF m = n THEN 0 ELSE job[p].put[m]
    <3>. DEFINE z == [job[p] EXCEPT !.put = [job[p].put EXCEPT ![n] = 0]]
    <3>1. z \in Jobs /\ z.st = "writes" /\ z.of = job[p].of /\ z.drop = job[p].drop /\ z.failed = job[p].failed
          /\ \A m \in Names : z.put[m] = IF m = n THEN 0 ELSE job[p].put[m]
        BY <1>1, <1>2, <1>3 DEF Jobs
    <3>2. job' = [job EXCEPT ![p] = z]
        BY <1>2, <1>4
    <3>. HIDE DEF z
    <3>. QED BY <3>1, <3>2
  <2>2. /\ table' \in [Names -> [q : {"none", "mine", "other"}, v : Values \cup {0}]]
        /\ \A m \in Names \ {n} : table'[m] = table[m] /\ (m \in stale' <=> m \in stale)
        /\ table'[n] = [q |-> "mine", v |-> job[p].put[n]]
      BY <1>3, <1>4 DEF PInv, PublishTyped
  <2>3. ASSUME n \notin stale' PROVE RowRight(n)'
    <3>1. reg[n].v = job[p].put[n]
      <4>1. CASE p = "main"
          BY <4>1, <1>4, <2>3
      <4>2. CASE p = "run"
        <5>1. job["run"].st # "idle"
            BY <4>2, <1>1
        <5>2. reg[n] = [src |-> job[p].of, v |-> job[p].put[n]]
            BY <5>1, <4>2, <1>1 DEF PInv, JobsRight
        <5>. QED BY <5>2
      <4>. QED BY <4>1, <4>2 DEF Pub!Publishers
    <3>2. reg[n].src # Pub!NoSource
        BY <3>1, <1>1, <1>2, RegIs
    <3>. QED BY <3>1, <3>2, <1>1, <2>2 DEF RowRight, Pub!Held
  <2>4. /\ (\A m \in Names \ {n} : y.put[m] = job[p].put[m]) /\ y.put[n] \in {0, job[p].put[n]}
        /\ y.drop \subseteq job[p].drop /\ (\A m \in Names \ {n} : m \in job[p].drop => m \in y.drop)
        /\ job[p].failed \subseteq y.failed /\ y.st = "writes" /\ y.of = job[p].of
        /\ job' = [job EXCEPT ![p] = y]
      BY <2>1
  <2>5. n \notin stale' \cup before => (RowRight(n) \/ ByMain(n) \/ ByRun(n))'
      BY <2>3
  <2>. QED BY <1>1, <2>2, <2>4, <2>5, WriteKeeps
<1>5. CASE UNCHANGED <<table, stale>> /\ job' = [job EXCEPT ![p].put[n] = 0, ![p].failed = @ \cup {n}]
  <2>1. PICK y \in Jobs :
            /\ job' = [job EXCEPT ![p] = y] /\ y.st = "writes" /\ y.of = job[p].of /\ y.drop = job[p].drop
            /\ y.failed = job[p].failed \cup {n} /\ \A m \in Names : y.put[m] = IF m = n THEN 0 ELSE job[p].put[m]
    <3>. DEFINE z == [job[p] EXCEPT !.put = [job[p].put EXCEPT ![n] = 0], !.failed = job[p].failed \cup {n}]
    <3>1. z \in Jobs /\ z.st = "writes" /\ z.of = job[p].of /\ z.drop = job[p].drop /\ z.failed = job[p].failed \cup {n}
          /\ \A m \in Names : z.put[m] = IF m = n THEN 0 ELSE job[p].put[m]
        BY <1>1, <1>2, <1>3 DEF Jobs
    <3>2. job' = [job EXCEPT ![p] = z]
        BY <1>2, <1>5
    <3>. HIDE DEF z
    <3>. QED BY <3>1, <3>2
  <2>2. n \notin stale' \cup before => (RowRight(n) \/ ByMain(n) \/ ByRun(n))'
      BY <1>1, <1>5, <2>1, FailureKept
  <2>3. table' \in [Names -> [q : {"none", "mine", "other"}, v : Values \cup {0}]]
        /\ \A m \in Names \ {n} : table'[m] = table[m] /\ (m \in stale' <=> m \in stale)
      BY <1>5 DEF PInv, PublishTyped
  <2>4. /\ (\A m \in Names \ {n} : y.put[m] = job[p].put[m]) /\ y.put[n] \in {0, job[p].put[n]}
        /\ y.drop \subseteq job[p].drop /\ (\A m \in Names \ {n} : m \in job[p].drop => m \in y.drop)
        /\ job[p].failed \subseteq y.failed /\ y.st = "writes" /\ y.of = job[p].of
        /\ job' = [job EXCEPT ![p] = y]
      BY <2>1
  <2>. QED BY <1>1, <2>2, <2>3, <2>4, WriteKeeps
<1>. QED BY <1>4, <1>5 DEF Pub!UpsertTool

LEMMA WithdrawKeeps ==
    ASSUME Pub!ConstantsOK, PInv, NEW p \in Pub!Publishers, NEW n \in Names, Pub!DeleteTool(p, n)
    PROVE  PInv'
<1>1. UNCHANGED <<gives, reg, found, retry, left, running, before>> /\ job[p].st = "writes" /\ n \in job[p].drop
    BY DEF Pub!DeleteTool
<1>2. job \in [Pub!Publishers -> Jobs] /\ job[p] \in Jobs
    BY DEF PInv, PublishTyped
<1>3. p = "run" /\ reg[n] = Pub!NoReg
    BY <1>1 DEF PInv, JobsRight, Pub!Publishers
<1>4. CASE /\ table' = IF table[n].q = "mine" THEN [table EXCEPT ![n] = Pub!NoRow] ELSE table
           /\ stale' = stale \ {n} /\ job' = [job EXCEPT ![p].drop = @ \ {n}]
  <2>1. PICK y \in Jobs :
            /\ job' = [job EXCEPT ![p] = y] /\ y.st = "writes" /\ y.of = job[p].of /\ y.drop = job[p].drop \ {n}
            /\ y.failed = job[p].failed /\ y.put = job[p].put
    <3>. DEFINE z == [job[p] EXCEPT !.drop = job[p].drop \ {n}]
    <3>1. z \in Jobs /\ z.st = "writes" /\ z.of = job[p].of /\ z.drop = job[p].drop \ {n} /\ z.failed = job[p].failed
          /\ z.put = job[p].put
        BY <1>1, <1>2 DEF Jobs
    <3>2. job' = [job EXCEPT ![p] = z]
        BY <1>2, <1>4
    <3>. HIDE DEF z
    <3>. QED BY <3>1, <3>2
  <2>2. Pub!NoRow \in [q : {"none", "mine", "other"}, v : Values \cup {0}] /\ Pub!NoRow.q = "none"
      BY DEF Pub!NoRow
  <2>3. /\ table' \in [Names -> [q : {"none", "mine", "other"}, v : Values \cup {0}]]
        /\ \A m \in Names \ {n} : table'[m] = table[m] /\ (m \in stale' <=> m \in stale)
        /\ table'[n].q # "mine"
      BY <1>4, <2>2 DEF PInv, PublishTyped
  <2>4. RowRight(n)'
      BY <1>1, <1>3, <2>3 DEF RowRight, Pub!Held, Pub!NoReg
  <2>. QED BY <1>1, <2>1, <2>3, <2>4, WriteKeeps
<1>5. CASE UNCHANGED <<table, stale>> /\ job' = [job EXCEPT ![p].drop = @ \ {n}, ![p].failed = @ \cup {n}]
  <2>1. PICK y \in Jobs :
            /\ job' = [job EXCEPT ![p] = y] /\ y.st = "writes" /\ y.of = job[p].of /\ y.drop = job[p].drop \ {n}
            /\ y.failed = job[p].failed \cup {n} /\ y.put = job[p].put
    <3>. DEFINE z == [job[p] EXCEPT !.drop = job[p].drop \ {n}, !.failed = job[p].failed \cup {n}]
    <3>1. z \in Jobs /\ z.st = "writes" /\ z.of = job[p].of /\ z.drop = job[p].drop \ {n}
          /\ z.failed = job[p].failed \cup {n} /\ z.put = job[p].put
        BY <1>1, <1>2 DEF Jobs
    <3>2. job' = [job EXCEPT ![p] = z]
        BY <1>2, <1>5
    <3>. HIDE DEF z
    <3>. QED BY <3>1, <3>2
  <2>2. n \notin stale' \cup before => (RowRight(n) \/ ByMain(n) \/ ByRun(n))'
      BY <1>1, <1>5, <2>1, FailureKept
  <2>3. table' \in [Names -> [q : {"none", "mine", "other"}, v : Values \cup {0}]]
        /\ \A m \in Names \ {n} : table'[m] = table[m] /\ (m \in stale' <=> m \in stale)
      BY <1>5 DEF PInv, PublishTyped
  <2>. QED BY <1>1, <2>1, <2>2, <2>3, WriteKeeps
<1>. QED BY <1>4, <1>5 DEF Pub!DeleteTool

\* The names run could not write are its server's to try again; main's are
\* left to keepPublishing.
LEMMA PublishedKeeps ==
    ASSUME Pub!ConstantsOK, PInv, NEW p \in Pub!Publishers, Pub!Published(p)
    PROVE  PInv'
<1>1. /\ UNCHANGED <<gives, reg, table, found, stale, before>> /\ job[p].st = "writes" /\ job[p].drop = {}
      /\ Pub!Set(job[p].put) = {} /\ job' = [job EXCEPT ![p] = Pub!NoJob]
      /\ (p = "main" => left' = job[p].failed /\ running' = TRUE /\ UNCHANGED retry)
      /\ (p = "run" => retry' = [retry EXCEPT ![job[p].of] = job[p].failed] /\ UNCHANGED <<left, running>>)
    BY DEF Pub!Published
<1>2. job \in [Pub!Publishers -> Jobs] /\ "run" \in Pub!Publishers /\ "main" \in Pub!Publishers /\ job[p] \in Jobs
    BY JobOf DEF PInv, PublishTyped
<1>3. /\ job' \in [Pub!Publishers -> Jobs] /\ job'[p] = Pub!NoJob
      /\ \A q \in Pub!Publishers : q # p => job'[q] = job[q]
    BY <1>1, <1>2, NoJobIs
<1>4. job[p].failed \subseteq Names /\ \A n \in Names : job[p].put[n] = 0
  <2>1. \A n \in Names : job[p].put[n] = 0
      BY <1>1 DEF Pub!Set
  <2>. QED BY <2>1, <1>2 DEF Jobs
<1>5. PublishTyped'
  <2>1. CASE p = "main"
      BY <2>1, <1>1, <1>3, <1>4 DEF PInv, PublishTyped
  <2>2. CASE p = "run"
    <3>1. retry' \in [Servers -> SUBSET Names]
        BY <2>2, <1>1, <1>4 DEF PInv, PublishTyped
    <3>. QED BY <2>2, <3>1, <1>1, <1>3 DEF PInv, PublishTyped
  <2>. QED BY <2>1, <2>2 DEF Pub!Publishers
<1>6. JobsRight'
  <2>1. \A q \in Pub!Publishers : job'[q].st = "idle" => job'[q] = Pub!NoJob
      BY <1>3 DEF PInv, JobsRight
  <2>2. job'["main"].drop = {}
      BY <1>2, <1>3, NoJobIs DEF PInv, JobsRight
  <2>3. job'["run"].st # "idle" => job'["run"] = job["run"]
      BY <1>2, <1>3, NoJobIs
  <2>4. ASSUME ~running' PROVE job'["run"].st = "idle" /\ \A i \in Servers : found'[i].st = "none"
    <3>1. ~running
        BY <2>4, <1>1 DEF Pub!Publishers
    <3>. QED BY <3>1, <1>1, <1>2, <1>3, NoJobIs DEF PInv, JobsRight
  <2>. QED BY <1>1, <2>1, <2>2, <2>3, <2>4 DEF PInv, JobsRight
<1>7. ASSUME NEW n \in Names \ (stale \cup before) PROVE (RowRight(n) \/ ByMain(n) \/ ByRun(n))'
  <2>1. RowRight(n) \/ ByMain(n) \/ ByRun(n)
      BY DEF PInv, Settled
  <2>2. RowRight(n) => RowRight(n)'
      BY <1>1 DEF RowRight, Pub!Held
  <2>3. CASE p = "main"
    <3>1. job'["run"] = job["run"] /\ job'["main"].st = "idle" /\ retry' = retry /\ left' = job["main"].failed
        BY <2>3, <1>1, <1>2, <1>3, NoJobIs
    <3>2. ByMain(n) => ByMain(n)'
        BY <2>3, <3>1, <1>1, <1>4 DEF ByMain, Pub!Held
    <3>3. ByRun(n) => ByRun(n)'
        BY <3>1, <1>1 DEF ByRun
    <3>. QED BY <2>1, <2>2, <3>2, <3>3
  <2>4. CASE p = "run"
    <3>1. job'["main"] = job["main"] /\ job'["run"].of = 0 /\ left' = left /\ running' = running
        BY <2>4, <1>1, <1>2, <1>3, NoJobIs
    <3>2. ByMain(n) => ByMain(n)'
        BY <3>1, <1>1 DEF ByMain, Pub!Held
    <3>3. ASSUME ByRun(n) PROVE ByRun(n)'
      <4>. DEFINE o == job["run"].of
      <4>1. o \in Servers /\ job["run"].st # "idle" /\ 0 \notin Servers
          BY <2>4, <1>1 DEF PInv, JobsRight, Pub!ConstantsOK
      <4>2. retry' = [retry EXCEPT ![o] = job["run"].failed] /\ retry \in [Servers -> SUBSET Names]
          BY <2>4, <1>1 DEF PInv, PublishTyped
      <4>3. CASE \E i \in Servers : i # o /\ n \in retry[i] /\ reg[n].src \in {i, Pub!NoSource}
        <5>1. PICK i \in Servers : i # o /\ n \in retry[i] /\ reg[n].src \in {i, Pub!NoSource}
            BY <4>3
        <5>2. n \in retry'[i] /\ i # job'["run"].of /\ reg'[n].src \in {i, Pub!NoSource}
            BY <5>1, <4>1, <4>2, <3>1, <1>1
        <5>. QED BY <5>2 DEF ByRun
      <4>4. CASE reg[n].src \in {o, Pub!NoSource} /\ (job["run"].put[n] # 0 \/ n \in job["run"].drop \cup job["run"].failed)
        <5>1. n \in job["run"].failed
            BY <4>4, <2>4, <1>1, <1>4
        <5>2. n \in retry'[o] /\ o # job'["run"].of /\ reg'[n].src \in {o, Pub!NoSource}
            BY <5>1, <4>1, <4>2, <4>4, <3>1, <1>1
        <5>. QED BY <4>1, <5>2 DEF ByRun
      <4>. QED BY <3>3, <4>3, <4>4 DEF ByRun
    <3>. QED BY <2>1, <2>2, <3>2, <3>3
  <2>. QED BY <2>3, <2>4 DEF Pub!Publishers
<1>. QED BY <1>1, <1>5, <1>6, <1>7 DEF PInv, Settled

\* What startup left out is main's again, as the registry has it now.
LEMMA KeepPublishingKeeps == ASSUME Pub!ConstantsOK, PInv, Pub!KeepPublishing PROVE PInv'
<1>1. /\ UNCHANGED <<gives, reg, table, found, retry, left, running, stale, before>>
      /\ running /\ job["main"].st = "idle"
      /\ job' = [job EXCEPT !["main"] = [Pub!NoJob EXCEPT !.st = "lists",
                                             !.put = [n \in Names |-> IF n \in left THEN reg[n].v ELSE 0]]]
    BY DEF Pub!KeepPublishing
<1>2. /\ job'["run"] = job["run"] /\ job'["main"].st = "lists" /\ job'["main"].drop = {}
      /\ \A n \in Names : job'["main"].put[n] = IF n \in left THEN reg[n].v ELSE 0
      /\ job' \in [Pub!Publishers -> Jobs]
  <2>. DEFINE put == [n \in Names |-> IF n \in left THEN reg[n].v ELSE 0]
              x == [Pub!NoJob EXCEPT !.st = "lists", !.put = put]
  <2>1. put \in [Names -> Values \cup {0}]
      BY RegIs DEF PInv, PublishTyped
  <2>2. x \in Jobs /\ x.st = "lists" /\ x.drop = {} /\ x.put = put
      BY <2>1, NoJobIs DEF Jobs
  <2>. HIDE DEF x
  <2>3. job \in [Pub!Publishers -> Jobs] /\ "main" \in Pub!Publishers /\ "run" \in Pub!Publishers
      BY JobOf DEF PInv, PublishTyped
  <2>. QED BY <1>1, <2>2, <2>3 DEF x
<1>3. PublishTyped'
    BY <1>1, <1>2 DEF PInv, PublishTyped
<1>4. JobsRight'
  <2>1. \A p \in Pub!Publishers : job'[p].st = "idle" => job'[p] = Pub!NoJob
      BY <1>2 DEF PInv, JobsRight, Pub!Publishers
  <2>. QED BY <1>1, <1>2, <2>1 DEF PInv, JobsRight
<1>5. ASSUME NEW n \in Names \ (stale \cup before) PROVE (RowRight(n) \/ ByMain(n) \/ ByRun(n))'
  <2>1. RowRight(n) \/ ByMain(n) \/ ByRun(n)
      BY DEF PInv, Settled
  <2>2. RowRight(n) => RowRight(n)'
      BY <1>1 DEF RowRight, Pub!Held
  <2>3. ASSUME ByMain(n) PROVE ByMain(n)'
    <3>1. n \in left /\ Pub!Held(n)
        BY <2>3, <1>1, JobOf DEF ByMain
    <3>2. reg[n].v # 0
        BY <3>1, RegIs DEF PInv, PublishTyped, Pub!Held
    <3>. QED BY <3>1, <3>2, <1>1, <1>2 DEF ByMain, Pub!Held
  <2>4. ByRun(n) => ByRun(n)'
      BY <1>1, <1>2 DEF ByRun
  <2>. QED BY <2>1, <2>2, <2>3, <2>4
<1>. QED BY <1>1, <1>3, <1>4, <1>5 DEF PInv, Settled

\* A row of the other queue withdrawn was never this one's.
LEMMA OtherQueueKeeps == ASSUME Pub!ConstantsOK, PInv, Pub!OtherQueue PROVE PInv'
<1>1. UNCHANGED <<gives, reg, found, job, retry, left, running, stale, before>>
    BY DEF Pub!OtherQueue
<1>2. Pub!NoRow \in [q : {"none", "mine", "other"}, v : Values \cup {0}] /\ Pub!NoRow.q = "none"
    BY DEF Pub!NoRow
<1>3. /\ table' \in [Names -> [q : {"none", "mine", "other"}, v : Values \cup {0}]]
      /\ \A n \in Names : table'[n] = table[n] \/ (table[n].q = "other" /\ table'[n].q = "none")
    BY <1>2 DEF Pub!OtherQueue, PInv, PublishTyped
<1>4. PublishTyped' /\ JobsRight'
    BY <1>1, <1>3 DEF PInv, PublishTyped, JobsRight
<1>5. ASSUME NEW n \in Names \ (stale \cup before) PROVE (RowRight(n) \/ ByMain(n) \/ ByRun(n))'
  <2>1. RowRight(n) \/ ByMain(n) \/ ByRun(n)
      BY DEF PInv, Settled
  <2>2. RowRight(n) => RowRight(n)'
    <3>1. CASE table'[n] = table[n]
        BY <3>1, <1>1 DEF RowRight, Pub!Held
    <3>2. CASE table[n].q = "other" /\ table'[n].q = "none"
        BY <3>2, <1>1 DEF RowRight, Pub!Held
    <3>. QED BY <3>1, <3>2, <1>3
  <2>3. ByMain(n) => ByMain(n)'
      BY <1>1 DEF ByMain, Pub!Held
  <2>4. ByRun(n) => ByRun(n)'
      BY <1>1 DEF ByRun
  <2>. QED BY <2>1, <2>2, <2>3, <2>4
<1>. QED BY <1>1, <1>4, <1>5 DEF PInv, Settled

\* The invariant of publishing holds: a name whose row is not as the registry
\* has it is on one publisher's list, the one that may write it.
THEOREM PublishInvariant == ASSUME Pub!ConstantsOK PROVE Pub!Spec => []PInv
<1>1. Pub!Init => PInv
    BY PublishBegins
<1>2. PInv /\ [Pub!Next]_(Pub!vars) => PInv'
  <2>. SUFFICES ASSUME PInv, [Pub!Next]_(Pub!vars) PROVE PInv'
      OBVIOUS
  <2>1. CASE Pub!Next
    <3>1. CASE Pub!Discover \/ Pub!KeepPublishing \/ Pub!OtherQueue
        BY <3>1, DiscoverKeeps, KeepPublishingKeeps, OtherQueueKeeps
    <3>2. CASE \E i \in Servers : Pub!Watch(i) \/ Pub!Down(i) \/ Pub!Apply(i) \/ Pub!ServerChanges(i)
        BY <3>2, WatchKeeps, ApplyKeeps
    <3>3. CASE \E p \in Pub!Publishers : Pub!ListTools(p) \/ Pub!Published(p)
        BY <3>3, ListKeeps, PublishedKeeps
    <3>4. CASE \E p \in Pub!Publishers, n \in Names : Pub!UpsertTool(p, n) \/ Pub!DeleteTool(p, n)
        BY <3>4, UpsertKeeps, WithdrawKeeps
    <3>. QED BY <2>1, <3>1, <3>2, <3>3, <3>4 DEF Pub!Next
  <2>2. CASE UNCHANGED Pub!vars
    <3>1. UNCHANGED <<gives, reg, table, served, found, job, retry, left, running, stale, before>>
        BY <2>2 DEF Pub!vars
    <3>2. PublishTyped' /\ JobsRight'
        BY <3>1 DEF PInv, PublishTyped, JobsRight
    <3>3. Settled'
        BY <3>1 DEF PInv, Settled, RowRight, ByMain, ByRun, Pub!Held
    <3>. QED BY <3>2, <3>3 DEF PInv
  <2>. QED BY <2>1, <2>2
<1>. QED BY <1>1, <1>2, PTL DEF Pub!Spec

\* With no publish under way the table agrees with the registry, but for the
\* names to be tried again and the two rows PublishedRight names
\* (MCPServers.apply, toPublish, keepPublishing).
THEOREM PublishedAsRegistered == ASSUME Pub!ConstantsOK PROVE Pub!Spec => []Pub!PublishedRight
<1>1. PInv => Pub!PublishedRight
  <2>. SUFFICES ASSUME PInv, running, \A p \in Pub!Publishers : job[p].st = "idle",
                       NEW n \in Names \ (stale \cup before)
                PROVE  n \in left \/ (\E i \in Servers : n \in retry[i]) \/ RowRight(n)
      BY DEF Pub!PublishedRight, RowRight
  <2>1. RowRight(n) \/ ByMain(n) \/ ByRun(n)
      BY DEF PInv, Settled
  <2>2. ByMain(n) => n \in left
      BY JobOf DEF ByMain
  <2>3. ByRun(n) => \E i \in Servers : n \in retry[i]
      BY JobOf DEF ByRun
  <2>. QED BY <2>1, <2>2, <2>3
<1>. QED BY <1>1, PublishInvariant, PTL

-----------------------------------------------------------------------------
(* A page and its stream. *)

Published == [topic : Page!Topics, kind : {"change", "left"}, late : BOOLEAN]

PageTyped ==
  /\ epoch \in Nat /\ seq \in Nat /\ dropped \in Nat
  /\ log \in Seq(Published) /\ Len(log) = seq
  /\ topics \in [Page!Topics -> [there : BOOLEAN, floor : Nat, seqs : Seq(Nat)]]
  /\ sub \in [on : SUBSET Page!Topics, ch : Seq(Nat), closed : BOOLEAN]
  /\ missed \in Seq(Nat)
  /\ stream \in {"off", "checks", "live", "unsure"}
  /\ stored \in [Page!Topics -> Nat]
  /\ owed \in [Page!Topics -> SUBSET Nat] /\ unsaid \in [Page!Topics -> SUBSET Nat]
  /\ leaving \in {"no", "left", "told"}
  /\ browser \in [st : {"none", "builds", "off", "on", "gone"}, epoch : Nat, id : Nat,
                  fetch : SUBSET Page!Topics, shown : [Page!Topics -> Nat]]

\* A topic's ring has the events of the topic after its floor, oldest first.
Ring(top, t, lg) ==
  /\ top.floor <= Len(lg)
  /\ \A i, j \in 1 .. Len(top.seqs) : i < j => top.seqs[i] < top.seqs[j]
  /\ \A i \in 1 .. Len(top.seqs) : /\ top.seqs[i] \in 1 .. Len(lg) /\ top.seqs[i] > top.floor
                                   /\ lg[top.seqs[i]].topic = t
  /\ \A k \in 1 .. Len(lg) : lg[k].topic = t /\ k > top.floor => \E i \in 1 .. Len(top.seqs) : top.seqs[i] = k

\* What was published on a topic is in its ring, or before what it is known
\* to have lost; on one swept, before the last event dropped.
RingsOf(tops, lg, d) ==
  \A t \in Page!Topics :
    IF tops[t].there THEN Ring(tops[t], t, lg)
    ELSE \A k \in 1 .. Len(lg) : lg[k].topic = t => k <= d

Rings == dropped <= seq /\ RingsOf(topics, log, dropped)

\* A page's position is one of this hub's, or another epoch's.
Positioned ==
  /\ browser.epoch <= epoch
  /\ browser.epoch = epoch => browser.id <= seq

\* A stream has to relay every event after its page's position, one after
\* the other, up to the last one or to the one it was too late for.
Streaming ==
  /\ stream = "off" => sub = Page!NoSub /\ missed = << >>
  /\ stream # "off" =>
       /\ browser.st = "on" /\ browser.epoch = epoch
       /\ \A i \in 1 .. Len(missed) : missed[i] = browser.id + i
       /\ \A i \in 1 .. Len(sub.ch) : sub.ch[i] = browser.id + Len(missed) + i
       /\ browser.id + Len(missed) + Len(sub.ch) <= seq
       /\ ~sub.closed => sub.on = Page!Topics /\ browser.id + Len(missed) + Len(sub.ch) = seq

\* A change the page does not show, and whose event was published, is one it
\* is about to fetch, or has an event after its position.
Coming(t) ==
  \/ t \in browser.fetch
  \/ browser.epoch # epoch
  \/ \E k \in 1 .. seq : k > browser.id /\ log[k].topic = t

Covered ==
  Page!Member /\ browser.st # "none" =>
    \A t \in Page!Topics : \A n \in (1 .. stored[t]) \ (owed[t] \cup unsaid[t]) :
      n <= browser.shown[t] \/ Coming(t)

\* An event is late when it was published after the user's leaving was told:
\* one that told it comes before on every stream still open whose checks did
\* not fail.
Leaves ==
  /\ leaving # "told" => \A k \in 1 .. seq : ~log[k].late
  /\ stream \in {"checks", "live"} /\ leaving = "told" =>
       \E l \in 1 .. seq : l > browser.id /\ log[l].kind = "left" /\ \A k \in 1 .. l : ~log[k].late
  /\ ~leaked

PageInv == PageTyped /\ Rings /\ Positioned /\ Streaming /\ Covered /\ Leaves

LEMMA LeastNumber == ASSUME NEW S \in SUBSET Nat, S # {} PROVE \E i \in S : \A j \in S : i <= j
<1>. DEFINE R == OpToRel(<, Nat)
<1>1. IsWellFoundedOn(R, Nat)
    BY NatLessThanWellFounded
<1>2. \A x, y \in Nat : <<x, y>> \in R <=> x < y
    BY DEF OpToRel
<1>. HIDE DEF R
<1>3. PICK x \in S : \A y \in S : ~(<<y, x>> \in R)
    BY <1>1, WFMin
<1>4. ASSUME NEW y \in S PROVE x <= y
  <2>1. x \in Nat /\ y \in Nat /\ ~(y < x)
      BY <1>2, <1>3
  <2>. QED BY <2>1
<1>. QED BY <1>4

LEMMA GreatestNumber ==
  ASSUME NEW S \in SUBSET Nat, S # {}, NEW b \in Nat, \A n \in S : n <= b
  PROVE  \E i \in S : \A j \in S : j <= i
<1>. DEFINE T == {k \in Nat : b - k \in S}
<1>1. T # {}
  <2>1. PICK n \in S : TRUE
      OBVIOUS
  <2>2. n \in Nat /\ n <= b
      OBVIOUS
  <2>3. b - n \in Nat /\ b - (b - n) = n
      BY <2>2
  <2>4. b - n \in T
      BY <2>3
  <2>. QED BY <2>4
<1>2. PICK k \in T : \A j \in T : k <= j
    BY <1>1, LeastNumber
<1>3. ASSUME NEW j \in S PROVE j <= b - k
  <2>1. j \in Nat /\ j <= b
      OBVIOUS
  <2>2. b - j \in Nat /\ b - (b - j) = j
      BY <2>1
  <2>3. b - j \in T
      BY <2>2
  <2>4. k <= b - j /\ k \in Nat
      BY <1>2, <2>3
  <2>. QED BY <2>1, <2>4
<1>. QED BY <1>2, <1>3

LEMMA ListIsSeq == ASSUME NEW n \in Nat, NEW T, NEW s \in [1 .. n -> T] PROVE s \in Seq(T) /\ Len(s) = n
    OBVIOUS

\* The identifiers of an interval, sorted, are the interval.
LEMMA SortedRun ==
  ASSUME NEW a \in Nat, NEW b \in Nat, a <= b, NEW s, s = Page!InOrder((a + 1) .. b)
  PROVE  s \in Seq(Nat) /\ Len(s) = b - a /\ \A i \in 1 .. (b - a) : s[i] = a + i
<1>. DEFINE S == (a + 1) .. b
            n == b - a
            Right(f) == /\ \A m \in S : \E i \in 1 .. n : f[i] = m
                        /\ \A i, j \in 1 .. n : i < j => f[i] < f[j]
            f0 == [i \in 1 .. n |-> a + i]
<1>1. n \in Nat /\ Cardinality(S) = n
  <2>1. IsFiniteSet(S) /\ Cardinality(S) = IF a + 1 > b THEN 0 ELSE b - (a + 1) + 1
      BY FS_Interval
  <2>. QED BY <2>1
<1>2. f0 \in [1 .. n -> S] /\ Right(f0)
  <2>1. ASSUME NEW i \in 1 .. n PROVE a + i \in S
      OBVIOUS
  <2>2. ASSUME NEW m \in S PROVE m - a \in 1 .. n /\ f0[m - a] = m
      OBVIOUS
  <2>3. ASSUME NEW m \in S PROVE \E i \in 1 .. n : f0[i] = m
      BY <2>2
  <2>4. ASSUME NEW i \in 1 .. n, NEW j \in 1 .. n, i < j PROVE f0[i] < f0[j]
      BY <2>4
  <2>. QED BY <2>1, <2>3, <2>4
<1>3. Page!Cardinality(S) = Cardinality(S)
    BY DEF Page!Cardinality, Cardinality, Page!IsFiniteSet, IsFiniteSet
<1>4. s = CHOOSE f \in [1 .. n -> S] : Right(f)
    BY <1>1, <1>3 DEF Page!InOrder
<1>. HIDE DEF f0
<1>5. s \in [1 .. n -> S] /\ Right(s)
    BY <1>2, <1>4
<1>6. ASSUME NEW i \in 1 .. n, s[i] # a + i PROVE FALSE
  <2>. DEFINE W == {k \in 1 .. n : s[k] # a + k}
  <2>1. W \subseteq Nat /\ W # {}
      BY <1>6
  <2>2. PICK k \in W : \A j \in W : k <= j
      BY <2>1, LeastNumber
  <2>3. k \in 1 .. n /\ s[k] # a + k /\ s[k] \in S
      BY <1>5, <2>2
  <2>4. \A j \in 1 .. n : j < k => s[j] = a + j
      BY <2>2, <2>3
  <2>5. s[k] >= a + k
    <3>1. CASE k = 1
        BY <2>3, <3>1
    <3>2. CASE k > 1
      <4>1. k - 1 \in 1 .. n /\ k - 1 < k
          BY <2>3, <3>2
      <4>2. s[k - 1] = a + (k - 1) /\ s[k - 1] < s[k]
          BY <1>5, <2>3, <2>4, <4>1
      <4>. QED BY <2>3, <4>1, <4>2
    <3>. QED BY <2>3, <3>1, <3>2
  <2>6. a + k \in S
      BY <2>3, <1>1
  <2>7. PICK j \in 1 .. n : s[j] = a + k
      BY <1>5, <2>6
  <2>8. ~(j < k)
      BY <2>3, <2>4, <2>7, <1>1
  <2>9. j # k
      BY <2>3, <2>7
  <2>10. k < j
      BY <1>1, <2>3, <2>8, <2>9
  <2>11. s[k] < s[j]
      BY <1>5, <2>3, <2>10
  <2>. QED BY <2>3, <2>5, <2>6, <2>7, <2>11
<1>7. s \in Seq(S) /\ Len(s) = n
    BY <1>1, <1>5, ListIsSeq
<1>8. S \subseteq Nat
    OBVIOUS
<1>9. s \in Seq(Nat)
    BY <1>7, <1>8
<1>. QED BY <1>6, <1>7, <1>9

\* A sweep remembers an event no older than any it drops, and no newer than
\* the last one.
LEMMA DropsUpTo ==
  ASSUME PageTyped, Rings, NEW S \in SUBSET Page!Idle, NEW d, d = Page!DroppedTo(S)
  PROVE  /\ d \in Nat /\ dropped <= d /\ d <= seq
         /\ \A t \in S : \A k \in 1 .. seq : log[k].topic = t => k <= d
<1>. DEFINE all == {dropped} \cup {topics[t].floor : t \in S} \cup UNION {Page!ToSet(topics[t].seqs) : t \in S}
<1>1. ASSUME NEW t \in S
      PROVE  /\ t \in Page!Topics /\ topics[t].there /\ Ring(topics[t], t, log)
             /\ topics[t].floor \in Nat /\ topics[t].seqs \in Seq(Nat)
    BY DEF Page!Idle, PageTyped, Rings, RingsOf
<1>2. \A n \in all : n \in Nat /\ n <= seq
  <2>1. dropped \in Nat /\ dropped <= seq
      BY DEF PageTyped, Rings
  <2>2. ASSUME NEW t \in S PROVE topics[t].floor \in Nat /\ topics[t].floor <= seq
      BY <1>1 DEF Ring, PageTyped
  <2>3. ASSUME NEW t \in S, NEW n \in Page!ToSet(topics[t].seqs) PROVE n \in Nat /\ n <= seq
    <3>1. PICK i \in DOMAIN topics[t].seqs : n = topics[t].seqs[i]
        BY DEF Page!ToSet
    <3>2. i \in 1 .. Len(topics[t].seqs)
        BY <1>1
    <3>. QED BY <1>1, <3>1, <3>2 DEF Ring, PageTyped
  <2>. QED BY <2>1, <2>2, <2>3
<1>3. all \subseteq Nat /\ dropped \in all
    BY <1>2
<1>4. PICK m \in all : \A n \in all : n <= m
    BY <1>2, <1>3, GreatestNumber DEF PageTyped
<1>5. d = CHOOSE n \in all : \A m1 \in all : m1 <= n
    BY <1>3 DEF Page!DroppedTo, Page!Max0
<1>6. d \in all /\ \A n \in all : n <= d
    BY <1>4, <1>5
<1>7. ASSUME NEW t \in S, NEW k \in 1 .. seq, log[k].topic = t PROVE k <= d
  <2>1. CASE k <= topics[t].floor
    <3>1. topics[t].floor \in all
        OBVIOUS
    <3>2. topics[t].floor <= d /\ d \in Nat /\ topics[t].floor \in Nat
        BY <1>2, <1>6, <3>1
    <3>. QED BY <2>1, <3>2
  <2>2. CASE k > topics[t].floor
    <3>1. PICK i \in 1 .. Len(topics[t].seqs) : topics[t].seqs[i] = k
        BY <1>1, <1>7, <2>2 DEF Ring, PageTyped
    <3>2. k \in Page!ToSet(topics[t].seqs)
        BY <1>1, <3>1 DEF Page!ToSet
    <3>3. k \in all
        BY <3>2
    <3>. QED BY <1>6, <3>3
  <2>. QED BY <1>1, <2>1, <2>2
<1>8. d \in Nat /\ dropped <= d /\ d <= seq
    BY <1>2, <1>3, <1>6
<1>. QED BY <1>7, <1>8

\* The topics after a sweep, those asked for there, know what they lost.
LEMMA OpenedRight ==
  ASSUME PageTyped, Rings, NEW S \in SUBSET Page!Idle, NEW T \in SUBSET Page!Topics,
         NEW tops, tops = Page!Opened(S, T), NEW d, d = Page!DroppedTo(S)
  PROVE  /\ tops \in [Page!Topics -> [there : BOOLEAN, floor : Nat, seqs : Seq(Nat)]]
         /\ d \in Nat /\ d <= seq
         /\ RingsOf(tops, log, d)
         /\ \A t \in T : tops[t].there
<1>1. /\ d \in Nat /\ dropped <= d /\ d <= seq
      /\ \A t \in S : \A k \in 1 .. seq : log[k].topic = t => k <= d
    BY DropsUpTo
<1>2. ASSUME NEW t \in Page!Topics
      PROVE  \/ /\ t \in T /\ tops[t] = [there |-> TRUE, floor |-> d, seqs |-> << >>]
                /\ t \in S \/ ~topics[t].there
             \/ t \notin T /\ t \in S /\ tops[t] = Page!NoTopic
             \/ t \notin S /\ (t \in T => topics[t].there) /\ tops[t] = topics[t]
  <2>1. Page!Swept(S)[t] = IF t \in S THEN Page!NoTopic ELSE topics[t]
      BY DEF Page!Swept
  <2>2. tops[t] = IF t \in T /\ ~Page!Swept(S)[t].there
                  THEN [there |-> TRUE, floor |-> d, seqs |-> << >>] ELSE Page!Swept(S)[t]
      BY DEF Page!Opened
  <2>3. Page!NoTopic.there = FALSE
      BY DEF Page!NoTopic
  <2>. QED BY <2>1, <2>2, <2>3
<1>3. tops = [t \in Page!Topics |-> tops[t]]
    BY DEF Page!Opened
<1>4. ASSUME NEW t \in Page!Topics
      PROVE  tops[t] \in [there : BOOLEAN, floor : Nat, seqs : Seq(Nat)]
  <2>1. [there |-> TRUE, floor |-> d, seqs |-> << >>] \in [there : BOOLEAN, floor : Nat, seqs : Seq(Nat)]
      BY <1>1
  <2>2. Page!NoTopic \in [there : BOOLEAN, floor : Nat, seqs : Seq(Nat)]
      BY DEF Page!NoTopic
  <2>3. topics[t] \in [there : BOOLEAN, floor : Nat, seqs : Seq(Nat)]
      BY DEF PageTyped
  <2>. QED BY <1>2, <2>1, <2>2, <2>3
<1>5. ASSUME NEW t \in Page!Topics
      PROVE  IF tops[t].there THEN Ring(tops[t], t, log)
             ELSE \A k \in 1 .. Len(log) : log[k].topic = t => k <= d
  <2>1. ASSUME t \in S \/ ~topics[t].there, NEW k \in 1 .. Len(log), log[k].topic = t PROVE k <= d
    <3>1. CASE t \in S
        BY <1>1, <2>1, <3>1 DEF PageTyped
    <3>2. CASE ~topics[t].there
      <4>1. k <= dropped
          BY <2>1, <3>2 DEF Rings, RingsOf
      <4>. QED BY <1>1, <4>1 DEF PageTyped
    <3>. QED BY <2>1, <3>1, <3>2
  <2>2. CASE t \in T /\ tops[t] = [there |-> TRUE, floor |-> d, seqs |-> << >>] /\ (t \in S \/ ~topics[t].there)
    <3>1. tops[t].there /\ tops[t].floor = d /\ tops[t].seqs = << >> /\ Len(tops[t].seqs) = 0
        BY <2>2
    <3>2. \A k \in 1 .. Len(log) : log[k].topic = t => ~(k > d)
        BY <1>1, <2>1, <2>2
    <3>. QED BY <1>1, <3>1, <3>2 DEF Ring, PageTyped
  <2>3. CASE t \notin T /\ t \in S /\ tops[t] = Page!NoTopic
      BY <2>1, <2>3 DEF Page!NoTopic
  <2>4. CASE t \notin S /\ (t \in T => topics[t].there) /\ tops[t] = topics[t]
    <3>1. CASE topics[t].there
        BY <2>4, <3>1 DEF Rings, RingsOf
    <3>2. CASE ~topics[t].there
        BY <2>1, <2>4, <3>2
    <3>. QED BY <3>1, <3>2
  <2>. QED BY <1>2, <2>2, <2>3, <2>4
<1>6. \A t \in T : tops[t].there
    BY <1>2
<1>7. tops \in [Page!Topics -> [there : BOOLEAN, floor : Nat, seqs : Seq(Nat)]]
    BY <1>3, <1>4
<1>8. RingsOf(tops, log, d)
    BY <1>5 DEF RingsOf
<1>. QED BY <1>1, <1>6, <1>7, <1>8

\* An event of another topic leaves a ring as it is.
LEMMA OtherRing ==
  ASSUME NEW lg \in Seq(Published), NEW e \in Published, NEW t \in Page!Topics, e.topic # t,
         NEW top \in [there : BOOLEAN, floor : Nat, seqs : Seq(Nat)], Ring(top, t, lg)
  PROVE  Ring(top, t, Append(lg, e))
<1>1. /\ Len(lg) \in Nat /\ Len(Append(lg, e)) = Len(lg) + 1
      /\ \A k \in 1 .. Len(lg) : Append(lg, e)[k] = lg[k]
      /\ Append(lg, e)[Len(lg) + 1] = e
    OBVIOUS
<1>2. PICK lg2 : lg2 = Append(lg, e)
    OBVIOUS
<1>3. Ring(top, t, lg2)
  <2>1. top.floor <= Len(lg2)
      BY <1>1, <1>2 DEF Ring
  <2>2. \A i, j \in 1 .. Len(top.seqs) : i < j => top.seqs[i] < top.seqs[j]
      BY DEF Ring
  <2>3. ASSUME NEW i \in 1 .. Len(top.seqs)
        PROVE  top.seqs[i] \in 1 .. Len(lg2) /\ top.seqs[i] > top.floor /\ lg2[top.seqs[i]].topic = t
    <3>1. top.seqs[i] \in 1 .. Len(lg) /\ top.seqs[i] > top.floor /\ lg[top.seqs[i]].topic = t
        BY DEF Ring
    <3>2. lg2[top.seqs[i]] = lg[top.seqs[i]]
        BY <1>1, <1>2, <3>1
    <3>. QED BY <1>1, <1>2, <3>1, <3>2
  <2>4. ASSUME NEW k \in 1 .. Len(lg2), lg2[k].topic = t, k > top.floor
        PROVE  \E i \in 1 .. Len(top.seqs) : top.seqs[i] = k
    <3>1. k # Len(lg) + 1
        BY <1>1, <1>2, <2>4
    <3>2. k \in 1 .. Len(lg)
        BY <1>1, <1>2, <3>1
    <3>3. lg[k].topic = t
        BY <1>1, <1>2, <2>4, <3>2
    <3>. QED BY <2>4, <3>2, <3>3 DEF Ring
  <2>. QED BY <2>1, <2>2, <2>3, <2>4 DEF Ring
<1>. QED BY <1>2, <1>3

\* A topic's own event is the last of its ring, which may lose its first ones
\* to it.
LEMMA PushedRing ==
  ASSUME Page!ConstantsOK, NEW lg \in Seq(Published), NEW e \in Published, NEW t \in Page!Topics, e.topic = t,
         NEW top \in [there : BOOLEAN, floor : Nat, seqs : Seq(Nat)], Ring(top, t, lg),
         NEW n, n = Len(lg) + 1, NEW new, new = Page!Pushed(top, n)
  PROVE  /\ new \in [there : BOOLEAN, floor : Nat, seqs : Seq(Nat)]
         /\ new.there = top.there
         /\ Ring(new, t, Append(lg, e))
<1>1. /\ Len(lg) \in Nat /\ Len(Append(lg, e)) = n /\ n \in Nat
      /\ \A k \in 1 .. Len(lg) : Append(lg, e)[k] = lg[k]
      /\ Append(lg, e)[n] = e
    OBVIOUS
<1>2. PICK lg2 : lg2 = Append(lg, e)
    OBVIOUS
<1>3. PICK sq : sq = top.seqs /\ sq \in Seq(Nat)
    OBVIOUS
<1>4. PICK l \in Nat : l = Len(sq)
    BY <1>3
<1>. DEFINE Shape(o) ==
        /\ o <= l /\ (o > 0 => new.floor = sq[o]) /\ (o = 0 => new.floor = top.floor)
        /\ new.seqs \in Seq(Nat) /\ Len(new.seqs) = l - o + 1
        /\ \A i \in 1 .. (l - o) : new.seqs[i] = sq[i + o]
        /\ new.seqs[l - o + 1] = n
        /\ new = [there |-> top.there, floor |-> new.floor, seqs |-> new.seqs]
<1>p. \E o \in Nat : Shape(o)
  <2>1. CASE l + 1 - Keep <= 0
    <3>1. new = [top EXCEPT !.seqs = Append(@, n)]
        BY <1>3, <1>4, <2>1 DEF Page!Pushed
    <3>2. new = [there |-> top.there, floor |-> top.floor, seqs |-> Append(sq, n)]
        BY <1>3, <3>1
    <3>3. PICK s2 : s2 = Append(sq, n)
        OBVIOUS
    <3>4. s2 \in Seq(Nat) /\ Len(s2) = l + 1 /\ s2[l + 1] = n /\ \A i \in 1 .. l : s2[i] = sq[i]
        BY <1>1, <1>3, <1>4, <3>3
    <3>5. new.floor = top.floor /\ new.seqs = s2
        BY <3>2, <3>3
    <3>6. \A i \in 1 .. l : i + 0 = i
        OBVIOUS
    <3>7. l - 0 + 1 = l + 1 /\ l - 0 = l
        OBVIOUS
    <3>8. Len(new.seqs) = l - 0 + 1 /\ new.seqs[l - 0 + 1] = n
        BY <3>4, <3>5, <3>7
    <3>9. \A i \in 1 .. (l - 0) : new.seqs[i] = sq[i + 0]
        BY <3>4, <3>5, <3>6, <3>7
    <3>10. new = [there |-> top.there, floor |-> new.floor, seqs |-> new.seqs] /\ new.seqs \in Seq(Nat)
        BY <3>2, <3>3, <3>4, <3>5
    <3>11. Shape(0)
        BY <3>5, <3>8, <3>9, <3>10
    <3>. QED BY <3>11
  <2>2. CASE ~(l + 1 - Keep <= 0)
    <3>1. PICK o \in Nat : o = l + 1 - Keep /\ o >= 1 /\ o <= l
        BY <2>2 DEF Page!ConstantsOK
    <3>2. new = [top EXCEPT !.seqs = Append(SubSeq(@, o + 1, Len(@)), n), !.floor = top.seqs[o]]
        BY <1>3, <1>4, <2>2, <3>1 DEF Page!Pushed
    <3>3. new = [there |-> top.there, floor |-> sq[o], seqs |-> Append(SubSeq(sq, o + 1, l), n)]
        BY <1>3, <1>4, <3>2
    <3>4. PICK rest : rest = SubSeq(sq, o + 1, l)
        OBVIOUS
    <3>5. /\ rest \in Seq(Nat) /\ Len(rest) = l - o
          /\ \A i \in 1 .. (l - o) : rest[i] = sq[i + o]
      <4>1. o + 1 \in Nat /\ l \in Nat /\ o + 1 >= 1
          BY <3>1
      <4>2. rest \in Seq(Nat)
          BY <1>3, <1>4, <3>1, <3>4, <4>1
      <4>3. Len(rest) = l - o
          BY <1>3, <1>4, <3>1, <3>4, <4>1
      <4>4. ASSUME NEW i \in 1 .. (l - o) PROVE rest[i] = sq[i + o]
        <5>1. i \in 1 .. (l - (o + 1) + 1) /\ (o + 1) + i - 1 = i + o
            BY <3>1
        <5>2. rest[i] = sq[(o + 1) + i - 1]
          <6>1. \A j \in (o + 1) .. l : sq[j] \in Nat
              BY <1>3, <1>4
          <6>. QED BY <3>4, <4>1, <5>1, <6>1, SubSeqProperties
        <5>. QED BY <5>1, <5>2
      <4>. QED BY <4>2, <4>3, <4>4
    <3>6. PICK s2 : s2 = Append(rest, n)
        OBVIOUS
    <3>7. PICK m \in Nat : m = l - o
        BY <3>1
    <3>a. rest \in Seq(Nat) /\ Len(rest) = m /\ n \in Nat
        BY <1>1, <3>5, <3>7
    <3>8. s2 \in Seq(Nat) /\ Len(s2) = m + 1 /\ s2[m + 1] = n /\ \A i \in 1 .. m : s2[i] = rest[i]
        BY <3>6, <3>a
    <3>9. new.floor = sq[o] /\ new.seqs = s2
        BY <3>3, <3>4, <3>6
    <3>10. Len(new.seqs) = l - o + 1 /\ new.seqs[l - o + 1] = n
        BY <3>7, <3>8, <3>9
    <3>11. \A i \in 1 .. (l - o) : new.seqs[i] = sq[i + o]
        BY <3>5, <3>7, <3>8, <3>9
    <3>12. new = [there |-> top.there, floor |-> new.floor, seqs |-> new.seqs] /\ new.seqs \in Seq(Nat)
        BY <3>3, <3>4, <3>6, <3>8, <3>9
    <3>13. (o > 0 => new.floor = sq[o]) /\ (o = 0 => new.floor = top.floor)
        BY <3>1, <3>9
    <3>14. Shape(o)
        BY <3>1, <3>10, <3>11, <3>12, <3>13
    <3>. QED BY <3>14
  <2>. QED BY <2>1, <2>2
<1>q. PICK over \in Nat : Shape(over)
    BY <1>p
<1>5. /\ over <= l /\ (over > 0 => new.floor = sq[over]) /\ (over = 0 => new.floor = top.floor)
      /\ new.seqs \in Seq(Nat) /\ Len(new.seqs) = l - over + 1
      /\ \A i \in 1 .. (l - over) : new.seqs[i] = sq[i + over]
      /\ new.seqs[l - over + 1] = n
      /\ new = [there |-> top.there, floor |-> new.floor, seqs |-> new.seqs]
    BY <1>q
<1>6. \A i \in 1 .. l : sq[i] \in Nat /\ sq[i] \in 1 .. Len(lg) /\ sq[i] > top.floor /\ lg[sq[i]].topic = t
    BY <1>3, <1>4 DEF Ring
<1>7. \A i, j \in 1 .. l : i < j => sq[i] < sq[j]
    BY <1>3, <1>4 DEF Ring
<1>8. new.floor \in Nat /\ new.floor <= Len(lg) /\ new.floor >= top.floor
  <2>1. CASE over = 0
      BY <1>1, <1>5, <2>1 DEF Ring
  <2>2. CASE over > 0
    <3>1. over \in 1 .. l
        BY <1>4, <1>5, <2>2
    <3>. QED BY <1>1, <1>5, <1>6, <2>2, <3>1
  <2>. QED BY <2>1, <2>2
<1>9. ASSUME NEW i \in 1 .. (l - over)
      PROVE  /\ i + over \in 1 .. l /\ new.seqs[i] = sq[i + over]
             /\ new.seqs[i] \in 1 .. Len(lg) /\ new.seqs[i] > new.floor /\ lg[new.seqs[i]].topic = t
  <2>0. over \in Nat /\ over <= l /\ l \in Nat
      BY <1>5
  <2>a. i + over \in 1 .. l
      BY <2>0
  <2>1. i + over \in 1 .. l /\ new.seqs[i] = sq[i + over]
      BY <1>5, <2>a
  <2>2. new.seqs[i] > new.floor
    <3>1. CASE over = 0
        BY <1>5, <1>6, <2>1, <3>1
    <3>2. CASE over > 0
      <4>1. over \in 1 .. l /\ over < i + over
          BY <1>4, <1>5, <3>2
      <4>2. sq[over] < sq[i + over]
          BY <1>7, <2>1, <4>1
      <4>. QED BY <1>5, <1>6, <2>1, <3>2, <4>1, <4>2
    <3>. QED BY <3>1, <3>2
  <2>. QED BY <1>6, <2>1, <2>2
<1>10. Ring(new, t, lg2)
  <2>1. new.floor <= Len(lg2)
      BY <1>1, <1>2, <1>8
  <2>2. ASSUME NEW i \in 1 .. Len(new.seqs), NEW j \in 1 .. Len(new.seqs), i < j PROVE new.seqs[i] < new.seqs[j]
    <3>1. i \in 1 .. (l - over)
        BY <1>4, <1>5, <2>2
    <3>2. CASE j = l - over + 1
        BY <1>1, <1>5, <1>9, <3>1, <3>2
    <3>3. CASE j # l - over + 1
      <4>1. j \in 1 .. (l - over)
          BY <1>4, <1>5, <3>3
      <4>2. i + over < j + over
          BY <1>5, <2>2
      <4>. QED BY <1>7, <1>9, <3>1, <4>1, <4>2
    <3>. QED BY <3>2, <3>3
  <2>3. ASSUME NEW i \in 1 .. Len(new.seqs)
        PROVE  new.seqs[i] \in 1 .. Len(lg2) /\ new.seqs[i] > new.floor /\ lg2[new.seqs[i]].topic = t
    <3>1. CASE i = l - over + 1
        BY <1>1, <1>2, <1>5, <1>8, <3>1
    <3>2. CASE i # l - over + 1
      <4>1. i \in 1 .. (l - over)
          BY <1>4, <1>5, <3>2
      <4>2. new.seqs[i] \in 1 .. Len(lg) /\ new.seqs[i] > new.floor /\ lg[new.seqs[i]].topic = t
          BY <1>9, <4>1
      <4>3. lg2[new.seqs[i]] = lg[new.seqs[i]]
          BY <1>1, <1>2, <4>2
      <4>. QED BY <1>1, <1>2, <4>2, <4>3
    <3>. QED BY <3>1, <3>2
  <2>4. ASSUME NEW k \in 1 .. Len(lg2), lg2[k].topic = t, k > new.floor
        PROVE  \E i \in 1 .. Len(new.seqs) : new.seqs[i] = k
    <3>1. CASE k = n
      <4>1. l - over + 1 \in 1 .. Len(new.seqs)
          BY <1>4, <1>5
      <4>. QED BY <1>5, <3>1, <4>1
    <3>2. CASE k # n
      <4>1. k \in 1 .. Len(lg)
          BY <1>1, <1>2, <3>2
      <4>2. lg[k].topic = t /\ k > top.floor
          BY <1>1, <1>2, <1>8, <2>4, <4>1
      <4>3. PICK i \in 1 .. l : sq[i] = k
          BY <1>3, <1>4, <4>1, <4>2 DEF Ring
      <4>4. i > over
        <5>1. CASE over = 0
            BY <1>4, <5>1
        <5>2. CASE over > 0
          <6>1. over \in 1 .. l /\ new.floor = sq[over]
              BY <1>4, <1>5, <5>2
          <6>2. ~(i < over) /\ i # over
              BY <1>6, <1>7, <2>4, <4>3, <6>1
          <6>. QED BY <1>4, <6>1, <6>2
        <5>. QED BY <5>1, <5>2
      <4>a. over \in Nat /\ over <= l /\ l \in Nat /\ i \in 1 .. l
          BY <1>5
      <4>5. i - over \in 1 .. (l - over) /\ (i - over) + over = i
          BY <4>4, <4>a
      <4>6. new.seqs[i - over] = k
          BY <1>9, <4>3, <4>5
      <4>7. i - over \in 1 .. Len(new.seqs)
          BY <1>4, <1>5, <4>5
      <4>. QED BY <4>6, <4>7
    <3>. QED BY <3>1, <3>2
  <2>. QED BY <2>1, <2>2, <2>3, <2>4 DEF Ring
<1>11. new \in [there : BOOLEAN, floor : Nat, seqs : Seq(Nat)] /\ new.there = top.there
    BY <1>5, <1>8
<1>. QED BY <1>2, <1>10, <1>11

LEMMA PageInit == Page!Init => PageInv
<1>. SUFFICES ASSUME Page!Init PROVE PageInv
    OBVIOUS
<1>1. /\ epoch = 1 /\ seq = 0 /\ dropped = 0 /\ log = << >> /\ Len(log) = 0
      /\ topics = [t \in Page!Topics |-> Page!NoTopic]
      /\ sub = Page!NoSub /\ missed = << >> /\ stream = "off"
      /\ stored = [t \in Page!Topics |-> 0] /\ owed = [t \in Page!Topics |-> {}] /\ unsaid = [t \in Page!Topics |-> {}]
      /\ leaving = "no" /\ leaked = FALSE
      /\ browser = [st |-> "none", epoch |-> 0, id |-> 0, fetch |-> {}, shown |-> [t \in Page!Topics |-> 0]]
    BY DEF Page!Init
<1>2. PageTyped
    BY <1>1 DEF PageTyped, Page!NoTopic, Page!NoSub
<1>3. Rings /\ Positioned /\ Streaming /\ Covered /\ Leaves
    BY <1>1 DEF Rings, RingsOf, Page!NoTopic, Positioned, Streaming, Covered, Leaves
<1>. QED BY <1>2, <1>3 DEF PageInv

LEMMA RingsStay == ASSUME Rings, UNCHANGED <<seq, topics, dropped, log>> PROVE Rings'
    BY DEF Rings, RingsOf, Ring

\* What an event published changes, and that the rings and the stream have it.
LEMMA PublishKeeps ==
  ASSUME Page!ConstantsOK, PageInv, NEW t \in Page!Topics, NEW kind \in {"change", "left"},
         Page!Publish(t, kind), UNCHANGED <<missed, stream, browser>>
  PROVE  /\ epoch' = epoch /\ seq' = seq + 1 /\ dropped' \in Nat
         /\ log' \in Seq(Published) /\ Len(log') = seq + 1
         /\ \A k \in 1 .. seq : log'[k] = log[k]
         /\ log'[seq + 1] = [topic |-> t, kind |-> kind, late |-> leaving = "told"]
         /\ topics' \in [Page!Topics -> [there : BOOLEAN, floor : Nat, seqs : Seq(Nat)]]
         /\ sub' \in [on : SUBSET Page!Topics, ch : Seq(Nat), closed : BOOLEAN]
         /\ Rings' /\ Positioned' /\ Streaming'
<1>0. PageTyped /\ Rings /\ Positioned /\ Streaming
    BY DEF PageInv
<1>1. PICK S \in SUBSET Page!Idle :
        /\ seq' = seq + 1
        /\ log' = Append(log, [topic |-> t, kind |-> kind, late |-> leaving = "told"])
        /\ dropped' = Page!DroppedTo(S)
        /\ topics' = [Page!Opened(S, {t}) EXCEPT ![t] = Page!Pushed(@, seq + 1)]
        /\ sub' = Page!Sent(sub, t, seq + 1)
        /\ UNCHANGED epoch
    BY DEF Page!Publish
<1>2. PICK e : e = [topic |-> t, kind |-> kind, late |-> leaving = "told"]
    OBVIOUS
<1>3. e \in Published /\ e.topic = t
    BY <1>2 DEF Published
<1>4. log \in Seq(Published) /\ Len(log) = seq /\ seq \in Nat
    BY <1>0 DEF PageTyped
<1>5. PICK lg2 : lg2 = Append(log, e)
    OBVIOUS
<1>6. /\ lg2 \in Seq(Published) /\ Len(lg2) = seq + 1 /\ lg2[seq + 1] = e
      /\ \A k \in 1 .. seq : lg2[k] = log[k]
    BY <1>3, <1>4, <1>5
<1>7. log' = lg2
    BY <1>1, <1>2, <1>5
<1>8. PICK tops : tops = Page!Opened(S, {t})
    OBVIOUS
<1>9. PICK d : d = Page!DroppedTo(S)
    OBVIOUS
<1>10. /\ tops \in [Page!Topics -> [there : BOOLEAN, floor : Nat, seqs : Seq(Nat)]]
       /\ d \in Nat /\ d <= seq /\ RingsOf(tops, log, d) /\ tops[t].there
    BY <1>0, <1>8, <1>9, OpenedRight
<1>11. PICK new : new = Page!Pushed(tops[t], seq + 1)
    OBVIOUS
<1>12. Ring(tops[t], t, log) /\ tops[t] \in [there : BOOLEAN, floor : Nat, seqs : Seq(Nat)]
    BY <1>10 DEF RingsOf
<1>13. /\ new \in [there : BOOLEAN, floor : Nat, seqs : Seq(Nat)] /\ new.there = tops[t].there
       /\ Ring(new, t, lg2)
    BY <1>3, <1>4, <1>5, <1>11, <1>12, PushedRing
<1>14. PICK tops2 : tops2 = [tops EXCEPT ![t] = new]
    OBVIOUS
<1>15. /\ topics' = tops2 /\ dropped' = d
    BY <1>1, <1>8, <1>9, <1>11, <1>14
<1>16. /\ tops2 \in [Page!Topics -> [there : BOOLEAN, floor : Nat, seqs : Seq(Nat)]]
       /\ tops2[t] = new /\ \A u \in Page!Topics : u # t => tops2[u] = tops[u]
    BY <1>10, <1>13, <1>14
<1>17. ASSUME NEW u \in Page!Topics
       PROVE  IF tops2[u].there THEN Ring(tops2[u], u, lg2)
              ELSE \A k \in 1 .. Len(lg2) : lg2[k].topic = u => k <= d
  <2>1. CASE u = t
      BY <1>10, <1>13, <1>16, <2>1
  <2>2. CASE u # t
    <3>1. tops2[u] = tops[u] /\ e.topic # u
        BY <1>3, <1>16, <2>2
    <3>2. CASE tops[u].there
      <4>1. Ring(tops[u], u, log)
          BY <1>10, <3>2 DEF RingsOf
      <4>2. tops[u] \in [there : BOOLEAN, floor : Nat, seqs : Seq(Nat)]
          BY <1>10
      <4>3. Ring(tops[u], u, lg2)
          BY <1>3, <1>4, <1>5, <3>1, <4>1, <4>2, OtherRing
      <4>. QED BY <3>1, <3>2, <4>3
    <3>3. CASE ~tops[u].there
      <4>1. \A k \in 1 .. seq : log[k].topic = u => k <= d
          BY <1>4, <1>10, <3>3 DEF RingsOf
      <4>2. ASSUME NEW k \in 1 .. Len(lg2), lg2[k].topic = u PROVE k <= d
        <5>1. k # seq + 1
            BY <1>6, <3>1, <4>2
        <5>2. k \in 1 .. seq
            BY <1>4, <1>6, <5>1
        <5>. QED BY <1>6, <4>1, <4>2, <5>2
      <4>. QED BY <3>1, <3>3, <4>2
    <3>. QED BY <3>2, <3>3
  <2>. QED BY <2>1, <2>2
<1>18. Rings'
  <2>1. RingsOf(tops2, lg2, d)
      BY <1>17 DEF RingsOf
  <2>2. RingsOf(topics, log, dropped)' <=> RingsOf(topics', log', dropped')
      BY DEF RingsOf, Ring
  <2>3. dropped' <= seq'
      BY <1>1, <1>4, <1>10, <1>15
  <2>. QED BY <1>7, <1>15, <2>1, <2>2, <2>3 DEF Rings
<1>19. Positioned'
    BY <1>0, <1>1, <1>4 DEF Positioned, PageTyped
<1>20. sub \in [on : SUBSET Page!Topics, ch : Seq(Nat), closed : BOOLEAN]
    BY <1>0 DEF PageTyped
<1>21. \/ sub' = sub /\ t \notin sub.on
       \/ sub' = [on |-> sub.on \ {t}, ch |-> sub.ch, closed |-> TRUE]
       \/ sub' = [on |-> sub.on, ch |-> Append(sub.ch, seq + 1), closed |-> FALSE] /\ ~sub.closed
  <2>1. CASE t \notin sub.on
      BY <1>1, <2>1 DEF Page!Sent
  <2>2. CASE t \in sub.on /\ sub.closed
    <3>1. sub' = [sub EXCEPT !.on = @ \ {t}]
        BY <1>1, <2>2 DEF Page!Sent
    <3>2. sub' = [on |-> sub.on \ {t}, ch |-> sub.ch, closed |-> sub.closed]
        BY <1>20, <3>1
    <3>3. sub.closed = TRUE
        BY <1>20, <2>2
    <3>. QED BY <3>2, <3>3
  <2>3. CASE t \in sub.on /\ ~sub.closed /\ Len(sub.ch) < Buffer
    <3>1. sub' = [sub EXCEPT !.ch = Append(@, seq + 1)]
        BY <1>1, <2>3 DEF Page!Sent
    <3>2. sub' = [on |-> sub.on, ch |-> Append(sub.ch, seq + 1), closed |-> sub.closed]
        BY <1>20, <3>1
    <3>3. sub.closed = FALSE
        BY <1>20, <2>3
    <3>. QED BY <2>3, <3>2, <3>3
  <2>4. CASE t \in sub.on /\ ~sub.closed /\ ~(Len(sub.ch) < Buffer)
    <3>1. sub' = [sub EXCEPT !.closed = TRUE, !.on = @ \ {t}]
        BY <1>1, <2>4 DEF Page!Sent
    <3>2. sub' = [on |-> sub.on \ {t}, ch |-> sub.ch, closed |-> TRUE]
        BY <1>20, <3>1
    <3>. QED BY <3>2
  <2>. QED BY <2>1, <2>2, <2>3, <2>4
<1>22. sub' \in [on : SUBSET Page!Topics, ch : Seq(Nat), closed : BOOLEAN]
  <2>1. Append(sub.ch, seq + 1) \in Seq(Nat)
      BY <1>4, <1>20
  <2>2. sub.on \in SUBSET Page!Topics /\ sub.ch \in Seq(Nat)
      BY <1>20
  <2>3. CASE sub' = sub /\ t \notin sub.on
      BY <1>20, <2>3
  <2>4. CASE sub' = [on |-> sub.on \ {t}, ch |-> sub.ch, closed |-> TRUE]
      BY <2>2, <2>4
  <2>5. CASE sub' = [on |-> sub.on, ch |-> Append(sub.ch, seq + 1), closed |-> FALSE]
      BY <2>1, <2>2, <2>5
  <2>. QED BY <1>21, <2>3, <2>4, <2>5
<1>23. Streaming'
  <2>1. ASSUME stream = "off" PROVE sub' = Page!NoSub /\ missed' = << >>
    <3>1. sub = Page!NoSub /\ missed = << >>
        BY <1>0, <2>1 DEF Streaming
    <3>2. t \notin sub.on
        BY <3>1 DEF Page!NoSub
    <3>3. sub' = sub
        BY <1>1, <3>2 DEF Page!Sent
    <3>. QED BY <3>1, <3>3
  <2>2. ASSUME stream # "off"
        PROVE  /\ browser.st = "on" /\ browser.epoch = epoch'
               /\ \A i \in 1 .. Len(missed) : missed[i] = browser.id + i
               /\ \A i \in 1 .. Len(sub'.ch) : sub'.ch[i] = browser.id + Len(missed) + i
               /\ browser.id + Len(missed) + Len(sub'.ch) <= seq'
               /\ ~sub'.closed => sub'.on = Page!Topics /\ browser.id + Len(missed) + Len(sub'.ch) = seq'
    <3>0. PICK b, m \in Nat : b = browser.id /\ m = Len(missed)
        BY <1>0 DEF PageTyped
    <3>1. /\ browser.st = "on" /\ browser.epoch = epoch'
          /\ \A i \in 1 .. Len(missed) : missed[i] = b + i
          /\ \A i \in 1 .. Len(sub.ch) : sub.ch[i] = b + m + i
          /\ b + m + Len(sub.ch) <= seq
          /\ ~sub.closed => sub.on = Page!Topics /\ b + m + Len(sub.ch) = seq
        BY <1>0, <1>1, <2>2, <3>0 DEF Streaming
    <3>2. PICK q \in Nat : q = Len(sub.ch)
        BY <1>20
    <3>3. CASE sub' = sub /\ t \notin sub.on
        BY <1>1, <1>4, <3>0, <3>1, <3>2, <3>3
    <3>4. CASE sub' = [on |-> sub.on \ {t}, ch |-> sub.ch, closed |-> TRUE]
      <4>1. sub'.ch = sub.ch /\ sub'.closed = TRUE
          BY <3>4
      <4>0. b + m + q <= seq /\ seq \in Nat /\ b + m + q \in Nat
          BY <1>0, <3>1, <3>2 DEF PageTyped
      <4>2. b + m + q <= seq + 1
          BY ONLY <4>0
      <4>3. \A i \in 1 .. Len(sub'.ch) : sub'.ch[i] = b + m + i
          BY <3>1, <4>1
      <4>. QED BY <1>1, <3>0, <3>1, <3>2, <4>1, <4>2, <4>3
    <3>5. CASE sub' = [on |-> sub.on, ch |-> Append(sub.ch, seq + 1), closed |-> FALSE] /\ ~sub.closed
      <4>1. PICK c2 : c2 = Append(sub.ch, seq + 1)
          OBVIOUS
      <4>2. Len(c2) = q + 1 /\ c2[q + 1] = seq + 1 /\ \A i \in 1 .. q : c2[i] = sub.ch[i]
          BY <1>4, <1>20, <3>2, <4>1
      <4>3. sub'.ch = c2 /\ sub'.on = sub.on
          BY <3>5, <4>1
      <4>4. b + m + q = seq /\ sub.on = Page!Topics
          BY <3>1, <3>2, <3>5
      <4>5. \A i \in 1 .. (q + 1) : c2[i] = b + m + i
        <5>1. ASSUME NEW i \in 1 .. (q + 1) PROVE c2[i] = b + m + i
          <6>1. CASE i = q + 1
              BY <4>2, <4>4, <6>1
          <6>2. CASE i \in 1 .. q
              BY <3>1, <3>2, <4>2, <6>2
          <6>. QED BY <6>1, <6>2
        <5>. QED BY <5>1
      <4>6. b + m + (q + 1) = seq + 1
          BY <4>4
      <4>7. \A i \in 1 .. Len(sub'.ch) : sub'.ch[i] = b + m + i
          BY <4>2, <4>3, <4>5
      <4>8. Len(sub'.ch) = q + 1 /\ b + m + Len(sub'.ch) = seq' /\ seq' \in Nat
        <5>1. Len(sub'.ch) = q + 1
            BY <4>2, <4>3
        <5>2. seq' = seq + 1
            BY <1>1
        <5>. QED BY <1>4, <4>6, <5>1, <5>2
      <4>9. b + m + Len(sub'.ch) <= seq'
          BY <4>8
      <4>. QED BY <3>0, <3>1, <4>3, <4>4, <4>7, <4>8, <4>9
    <3>. QED BY <1>21, <3>3, <3>4, <3>5
  <2>. QED BY <2>1, <2>2 DEF Streaming
<1>. QED BY <1>1, <1>2, <1>6, <1>7, <1>10, <1>15, <1>16, <1>18, <1>19, <1>22, <1>23

\* An event published for a change not owed any more covers it.
LEMMA NotifyStepKeeps ==
  ASSUME Page!ConstantsOK, PageInv, NEW t \in Page!Topics, NEW n \in owed[t], Page!NotifyStep(t, n)
  PROVE  PageInv'
<1>0. PageTyped /\ Positioned /\ Streaming /\ Covered /\ Leaves
    BY DEF PageInv
<1>1. /\ Page!Publish(t, "change") /\ UNCHANGED <<missed, stream, stored, unsaid, leaving, browser, leaked>>
      /\ owed' = [owed EXCEPT ![t] = @ \ {n}] \/ owed' = owed
    BY DEF Page!NotifyStep
<1>2. /\ epoch' = epoch /\ seq' = seq + 1 /\ dropped' \in Nat
      /\ log' \in Seq(Published) /\ Len(log') = seq + 1
      /\ \A k \in 1 .. seq : log'[k] = log[k]
      /\ log'[seq + 1] = [topic |-> t, kind |-> "change", late |-> leaving = "told"]
      /\ topics' \in [Page!Topics -> [there : BOOLEAN, floor : Nat, seqs : Seq(Nat)]]
      /\ sub' \in [on : SUBSET Page!Topics, ch : Seq(Nat), closed : BOOLEAN]
      /\ Rings' /\ Positioned' /\ Streaming'
    BY <1>1, PublishKeeps
<1>3. seq \in Nat /\ browser.id \in Nat
    BY <1>0 DEF PageTyped
<1>4. owed' \in [Page!Topics -> SUBSET Nat] /\ \A u \in Page!Topics : owed'[u] = owed[u] \/ (u = t /\ owed'[u] = owed[u] \ {n})
  <2>1. owed \in [Page!Topics -> SUBSET Nat]
      BY <1>0 DEF PageTyped
  <2>2. CASE owed' = owed
      BY <2>1, <2>2
  <2>3. CASE owed' = [owed EXCEPT ![t] = @ \ {n}]
    <3>1. owed[t] \ {n} \in SUBSET Nat
        BY <2>1
    <3>. QED BY <2>1, <2>3, <3>1
  <2>. QED BY <1>1, <2>2, <2>3
<1>5. PageTyped'
    BY <1>0, <1>1, <1>2, <1>3, <1>4 DEF PageTyped
<1>6. Covered'
  <2>. SUFFICES ASSUME Page!Member', browser.st # "none", NEW u \in Page!Topics,
                       NEW m \in (1 .. stored[u]) \ (owed'[u] \cup unsaid[u])
                PROVE  m <= browser.shown[u] \/ Coming(u)'
      BY <1>1 DEF Covered
  <2>1. Page!Member
      BY <1>1 DEF Page!Member
  <2>2. CASE u = t
    <3>1. browser.epoch = epoch => seq + 1 > browser.id
        BY <1>0, <1>3 DEF Positioned
    <3>2. seq + 1 \in 1 .. seq' /\ log'[seq + 1].topic = t
        BY <1>2, <1>3
    <3>. QED BY <1>1, <1>2, <2>2, <3>1, <3>2 DEF Coming
  <2>3. CASE u # t
    <3>1. m \in (1 .. stored[u]) \ (owed[u] \cup unsaid[u])
        BY <1>4, <2>3
    <3>2. m <= browser.shown[u] \/ Coming(u)
        BY <1>0, <2>1, <3>1 DEF Covered
    <3>3. ASSUME NEW k \in 1 .. seq, k > browser.id, log[k].topic = u PROVE k \in 1 .. seq' /\ log'[k].topic = u
        BY <1>2, <1>3, <3>3
    <3>4. Coming(u) => Coming(u)'
        BY <1>1, <1>2, <3>3 DEF Coming
    <3>. QED BY <3>2, <3>4
  <2>. QED BY <2>2, <2>3
<1>7. Leaves'
  <2>1. ASSUME leaving # "told", NEW k \in 1 .. seq' PROVE ~log'[k].late
    <3>1. CASE k = seq + 1
      <4>1. log'[k].late = (leaving = "told")
          BY <1>2, <3>1
      <4>2. (leaving = "told") = FALSE
          BY <2>1
      <4>. QED BY <4>1, <4>2
    <3>2. CASE k # seq + 1
      <4>1. k \in 1 .. seq
          BY <1>2, <1>3, <3>2
      <4>. QED BY <1>0, <1>2, <2>1, <4>1 DEF Leaves
    <3>. QED BY <3>1, <3>2
  <2>2. ASSUME stream \in {"checks", "live"}, leaving = "told"
        PROVE  \E l \in 1 .. seq' : l > browser.id /\ log'[l].kind = "left" /\ \A k \in 1 .. l : ~log'[k].late
    <3>1. PICK l \in 1 .. seq : l > browser.id /\ log[l].kind = "left" /\ \A k \in 1 .. l : ~log[k].late
        BY <1>0, <2>2 DEF Leaves
    <3>2. l \in 1 .. seq' /\ log'[l] = log[l]
        BY <1>2, <1>3
    <3>3. \A k \in 1 .. l : log'[k] = log[k]
        BY <1>2, <1>3
    <3>. QED BY <3>1, <3>2, <3>3
  <2>. QED BY <1>0, <1>1, <2>1, <2>2 DEF Leaves
<1>. QED BY <1>2, <1>5, <1>6, <1>7 DEF PageInv

\* The user's leaving is told by an event not late itself, which every stream
\* open has to relay.
LEMMA MembersLeftKeeps ==
  ASSUME Page!ConstantsOK, PageInv, Page!MembersLeft
  PROVE  PageInv'
<1>0. PageTyped /\ Positioned /\ Streaming /\ Covered /\ Leaves
    BY DEF PageInv
<1>1. /\ leaving = "left" /\ leaving' = "told" /\ Page!Publish("session", "left")
      /\ UNCHANGED <<missed, stream, stored, owed, unsaid, browser, leaked>>
    BY DEF Page!MembersLeft
<1>a. "session" \in Page!Topics
    BY DEF Page!Topics
<1>2. /\ epoch' = epoch /\ seq' = seq + 1 /\ dropped' \in Nat
      /\ log' \in Seq(Published) /\ Len(log') = seq + 1
      /\ \A k \in 1 .. seq : log'[k] = log[k]
      /\ log'[seq + 1] = [topic |-> "session", kind |-> "left", late |-> leaving = "told"]
      /\ topics' \in [Page!Topics -> [there : BOOLEAN, floor : Nat, seqs : Seq(Nat)]]
      /\ sub' \in [on : SUBSET Page!Topics, ch : Seq(Nat), closed : BOOLEAN]
      /\ Rings' /\ Positioned' /\ Streaming'
    BY <1>1, <1>a, PublishKeeps
<1>3. seq \in Nat /\ browser.id \in Nat
    BY <1>0 DEF PageTyped
<1>5. PageTyped'
    BY <1>0, <1>1, <1>2, <1>3 DEF PageTyped
<1>6. Covered'
    BY <1>1 DEF Covered, Page!Member
<1>7. Leaves'
  <2>1. \A k \in 1 .. seq : ~log[k].late
      BY <1>0, <1>1 DEF Leaves
  <2>2. ASSUME NEW k \in 1 .. (seq + 1) PROVE ~log'[k].late
    <3>1. CASE k = seq + 1
      <4>1. log'[k].late = (leaving = "told")
          BY <1>2, <3>1
      <4>2. (leaving = "told") = FALSE
          BY <1>1
      <4>. QED BY <4>1, <4>2
    <3>2. CASE k # seq + 1
      <4>1. k \in 1 .. seq
          BY <1>3, <3>2
      <4>. QED BY <1>2, <2>1, <4>1
    <3>. QED BY <3>1, <3>2
  <2>3. ASSUME stream # "off" PROVE seq + 1 > browser.id
      BY <1>0, <1>3, <2>3 DEF Streaming, Positioned
  <2>4. seq + 1 \in 1 .. seq' /\ log'[seq + 1].kind = "left"
      BY <1>2, <1>3
  <2>. QED BY <1>0, <1>1, <2>2, <2>3, <2>4 DEF Leaves
<1>. QED BY <1>2, <1>5, <1>6, <1>7 DEF PageInv

LEMMA ChangeKeeps ==
  ASSUME PageInv, NEW t \in Page!Topics, Page!Change(t)
  PROVE  PageInv'
<1>0. PageTyped /\ Rings /\ Positioned /\ Streaming /\ Covered /\ Leaves
    BY DEF PageInv
<1>1. /\ stored' = [stored EXCEPT ![t] = @ + 1] /\ owed' = [owed EXCEPT ![t] = @ \cup {stored[t] + 1}]
      /\ UNCHANGED <<epoch, seq, topics, dropped, log, sub, missed, stream, unsaid, leaving, browser, leaked>>
    BY DEF Page!Change, Page!hub
<1>2. stored[t] \in Nat /\ owed[t] \in SUBSET Nat
    BY <1>0 DEF PageTyped
<1>3. stored' \in [Page!Topics -> Nat] /\ owed' \in [Page!Topics -> SUBSET Nat]
    BY <1>0, <1>1, <1>2 DEF PageTyped
<1>4. PageTyped'
    BY <1>0, <1>1, <1>3 DEF PageTyped
<1>5. Covered'
  <2>. SUFFICES ASSUME Page!Member', browser.st # "none", NEW u \in Page!Topics,
                       NEW m \in (1 .. stored'[u]) \ (owed'[u] \cup unsaid[u])
                PROVE  m <= browser.shown[u] \/ Coming(u)'
      BY <1>1 DEF Covered
  <2>1. Page!Member /\ (Coming(u) => Coming(u)')
      BY <1>1 DEF Page!Member, Coming
  <2>2. m \in (1 .. stored[u]) \ (owed[u] \cup unsaid[u])
    <3>1. CASE u # t
      <4>1. stored'[u] = stored[u] /\ owed'[u] = owed[u]
          BY <1>0, <1>1, <3>1 DEF PageTyped
      <4>. QED BY <4>1
    <3>2. CASE u = t
      <4>1. stored'[u] = stored[u] + 1 /\ owed'[u] = owed[u] \cup {stored[u] + 1}
          BY <1>0, <1>1, <3>2 DEF PageTyped
      <4>2. m # stored[u] + 1 /\ m \notin owed[u] /\ m \notin unsaid[u] /\ m \in 1 .. (stored[u] + 1)
          BY <4>1
      <4>. QED BY <1>2, <3>2, <4>2
    <3>. QED BY <3>1, <3>2
  <2>. QED BY <1>0, <2>1, <2>2 DEF Covered
<1>6. Rings' /\ Positioned' /\ Streaming' /\ Leaves'
  <2>1. Rings'
      BY <1>0, <1>1, RingsStay
  <2>2. Positioned' /\ Streaming' /\ Leaves'
      BY <1>0, <1>1 DEF Positioned, Streaming, Leaves
  <2>. QED BY <2>1, <2>2
<1>. QED BY <1>4, <1>5, <1>6 DEF PageInv

LEMMA NotifyLostKeeps ==
  ASSUME PageInv, NEW t \in Page!Topics, NEW n \in owed[t], Page!NotifyLost(t, n)
  PROVE  PageInv'
<1>0. PageTyped /\ Rings /\ Positioned /\ Streaming /\ Covered /\ Leaves
    BY DEF PageInv
<1>1. /\ owed' = [owed EXCEPT ![t] = @ \ {n}] /\ unsaid' = [unsaid EXCEPT ![t] = @ \cup {n}]
      /\ UNCHANGED <<epoch, seq, topics, dropped, log, sub, missed, stream, stored, leaving, browser, leaked>>
    BY DEF Page!NotifyLost, Page!hub
<1>2. n \in Nat /\ owed[t] \in SUBSET Nat /\ unsaid[t] \in SUBSET Nat
    BY <1>0 DEF PageTyped
<1>3. owed' \in [Page!Topics -> SUBSET Nat] /\ unsaid' \in [Page!Topics -> SUBSET Nat]
    BY <1>0, <1>1, <1>2 DEF PageTyped
<1>4. PageTyped'
    BY <1>0, <1>1, <1>3 DEF PageTyped
<1>5. \A u \in Page!Topics : owed[u] \cup unsaid[u] \subseteq owed'[u] \cup unsaid'[u]
    BY <1>0, <1>1 DEF PageTyped
<1>6. \A u \in Page!Topics : Coming(u) => Coming(u)'
    BY <1>1 DEF Coming
<1>7. Covered'
    BY <1>0, <1>1, <1>5, <1>6 DEF Covered, Page!Member
<1>8. Rings'
    BY <1>0, <1>1, RingsStay
<1>9. Positioned' /\ Streaming' /\ Leaves'
    BY <1>0, <1>1 DEF Positioned, Streaming, Leaves
<1>. QED BY <1>4, <1>7, <1>8, <1>9 DEF PageInv

LEMMA LeaveKeeps ==
  ASSUME PageInv, Page!Leave
  PROVE  PageInv'
<1>0. PageTyped /\ Rings /\ Positioned /\ Streaming /\ Covered /\ Leaves
    BY DEF PageInv
<1>1. /\ leaving = "no" /\ leaving' = "left"
      /\ UNCHANGED <<epoch, seq, topics, dropped, log, sub, missed, stream, stored, owed, unsaid, browser, leaked>>
    BY DEF Page!Leave, Page!hub
<1>2. PageTyped'
    BY <1>0, <1>1 DEF PageTyped
<1>3. Covered'
    BY <1>1 DEF Covered, Page!Member
<1>4. Rings'
    BY <1>0, <1>1, RingsStay
<1>5. Positioned' /\ Streaming' /\ Leaves'
    BY <1>0, <1>1 DEF Positioned, Streaming, Leaves
<1>. QED BY <1>2, <1>3, <1>4, <1>5 DEF PageInv

\* A page noted before it is read: whatever it lacks, it is about to fetch.
LEMMA PositionKeeps ==
  ASSUME PageInv, Page!Position
  PROVE  PageInv'
<1>0. PageTyped /\ Rings /\ Positioned /\ Streaming /\ Covered /\ Leaves
    BY DEF PageInv
<1>1. /\ browser.st = "none"
      /\ browser' = [browser EXCEPT !.st = "builds", !.epoch = epoch, !.id = seq, !.fetch = Page!Topics]
      /\ UNCHANGED <<epoch, seq, log, sub, missed, stream, stored, owed, unsaid, leaving, leaked>>
    BY DEF Page!Position
<1>2. PICK S \in SUBSET Page!Idle : topics' = Page!Opened(S, Page!Topics) /\ dropped' = Page!DroppedTo(S)
    BY DEF Page!Position
<1>3. browser' = [st |-> "builds", epoch |-> epoch, id |-> seq, fetch |-> Page!Topics, shown |-> browser.shown]
    BY <1>0, <1>1 DEF PageTyped
<1>4. /\ topics' \in [Page!Topics -> [there : BOOLEAN, floor : Nat, seqs : Seq(Nat)]]
      /\ dropped' \in Nat /\ dropped' <= seq /\ RingsOf(topics', log, dropped')
    BY <1>0, <1>2, OpenedRight
<1>5. PageTyped'
  <2>1. browser.shown \in [Page!Topics -> Nat] /\ epoch \in Nat /\ seq \in Nat
      BY <1>0 DEF PageTyped
  <2>2. browser' \in [st : {"none", "builds", "off", "on", "gone"}, epoch : Nat, id : Nat,
                      fetch : SUBSET Page!Topics, shown : [Page!Topics -> Nat]]
      BY <1>3, <2>1
  <2>. QED BY <1>0, <1>1, <1>4, <2>2 DEF PageTyped
<1>6. Rings'
  <2>1. RingsOf(topics, log, dropped)' <=> RingsOf(topics', log', dropped')
      BY DEF RingsOf, Ring
  <2>. QED BY <1>1, <1>4, <2>1 DEF Rings
<1>7. Positioned'
    BY <1>0, <1>1, <1>3 DEF Positioned, PageTyped
<1>8. stream = "off"
    BY <1>0, <1>1 DEF Streaming
<1>9. Streaming' /\ Leaves'
    BY <1>0, <1>1, <1>8 DEF Streaming, Leaves
<1>10. Covered'
    BY <1>3 DEF Covered, Coming
<1>. QED BY <1>5, <1>6, <1>7, <1>9, <1>10 DEF PageInv

\* A member who fetches sees every change stored.
LEMMA FetchKeeps ==
  ASSUME PageInv, NEW t \in Page!Topics, Page!Fetch(t)
  PROVE  PageInv'
<1>0. PageTyped /\ Rings /\ Positioned /\ Streaming /\ Covered /\ Leaves
    BY DEF PageInv
<1>1. UNCHANGED <<epoch, seq, topics, dropped, log, sub, missed, stream, stored, owed, unsaid, leaving, leaked>>
    BY DEF Page!Fetch, Page!hub
<1>2. PICK st2, sh2 :
        /\ browser' = [st |-> st2, epoch |-> browser.epoch, id |-> browser.id, fetch |-> browser.fetch \ {t},
                       shown |-> sh2]
        /\ st2 \in {browser.st, "off"} /\ (browser.st # "builds" => st2 = browser.st)
        /\ sh2 = [browser.shown EXCEPT ![t] = IF t = "tree" \/ Page!Member THEN stored[t] ELSE @]
    BY <1>0 DEF Page!Fetch, PageTyped
<1>3. /\ browser'.st = st2 /\ browser'.epoch = browser.epoch /\ browser'.id = browser.id
      /\ browser'.fetch = browser.fetch \ {t} /\ browser'.shown = sh2
    BY <1>2
<1>4. stored[t] \in Nat /\ browser.shown \in [Page!Topics -> Nat] /\ browser.fetch \in SUBSET Page!Topics
    BY <1>0 DEF PageTyped
<1>5. /\ sh2 \in [Page!Topics -> Nat] /\ (Page!Member => sh2[t] = stored[t])
      /\ \A u \in Page!Topics : u # t => sh2[u] = browser.shown[u]
    BY <1>2, <1>4
<1>6. PageTyped'
  <2>1. st2 \in {"none", "builds", "off", "on", "gone"} /\ browser.epoch \in Nat /\ browser.id \in Nat
      BY <1>0, <1>2 DEF PageTyped
  <2>2. browser' \in [st : {"none", "builds", "off", "on", "gone"}, epoch : Nat, id : Nat,
                      fetch : SUBSET Page!Topics, shown : [Page!Topics -> Nat]]
      BY <1>2, <1>4, <1>5, <2>1
  <2>. QED BY <1>0, <1>1, <2>2 DEF PageTyped
<1>7. Rings'
    BY <1>0, <1>1, RingsStay
<1>8. Positioned'
    BY <1>0, <1>1, <1>3 DEF Positioned
<1>9. Streaming' /\ Leaves'
  <2>1. stream # "off" => browser'.st = "on"
      BY <1>0, <1>2, <1>3 DEF Streaming
  <2>2. Streaming'
      BY <1>0, <1>1, <1>3, <2>1 DEF Streaming
  <2>3. Leaves'
      BY <1>0, <1>1, <1>3 DEF Leaves
  <2>. QED BY <2>2, <2>3
<1>10. Covered'
  <2>. SUFFICES ASSUME Page!Member', browser'.st # "none", NEW u \in Page!Topics,
                       NEW m \in (1 .. stored[u]) \ (owed[u] \cup unsaid[u])
                PROVE  m <= browser'.shown[u] \/ Coming(u)'
      BY <1>1 DEF Covered
  <2>1. Page!Member
      BY <1>1 DEF Page!Member
  <2>2. CASE u = t
      BY <1>3, <1>4, <1>5, <2>1, <2>2
  <2>3. CASE u # t /\ browser.st # "none"
    <3>1. m <= browser.shown[u] \/ Coming(u)
        BY <1>0, <2>1, <2>3 DEF Covered
    <3>2. Coming(u) => Coming(u)'
        BY <1>1, <1>3, <2>3 DEF Coming
    <3>. QED BY <1>3, <1>5, <2>3, <3>1, <3>2
  <2>4. browser.st # "none"
      BY <1>2, <1>3
  <2>. QED BY <2>2, <2>3, <2>4
<1>. QED BY <1>6, <1>7, <1>8, <1>9, <1>10 DEF PageInv

\* A stream opened at a position the rings cover has every event after it to
\* relay; at any other, the page is fetched whole again.
LEMMA SessionStreamKeeps ==
  ASSUME PageInv, Page!SessionStream
  PROVE  PageInv'
<1>0. PageTyped /\ Rings /\ Positioned /\ Streaming /\ Covered /\ Leaves
    BY DEF PageInv
<1>1. /\ browser.st = "off" /\ stream = "off"
      /\ UNCHANGED <<epoch, seq, log, stored, owed, unsaid, leaving, leaked>>
    BY DEF Page!SessionStream
<1>t. /\ browser.shown \in [Page!Topics -> Nat] /\ browser.epoch \in Nat /\ browser.id \in Nat
      /\ browser.fetch \in SUBSET Page!Topics /\ epoch \in Nat /\ seq \in Nat /\ log \in Seq(Published) /\ Len(log) = seq
    BY <1>0 DEF PageTyped
<1>2. CASE ~Page!Member
  <2>1. browser' = [browser EXCEPT !.st = "gone"] /\ UNCHANGED <<topics, dropped, sub, missed, stream>>
      BY <1>2 DEF Page!SessionStream
  <2>2. browser' = [st |-> "gone", epoch |-> browser.epoch, id |-> browser.id, fetch |-> browser.fetch,
                    shown |-> browser.shown]
      BY <1>0, <2>1 DEF PageTyped
  <2>3. browser' \in [st : {"none", "builds", "off", "on", "gone"}, epoch : Nat, id : Nat,
                      fetch : SUBSET Page!Topics, shown : [Page!Topics -> Nat]]
      BY <1>t, <2>2
  <2>4. PageTyped'
      BY <1>0, <1>1, <2>1, <2>3 DEF PageTyped
  <2>5. Rings'
      BY <1>0, <1>1, <2>1, RingsStay
  <2>6. Positioned' /\ Streaming'
      BY <1>0, <1>1, <2>1, <2>2 DEF Positioned, Streaming
  <2>7. Leaves'
      BY <1>0, <1>1, <2>1 DEF Leaves
  <2>8. Covered'
      BY <1>1, <1>2 DEF Covered, Page!Member
  <2>. QED BY <2>4, <2>5, <2>6, <2>7, <2>8 DEF PageInv
<1>3. CASE Page!Member
  <2>1. PICK S \in SUBSET Page!Idle :
          /\ topics' = Page!Opened(S, Page!Topics) /\ dropped' = Page!DroppedTo(S)
          /\ sub' = [Page!NoSub EXCEPT !.on = Page!Topics] /\ stream' = "checks"
          /\ IF Page!Stale(Page!Opened(S, Page!Topics))
             THEN /\ missed' = << >>
                  /\ browser' = [browser EXCEPT !.st = "on", !.epoch = epoch, !.id = seq, !.fetch = Page!Topics]
             ELSE /\ missed' = Page!Missed(Page!Opened(S, Page!Topics))
                  /\ browser' = [browser EXCEPT !.st = "on"]
      BY <1>3 DEF Page!SessionStream
  <2>2. PICK tops : tops = Page!Opened(S, Page!Topics)
      OBVIOUS
  <2>3. /\ tops \in [Page!Topics -> [there : BOOLEAN, floor : Nat, seqs : Seq(Nat)]]
        /\ dropped' \in Nat /\ dropped' <= seq /\ RingsOf(tops, log, dropped')
        /\ \A t \in Page!Topics : tops[t].there
      BY <1>0, <2>1, <2>2, OpenedRight
  <2>4. sub' = [on |-> Page!Topics, ch |-> << >>, closed |-> FALSE]
      BY <2>1 DEF Page!NoSub
  <2>5. leaving = "no" /\ leaving' = "no"
      BY <1>1, <1>3 DEF Page!Member
  <2>6. Rings'
    <3>1. RingsOf(topics, log, dropped)' <=> RingsOf(topics', log', dropped')
        BY DEF RingsOf, Ring
    <3>. QED BY <1>1, <2>1, <2>2, <2>3, <3>1 DEF Rings
  <2>7. Leaves'
      BY <1>0, <1>1, <2>5 DEF Leaves
  <2>8. ASSUME /\ missed' \in Seq(Nat) /\ browser'.epoch = epoch /\ browser'.id \in Nat /\ browser'.id <= seq
               /\ Len(missed') = seq - browser'.id /\ \A i \in 1 .. Len(missed') : missed'[i] = browser'.id + i
               /\ browser'.st = "on"
               /\ browser' \in [st : {"none", "builds", "off", "on", "gone"}, epoch : Nat, id : Nat,
                                fetch : SUBSET Page!Topics, shown : [Page!Topics -> Nat]]
        PROVE  PageTyped' /\ Positioned' /\ Streaming'
    <3>0. sub' \in [on : SUBSET Page!Topics, ch : Seq(Nat), closed : BOOLEAN]
        BY <2>4
    <3>a. topics' \in [Page!Topics -> [there : BOOLEAN, floor : Nat, seqs : Seq(Nat)]] /\ dropped' \in Nat
        BY <2>1, <2>2, <2>3
    <3>b. stream' \in {"off", "checks", "live", "unsure"}
        BY <2>1
    <3>1. PageTyped'
        BY <1>0, <1>1, <2>8, <3>0, <3>a, <3>b DEF PageTyped
    <3>2. Positioned'
        BY <1>1, <1>t, <2>8 DEF Positioned
    <3>3. sub'.ch = << >> /\ Len(sub'.ch) = 0 /\ sub'.on = Page!Topics /\ sub'.closed = FALSE
        BY <2>4
    <3>4. browser'.id + Len(missed') + Len(sub'.ch) = seq /\ stream' # "off"
        BY <1>t, <2>1, <2>8, <3>3
    <3>5. Streaming'
        BY <1>1, <1>t, <2>8, <3>3, <3>4 DEF Streaming
    <3>. QED BY <3>1, <3>2, <3>5
  <2>9. CASE Page!Stale(tops)
    <3>1. missed' = << >> /\ browser' = [browser EXCEPT !.st = "on", !.epoch = epoch, !.id = seq, !.fetch = Page!Topics]
        BY <2>1, <2>2, <2>9
    <3>2. browser' = [st |-> "on", epoch |-> epoch, id |-> seq, fetch |-> Page!Topics, shown |-> browser.shown]
        BY <1>0, <3>1 DEF PageTyped
    <3>3. missed' \in Seq(Nat) /\ Len(missed') = 0
        BY <3>1
    <3>4. PageTyped' /\ Positioned' /\ Streaming'
        BY <1>t, <2>8, <3>2, <3>3
    <3>5. Covered'
        BY <3>2 DEF Covered, Coming
    <3>. QED BY <2>6, <2>7, <3>4, <3>5 DEF PageInv
  <2>10. CASE ~Page!Stale(tops)
    <3>1. missed' = Page!Missed(tops) /\ browser' = [browser EXCEPT !.st = "on"]
        BY <2>1, <2>2, <2>10
    <3>2. browser' = [st |-> "on", epoch |-> browser.epoch, id |-> browser.id, fetch |-> browser.fetch,
                      shown |-> browser.shown]
        BY <1>0, <3>1 DEF PageTyped
    <3>3. browser.epoch = epoch /\ browser.id <= seq /\ \A t \in Page!Topics : ~(browser.id < tops[t].floor)
        BY <2>10 DEF Page!Stale, Page!Known
    <3>4. PICK all : all = {n \in UNION {Page!ToSet(tops[t].seqs) : t \in Page!Topics} : n > browser.id}
        OBVIOUS
    <3>5. ASSUME NEW n \in all PROVE n \in (browser.id + 1) .. seq
      <4>1. PICK t \in Page!Topics : n \in Page!ToSet(tops[t].seqs)
          BY <3>4
      <4>2. PICK i \in DOMAIN tops[t].seqs : n = tops[t].seqs[i]
          BY <4>1 DEF Page!ToSet
      <4>3. tops[t].seqs \in Seq(Nat) /\ Ring(tops[t], t, log)
          BY <2>3 DEF RingsOf
      <4>4. i \in 1 .. Len(tops[t].seqs)
          BY <4>2, <4>3
      <4>5. n \in 1 .. seq /\ n > browser.id
          BY <1>t, <3>4, <4>2, <4>3, <4>4 DEF Ring
      <4>. QED BY <1>t, <4>5
    <3>6. ASSUME NEW n \in (browser.id + 1) .. seq PROVE n \in all
      <4>1. n \in 1 .. seq /\ n > browser.id
          BY <1>t
      <4>2. PICK t \in Page!Topics : t = log[n].topic
        <5>1. log[n] \in Published
            BY <1>t, <4>1
        <5>. QED BY <5>1 DEF Published
      <4>3. tops[t].seqs \in Seq(Nat) /\ tops[t].floor \in Nat /\ Ring(tops[t], t, log)
          BY <2>3 DEF RingsOf
      <4>4. n > tops[t].floor
          BY <1>t, <3>3, <4>1, <4>3
      <4>5. PICK i \in 1 .. Len(tops[t].seqs) : tops[t].seqs[i] = n
          BY <1>t, <4>1, <4>2, <4>3, <4>4 DEF Ring
      <4>6. n \in Page!ToSet(tops[t].seqs)
          BY <4>3, <4>5 DEF Page!ToSet
      <4>. QED BY <3>4, <4>1, <4>6
    <3>7. all = (browser.id + 1) .. seq
        BY <3>5, <3>6
    <3>8. missed' = Page!InOrder(all)
        BY <3>1, <3>4 DEF Page!Missed
    <3>9. PICK b \in Nat : b = browser.id
        BY <1>t
    <3>q. PICK q \in Nat : q = seq
        BY <1>t
    <3>10. PICK s : s = Page!InOrder((b + 1) .. q)
        OBVIOUS
    <3>r. b <= q
        BY <3>3, <3>9, <3>q
    <3>11. s \in Seq(Nat) /\ Len(s) = q - b /\ \A i \in 1 .. (q - b) : s[i] = b + i
        BY <3>r, <3>10, SortedRun
    <3>12. missed' = s /\ Len(missed') = seq - b
        BY <3>7, <3>8, <3>9, <3>10, <3>11, <3>q
    <3>13. PageTyped' /\ Positioned' /\ Streaming'
      <4>1. browser' \in [st : {"none", "builds", "off", "on", "gone"}, epoch : Nat, id : Nat,
                          fetch : SUBSET Page!Topics, shown : [Page!Topics -> Nat]]
          BY <1>t, <3>2
      <4>2. browser'.st = "on" /\ browser'.epoch = epoch /\ browser'.id = b /\ b <= seq
          BY <3>2, <3>3, <3>9
      <4>. QED BY <2>8, <3>11, <3>12, <4>1, <4>2
    <3>14. Covered'
      <4>1. \A t \in Page!Topics : Coming(t) => Coming(t)'
          BY <1>1, <3>2 DEF Coming
      <4>2. browser'.shown = browser.shown /\ browser.st # "none"
          BY <1>1, <3>2
      <4>. QED BY <1>0, <1>1, <1>3, <4>1, <4>2 DEF Covered
    <3>. QED BY <2>6, <2>7, <3>13, <3>14 DEF PageInv
  <2>. QED BY <2>9, <2>10
<1>. QED BY <1>2, <1>3

\* A stream that ends leaves the page where it was.
LEMMA PageClosesKeeps ==
  ASSUME PageInv, NEW st \in {"off", "gone"}, stream # "off", Page!Closes(st),
         UNCHANGED <<epoch, seq, topics, dropped, log, stored, owed, unsaid, leaving>>
  PROVE  PageInv'
<1>0. PageTyped /\ Rings /\ Positioned /\ Streaming /\ Covered /\ Leaves
    BY DEF PageInv
<1>1. /\ stream' = "off" /\ sub' = Page!NoSub /\ missed' = << >> /\ leaked' = leaked
      /\ browser' = [browser EXCEPT !.st = st]
    BY DEF Page!Closes
<1>2. browser' = [st |-> st, epoch |-> browser.epoch, id |-> browser.id, fetch |-> browser.fetch,
                  shown |-> browser.shown]
    BY <1>0, <1>1 DEF PageTyped
<1>3. /\ browser.shown \in [Page!Topics -> Nat] /\ browser.epoch \in Nat /\ browser.id \in Nat
      /\ browser.fetch \in SUBSET Page!Topics
    BY <1>0 DEF PageTyped
<1>4. PageTyped'
  <2>1. browser' \in [st : {"none", "builds", "off", "on", "gone"}, epoch : Nat, id : Nat,
                      fetch : SUBSET Page!Topics, shown : [Page!Topics -> Nat]]
      BY <1>2, <1>3
  <2>2. sub' \in [on : SUBSET Page!Topics, ch : Seq(Nat), closed : BOOLEAN] /\ missed' \in Seq(Nat)
      BY <1>1 DEF Page!NoSub
  <2>3. stream' \in {"off", "checks", "live", "unsure"}
      BY <1>1
  <2>. QED BY <1>0, <2>1, <2>2, <2>3 DEF PageTyped
<1>5. Rings'
    BY <1>0, RingsStay
<1>6. Positioned' /\ Streaming'
    BY <1>0, <1>1, <1>2 DEF Positioned, Streaming
<1>7. Leaves'
    BY <1>0, <1>1 DEF Leaves
<1>8. Covered'
  <2>1. \A t \in Page!Topics : Coming(t) => Coming(t)'
      BY <1>2 DEF Coming
  <2>2. browser.st = "on" /\ browser'.shown = browser.shown
      BY <1>0, <1>2 DEF Streaming
  <2>. QED BY <1>0, <2>1, <2>2 DEF Covered, Page!Member
<1>. QED BY <1>4, <1>5, <1>6, <1>7, <1>8 DEF PageInv

LEMMA GoneKeeps ==
  ASSUME PageInv, Page!Gone
  PROVE  PageInv'
<1>1. /\ stream # "off"
      /\ UNCHANGED <<epoch, seq, topics, dropped, log, stored, owed, unsaid, leaving>>
    BY DEF Page!Gone, Page!hub
<1>2. CASE Page!Closes("gone")
    BY <1>1, <1>2, PageClosesKeeps
<1>3. CASE /\ stream = "checks" /\ UNCHANGED <<sub, missed, browser, leaked>>
           /\ stream' \in {"live", "unsure"}
  <2>2. PageTyped /\ Rings /\ Positioned /\ Streaming /\ Covered /\ Leaves
      BY DEF PageInv
  <2>3. PageTyped'
      BY <1>1, <1>3, <2>2 DEF PageTyped
  <2>4. Rings'
      BY <1>1, <2>2, RingsStay
  <2>5. Positioned' /\ Streaming'
      BY <1>1, <1>3, <2>2 DEF Positioned, Streaming
  <2>6. Leaves'
      BY <1>1, <1>3, <2>2 DEF Leaves
  <2>7. Covered'
      BY <1>1, <1>3, <2>2 DEF Covered, Coming, Page!Member
  <2>. QED BY <2>3, <2>4, <2>5, <2>6, <2>7 DEF PageInv
<1>. QED BY <1>2, <1>3 DEF Page!Gone, Page!CheckFails

LEMMA TooSlowKeeps ==
  ASSUME PageInv, Page!TooSlow \/ Page!ConnectionLost
  PROVE  PageInv'
<1>1. /\ stream # "off" /\ Page!Closes("off")
      /\ UNCHANGED <<epoch, seq, topics, dropped, log, stored, owed, unsaid, leaving>>
    BY DEF Page!TooSlow, Page!ConnectionLost, Page!hub
<1>. QED BY <1>1, PageClosesKeeps

\* The event relayed is the next one, never a late one on a stream whose
\* checks did not fail, and has its topic fetched.
LEMMA PageWriteKeeps ==
  ASSUME PageInv, Page!WriteSSE
  PROVE  PageInv'
<1>0. PageTyped /\ Rings /\ Positioned /\ Streaming /\ Covered /\ Leaves
    BY DEF PageInv
<1>1. /\ stream \in {"live", "unsure"} /\ Page!Pending # << >> /\ Page!Relay(Head(Page!Pending))
      /\ UNCHANGED <<epoch, seq, topics, dropped, log, stored, owed, unsaid, leaving>>
    BY DEF Page!WriteSSE, Page!hub
<1>2. PICK b, m, q \in Nat : b = browser.id /\ m = Len(missed) /\ q = Len(sub.ch)
    BY <1>0 DEF PageTyped
<1>3. missed \in Seq(Nat) /\ sub.ch \in Seq(Nat) /\ seq \in Nat /\ log \in Seq(Published) /\ Len(log) = seq
    BY <1>0 DEF PageTyped
<1>4. /\ browser.st = "on" /\ browser.epoch = epoch
      /\ \A i \in 1 .. m : missed[i] = b + i
      /\ \A i \in 1 .. q : sub.ch[i] = b + m + i
      /\ b + m + q <= seq
      /\ ~sub.closed => sub.on = Page!Topics /\ b + m + q = seq
    BY <1>0, <1>1, <1>2 DEF Streaming
<1>5. PICK p : p = missed \o sub.ch
    OBVIOUS
<1>6. /\ p \in Seq(Nat) /\ Len(p) = m + q
      /\ \A i \in 1 .. m : p[i] = missed[i]
      /\ (m = 0 => p = sub.ch)
    BY <1>2, <1>3, <1>5
<1>7. p # << >> /\ Page!Relay(Head(p))
    BY <1>1, <1>5 DEF Page!Pending
<1>8. m + q > 0
    BY <1>6, <1>7
<1>9. Head(p) = b + 1
  <2>1. Head(p) = p[1]
      BY <1>6, <1>7
  <2>2. CASE m > 0
    <3>1. 1 \in 1 .. m
        BY <2>2
    <3>. QED BY <1>4, <1>6, <2>1, <3>1
  <2>3. CASE m = 0
    <3>1. 1 \in 1 .. q
        BY <1>8, <2>3
    <3>2. sub.ch[1] = b + m + 1
        BY <1>4, <3>1
    <3>. QED BY <1>6, <2>1, <2>3, <3>2
  <2>. QED BY <2>2, <2>3
<1>10. PICK n \in Nat : n = b + 1
    OBVIOUS
<1>11. n \in 1 .. seq /\ Page!Relay(n)
    BY <1>3, <1>4, <1>7, <1>8, <1>9, <1>10
<1>12. CASE Page!Closes("gone")
  <2>1. stream # "off"
      BY <1>1
  <2>. QED BY <1>1, <1>12, <2>1, PageClosesKeeps
<1>13. CASE /\ Page!Sends(n) /\ stream' \in {"live", "unsure"}
            /\ stream' = "live" /\ ~Page!Member => stream = "live" /\ Page!Event(n).kind # "left"
  <2>1. /\ browser' = [browser EXCEPT !.id = n, !.fetch = @ \cup {Page!Event(n).topic}]
        /\ leaked' = (leaked \/ (stream = "live" /\ Page!Event(n).topic = "session" /\ Page!Event(n).late))
        /\ IF missed # << >> THEN missed' = Tail(missed) /\ UNCHANGED sub
           ELSE sub' = [sub EXCEPT !.ch = Tail(@)] /\ UNCHANGED missed
      BY <1>13 DEF Page!Sends
  <2>2. Page!Event(n).topic = log[n].topic /\ Page!Event(n).late = log[n].late /\ Page!Event(n).kind = log[n].kind
      BY DEF Page!Event
  <2>3. log[n].topic \in Page!Topics
    <3>1. log[n] \in Published
        BY <1>3, <1>11
    <3>. QED BY <3>1 DEF Published
  <2>4. browser' = [st |-> "on", epoch |-> epoch, id |-> n, fetch |-> browser.fetch \cup {log[n].topic},
                    shown |-> browser.shown]
      BY <1>0, <1>4, <2>1, <2>2 DEF PageTyped
  <2>5. /\ missed' \in Seq(Nat) /\ sub' \in [on : SUBSET Page!Topics, ch : Seq(Nat), closed : BOOLEAN]
        /\ \A i \in 1 .. Len(missed') : missed'[i] = n + i
        /\ \A i \in 1 .. Len(sub'.ch) : sub'.ch[i] = n + Len(missed') + i
        /\ n + Len(missed') + Len(sub'.ch) = b + m + q
        /\ sub'.on = sub.on /\ sub'.closed = sub.closed
    <3>t. sub \in [on : SUBSET Page!Topics, ch : Seq(Nat), closed : BOOLEAN]
        BY <1>0 DEF PageTyped
    <3>1. CASE missed # << >>
      <4>1. PICK m2 : m2 = Tail(missed)
          OBVIOUS
      <4>2. m >= 1
          BY <1>2, <1>3, <3>1
      <4>3. m2 \in Seq(Nat) /\ Len(m2) = m - 1 /\ \A i \in 1 .. (m - 1) : m2[i] = missed[i + 1]
          BY <1>2, <1>3, <3>1, <4>1, HeadTailProperties
      <4>4. ASSUME NEW i \in 1 .. (m - 1) PROVE m2[i] = n + i
        <5>1. i + 1 \in 1 .. m
            BY <4>2
        <5>2. m2[i] = b + (i + 1)
            BY <1>4, <4>3, <5>1
        <5>. QED BY <1>10, <5>2
      <4>5. missed' = m2 /\ sub' = sub
          BY <2>1, <3>1, <4>1
      <4>6. n + (m - 1) = b + m
          BY <1>10
      <4>7. Len(missed') = m - 1 /\ sub'.ch = sub.ch /\ n + Len(missed') = b + m
          BY <4>3, <4>5, <4>6
      <4>8. \A i \in 1 .. Len(missed') : missed'[i] = n + i
          BY <4>4, <4>5, <4>7
      <4>9. \A i \in 1 .. Len(sub'.ch) : sub'.ch[i] = n + Len(missed') + i
          BY <1>2, <1>4, <4>7
      <4>. QED BY <1>2, <3>t, <4>3, <4>5, <4>7, <4>8, <4>9
    <3>2. CASE missed = << >>
      <4>1. m = 0 /\ q >= 1
          BY <1>2, <1>8, <3>2
      <4>2. PICK c2 : c2 = Tail(sub.ch)
          OBVIOUS
      <4>3. sub.ch # << >>
          BY <1>2, <4>1
      <4>4. c2 \in Seq(Nat) /\ Len(c2) = q - 1 /\ \A i \in 1 .. (q - 1) : c2[i] = sub.ch[i + 1]
          BY <1>2, <1>3, <4>2, <4>3, HeadTailProperties
      <4>5. ASSUME NEW i \in 1 .. (q - 1) PROVE c2[i] = n + 0 + i
        <5>1. i + 1 \in 1 .. q
            BY <4>1
        <5>2. c2[i] = b + m + (i + 1)
            BY <1>4, <4>4, <5>1
        <5>. QED BY <1>10, <4>1, <5>2
      <4>6. missed' = << >> /\ sub' = [sub EXCEPT !.ch = Tail(@)] /\ Len(missed') = 0
          BY <2>1, <3>2
      <4>7. sub' = [on |-> sub.on, ch |-> c2, closed |-> sub.closed]
          BY <3>t, <4>2, <4>6
      <4>8. sub'.ch = c2 /\ sub'.on = sub.on /\ sub'.closed = sub.closed
          BY <4>7
      <4>9. sub' \in [on : SUBSET Page!Topics, ch : Seq(Nat), closed : BOOLEAN]
          BY <3>t, <4>4, <4>7
      <4>10. \A i \in 1 .. Len(sub'.ch) : sub'.ch[i] = n + Len(missed') + i
          BY <4>4, <4>5, <4>6, <4>8
      <4>11. n + Len(missed') + Len(sub'.ch) = b + m + q
        <5>1. Len(missed') = 0 /\ Len(sub'.ch) = q - 1
            BY <4>4, <4>6, <4>8
        <5>. QED BY <1>10, <4>1, <5>1
      <4>12. missed' \in Seq(Nat) /\ \A i \in 1 .. Len(missed') : missed'[i] = n + i
          BY <4>6
      <4>. QED BY <4>8, <4>9, <4>10, <4>11, <4>12
    <3>. QED BY <3>1, <3>2
  <2>6. PageTyped'
    <3>1. browser.shown \in [Page!Topics -> Nat] /\ browser.fetch \in SUBSET Page!Topics /\ epoch \in Nat
        BY <1>0 DEF PageTyped
    <3>2. browser' \in [st : {"none", "builds", "off", "on", "gone"}, epoch : Nat, id : Nat,
                        fetch : SUBSET Page!Topics, shown : [Page!Topics -> Nat]]
        BY <2>3, <2>4, <3>1
    <3>. QED BY <1>0, <1>1, <1>13, <2>5, <3>2 DEF PageTyped
  <2>7. Rings'
      BY <1>0, <1>1, RingsStay
  <2>8. Positioned'
      BY <1>0, <1>1, <1>11, <2>4 DEF Positioned, PageTyped
  <2>9. Streaming'
    <3>1. browser'.id = n /\ browser'.st = "on" /\ browser'.epoch = epoch
        BY <2>4
    <3>2. stream' # "off" /\ seq' = seq /\ epoch' = epoch
        BY <1>1, <1>13
    <3>. QED BY <1>4, <2>5, <3>1, <3>2 DEF Streaming
  <2>10. Covered'
    <3>1. ASSUME NEW t \in Page!Topics, Coming(t) PROVE Coming(t)'
      <4>1. browser'.id = n /\ browser'.epoch = browser.epoch /\ browser'.fetch = browser.fetch \cup {log[n].topic}
          BY <1>4, <2>4
      <4>2. CASE t \in browser.fetch
          BY <4>1, <4>2 DEF Coming
      <4>3. CASE browser.epoch # epoch
          BY <1>4, <4>3
      <4>4. ASSUME NEW k \in 1 .. seq, k > browser.id, log[k].topic = t PROVE Coming(t)'
        <5>1. CASE k = n
            BY <4>1, <4>4, <5>1 DEF Coming
        <5>2. CASE k # n
          <6>1. k > n
              BY <1>2, <1>10, <4>4, <5>2
          <6>. QED BY <1>1, <4>1, <4>4, <6>1 DEF Coming
        <5>. QED BY <5>1, <5>2
      <4>. QED BY <3>1, <4>2, <4>3, <4>4 DEF Coming
    <3>2. browser'.shown = browser.shown /\ browser.st # "none"
        BY <1>4, <2>4
    <3>. QED BY <1>0, <1>1, <3>1, <3>2 DEF Covered, Page!Member
  <2>11. Leaves'
    <3>1. CASE leaving # "told"
      <4>1. ~log[n].late /\ ~leaked /\ \A k \in 1 .. seq : ~log[k].late
          BY <1>0, <1>11, <3>1 DEF Leaves
      <4>2. ~leaked'
          BY <2>1, <2>2, <4>1
      <4>. QED BY <1>1, <3>1, <4>1, <4>2 DEF Leaves
    <3>2. CASE leaving = "told" /\ stream = "unsure"
      <4>1. stream' # "live" /\ stream' # "checks"
          BY <1>13, <3>2 DEF Page!Member
      <4>2. ~leaked'
          BY <1>0, <2>1, <3>2 DEF Leaves
      <4>. QED BY <1>1, <3>2, <4>1, <4>2 DEF Leaves
    <3>3. CASE leaving = "told" /\ stream = "live"
      <4>1. PICK l \in 1 .. seq : l > b /\ log[l].kind = "left" /\ \A k \in 1 .. l : ~log[k].late
          BY <1>0, <1>1, <1>2, <3>3 DEF Leaves
      <4>2. n \in 1 .. l
          BY <1>10, <1>11, <4>1
      <4>3. ~leaked'
          BY <1>0, <2>1, <2>2, <4>1, <4>2 DEF Leaves
      <4>4. browser'.id = n
          BY <2>4
      <4>5. ASSUME stream' = "live" PROVE l > n
        <5>1. l # n
            BY <1>13, <2>2, <3>3, <4>1, <4>5 DEF Page!Member
        <5>. QED BY <1>10, <4>1, <5>1
      <4>6. stream' # "checks"
          BY <1>13
      <4>. QED BY <1>1, <3>3, <4>1, <4>3, <4>4, <4>5, <4>6 DEF Leaves
    <3>. QED BY <1>1, <3>1, <3>2, <3>3
  <2>. QED BY <2>6, <2>7, <2>8, <2>9, <2>10, <2>11 DEF PageInv
<1>. QED BY <1>1, <1>11, <1>12, <1>13 DEF Page!Relay, Page!CheckFails

\* A new hub knows no position of the one before.
LEMMA PageRestartKeeps ==
  ASSUME PageInv, Page!Restart
  PROVE  PageInv'
<1>0. PageTyped /\ Rings /\ Positioned /\ Streaming /\ Covered /\ Leaves
    BY DEF PageInv
<1>1. /\ epoch' = epoch + 1 /\ seq' = 0 /\ dropped' = 0 /\ log' = << >> /\ Len(log') = 0
      /\ topics' = [t \in Page!Topics |-> Page!NoTopic] /\ owed' = [t \in Page!Topics |-> {}]
      /\ leaving' = (IF leaving = "left" THEN "told" ELSE leaving)
      /\ UNCHANGED <<stored, unsaid>>
    BY DEF Page!Restart
<1>2. /\ stream' = "off" /\ sub' = Page!NoSub /\ missed' = << >> /\ leaked' = leaked
      /\ \E st \in {browser.st, "off"} :
            browser' = [st |-> st, epoch |-> browser.epoch, id |-> browser.id, fetch |-> browser.fetch,
                        shown |-> browser.shown]
  <2>1. CASE stream = "off"
    <3>1. UNCHANGED <<sub, missed, stream, browser, leaked>>
        BY <2>1 DEF Page!Restart
    <3>2. browser = [st |-> browser.st, epoch |-> browser.epoch, id |-> browser.id, fetch |-> browser.fetch,
                     shown |-> browser.shown]
        BY <1>0 DEF PageTyped
    <3>3. sub = Page!NoSub /\ missed = << >>
        BY <1>0, <2>1 DEF Streaming
    <3>. QED BY <2>1, <3>1, <3>2, <3>3
  <2>2. CASE stream # "off"
    <3>1. Page!Closes("off")
        BY <2>2 DEF Page!Restart
    <3>2. browser' = [browser EXCEPT !.st = "off"]
        BY <3>1 DEF Page!Closes
    <3>3. browser' = [st |-> "off", epoch |-> browser.epoch, id |-> browser.id, fetch |-> browser.fetch,
                      shown |-> browser.shown]
        BY <1>0, <3>2 DEF PageTyped
    <3>. QED BY <3>1, <3>3 DEF Page!Closes
  <2>. QED BY <2>1, <2>2
<1>3. PICK st \in {browser.st, "off"} :
            browser' = [st |-> st, epoch |-> browser.epoch, id |-> browser.id, fetch |-> browser.fetch,
                        shown |-> browser.shown]
    BY <1>2
<1>4. PageTyped'
  <2>1. /\ browser.shown \in [Page!Topics -> Nat] /\ browser.epoch \in Nat /\ browser.id \in Nat
        /\ browser.fetch \in SUBSET Page!Topics /\ st \in {"none", "builds", "off", "on", "gone"} /\ epoch \in Nat
      BY <1>0 DEF PageTyped
  <2>2. browser' \in [st : {"none", "builds", "off", "on", "gone"}, epoch : Nat, id : Nat,
                      fetch : SUBSET Page!Topics, shown : [Page!Topics -> Nat]]
      BY <1>3, <2>1
  <2>3. sub' \in [on : SUBSET Page!Topics, ch : Seq(Nat), closed : BOOLEAN] /\ missed' \in Seq(Nat)
      BY <1>2 DEF Page!NoSub
  <2>4. topics' \in [Page!Topics -> [there : BOOLEAN, floor : Nat, seqs : Seq(Nat)]]
      BY <1>1 DEF Page!NoTopic
  <2>5. leaving' \in {"no", "left", "told"} /\ owed' \in [Page!Topics -> SUBSET Nat] /\ log' \in Seq(Published)
      BY <1>0, <1>1 DEF PageTyped
  <2>6. stored' \in [Page!Topics -> Nat] /\ unsaid' \in [Page!Topics -> SUBSET Nat] /\ stream' \in {"off", "checks", "live", "unsure"}
      BY <1>0, <1>1, <1>2 DEF PageTyped
  <2>7. epoch' \in Nat /\ seq' \in Nat /\ dropped' \in Nat /\ Len(log') = seq'
      BY <1>1, <2>1
  <2>. QED BY <2>2, <2>3, <2>4, <2>5, <2>6, <2>7 DEF PageTyped
<1>5. Rings'
  <2>1. \A t \in Page!Topics : topics'[t].there = FALSE
      BY <1>1 DEF Page!NoTopic
  <2>. QED BY <1>1, <2>1 DEF Rings, RingsOf
<1>6. browser'.epoch # epoch' /\ browser'.epoch <= epoch'
    BY <1>0, <1>1, <1>3 DEF Positioned, PageTyped
<1>7. Positioned' /\ Streaming' /\ Covered'
    BY <1>2, <1>6 DEF Positioned, Streaming, Covered, Coming
<1>8. Leaves'
    BY <1>0, <1>1, <1>2 DEF Leaves
<1>. QED BY <1>4, <1>5, <1>7, <1>8 DEF PageInv

LEMMA PageStep == ASSUME Page!ConstantsOK, PageInv, [Page!Next]_Page!vars PROVE PageInv'
<1>1. CASE UNCHANGED Page!vars
  <2>1. UNCHANGED <<epoch, seq, topics, dropped, log, sub, missed, stream, stored, owed, unsaid, leaving, browser, leaked>>
      BY <1>1 DEF Page!vars
  <2>2. PageTyped /\ Rings /\ Positioned /\ Streaming /\ Covered /\ Leaves
      BY DEF PageInv
  <2>3. Rings'
      BY <2>1, <2>2, RingsStay
  <2>4. PageTyped' /\ Positioned' /\ Streaming'
      BY <2>1, <2>2 DEF PageTyped, Positioned, Streaming
  <2>5. Covered' /\ Leaves'
      BY <2>1, <2>2 DEF Covered, Coming, Page!Member, Leaves
  <2>. QED BY <2>3, <2>4, <2>5 DEF PageInv
<1>2. CASE Page!Next
    BY <1>2, ChangeKeeps, FetchKeeps, NotifyStepKeeps, NotifyLostKeeps, LeaveKeeps, MembersLeftKeeps, PositionKeeps,
       SessionStreamKeeps, GoneKeeps, PageWriteKeeps, TooSlowKeeps, PageRestartKeeps DEF Page!Next
<1>. QED BY <1>1, <1>2

\* Both halves of what the server promises a page.
PageRight == Page!PageCatchesUp /\ Page!NothingAfterLeaving

\* A page caught up with its stream shows every change published, whatever the
\* rings lost, the topics swept, the streams cut and the server restarted; and
\* once a user's leaving was told, no event of the session reaches them
\* (sse/hub.go, relaySSE).
THEOREM PagesAreRight == ASSUME Page!ConstantsOK PROVE Page!Spec => []PageRight
<1>1. Page!Init => PageInv
    BY PageInit
<1>2. PageInv /\ [Page!Next]_Page!vars => PageInv'
    BY PageStep
<1>3. PageInv => PageRight
  <2>. SUFFICES ASSUME PageInv PROVE PageRight
      OBVIOUS
  <2>0. PageTyped /\ Streaming /\ Covered /\ Leaves
      BY DEF PageInv
  <2>1. Page!NothingAfterLeaving
      BY <2>0 DEF Leaves, Page!NothingAfterLeaving
  <2>2. ASSUME browser.st = "on", stream = "live", Page!Pending = << >>, ~sub.closed, browser.fetch = {}, Page!Member,
               NEW t \in Page!Topics, NEW n \in (1 .. stored[t]) \ (owed[t] \cup unsaid[t])
        PROVE  n <= browser.shown[t]
    <3>1. missed \in Seq(Nat) /\ sub.ch \in Seq(Nat) /\ seq \in Nat /\ browser.id \in Nat
        BY <2>0 DEF PageTyped
    <3>2. missed \o sub.ch = << >>
        BY <2>2 DEF Page!Pending
    <3>3. Len(missed) = 0 /\ Len(sub.ch) = 0
        BY <3>1, <3>2
    <3>4. browser.id = seq /\ browser.epoch = epoch
        BY <2>0, <2>2, <3>1, <3>3 DEF Streaming
    <3>5. ~Coming(t)
        BY <2>2, <3>1, <3>4 DEF Coming
    <3>. QED BY <2>0, <2>2, <3>5 DEF Covered
  <2>3. Page!PageCatchesUp
      BY <2>2 DEF Page!PageCatchesUp
  <2>. QED BY <2>1, <2>3 DEF PageRight
<1>. QED BY <1>1, <1>2, <1>3, PTL DEF Page!Spec
=============================================================================
