---------------------------- MODULE ServerProofs ----------------------------
(***************************************************************************)
(* Proofs about the server: MachineToken, for any connections and any      *)
(* copies; and that each part keeps its promise, whatever the constants.   *)
(*                                                                         *)
(* What is proved of a part, in PeerProofs and in StoreProofs, is proved   *)
(* of variables of its own.  Peer and Store are those proofs on the        *)
(* server's variables; there, the part's actions are the server's (the     *)
(* lemmas Same...), and as the part never changes, a behaviour of the      *)
(* server that starts in a part is one of that part.                       *)
(***************************************************************************)
EXTENDS Server, TLAPS

\* What is proved of machines, MCP servers and pages, and of what the server
\* keeps, said of the server's own variables.
Peer == INSTANCE PeerProofs WITH
    NoRequest <- NoCall,
    rows <- v1, next <- v2, made <- v3, home <- v4, late <- v5, page <- v6, tokens <- v7, told <- v8, tries
    <- v9, viewed <- v10, asker <- v11, faults <- v12,
    transport <- v1, conn <- v2, handshake <- v3, sess <- v4, known <- v5, req <- v6, ids <- v7, wire <- v8,
    runs <- v9, mcpFaults <- v10,
    gives <- v1, reg <- v2, table <- v3, served <- v4, found <- v5, job <- v6, retry <- v7, left <- v8,
    running <- v9, stale <- v10, before <- v11, changes <- v12, pubFaults <- v13,
    epoch <- v1, seq <- v2, topics <- v3, dropped <- v4, log <- v5, sub <- v6, missed <- v7, stream <- v8,
    stored <- v9, owed <- v10, unsaid <- v11, leaving <- v12, browser <- v13, leaked <- v14, drops <- v15
Store == INSTANCE StoreProofs WITH
    groups <- v1, rules <- v2, req <- v3, twins <- v4, requests <- v5,
    users <- v1, sessions <- v2, login <- v3, fails <- v4, letIn <- v5, stripped <- v6, writes <- v7,
    rule <- v1, user <- v2, agent <- v3, tools <- v4, offers <- v5, serves <- v6, pub <- v7, cat <- v8, shut
    <- v9, sweep <- v10, hit <- v11, told <- v12, stale <- v13, changes <- v14, faults <- v15,
    fork <- v1, parent <- v2, members <- v3, messages <- v4, writing <- v5, next <- v6, summary <- v7, calls
    <- v8, runs <- v9, late <- v10, reports <- v11, raced <- v12, missed <- v13, forkFaults <- v14,
    wf <- v1, listed <- v2, events <- v3, observing <- v4, view <- v5, cache <- v6, loads <- v7, states <-
    v8, dlv <- v9, reader <- v10, viewFaults <- v11, nfaults <- v12

-----------------------------------------------------------------------------
(* The machine's token. *)

\* A token once valid is still valid, or known as replaced.
Known(t) == Valid(t) \/ t \in retired

\* What holds of the row and of the connections, copies or not.
Rows ==
  /\ current <= issued /\ prev <= issued
  /\ {current, prev} \cap retired = {}
  /\ revoked = "no" => prev < current
  /\ revoked # "no" => current = 0 /\ prev = 0
  /\ \A h \in Holders : disk[h] # 0 => Known(disk[h])

Handlers ==
  /\ \A c \in Conns : conn[c].stage \in {"registered", "ready"} <=> reg = c
  /\ \A c \in Conns : conn[c].stage \in {"pinging", "waiting"} => conn[c].old \in Conns
  /\ \A c \in rotate : /\ conn[c].stage \in {"ready", "over"}
                       /\ conn[c].next # 0 /\ Known(conn[c].next)
  /\ \A c \in rotated : conn[c].stage = "ready"

\* What holds while nobody copied the machine's directory, its clients'
\* connections following one another: the handlers still to rotate present
\* the token on the machine's disk, and the one its client may write is the
\* current one.
Alone ==
  /\ revoked # "reused"
  /\ revoked = "no" => Valid(disk[Home]) /\ Home \notin stopped
  /\ \A h \in Holders \ {Home} : session[h] = NoConn
  /\ \A c \in Conns : conn[c].by = Home
  /\ \A c \in Conns : Pending(c) \/ conn[c].stage = "registered"
                         => conn[c].presented = disk[Home]
  /\ \A c \in Conns : Pending(c) => session[Home] \in {c, NoConn}
  /\ \A c, d \in Conns : Pending(c) /\ Pending(d) => c = d
  /\ \A c \in Conns : conn[c].stage = "ready" /\ revoked = "no" => conn[c].next = current
  /\ \A c \in rotate : session[Home] = c =>
       /\ revoked = "no" => conn[c].next = current
       /\ \A d \in Conns \ {c} : conn[d].stage \in {"unused", "over"}
  /\ \A c \in rotated : disk[Home] = conn[c].next

IInv == TypeOK /\ Rows /\ Handlers /\ (~Copied /\ ~Overlap => Alone)

----------------------------------------------------------------------------
\* The machine's tokens, retired, are tokens issued.
LEMMA RetireKeepsRange ==
  ASSUME NEW cur \in Nat, NEW old \in Nat, NEW n \in Nat, cur <= n, old <= n,
         NEW S \in SUBSET (1..n)
  PROVE  S \cup ({cur, old} \ {0}) \subseteq 1..n
  OBVIOUS

LEMMA InitIInv == Init => IInv
  BY TokenAssumption
  DEF Init, IInv, TypeOK, Rows, Handlers, Alone, Known, Valid, Pending, Stages, Copied

\* Each step of the clients, the handlers and the gateway keeps it.
LEMMA NextIInv == IInv /\ [Next]_vars => IInv'
<1> SUFFICES ASSUME IInv, [Next]_vars PROVE IInv'
  OBVIOUS
<1> USE TokenAssumption
<1>1. ASSUME NEW h \in Holders, NEW c \in Conns, Dial(h, c)
      PROVE IInv'
  <2> USE DEF Dial, row, wire, client, Stages
  <2>1. TypeOK'
    BY <1>1 DEF IInv, TypeOK, Rows
  <2>2. Rows'
    BY <1>1, <2>1 DEF IInv, TypeOK, Rows, Handlers, Known, Valid
  <2>3. Handlers'
    BY <1>1, <2>1 DEF IInv, TypeOK, Rows, Handlers, Known, Valid
  <2>4. ~Copied' /\ ~Overlap => Alone'
    BY <1>1, <2>1 DEF IInv, TypeOK, Rows, Handlers, Alone, Copied, Known, Valid, Pending
  <2> QED BY <2>1, <2>2, <2>3, <2>4 DEF IInv
<1>2. ASSUME NEW h \in Holders, DialRefused(h)
      PROVE IInv'
  <2> USE DEF DialRefused, RevokeMachine, On, row, wire, client, Stages
  <2>a. retired' \subseteq 1..issued' /\ current' \in Nat /\ prev' \in Nat
    <3>1. CASE RevokeMachine("reused") /\ issued' = issued
      BY <3>1, RetireKeepsRange DEF IInv, TypeOK, Rows
    <3>2. CASE UNCHANGED <<current, prev, retired, issued>>
      BY <3>2 DEF IInv, TypeOK
    <3> QED BY <1>2, <3>1, <3>2
  <2>1. TypeOK'
    BY <1>2, <2>a DEF IInv, TypeOK
  <2>2. Rows'
    BY <1>2, <2>1 DEF IInv, TypeOK, Rows, Handlers, Known, Valid
  <2>3. Handlers'
    BY <1>2, <2>1 DEF IInv, TypeOK, Rows, Handlers, Known, Valid
  <2>4. ~Copied' /\ ~Overlap => Alone'
    BY <1>2, <2>1 DEF IInv, TypeOK, Rows, Handlers, Alone, Copied, Known, Valid, Pending
  <2> QED BY <2>1, <2>2, <2>3, <2>4 DEF IInv
<1>3. ASSUME NEW h \in Holders, ReadRotate(h)
      PROVE IInv'
  <2> USE DEF ReadRotate, row, wire, client, Stages
  <2>1. TypeOK'
    BY <1>3 DEF IInv, TypeOK, Rows
  <2>2. Rows'
    BY <1>3, <2>1 DEF IInv, TypeOK, Rows, Handlers, Known, Valid
  <2>3. Handlers'
    BY <1>3, <2>1 DEF IInv, TypeOK, Rows, Handlers, Known, Valid
  <2>4. ~Copied' /\ ~Overlap => Alone'
    BY <1>3, <2>1 DEF IInv, TypeOK, Rows, Handlers, Alone, Copied, Known, Valid, Pending
  <2> QED BY <2>1, <2>2, <2>3, <2>4 DEF IInv
<1>4. ASSUME NEW h \in Holders, Leave(h)
      PROVE IInv'
  <2> USE DEF Leave, row, wire, client, Stages
  <2>1. TypeOK'
    BY <1>4 DEF IInv, TypeOK, Rows
  <2>2. Rows'
    BY <1>4, <2>1 DEF IInv, TypeOK, Rows, Handlers, Known, Valid
  <2>3. Handlers'
    BY <1>4, <2>1 DEF IInv, TypeOK, Rows, Handlers, Known, Valid
  <2>4. ~Copied' /\ ~Overlap => Alone'
    BY <1>4, <2>1 DEF IInv, TypeOK, Rows, Handlers, Alone, Copied, Known, Valid, Pending
  <2> QED BY <2>1, <2>2, <2>3, <2>4 DEF IInv
<1>5. ASSUME NEW h \in Holders, Copy(h)
      PROVE IInv'
  <2> USE DEF Copy, row, wire, client, Stages
  <2>1. TypeOK'
    BY <1>5 DEF IInv, TypeOK, Rows
  <2>2. Rows'
    BY <1>5, <2>1 DEF IInv, TypeOK, Rows, Handlers, Known, Valid
  <2>3. Handlers'
    BY <1>5, <2>1 DEF IInv, TypeOK, Rows, Handlers, Known, Valid
  <2>4. ~Copied' /\ ~Overlap => Alone'
    BY <1>5, <2>1 DEF IInv, TypeOK, Rows, Handlers, Alone, Copied, Known, Valid, Pending
  <2> QED BY <2>1, <2>2, <2>3, <2>4 DEF IInv
<1>6. ASSUME NEW c \in Conns, Register(c)
      PROVE IInv'
  <2> USE DEF Register, To, row, wire, client, Stages
  <2>1. TypeOK'
    BY <1>6 DEF IInv, TypeOK, Rows
  <2>2. Rows'
    BY <1>6, <2>1 DEF IInv, TypeOK, Rows, Handlers, Known, Valid
  <2>3. Handlers'
    BY <1>6, <2>1 DEF IInv, TypeOK, Rows, Handlers, Known, Valid
  <2>4. ~Copied' /\ ~Overlap => Alone'
    BY <1>6, <2>1 DEF IInv, TypeOK, Rows, Handlers, Alone, Copied, Known, Valid, Pending
  <2> QED BY <2>1, <2>2, <2>3, <2>4 DEF IInv
<1>7. ASSUME NEW c \in Conns, CutBoth(c)
      PROVE IInv'
  <2> USE DEF CutBoth, row, wire, client, Stages
  <2>1. TypeOK'
    BY <1>7 DEF IInv, TypeOK, Handlers
  <2>2. Rows'
    BY <1>7, <2>1 DEF IInv, TypeOK, Rows, Handlers, Known, Valid
  <2>3. Handlers'
    <3> DEFINE o == conn[c].old
    <3>1. o \in Conns /\ conn' = [conn EXCEPT ![c].stage = "over", ![o].stage = "over"]
      BY <1>7 DEF IInv, Handlers
    <3>2. \A d \in Conns : /\ conn'[d].stage = IF d \in {c, o} THEN "over" ELSE conn[d].stage
                           /\ conn'[d].next = conn[d].next /\ conn'[d].old = conn[d].old
      BY <1>7, <3>1 DEF IInv, TypeOK
    <3>3. reg # c
      BY <1>7 DEF IInv, Handlers
    <3>4. \A d \in Conns : conn'[d].stage \in {"registered", "ready"} <=> reg' = d
      BY <1>7, <3>1, <3>2, <3>3 DEF IInv, TypeOK, Handlers
    <3>5. \A d \in Conns : conn'[d].stage \in {"pinging", "waiting"} => conn'[d].old \in Conns
      BY <3>2 DEF IInv, Handlers
    <3>a. UNCHANGED <<current, prev, retired, rotate>> /\ rotate \subseteq Conns
      BY <1>7 DEF IInv, TypeOK
    <3>6. \A d \in rotate : Known(conn[d].next) => Known(conn[d].next)'
      BY <3>a, <3>2 DEF Known, Valid
    <3>7. \A d \in rotate' : /\ conn'[d].stage \in {"ready", "over"}
                             /\ conn'[d].next # 0 /\ Known(conn[d].next)'
      BY <1>7, <3>2, <3>6 DEF IInv, TypeOK, Handlers
    <3>8. \A d \in rotated' : conn'[d].stage = "ready"
      BY <1>7, <3>2 DEF IInv, TypeOK, Handlers
    <3> QED BY <3>4, <3>5, <3>7, <3>8 DEF Handlers
  <2>4. ~Copied' /\ ~Overlap => Alone'
    BY <1>7, <2>1 DEF IInv, TypeOK, Rows, Handlers, Alone, Copied, Known, Valid, Pending
  <2> QED BY <2>1, <2>2, <2>3, <2>4 DEF IInv
<1>8. ASSUME NEW c \in Conns, PingFails(c)
      PROVE IInv'
  <2> USE DEF PingFails, To, row, wire, client, Stages
  <2>1. TypeOK'
    BY <1>8 DEF IInv, TypeOK, Rows
  <2>2. Rows'
    BY <1>8, <2>1 DEF IInv, TypeOK, Rows, Handlers, Known, Valid
  <2>3. Handlers'
    BY <1>8, <2>1 DEF IInv, TypeOK, Rows, Handlers, Known, Valid
  <2>4. ~Copied' /\ ~Overlap => Alone'
    BY <1>8, <2>1 DEF IInv, TypeOK, Rows, Handlers, Alone, Copied, Known, Valid, Pending
  <2> QED BY <2>1, <2>2, <2>3, <2>4 DEF IInv
<1>9. ASSUME NEW c \in Conns, Replace(c)
      PROVE IInv'
  <2> USE DEF Replace, To, Free, row, wire, client, Stages
  <2>1. TypeOK'
    BY <1>9 DEF IInv, TypeOK, Rows
  <2>2. Rows'
    BY <1>9, <2>1 DEF IInv, TypeOK, Rows, Handlers, Known, Valid
  <2>3. Handlers'
    BY <1>9, <2>1 DEF IInv, TypeOK, Rows, Handlers, Known, Valid
  <2>4. ~Copied' /\ ~Overlap => Alone'
    BY <1>9, <2>1 DEF IInv, TypeOK, Rows, Handlers, Alone, Copied, Known, Valid, Pending
  <2> QED BY <2>1, <2>2, <2>3, <2>4 DEF IInv
<1>10. ASSUME NEW c \in Conns, Rotate(c)
      PROVE IInv'
  <2> USE DEF Rotate, RotateTokens, row, wire, client, Stages
  <2>a. retired' \subseteq 1..issued' /\ current' \in Nat /\ prev' \in Nat
    BY <1>10 DEF IInv, TypeOK, Rows, Valid
  <2>b. conn' \in [Conns -> [stage : Stages, by : Holders, presented : Nat, next : Nat,
                            old : Conns \cup {NoConn}]]
    <3>1. issued' \in Nat
      BY <1>10 DEF IInv, TypeOK
    <3> DEFINE R == [stage : Stages, by : Holders, presented : Nat, next : Nat,
                     old : Conns \cup {NoConn}]
               r == [conn[c] EXCEPT !.stage = "ready", !.next = issued']
    <3>2. conn \in [Conns -> R]
      BY DEF IInv, TypeOK
    <3>3. r \in R
      BY <3>1, <3>2
    <3>4. conn' = [conn EXCEPT ![c] = r]
      BY <1>10, <3>2
    <3> QED BY <3>2, <3>3, <3>4
  <2>1. TypeOK'
    BY <1>10, <2>a, <2>b DEF IInv, TypeOK
  <2>2. Rows'
    BY <1>10, <2>1 DEF IInv, TypeOK, Rows, Handlers, Known, Valid
  <2>3. Handlers'
    BY <1>10, <2>1 DEF IInv, TypeOK, Rows, Handlers, Known, Valid
  <2>4. ~Copied' /\ ~Overlap => Alone'
    BY <1>10, <2>1 DEF IInv, TypeOK, Rows, Handlers, Alone, Copied, Known, Valid, Pending
  <2> QED BY <2>1, <2>2, <2>3, <2>4 DEF IInv
<1>11. ASSUME NEW c \in Conns, RotateRefused(c)
      PROVE IInv'
  <2> USE DEF RotateRefused, End, To, On, row, wire, client, Stages
  <2>1. TypeOK'
    BY <1>11 DEF IInv, TypeOK, Rows
  <2>2. Rows'
    BY <1>11, <2>1 DEF IInv, TypeOK, Rows, Handlers, Known, Valid
  <2>3. Handlers'
    BY <1>11, <2>1 DEF IInv, TypeOK, Rows, Handlers, Known, Valid
  <2>4. ~Copied' /\ ~Overlap => Alone'
    BY <1>11, <2>1 DEF IInv, TypeOK, Rows, Handlers, Alone, Copied, Known, Valid, Pending
  <2> QED BY <2>1, <2>2, <2>3, <2>4 DEF IInv
<1>12. ASSUME NEW c \in Conns, RotateFails(c)
      PROVE IInv'
  <2> USE DEF RotateFails, RotateTokens, End, To, row, wire, client, Stages
  <2>1. TypeOK'
    BY <1>12 DEF IInv, TypeOK, Rows
  <2>2. Rows'
    BY <1>12, <2>1 DEF IInv, TypeOK, Rows, Handlers, Known, Valid
  <2>3. Handlers'
    BY <1>12, <2>1 DEF IInv, TypeOK, Rows, Handlers, Known, Valid
  <2>4. ~Copied' /\ ~Overlap => Alone'
    BY <1>12, <2>1 DEF IInv, TypeOK, Rows, Handlers, Alone, Copied, Known, Valid, Pending
  <2> QED BY <2>1, <2>2, <2>3, <2>4 DEF IInv
<1>13. ASSUME NEW c \in Conns, Confirm(c)
      PROVE IInv'
  <2> USE DEF Confirm, ConfirmToken, row, wire, client, Stages
  <2>a. retired' \subseteq 1..issued' /\ current' \in Nat /\ prev' \in Nat
    <3>1. CASE prev' = 0 /\ retired' = retired \cup ({prev} \ {0})
      BY <1>13, <3>1 DEF IInv, TypeOK, Rows
    <3>2. CASE UNCHANGED <<prev, retired>>
      BY <1>13, <3>2 DEF IInv, TypeOK
    <3> QED BY <1>13, <3>1, <3>2
  <2>1. TypeOK'
    BY <1>13, <2>a DEF IInv, TypeOK
  <2>2. Rows'
    <3>1. CASE prev' = 0 /\ retired' = retired \cup ({prev} \ {0}) /\ current = conn[c].next
      BY <1>13, <3>1 DEF IInv, TypeOK, Rows, Known, Valid
    <3>2. CASE UNCHANGED <<prev, retired>>
      BY <1>13, <3>2 DEF IInv, TypeOK, Rows, Known, Valid
    <3> QED BY <1>13, <3>1, <3>2
  <2>3. Handlers'
    BY <1>13, <2>1 DEF IInv, TypeOK, Rows, Handlers, Known, Valid
  <2>4. ~Copied' /\ ~Overlap => Alone'
    BY <1>13, <2>1 DEF IInv, TypeOK, Rows, Handlers, Alone, Copied, Known, Valid, Pending
  <2> QED BY <2>1, <2>2, <2>3, <2>4 DEF IInv
<1>14. ASSUME NEW c \in Conns, HandlerEnds(c)
      PROVE IInv'
  <2> USE DEF HandlerEnds, End, To, row, wire, client, Stages
  <2>1. TypeOK'
    BY <1>14 DEF IInv, TypeOK, Rows
  <2>2. Rows'
    BY <1>14, <2>1 DEF IInv, TypeOK, Rows, Handlers, Known, Valid
  <2>3. Handlers'
    BY <1>14, <2>1 DEF IInv, TypeOK, Rows, Handlers, Known, Valid
  <2>4. ~Copied' /\ ~Overlap => Alone'
    BY <1>14, <2>1 DEF IInv, TypeOK, Rows, Handlers, Alone, Copied, Known, Valid, Pending
  <2> QED BY <2>1, <2>2, <2>3, <2>4 DEF IInv
<1>15. ASSUME GatewayRestart
      PROVE IInv'
  <2> USE DEF GatewayRestart, row, wire, client, Stages
  <2>1. TypeOK'
    BY <1>15 DEF IInv, TypeOK, Rows
  <2>2. Rows'
    BY <1>15, <2>1 DEF IInv, TypeOK, Rows, Handlers, Known, Valid
  <2>3. Handlers'
    BY <1>15, <2>1 DEF IInv, TypeOK, Rows, Handlers, Known, Valid
  <2>4. ~Copied' /\ ~Overlap => Alone'
    BY <1>15, <2>1 DEF IInv, TypeOK, Rows, Handlers, Alone, Copied, Known, Valid, Pending
  <2> QED BY <2>1, <2>2, <2>3, <2>4 DEF IInv
<1>16. ASSUME OwnerRevokes
      PROVE IInv'
  <2> USE DEF OwnerRevokes, RevokeMachine, On, row, wire, client, Stages
  <2>1. TypeOK'
    BY <1>16 DEF IInv, TypeOK, Rows
  <2>2. Rows'
    BY <1>16, <2>1 DEF IInv, TypeOK, Rows, Handlers, Known, Valid
  <2>3. Handlers'
    BY <1>16, <2>1 DEF IInv, TypeOK, Rows, Handlers, Known, Valid
  <2>4. ~Copied' /\ ~Overlap => Alone'
    BY <1>16, <2>1 DEF IInv, TypeOK, Rows, Handlers, Alone, Copied, Known, Valid, Pending
  <2> QED BY <2>1, <2>2, <2>3, <2>4 DEF IInv
<1>17. CASE UNCHANGED vars
  BY <1>17 DEF IInv, TypeOK, Rows, Handlers, Alone, Copied, Known, Valid, Pending, vars, row, wire, client
<1> QED
  BY <1>1, <1>2, <1>3, <1>4, <1>5, <1>6, <1>7, <1>8, <1>9, <1>10, <1>11, <1>12, <1>13, <1>14, <1>15, <1>16, <1>17 DEF Next, Client, Handler

\* The handlers, the row and the clients have their types, the retired tokens
\* being tokens issued, for any number of connections and of copies.
THEOREM TypeCorrect == Spec => []TypeOK
<1>1. IInv => TypeOK
  BY DEF IInv
<1> QED
  BY InitIInv, NextIInv, <1>1, PTL DEF Spec

\* A machine nobody copied is never refused nor taken for a copy, as long as
\* its connections reach the gateway's registration one after the other
\* (ServeConnect, register, rotateTokens).
THEOREM NotLockedOut == ~Overlap => (Spec => []NeverLockedOut)
<1>1. IInv /\ ~Overlap => NeverLockedOut
  BY DEF IInv, Alone, NeverLockedOut
<1>2. SUFFICES ASSUME ~Overlap PROVE Spec => []NeverLockedOut
  OBVIOUS
<1>3. IInv => NeverLockedOut
  BY <1>1, <1>2
<1> QED
  BY InitIInv, NextIInv, <1>3, PTL DEF Spec

\* A replaced token stays refused and is recognised whenever it comes back,
\* overlapping connections and copies included (MachineByToken, retireTokens).
THEOREM Recognised == Spec => []RetiredRecognised
<1>1. IInv => RetiredRecognised
  BY DEF IInv, Rows, Known, RetiredRecognised
<1> QED
  BY InitIInv, NextIInv, <1>1, PTL DEF Spec

\* The gateway holds one connection of the machine at most (register).
THEOREM Single == Spec => []OneConnection
<1>1. IInv => OneConnection
  BY DEF IInv, TypeOK, Handlers, OneConnection
<1> QED
  BY InitIInv, NextIInv, <1>1, PTL DEF Spec

\* In every part the machine's token goes its way: what is proved of it holds
\* of the server (ServerNext).
THEOREM TokensGoOn == ServerSpec => Spec
<1>1. ServerInit => Init
  BY DEF ServerInit
<1>2. [ServerNext]_<<vars, part, pool>> => [Next]_vars
  BY DEF ServerNext
<1> QED BY <1>1, <1>2, PTL DEF ServerSpec, Spec

-----------------------------------------------------------------------------
(* The parts are those of the proofs. *)

\* For a page and its stream.
LEMMA SameStream ==
    /\ Stream!Init => Peer!Page!Init
    /\ [Stream!Next]_(Stream!vars) => [Peer!Page!Next]_(Peer!Page!vars)
    /\ Peer!Page!PageCatchesUp /\ Peer!Page!NothingAfterLeaving => Stream!PageCatchesUp /\ Stream!NothingAfterLeaving
<1>1. ASSUME Stream!Init PROVE Peer!Page!Init
  BY <1>1 DEF Stream!Init, Peer!Page!Init, Stream!Topics, Peer!Page!Topics, Stream!NoTopic, Peer!Page!NoTopic,
    Stream!NoSub, Peer!Page!NoSub
<1>2. ASSUME Stream!Next PROVE Peer!Page!Next
  BY <1>2 DEF Stream!Next, Peer!Page!Next, Stream!Topics, Peer!Page!Topics, Stream!Change, Peer!Page!Change,
    Stream!Fetch, Peer!Page!Fetch, Stream!NotifyStep, Peer!Page!NotifyStep, Stream!NotifyLost,
    Peer!Page!NotifyLost, Stream!Leave, Peer!Page!Leave, Stream!MembersLeft, Peer!Page!MembersLeft,
    Stream!Position, Peer!Page!Position, Stream!SessionStream, Peer!Page!SessionStream, Stream!Gone,
    Peer!Page!Gone, Stream!WriteSSE, Peer!Page!WriteSSE, Stream!TooSlow, Peer!Page!TooSlow,
    Stream!ConnectionLost, Peer!Page!ConnectionLost, Stream!Restart, Peer!Page!Restart, Stream!hub,
    Peer!Page!hub, Stream!Member, Peer!Page!Member, Stream!Publish, Peer!Page!Publish, Stream!Idle,
    Peer!Page!Idle, Stream!Opened, Peer!Page!Opened, Stream!DroppedTo, Peer!Page!DroppedTo, Stream!NoSub,
    Peer!Page!NoSub, Stream!Stale, Peer!Page!Stale, Stream!Missed, Peer!Page!Missed, Stream!Closes,
    Peer!Page!Closes, Stream!Pending, Peer!Page!Pending, Stream!Relay, Peer!Page!Relay, Stream!Sends, Peer!Page!Sends,
    Stream!CheckFails, Peer!Page!CheckFails, Stream!NoTopic,
    Peer!Page!NoTopic, Stream!Pushed, Peer!Page!Pushed, Stream!Sent, Peer!Page!Sent, Stream!Swept,
    Peer!Page!Swept, Stream!Max0, Peer!Page!Max0, Stream!Known, Peer!Page!Known, Stream!InOrder,
    Peer!Page!InOrder, Stream!Event, Peer!Page!Event, Stream!Cardinality, Peer!Page!Cardinality,
    Stream!ToSet, Peer!Page!ToSet
<1>3. ASSUME UNCHANGED Stream!vars PROVE UNCHANGED Peer!Page!vars
  BY <1>3 DEF Stream!vars, Peer!Page!vars
<1>4. ASSUME Peer!Page!PageCatchesUp /\ Peer!Page!NothingAfterLeaving PROVE Stream!PageCatchesUp /\ Stream!NothingAfterLeaving
  BY <1>4 DEF Stream!PageCatchesUp, Peer!Page!PageCatchesUp, Stream!NothingAfterLeaving,
    Peer!Page!NothingAfterLeaving, Stream!Pending, Peer!Page!Pending, Stream!Member, Peer!Page!Member,
    Stream!Topics, Peer!Page!Topics
<1> QED BY <1>1, <1>2, <1>3, <1>4

\* For a participant and what is shown of it.
LEMMA SameTurns ==
    /\ Turns!Init => Store!Turns!Init
    /\ [Turns!Next]_(Turns!vars) => [Store!Turns!Next]_(Store!Turns!vars)
    /\ Store!Turns!ShownRight /\ Store!Turns!NoStaleListing => Turns!ShownRight /\ Turns!NoStaleListing
<1>1. ASSUME Turns!Init PROVE Store!Turns!Init
  BY <1>1 DEF Turns!Init, Store!Turns!Init, Turns!NoMsg, Store!Turns!NoMsg, Turns!NoTurns, Store!Turns!NoTurns,
    Turns!NoValue, Store!Turns!NoValue, Turns!NoState, Store!Turns!NoState, Turns!Relayed,
    Store!Turns!Relayed, Turns!NoRequest, Store!Turns!NoRequest
<1>2. ASSUME Turns!Next PROVE Store!Turns!Next
  BY <1>2 DEF Turns!Next, Store!Turns!Next, Turns!TurnStarted, Store!Turns!TurnStarted, Turns!TurnDone,
    Store!Turns!TurnDone, Turns!Takes, Store!Turns!Takes, Turns!TurnOver, Store!Turns!TurnOver, Turns!Clear, Store!Turns!Clear,
    Turns!Dropped, Store!Turns!Dropped, Turns!Quietly, Store!Turns!Quietly, Turns!Telling, Store!Turns!Telling,
    Turns!Behind, Store!Turns!Behind, Turns!Answers, Store!Turns!Answers, Turns!Tells, Store!Turns!Tells,
    Turns!RelayFailed,
    Store!Turns!RelayFailed, Turns!Close, Store!Turns!Close, Turns!Listed, Store!Turns!Listed, Turns!Server,
    Store!Turns!Server, Turns!Reading, Store!Turns!Reading, Turns!NoMsg, Store!Turns!NoMsg,
    Turns!Relayed, Store!Turns!Relayed, Turns!Disturbed,
    Store!Turns!Disturbed, Turns!NoFault, Store!Turns!NoFault, Turns!Observe, Store!Turns!Observe,
    Turns!Observed, Store!Turns!Observed, Turns!EventLost, Store!Turns!EventLost, Turns!TrustEnds,
    Store!Turns!TrustEnds, Turns!ValuesAge, Store!Turns!ValuesAge, Turns!Restart, Store!Turns!Restart,
    Turns!Resolve, Store!Turns!Resolve, Turns!Expect, Store!Turns!Expect, Turns!SignalWithStart,
    Store!Turns!SignalWithStart, Turns!Delivered, Store!Turns!Delivered, Turns!Request, Store!Turns!Request,
    Turns!Get, Store!Turns!Get, Turns!AsksKept, Store!Turns!AsksKept, Turns!QueryState,
    Store!Turns!QueryState, Turns!StateAnswered, Store!Turns!StateAnswered, Turns!RequestEnds,
    Store!Turns!RequestEnds, Turns!LoadVisible, Store!Turns!LoadVisible, Turns!Refresh, Store!Turns!Refresh,
    Turns!Disturb, Store!Turns!Disturb, Turns!Set, Store!Turns!Set, Turns!Invalidate,
    Store!Turns!Invalidate, Turns!Fault, Store!Turns!Fault, Turns!NoState, Store!Turns!NoState,
    Turns!NoTurns, Store!Turns!NoTurns, Turns!NoValue, Store!Turns!NoValue, Turns!NoRequest,
    Store!Turns!NoRequest, Turns!At, Store!Turns!At, Turns!Answered, Store!Turns!Answered, Turns!Quiet,
    Store!Turns!Quiet, Turns!Shows, Store!Turns!Shows, Turns!StartLoad, Store!Turns!StartLoad, Turns!Answer,
    Store!Turns!Answer, Turns!Kept, Store!Turns!Kept, Turns!Snapshot, Store!Turns!Snapshot, Turns!Ended,
    Store!Turns!Ended, Turns!Cardinality, Store!Turns!Cardinality
<1>3. ASSUME UNCHANGED Turns!vars PROVE UNCHANGED Store!Turns!vars
  BY <1>3 DEF Turns!vars, Store!Turns!vars
<1>4. ASSUME Store!Turns!ShownRight /\ Store!Turns!NoStaleListing PROVE Turns!ShownRight /\ Turns!NoStaleListing
  BY <1>4 DEF Turns!ShownRight, Store!Turns!ShownRight, Turns!NoStaleListing, Store!Turns!NoStaleListing,
    Turns!NoMsg, Store!Turns!NoMsg, Turns!Relayed, Store!Turns!Relayed, Turns!Answers, Store!Turns!Answers,
    Turns!Tells, Store!Turns!Tells
<1> QED BY <1>1, <1>2, <1>3, <1>4

\* For the groups and the rules.
LEMMA SameRights ==
    /\ Rights!Init => Store!Init
    /\ [Rights!Next]_(Rights!vars) => [Store!Next]_(Store!vars)
    /\ Store!RuleKeepsHolder => Rights!RuleKeepsHolder
<1>1. ASSUME Rights!Init PROVE Store!Init
  BY <1>1 DEF Rights!Init, Store!Init, Rights!NoRule, Store!NoRule, Rights!Idle, Store!Idle
<1>2. ASSUME Rights!Next PROVE Store!Next
  BY <1>2 DEF Rights!Next, Store!Next, Rights!CheckRule, Store!CheckRule, Rights!CreateAccessRule,
    Store!CreateAccessRule, Rights!UpdateAccessRule, Store!UpdateAccessRule, Rights!SetHolder,
    Store!SetHolder, Rights!CommitRule, Store!CommitRule, Rights!DeleteGroup, Store!DeleteGroup,
    Rights!LockGroup, Store!LockGroup, Rights!CheckSole, Store!CheckSole, Rights!CommitGroup,
    Store!CommitGroup, Rights!Fails, Store!Fails, Rights!DeleteAccessRule, Store!DeleteAccessRule,
    Rights!CreateGroup, Store!CreateGroup, Rights!Subjects, Store!Subjects, Rights!Starts, Store!Starts,
    Rights!Idle, Store!Idle, Rights!RuleLocked, Store!RuleLocked, Rights!Opens, Store!Opens, Rights!Becomes,
    Store!Becomes, Rights!GroupLocked, Store!GroupLocked, Rights!GroupShared, Store!GroupShared,
    Rights!SoleOf, Store!SoleOf, Rights!Leaving, Store!Leaving, Rights!NoRule, Store!NoRule
<1>3. ASSUME UNCHANGED Rights!vars PROVE UNCHANGED Store!vars
  BY <1>3 DEF Rights!vars, Store!vars
<1>4. ASSUME Store!RuleKeepsHolder PROVE Rights!RuleKeepsHolder
  BY <1>4 DEF Rights!RuleKeepsHolder, Store!RuleKeepsHolder
<1> QED BY <1>1, <1>2, <1>3, <1>4

\* For the accounts.
LEMMA SameAccess ==
    /\ Access!Init => Store!Acc!Init
    /\ [Access!Next]_(Access!vars) => [Store!Acc!Next]_(Store!Acc!vars)
    /\ Store!Acc!AccountsKept => Access!AccountsKept
<1>1. ASSUME Access!Init PROVE Store!Acc!Init
  BY <1>1 DEF Access!Init, Store!Acc!Init, Access!NoUser, Store!Acc!NoUser, Access!ActiveAdmin,
    Store!Acc!ActiveAdmin, Access!NoLogin, Store!Acc!NoLogin, Access!NoReq, Store!Acc!NoReq
<1>2. ASSUME Access!Next PROVE Store!Acc!Next
  BY <1>2 DEF Access!Next, Store!Acc!Next, Access!Authenticate, Store!Acc!Authenticate, Access!Fail,
    Store!Acc!Fail, Access!Succeed, Store!Acc!Succeed, Access!StartSession, Store!Acc!StartSession,
    Access!Logout, Store!Acc!Logout, Access!RequireAdmin, Store!Acc!RequireAdmin, Access!CreateUser,
    Store!Acc!CreateUser, Access!UpdateUser, Store!Acc!UpdateUser, Access!ResetPassword,
    Store!Acc!ResetPassword, Access!SetDisabled, Store!Acc!SetDisabled, Access!Refused, Store!Acc!Refused,
    Access!WindowEnds, Store!Acc!WindowEnds, Access!UserPasswordCmd, Store!Acc!UserPasswordCmd,
    Access!Blocked, Store!Acc!Blocked, Access!Verified, Store!Acc!Verified, Access!NoLogin,
    Store!Acc!NoLogin, Access!Writes, Store!Acc!Writes, Access!ActiveAdmin, Store!Acc!ActiveAdmin,
    Access!NoUser, Store!Acc!NoUser, Access!Wrote, Store!Acc!Wrote, Access!SetUserPassword,
    Store!Acc!SetUserPassword, Access!SessionsOf, Store!Acc!SessionsOf, Access!NoReq, Store!Acc!NoReq
<1>3. ASSUME UNCHANGED Access!vars PROVE UNCHANGED Store!Acc!vars
  BY <1>3 DEF Access!vars, Store!Acc!vars
<1>4. ASSUME Store!Acc!AccountsKept PROVE Access!AccountsKept
  BY <1>4 DEF Access!AccountsKept, Store!Acc!AccountsKept, Access!AdminLeft, Store!Acc!AdminLeft,
    Access!OldPasswordOut, Store!Acc!OldPasswordOut, Access!ActiveAdmin, Store!Acc!ActiveAdmin
<1> QED BY <1>1, <1>2, <1>3, <1>4

\* For the workers' catalog.
LEMMA SameCatalog ==
    /\ Catalog!Init => Store!Catalog!Init
    /\ [Catalog!Next]_(Catalog!vars) => [Store!Catalog!Next]_(Store!Catalog!vars)
    /\ Store!Catalog!CatalogRight => Catalog!CatalogRight
<1>1. ASSUME Catalog!Init PROVE Store!Catalog!Init
  BY <1>1 DEF Catalog!Init, Store!Catalog!Init, Catalog!NoRule, Store!Catalog!NoRule, Catalog!NoPub,
    Store!Catalog!NoPub, Catalog!NewCatalog, Store!Catalog!NewCatalog, Catalog!NoSweep,
    Store!Catalog!NoSweep
<1>2. ASSUME Catalog!Next PROVE Store!Catalog!Next
  BY <1>2 DEF Catalog!Next, Store!Catalog!Next, Catalog!WriteRule, Store!Catalog!WriteRule, Catalog!WriteUser,
    Store!Catalog!WriteUser, Catalog!WriteAgent, Store!Catalog!WriteAgent, Catalog!WorkerStarts,
    Store!Catalog!WorkerStarts, Catalog!WorkerStops, Store!Catalog!WorkerStops, Catalog!ListPublished,
    Store!Catalog!ListPublished, Catalog!KeepPublishing, Store!Catalog!KeepPublishing, Catalog!PublishTool,
    Store!Catalog!PublishTool, Catalog!DeleteTool, Store!Catalog!DeleteTool, Catalog!ReadAccess,
    Store!Catalog!ReadAccess, Catalog!ReadAgents, Store!Catalog!ReadAgents, Catalog!ReadTools,
    Store!Catalog!ReadTools, Catalog!ListRules, Store!Catalog!ListRules, Catalog!PublishedRefs,
    Store!Catalog!PublishedRefs, Catalog!SetAccessRulesMatched, Store!Catalog!SetAccessRulesMatched,
    Catalog!ClaimUnmatchedAlert, Store!Catalog!ClaimUnmatchedAlert, Catalog!Write, Store!Catalog!Write,
    Catalog!Targets, Store!Catalog!Targets, Catalog!NoRule, Store!Catalog!NoRule, Catalog!StillShut,
    Store!Catalog!StillShut, Catalog!Refs, Store!Catalog!Refs, Catalog!publishing, Store!Catalog!publishing,
    Catalog!sweeping, Store!Catalog!sweeping, Catalog!Hits, Store!Catalog!Hits, Catalog!Published,
    Store!Catalog!Published, Catalog!rights, Store!Catalog!rights, Catalog!NoPub, Store!Catalog!NoPub,
    Catalog!Fault, Store!Catalog!Fault, Catalog!Shut, Store!Catalog!Shut, Catalog!NoSweep,
    Store!Catalog!NoSweep, Catalog!Allowed, Store!Catalog!Allowed
<1>3. ASSUME UNCHANGED Catalog!vars PROVE UNCHANGED Store!Catalog!vars
  BY <1>3 DEF Catalog!vars, Store!Catalog!vars
<1>4. ASSUME Store!Catalog!CatalogRight PROVE Catalog!CatalogRight
  BY <1>4 DEF Catalog!CatalogRight, Store!Catalog!CatalogRight, Catalog!TurnObeysRules,
    Store!Catalog!TurnObeysRules, Catalog!ToldOnce, Store!Catalog!ToldOnce, Catalog!ToolsFor,
    Store!Catalog!ToolsFor, Catalog!Allowed, Store!Catalog!Allowed
<1> QED BY <1>1, <1>2, <1>3, <1>4

\* For a fork and its reports.
LEMMA SameForks ==
    /\ Forks!Init => Store!Forks!Init
    /\ [Forks!Next]_(Forks!vars) => [Store!Forks!Next]_(Store!Forks!vars)
    /\ Store!Forks!ReportedOnce => Forks!ReportedOnce
<1>1. ASSUME Forks!Init PROVE Store!Forks!Init
  BY <1>1 DEF Forks!Init, Store!Forks!Init, Forks!NoFork, Store!Forks!NoFork, Forks!NoTx, Store!Forks!NoTx,
    Forks!NoRequest, Store!Forks!NoRequest, Forks!NoRun, Store!Forks!NoRun
<1>2. ASSUME Forks!Next PROVE Store!Forks!Next
  BY <1>2 DEF Forks!Next, Store!Forks!Next, Forks!CreateFork, Store!Forks!CreateFork, Forks!StartSummary,
    Store!Forks!StartSummary, Forks!SummarizeConversation, Store!Forks!SummarizeConversation,
    Forks!PostForkSummary, Store!Forks!PostForkSummary, Forks!Insert, Store!Forks!Insert, Forks!Commit,
    Store!Forks!Commit, Forks!Ask, Store!Forks!Ask, Forks!Load, Store!Forks!Load, Forks!Start,
    Store!Forks!Start, Forks!RequestFails, Store!Forks!RequestFails, Forks!SummarizeForkReport,
    Store!Forks!SummarizeForkReport, Forks!PostForkReport, Store!Forks!PostForkReport, Forks!LatePost,
    Store!Forks!LatePost, Forks!Delete, Store!Forks!Delete, Forks!Leave, Store!Forks!Leave, Forks!NoFork,
    Store!Forks!NoFork, Forks!writes, Store!Forks!writes, Forks!Fault, Store!Forks!Fault,
    Forks!DeleteSession, Store!Forks!DeleteSession, Forks!AppendForkSummary, Store!Forks!AppendForkSummary,
    Forks!SummaryPending, Store!Forks!SummaryPending, Forks!NoTx, Store!Forks!NoTx, Forks!Length,
    Store!Forks!Length, Forks!forking, Store!Forks!forking, Forks!Rows, Store!Forks!Rows, Forks!NoRequest,
    Store!Forks!NoRequest, Forks!Whole, Store!Forks!Whole, Forks!Reportable, Store!Forks!Reportable,
    Forks!Open, Store!Forks!Open, Forks!UpTo, Store!Forks!UpTo, Forks!AppendForkReport,
    Store!Forks!AppendForkReport, Forks!PostOf, Store!Forks!PostOf, Forks!Refused, Store!Forks!Refused,
    Forks!PostedAs, Store!Forks!PostedAs
<1>3. ASSUME UNCHANGED Forks!vars PROVE UNCHANGED Store!Forks!vars
  BY <1>3 DEF Forks!vars, Store!Forks!vars
<1>4. ASSUME Store!Forks!ReportedOnce PROVE Forks!ReportedOnce
  BY <1>4 DEF Forks!ReportedOnce, Store!Forks!ReportedOnce, Forks!Reportable, Store!Forks!Reportable,
    Forks!Covering, Store!Forks!Covering, Forks!Cardinality, Store!Forks!Cardinality
<1> QED BY <1>1, <1>2, <1>3, <1>4

\* For the machines on their way in.
LEMMA SameEnroll ==
    /\ Enroll!Init => Peer!Init
    /\ [Enroll!Next]_(Enroll!vars) => [Peer!Next]_(Peer!vars)
    /\ Peer!EnrolledRightly => Enroll!EnrolledRightly
<1>1. ASSUME Enroll!Init PROVE Peer!Init
  BY <1>1 DEF Enroll!Init, Peer!Init, Enroll!Ids, Peer!Ids, Enroll!NoRow, Peer!NoRow, Enroll!New, Peer!New,
    Enroll!NoPage, Peer!NoPage
<1>2. ASSUME Enroll!Next PROVE Peer!Next
  BY <1>2 DEF Enroll!Next, Peer!Next, Enroll!ServeDevice, Peer!ServeDevice, Enroll!Poll, Peer!Poll, Enroll!Save,
    Peer!Save, Enroll!Killed, Peer!Killed, Enroll!Ids, Peer!Ids, Enroll!ByToken, Peer!ByToken,
    Enroll!FindRequest, Peer!FindRequest, Enroll!Approve, Peer!Approve, Enroll!CreateEnrollmentToken,
    Peer!CreateEnrollmentToken, Enroll!TriesForgotten, Peer!TriesForgotten, Enroll!Take, Peer!Take,
    Enroll!LatePoll, Peer!LatePoll, Enroll!Expire, Peer!Expire, Enroll!DeleteExpiredEnrollments,
    Peer!DeleteExpiredEnrollments, Enroll!Restart, Peer!Restart, Enroll!New, Peer!New, Enroll!Pending,
    Peer!Pending, Enroll!Free, Peer!Free, Enroll!NoRow, Peer!NoRow, Enroll!Fault, Peer!Fault, Enroll!ui,
    Peer!ui, Enroll!Redeem, Peer!Redeem, Enroll!Answer, Peer!Answer, Enroll!NoPage, Peer!NoPage,
    Enroll!Approved, Peer!Approved, Enroll!Cardinality, Peer!Cardinality
<1>3. ASSUME UNCHANGED Enroll!vars PROVE UNCHANGED Peer!vars
  BY <1>3 DEF Enroll!vars, Peer!vars
<1>4. ASSUME Peer!EnrolledRightly PROVE Enroll!EnrolledRightly
  BY <1>4 DEF Enroll!EnrolledRightly, Peer!EnrolledRightly, Enroll!Ids, Peer!Ids
<1> QED BY <1>1, <1>2, <1>3, <1>4

\* For an MCP server's client.
LEMMA SameMcp ==
    /\ Mcp!Init => Peer!Mcp!Init
    /\ [Mcp!Next]_(Mcp!vars) => [Peer!Mcp!Next]_(Peer!Mcp!vars)
    /\ Peer!Mcp!CallsRight => Mcp!CallsRight
<1>1. ASSUME Mcp!Init PROVE Peer!Mcp!Init
  BY <1>1 DEF Mcp!Init, Peer!Mcp!Init, Mcp!NoSession, Peer!Mcp!NoSession, Mcp!Sessions, Peer!Mcp!Sessions,
    Mcp!NoSess, Peer!Mcp!NoSess, Mcp!NewReq, Peer!Mcp!NewReq
<1>2. ASSUME Mcp!Next PROVE Peer!Mcp!Next
  BY <1>2 DEF Mcp!Next, Peer!Mcp!Next, Mcp!Connect, Peer!Mcp!Connect, Mcp!Acquire, Peer!Mcp!Acquire, Mcp!Dial,
    Peer!Mcp!Dial, Mcp!Notify, Peer!Mcp!Notify, Mcp!Send, Peer!Mcp!Send, Mcp!Run, Peer!Mcp!Run, Mcp!Lost,
    Peer!Mcp!Lost, Mcp!NotFound, Peer!Mcp!NotFound, Mcp!Answered, Peer!Mcp!Answered, Mcp!StreamBreaks,
    Peer!Mcp!StreamBreaks, Mcp!Resume, Peer!Mcp!Resume, Mcp!PendingEnds, Peer!Mcp!PendingEnds, Mcp!Deadline,
    Peer!Mcp!Deadline, Mcp!Deliver, Peer!Mcp!Deliver, Mcp!Sessions, Peer!Mcp!Sessions, Mcp!Forget,
    Peer!Mcp!Forget, Mcp!StreamEnds, Peer!Mcp!StreamEnds, Mcp!At, Peer!Mcp!At, Mcp!Current,
    Peer!Mcp!Current, Mcp!NoSession, Peer!Mcp!NoSession, Mcp!Fresh, Peer!Mcp!Fresh, Mcp!Opened,
    Peer!Mcp!Opened, Mcp!NotOpened, Peer!Mcp!NotOpened, Mcp!Takes, Peer!Mcp!Takes, Mcp!To, Peer!Mcp!To,
    Mcp!Fault, Peer!Mcp!Fault, Mcp!Alive, Peer!Mcp!Alive, Mcp!Drop, Peer!Mcp!Drop, Mcp!Answers,
    Peer!Mcp!Answers, Mcp!Closes, Peer!Mcp!Closes
<1>3. ASSUME UNCHANGED Mcp!vars PROVE UNCHANGED Peer!Mcp!vars
  BY <1>3 DEF Mcp!vars, Peer!Mcp!vars
<1>4. ASSUME Peer!Mcp!CallsRight PROVE Mcp!CallsRight
  BY <1>4 DEF Mcp!CallsRight, Peer!Mcp!CallsRight, Mcp!At, Peer!Mcp!At, Mcp!Sessions, Peer!Mcp!Sessions
<1> QED BY <1>1, <1>2, <1>3, <1>4

\* For the tools of the MCP servers.
LEMMA SameTools ==
    /\ Tools!Init => Peer!Pub!Init
    /\ [Tools!Next]_(Tools!vars) => [Peer!Pub!Next]_(Peer!Pub!vars)
    /\ Peer!Pub!PublishedRight => Tools!PublishedRight
<1>1. ASSUME Tools!Init PROVE Peer!Pub!Init
  BY <1>1 DEF Tools!Init, Peer!Pub!Init, Tools!Tools, Peer!Pub!Tools, Tools!NoReg, Peer!Pub!NoReg, Tools!BuiltIn,
    Peer!Pub!BuiltIn, Tools!NoRow, Peer!Pub!NoRow, Tools!NoDiscovery, Peer!Pub!NoDiscovery,
    Tools!Publishers, Peer!Pub!Publishers, Tools!NoJob, Peer!Pub!NoJob, Tools!NoSource, Peer!Pub!NoSource,
    Tools!NoTools, Peer!Pub!NoTools, Tools!Cardinality, Peer!Pub!Cardinality
<1>2. ASSUME Tools!Next PROVE Peer!Pub!Next
  BY <1>2 DEF Tools!Next, Peer!Pub!Next, Tools!Discover, Peer!Pub!Discover, Tools!KeepPublishing,
    Peer!Pub!KeepPublishing, Tools!OtherQueue, Peer!Pub!OtherQueue, Tools!Watch, Peer!Pub!Watch, Tools!Down,
    Peer!Pub!Down, Tools!Apply, Peer!Pub!Apply, Tools!ServerChanges, Peer!Pub!ServerChanges,
    Tools!Publishers, Peer!Pub!Publishers, Tools!ListTools, Peer!Pub!ListTools, Tools!Published,
    Peer!Pub!Published, Tools!UpsertTool, Peer!Pub!UpsertTool, Tools!DeleteTool, Peer!Pub!DeleteTool,
    Tools!Held, Peer!Pub!Held, Tools!NoJob, Peer!Pub!NoJob, Tools!NoReg, Peer!Pub!NoReg, Tools!NoRow,
    Peer!Pub!NoRow, Tools!Listed, Peer!Pub!Listed, Tools!Fault, Peer!Pub!Fault, Tools!NotListed,
    Peer!Pub!NotListed, Tools!NoDiscovery, Peer!Pub!NoDiscovery, Tools!SyncSource, Peer!Pub!SyncSource,
    Tools!ToPublish, Peer!Pub!ToPublish, Tools!Set, Peer!Pub!Set, Tools!Tools, Peer!Pub!Tools,
    Tools!NoSource, Peer!Pub!NoSource, Tools!NoTools, Peer!Pub!NoTools, Tools!Cardinality,
    Peer!Pub!Cardinality
<1>3. ASSUME UNCHANGED Tools!vars PROVE UNCHANGED Peer!Pub!vars
  BY <1>3 DEF Tools!vars, Peer!Pub!vars
<1>4. ASSUME Peer!Pub!PublishedRight PROVE Tools!PublishedRight
  BY <1>4 DEF Tools!PublishedRight, Peer!Pub!PublishedRight, Tools!Publishers, Peer!Pub!Publishers, Tools!Held,
    Peer!Pub!Held, Tools!NoSource, Peer!Pub!NoSource, Tools!Cardinality, Peer!Pub!Cardinality
<1> QED BY <1>1, <1>2, <1>3, <1>4

-----------------------------------------------------------------------------
(* What holds of a part holds of the server in that part. *)

In(p) == part = p

Steps == [ServerNext]_<<vars, part, pool>>

\* The part never changes.
LEMMA PartStays == ASSUME NEW p PROVE (Steps /\ In(p) => In(p)') /\ (Steps /\ ~In(p) => ~In(p)')
BY DEF Steps, ServerNext, In

\* For a page and its stream.
LEMMA StreamHolds == ServerSpec => [](In("stream") => Stream!PageCatchesUp /\ Stream!NothingAfterLeaving)
<1>1. ServerInit /\ In("stream") => Peer!Page!Init
  BY SameStream DEF ServerInit, In
<1>2. Steps /\ In("stream") => [Peer!Page!Next]_(Peer!Page!vars)
  <2>1. UNCHANGED pool => UNCHANGED Stream!vars BY DEF pool, Stream!vars
  <2> QED BY <2>1, SameStream DEF Steps, ServerNext, In
<1>3. (Steps /\ In("stream") => In("stream")') /\ (Steps /\ ~In("stream") => ~In("stream")')
  BY PartStays
<1>4. (Peer!Page!PageCatchesUp /\ Peer!Page!NothingAfterLeaving) => (In("stream") => Stream!PageCatchesUp /\ Stream!NothingAfterLeaving)
  BY SameStream
<1>5. Peer!Page!ConstantsOK
  <2>1. Stream!ConstantsOK BY PartConstants
  <2> QED BY <2>1 DEF Stream!ConstantsOK, Peer!Page!ConstantsOK
<1>6. Peer!Page!Spec => [](Peer!Page!PageCatchesUp /\ Peer!Page!NothingAfterLeaving)
  BY <1>5, Peer!PagesAreRight DEF Peer!PageRight
<1> QED BY <1>1, <1>2, <1>3, <1>4, <1>6, PTL DEF ServerSpec, Peer!Page!Spec, Steps

\* For a participant and what is shown of it.
LEMMA TurnsHolds == ServerSpec => [](In("turns") => Turns!ShownRight /\ Turns!NoStaleListing)
<1>1. ServerInit /\ In("turns") => Store!Turns!Init
  BY SameTurns DEF ServerInit, In
<1>2. Steps /\ In("turns") => [Store!Turns!Next]_(Store!Turns!vars)
  <2>1. UNCHANGED pool => UNCHANGED Turns!vars BY DEF pool, Turns!vars
  <2> QED BY <2>1, SameTurns DEF Steps, ServerNext, In
<1>3. (Steps /\ In("turns") => In("turns")') /\ (Steps /\ ~In("turns") => ~In("turns")')
  BY PartStays
<1>4. (Store!Turns!ShownRight /\ Store!Turns!NoStaleListing) => (In("turns") => Turns!ShownRight /\ Turns!NoStaleListing)
  BY SameTurns
<1>5. Store!Turns!ConstantsOK
  <2>1. Turns!ConstantsOK BY PartConstants
  <2> QED BY <2>1 DEF Turns!ConstantsOK, Store!Turns!ConstantsOK, Turns!Relayed, Store!Turns!Relayed
<1>6. Store!Turns!Spec => [](Store!Turns!ShownRight /\ Store!Turns!NoStaleListing)
  BY <1>5, Store!ParticipantsAreShown DEF Store!ParticipantShown
<1> QED BY <1>1, <1>2, <1>3, <1>4, <1>6, PTL DEF ServerSpec, Store!Turns!Spec, Steps

\* For the groups and the rules.
LEMMA RightsHolds == ServerSpec => [](In("rules") => Rights!RuleKeepsHolder)
<1>1. ServerInit /\ In("rules") => Store!Init
  BY SameRights DEF ServerInit, In
<1>2. Steps /\ In("rules") => [Store!Next]_(Store!vars)
  <2>1. UNCHANGED pool => UNCHANGED Rights!vars BY DEF pool, Rights!vars
  <2> QED BY <2>1, SameRights DEF Steps, ServerNext, In
<1>3. (Steps /\ In("rules") => In("rules")') /\ (Steps /\ ~In("rules") => ~In("rules")')
  BY PartStays
<1>4. Store!RuleKeepsHolder => (In("rules") => Rights!RuleKeepsHolder)
  BY SameRights
<1>5. Store!ConstantsOK
  <2>1. Rights!ConstantsOK BY PartConstants
  <2> QED BY <2>1 DEF Rights!ConstantsOK, Store!ConstantsOK
<1>6. Store!Spec => []Store!RuleKeepsHolder
  BY <1>5, Store!RulesKeepTheirHolders
<1> QED BY <1>1, <1>2, <1>3, <1>4, <1>6, PTL DEF ServerSpec, Store!Spec, Steps

\* For the accounts.
LEMMA AccessHolds == ServerSpec => [](In("accounts") => Access!AccountsKept)
<1>1. ServerInit /\ In("accounts") => Store!Acc!Init
  BY SameAccess DEF ServerInit, In
<1>2. Steps /\ In("accounts") => [Store!Acc!Next]_(Store!Acc!vars)
  <2>1. UNCHANGED pool => UNCHANGED Access!vars BY DEF pool, Access!vars
  <2> QED BY <2>1, SameAccess DEF Steps, ServerNext, In
<1>3. (Steps /\ In("accounts") => In("accounts")') /\ (Steps /\ ~In("accounts") => ~In("accounts")')
  BY PartStays
<1>4. Store!Acc!AccountsKept => (In("accounts") => Access!AccountsKept)
  BY SameAccess
<1>6. Store!Acc!Spec => []Store!Acc!AccountsKept
  BY Store!AccountsAreKept
<1> QED BY <1>1, <1>2, <1>3, <1>4, <1>6, PTL DEF ServerSpec, Store!Acc!Spec, Steps

\* For the workers' catalog.
LEMMA CatalogHolds == ServerSpec => [](In("catalog") => Catalog!CatalogRight)
<1>1. ServerInit /\ In("catalog") => Store!Catalog!Init
  BY SameCatalog DEF ServerInit, In
<1>2. Steps /\ In("catalog") => [Store!Catalog!Next]_(Store!Catalog!vars)
  <2>1. UNCHANGED pool => UNCHANGED Catalog!vars BY DEF pool, Catalog!vars
  <2> QED BY <2>1, SameCatalog DEF Steps, ServerNext, In
<1>3. (Steps /\ In("catalog") => In("catalog")') /\ (Steps /\ ~In("catalog") => ~In("catalog")')
  BY PartStays
<1>4. Store!Catalog!CatalogRight => (In("catalog") => Catalog!CatalogRight)
  BY SameCatalog
<1>6. Store!Catalog!Spec => []Store!Catalog!CatalogRight
  BY Store!CatalogsAreRight
<1> QED BY <1>1, <1>2, <1>3, <1>4, <1>6, PTL DEF ServerSpec, Store!Catalog!Spec, Steps

\* For a fork and its reports.
LEMMA ForksHolds == ServerSpec => [](In("forks") => Forks!ReportedOnce)
<1>1. ServerInit /\ In("forks") => Store!Forks!Init
  BY SameForks DEF ServerInit, In
<1>2. Steps /\ In("forks") => [Store!Forks!Next]_(Store!Forks!vars)
  <2>1. UNCHANGED pool => UNCHANGED Forks!vars BY DEF pool, Forks!vars
  <2> QED BY <2>1, SameForks DEF Steps, ServerNext, In
<1>3. (Steps /\ In("forks") => In("forks")') /\ (Steps /\ ~In("forks") => ~In("forks")')
  BY PartStays
<1>4. Store!Forks!ReportedOnce => (In("forks") => Forks!ReportedOnce)
  BY SameForks
<1>5. Store!Forks!ConstantsOK
  <2>1. Forks!ConstantsOK BY PartConstants
  <2> QED BY <2>1 DEF Forks!ConstantsOK, Store!Forks!ConstantsOK
<1>6. Store!Forks!Spec => []Store!Forks!ReportedOnce
  BY <1>5, Store!MessagesAreReportedOnce
<1> QED BY <1>1, <1>2, <1>3, <1>4, <1>6, PTL DEF ServerSpec, Store!Forks!Spec, Steps

\* For the machines on their way in.
LEMMA EnrollHolds == ServerSpec => [](In("enroll") => Enroll!EnrolledRightly)
<1>1. ServerInit /\ In("enroll") => Peer!Init
  BY SameEnroll DEF ServerInit, In
<1>2. Steps /\ In("enroll") => [Peer!Next]_(Peer!vars)
  <2>1. UNCHANGED pool => UNCHANGED Enroll!vars BY DEF pool, Enroll!vars
  <2> QED BY <2>1, SameEnroll DEF Steps, ServerNext, In
<1>3. (Steps /\ In("enroll") => In("enroll")') /\ (Steps /\ ~In("enroll") => ~In("enroll")')
  BY PartStays
<1>4. Peer!EnrolledRightly => (In("enroll") => Enroll!EnrolledRightly)
  BY SameEnroll
<1>5. Peer!ConstantsOK
  <2>1. Enroll!ConstantsOK BY PartConstants
  <2> QED BY <2>1 DEF Enroll!ConstantsOK, Peer!ConstantsOK
<1>6. Peer!Spec => []Peer!EnrolledRightly
  BY <1>5, Peer!MachinesAreRightlyOwned
<1> QED BY <1>1, <1>2, <1>3, <1>4, <1>6, PTL DEF ServerSpec, Peer!Spec, Steps

\* For an MCP server's client.
LEMMA McpHolds == ServerSpec => [](In("mcp") => Mcp!CallsRight)
<1>1. ServerInit /\ In("mcp") => Peer!Mcp!Init
  BY SameMcp DEF ServerInit, In
<1>2. Steps /\ In("mcp") => [Peer!Mcp!Next]_(Peer!Mcp!vars)
  <2>1. UNCHANGED pool => UNCHANGED Mcp!vars BY DEF pool, Mcp!vars
  <2> QED BY <2>1, SameMcp DEF Steps, ServerNext, In
<1>3. (Steps /\ In("mcp") => In("mcp")') /\ (Steps /\ ~In("mcp") => ~In("mcp")')
  BY PartStays
<1>4. Peer!Mcp!CallsRight => (In("mcp") => Mcp!CallsRight)
  BY SameMcp
<1>5. Peer!Mcp!ConstantsOK
  <2>1. Mcp!ConstantsOK BY PartConstants
  <2> QED BY <2>1 DEF Mcp!ConstantsOK, Peer!Mcp!ConstantsOK
<1>6. Peer!Mcp!Spec => []Peer!Mcp!CallsRight
  BY <1>5, Peer!CallsAreRight
<1> QED BY <1>1, <1>2, <1>3, <1>4, <1>6, PTL DEF ServerSpec, Peer!Mcp!Spec, Steps

\* For the tools of the MCP servers.
LEMMA ToolsHolds == ServerSpec => [](In("servers") => Tools!PublishedRight)
<1>1. ServerInit /\ In("servers") => Peer!Pub!Init
  BY SameTools DEF ServerInit, In
<1>2. Steps /\ In("servers") => [Peer!Pub!Next]_(Peer!Pub!vars)
  <2>1. UNCHANGED pool => UNCHANGED Tools!vars BY DEF pool, Tools!vars
  <2> QED BY <2>1, SameTools DEF Steps, ServerNext, In
<1>3. (Steps /\ In("servers") => In("servers")') /\ (Steps /\ ~In("servers") => ~In("servers")')
  BY PartStays
<1>4. Peer!Pub!PublishedRight => (In("servers") => Tools!PublishedRight)
  BY SameTools
<1>5. Peer!Pub!ConstantsOK
  <2>1. Tools!ConstantsOK BY PartConstants
  <2> QED BY <2>1 DEF Tools!ConstantsOK, Peer!Pub!ConstantsOK, Tools!NoSource, Peer!Pub!NoSource,
    Tools!BuiltIn, Peer!Pub!BuiltIn, Tools!Cardinality, Peer!Pub!Cardinality
<1>6. Peer!Pub!Spec => []Peer!Pub!PublishedRight
  BY <1>5, Peer!PublishedAsRegistered
<1> QED BY <1>1, <1>2, <1>3, <1>4, <1>6, PTL DEF ServerSpec, Peer!Pub!Spec, Steps

-----------------------------------------------------------------------------
\* A page caught up with its stream shows every change published, and nobody
\* is sent an event of a session after their leaving was told (sse/hub.go,
\* relaySSE).
THEOREM PagesAreRight == ServerSpec => []PageRight
<1>1. (In("stream") => Stream!PageCatchesUp /\ Stream!NothingAfterLeaving) => PageRight
  BY DEF In, PageRight
<1> QED BY <1>1, StreamHolds, PTL

\* With its events come, a participant is shown as it is, and no listing read
\* before an action is kept after it (session/turns.go, session/status.go).
THEOREM ParticipantsAreShown == ServerSpec => []ParticipantShown
<1>1. (In("turns") => Turns!ShownRight /\ Turns!NoStaleListing) => ParticipantShown
  BY DEF In, ParticipantShown
<1> QED BY <1>1, TurnsHolds, PTL

\* No deletion of a group leaves a rule without a holder it was given, an
\* active admin is left, and no session outlives its password
\* (store/access.go, web/admin/users.go, store/users.go).
THEOREM RightsAreKept == ServerSpec => []RightsKept
<1>1. (In("rules") => Rights!RuleKeepsHolder) /\ (In("accounts") => Access!AccountsKept) => RightsKept
  BY DEF In, RightsKept
<1> QED BY <1>1, RightsHolds, AccessHolds, PTL

\* A turn is given no tool closed to its user since before the catalog read
\* the rights, and the admins are told once of a rule that lost its targets
\* (activity/catalog.go, cmd/agent/access.go).
THEOREM CatalogsAreRight == ServerSpec => []CatalogRight
<1>1. (In("catalog") => Catalog!CatalogRight) => CatalogRight
  BY DEF In, CatalogRight
<1> QED BY <1>1, CatalogHolds, PTL

\* Every message to report is in one report and no more, a call with its
\* result, and a fork has one summary (store/report.go, session/report.go).
THEOREM MessagesAreReportedOnce == ServerSpec => []ReportedOnce
<1>1. (In("forks") => Forks!ReportedOnce) => ReportedOnce
  BY DEF In, ReportedOnce
<1> QED BY <1>1, ForksHolds, PTL

\* An enrollment makes one machine, of the user who was shown it, held by one
\* directory (gateway/enroll.go, store/machine.go).
THEOREM MachinesAreRightlyOwned == ServerSpec => []EnrolledRightly
<1>1. (In("enroll") => Enroll!EnrolledRightly) => EnrolledRightly
  BY DEF In, EnrolledRightly
<1> QED BY <1>1, EnrollHolds, PTL

\* A tool call is run once at most and its answer is its own, no session is
\* left open that the client no longer holds, and the tools table agrees with
\* the worker's registry or is to be tried again (tool/mcp.go,
\* tool/mcp_servers.go).
THEOREM McpToolsAreServed == ServerSpec => []McpToolsServed
<1>1. (In("mcp") => Mcp!CallsRight) /\ (In("servers") => Tools!PublishedRight) => McpToolsServed
  BY DEF In, McpToolsServed
<1> QED BY <1>1, McpHolds, ToolsHolds, PTL
=============================================================================
