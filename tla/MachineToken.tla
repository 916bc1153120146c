---------------------------- MODULE MachineToken ----------------------------
(***************************************************************************)
(* The rotation of one machine's token (store/machine.go, gateway/conn.go, *)
(* machine/connect): at each connection the gateway gives the machine its  *)
(* next token, and keeps the one presented valid until the machine says    *)
(* it wrote the next; a token replaced for good, presented again, revokes  *)
(* the machine: a copy of it exists.                                       *)
(*                                                                         *)
(* A connection's handler outlives its client: either side may be gone     *)
(* while the other goes on.  Tokens are numbered as they are issued, 0 is  *)
(* none ("").                                                              *)
(***************************************************************************)
EXTENDS Integers, FiniteSets

CONSTANTS
  Conns,    \* the connections, each made once
  NoConn,   \* no connection
  Holders,  \* the directories that may hold the token: the machine's, copies of it
  Home,     \* the machine's own
  Overlap   \* whether a client connects again while the gateway still holds
            \* an earlier connection of its own not yet registered

ASSUME TokenAssumption ==
  /\ IsFiniteSet(Conns) /\ NoConn \notin Conns
  /\ Home \in Holders
  /\ Overlap \in BOOLEAN

VARIABLES
  current, prev,  \* the machine's row: token_hash, prev_token_hash
  retired,        \* machine_retired_tokens
  revoked,        \* "no", or why it is revoked
  issued,         \* the tokens issued so far
  reg,            \* the connection the gateway holds for the machine (g.conns)
  conn,           \* conn[c]: where its handler stands, and what it holds
  rotate,         \* connections whose `rotate` the client has still to read
  rotated,        \* connections whose `rotated` the gateway has still to read
  disk,           \* disk[h]: the token of h's config; 0 when h holds none
  session,        \* session[h]: the connection h's client is on
  stopped         \* holders whose client stopped for good: refused

row == <<current, prev, retired, revoked, issued>>
wire == <<rotate, rotated>>
client == <<disk, session, stopped>>
vars == <<row, reg, conn, wire, client>>

Stages == {"unused", "found", "pinging", "waiting", "registered", "ready", "over"}

TypeOK ==
  /\ current \in Nat /\ prev \in Nat /\ issued \in Nat
  /\ retired \subseteq 1..issued
  /\ revoked \in {"no", "owner", "reused"}
  /\ reg \in Conns \cup {NoConn}
  /\ conn \in [Conns -> [stage : Stages, by : Holders, presented : Nat, next : Nat,
                         old : Conns \cup {NoConn}]]
  /\ rotate \subseteq Conns /\ rotated \subseteq Conns
  /\ disk \in [Holders -> Nat]
  /\ session \in [Holders -> Conns \cup {NoConn}]
  /\ stopped \subseteq Holders

\* Enrolled: the first token, on the machine's disk alone.
Init ==
  /\ current = 1 /\ prev = 0 /\ retired = {} /\ revoked = "no" /\ issued = 1
  /\ reg = NoConn
  /\ conn = [c \in Conns |-> [stage |-> "unused", by |-> Home, presented |-> 0, next |-> 0,
                              old |-> NoConn]]
  /\ rotate = {} /\ rotated = {}
  /\ disk = [h \in Holders |-> IF h = Home THEN 1 ELSE 0]
  /\ session = [h \in Holders |-> NoConn]
  /\ stopped = {}

To(c, stage) == conn' = [conn EXCEPT ![c].stage = stage]
Pending(c) == conn[c].stage \in {"found", "pinging", "waiting"}
Valid(t) == t # 0 /\ t \in {current, prev}

\* unregister: the handler returns; what its client sent is not read any more.
End(c) ==
  /\ To(c, "over")
  /\ reg' = IF reg = c THEN NoConn ELSE reg
  /\ rotated' = rotated \ {c}

\* The client on a connection refused for good stops, if it is still there.
On(c) == {h \in Holders : c # NoConn /\ session[h] = c}

----------------------------------------------------------------------------
(* The machine's row: rotateTokens, confirmToken, RevokeMachine. *)

\* Mutant: the token presented is replaced at once.
RotateTokensAtOnce(presented, next) ==
  /\ current' = next
  /\ prev' = 0
  /\ retired' = retired \cup ({current, prev} \ {0})

\* rotateTokens: the token presented stays valid beside the next one; what
\* else was valid is retired.
RotateTokens(presented, next) ==
  /\ current' = next
  /\ prev' = presented
  /\ retired' = retired \cup ({current, prev} \ {presented, 0})

\* confirmToken: of the current token only, the one it replaces is retired.
ConfirmToken(token) ==
  IF Valid(token) /\ token = current
  THEN prev' = 0 /\ retired' = retired \cup ({prev} \ {0})
  ELSE UNCHANGED <<prev, retired>>

\* Mutant: the tokens of a revoked machine are forgotten, not retired.
RevokeMachineBare(why) ==
  /\ revoked' = why /\ current' = 0 /\ prev' = 0 /\ UNCHANGED retired

RevokeMachine(why) ==
  /\ revoked' = why /\ current' = 0 /\ prev' = 0
  /\ retired' = retired \cup ({current, prev} \ {0})

----------------------------------------------------------------------------
(* The client: session. *)

\* A connection with the token on disk.  ServeConnect looks it up: one of the
\* machine's tokens goes on to its hello.
Dial(h, c) ==
  /\ conn[c].stage = "unused" /\ session[h] = NoConn /\ h \notin stopped /\ disk[h] # 0
  /\ Overlap \/ \A d \in Conns : ~(Pending(d) /\ conn[d].by = h)
  /\ Valid(disk[h])
  /\ conn' = [conn EXCEPT ![c] = [@ EXCEPT !.stage = "found", !.by = h, !.presented = disk[h]]]
  /\ session' = [session EXCEPT ![h] = c]
  /\ UNCHANGED <<row, reg, wire, disk, stopped>>

\* One it replaced revokes it, once: the connection the gateway holds is cut,
\* its client told.  The client that dialed, answered 401, stops.
DialRefused(h) ==
  /\ session[h] = NoConn /\ h \notin stopped /\ disk[h] # 0
  /\ ~Valid(disk[h])
  /\ IF disk[h] \in retired /\ revoked = "no"
     THEN RevokeMachine("reused") /\ stopped' = stopped \cup {h} \cup On(reg)
     ELSE stopped' = stopped \cup {h} /\ UNCHANGED <<revoked, current, prev, retired>>
  /\ UNCHANGED <<issued, reg, conn, wire, disk, session>>

\* The client reads `rotate`: the token is written, then confirmed; or it
\* stops in between; or it cannot be written, and nothing is said.
ReadRotate(h) ==
  /\ session[h] \in rotate
  /\ rotate' = rotate \ {session[h]}
  /\ \/ /\ disk' = [disk EXCEPT ![h] = conn[session[h]].next]
        /\ rotated' = IF conn[session[h]].stage = "over" THEN rotated
                      ELSE rotated \cup {session[h]}
        /\ UNCHANGED session
     \/ /\ disk' = [disk EXCEPT ![h] = conn[session[h]].next]
        /\ session' = [session EXCEPT ![h] = NoConn]
        /\ UNCHANGED rotated
     \/ UNCHANGED <<disk, rotated, session>>
  /\ UNCHANGED <<row, reg, conn, stopped>>

\* The connection drops, or the client crashes and starts again.
Leave(h) ==
  /\ session[h] # NoConn
  /\ session' = [session EXCEPT ![h] = NoConn]
  /\ UNCHANGED <<row, reg, conn, wire, disk, stopped>>

\* The machine's directory is copied (a disk cloned, a backup restored).
Copy(h) ==
  /\ h # Home /\ disk[h] = 0
  /\ disk' = [disk EXCEPT ![h] = disk[Home]]
  /\ UNCHANGED <<row, reg, conn, wire, session, stopped>>

----------------------------------------------------------------------------
(* The gateway: serve, register, unregister. *)

\* The hello is read (its client may be gone since), and register looks for
\* another connection of the machine; or no hello came.
Register(c) ==
  /\ conn[c].stage = "found"
  /\ \/ reg = NoConn /\ reg' = c /\ To(c, "registered")
     \/ /\ reg # NoConn
        /\ conn' = [conn EXCEPT ![c].stage = "pinging", ![c].old = reg]
        /\ UNCHANGED reg
     \/ To(c, "over") /\ UNCHANGED reg
  /\ UNCHANGED <<row, wire, client>>

\* The older connection answers its ping: both are cut.
CutBoth(c) ==
  /\ conn[c].stage = "pinging"
  /\ LET o == conn[c].old IN
       /\ \E h \in Holders : session[h] = o
       /\ conn[o].stage # "over"
       /\ conn' = [conn EXCEPT ![c].stage = "over", ![o].stage = "over"]
       /\ reg' = IF reg = o THEN NoConn ELSE reg
       /\ rotated' = rotated \ {o}
  /\ UNCHANGED <<row, rotate, client>>

\* It does not answer, in time at least: it is closed, and waited for.
PingFails(c) ==
  /\ conn[c].stage = "pinging"
  /\ To(c, "waiting")
  /\ UNCHANGED <<row, reg, wire, client>>

\* Mutant: the connection takes its place, whoever holds it since.
FreeAnyway(c) == TRUE

\* Nobody registered meanwhile.
Free(c) == reg = NoConn

\* Once the older one has returned.
Replace(c) ==
  /\ conn[c].stage = "waiting" /\ conn[conn[c].old].stage = "over"
  /\ \/ Free(c) /\ reg' = c /\ To(c, "registered")
     \/ ~Free(c) /\ To(c, "over") /\ UNCHANGED reg
  /\ UNCHANGED <<row, wire, client>>

\* RotateMachineToken, then the welcome and the rotate.
Rotate(c) ==
  /\ conn[c].stage = "registered" /\ Valid(conn[c].presented)
  /\ issued' = issued + 1
  /\ RotateTokens(conn[c].presented, issued')
  /\ conn' = [conn EXCEPT ![c].stage = "ready", ![c].next = issued']
  /\ rotate' = rotate \cup {c}
  /\ UNCHANGED <<revoked, reg, rotated, client>>

\* Neither of the machine's tokens any more: closed for good (4001).
RotateRefused(c) ==
  /\ conn[c].stage = "registered" /\ ~Valid(conn[c].presented)
  /\ stopped' = stopped \cup On(c)
  /\ End(c)
  /\ UNCHANGED <<row, rotate, disk, session>>

\* The database failed: it may have rotated, and the machine knows nothing.
RotateFails(c) ==
  /\ conn[c].stage = "registered"
  /\ \/ /\ Valid(conn[c].presented)
        /\ issued' = issued + 1
        /\ RotateTokens(conn[c].presented, issued')
     \/ UNCHANGED <<current, prev, retired, issued>>
  /\ End(c)
  /\ UNCHANGED <<revoked, rotate, client>>

\* readLoop reads `rotated`: the rotation ends; or the database failed, which
\* is only logged.
Confirm(c) ==
  /\ conn[c].stage = "ready" /\ c \in rotated
  /\ rotated' = rotated \ {c}
  /\ ConfirmToken(conn[c].next) \/ UNCHANGED <<prev, retired>>
  /\ UNCHANGED <<current, revoked, issued, reg, conn, rotate, client>>

\* The handler finds its connection closed: by its client, its ping, a newer
\* connection, a revocation.
HandlerEnds(c) ==
  /\ conn[c].stage = "ready"
  /\ End(c)
  /\ UNCHANGED <<row, rotate, client>>

\* The server stops: every handler returns.
GatewayRestart ==
  /\ \E c \in Conns : conn[c].stage \notin {"unused", "over"}
  /\ conn' = [c \in Conns |-> IF conn[c].stage = "unused" THEN conn[c]
                              ELSE [conn[c] EXCEPT !.stage = "over"]]
  /\ reg' = NoConn
  /\ rotated' = {}
  /\ UNCHANGED <<row, rotate, client>>

\* Revoke: by its owner; as above.
OwnerRevokes ==
  /\ revoked = "no"
  /\ RevokeMachine("owner")
  /\ stopped' = stopped \cup On(reg)
  /\ UNCHANGED <<issued, reg, conn, wire, disk, session>>

----------------------------------------------------------------------------
Client(h) ==
  \/ \E c \in Conns : Dial(h, c)
  \/ DialRefused(h) \/ ReadRotate(h) \/ Leave(h) \/ Copy(h)

Handler(c) ==
  \/ Register(c) \/ CutBoth(c) \/ PingFails(c) \/ Replace(c)
  \/ Rotate(c) \/ RotateRefused(c) \/ RotateFails(c) \/ Confirm(c) \/ HandlerEnds(c)

Next ==
  \/ \E h \in Holders : Client(h)
  \/ \E c \in Conns : Handler(c)
  \/ GatewayRestart \/ OwnerRevokes

Spec == Init /\ [][Next]_vars

----------------------------------------------------------------------------
(* Properties. *)

Copied == \E h \in Holders \ {Home} : disk[h] # 0

\* A machine whose directory nobody copied is never taken for a copy: however
\* it, its connections and the gateway fail in the middle of a rotation, the
\* token on its disk is one the database accepts, and its client goes on, unless
\* its owner revoked it (rotateTokens' comment: "a machine that crashes in between connects again
\* with it").
NeverLockedOut ==
  ~Copied => /\ revoked # "reused"
             /\ revoked = "no" => Valid(disk[Home]) /\ Home \notin stopped

\* A token replaced for good stays refused, and one that was ever valid and is
\* not any more is recognised when it is presented again.
RetiredRecognised ==
  /\ {current, prev} \cap retired = {}
  /\ \A h \in Holders : disk[h] # 0 => Valid(disk[h]) \/ disk[h] \in retired

\* One machine, one connection: two handlers never both hold it registered.
OneConnection ==
  \A c, d \in Conns :
    (conn[c].stage \in {"registered", "ready"} /\ conn[d].stage \in {"registered", "ready"})
      => c = d

=============================================================================
