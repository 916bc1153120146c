--------------------------- MODULE DirectiveProofs ---------------------------
(* Proofs about Directive, for any directives, connections and bounds. *)
EXTENDS Directive, FiniteSetTheorems, SequenceTheorems, TLAPS

\* Each end of a connection, as it says it is.
Conned ==
  /\ gconn = NoConn <=> gstage = "none"
  /\ gconn = NoConn => sends = {} /\ marks = {} /\ writes = {}
  /\ marks \cap writes = {}
  /\ cstage = "off" <=> cconn = NoConn

\* The rows: under the cap, none open for a machine revoked, nothing sent or
\* kept of one not reserved.
Rows ==
  /\ CapHeld /\ RevokedHoldsNone
  /\ \A d \in Directives : row[d].state = "absent" => row[d].sent = NoConn /\ row[d].result = "none"

\* A result on its way, from the disk to the row, is the machine's.
Said ==
  /\ \A d \in Directives :
       /\ d \in kept \/ job[d] = "ended" \/ res[d].at = "got" => out[d] # "none"
       /\ res[d].at \in {"finish", "completed", "gone"} => row[d].result # "none"
  /\ \A c \in Conns : \A d \in up[c] : out[d] # "none"

\* The activity got what the row's result makes of it.
Took(d) ==
  \/ row[d].result = "ok" /\ activity[d] = "ok"
  \/ row[d].result = "error" /\ activity[d] = "failed"
  \/ row[d].result = "canceled" /\ activity[d] \in {"canceled", "failed"}
  \/ row[d].result = "stopping" /\ activity[d] = "stopping"
  \/ row[d].result = "refused" /\ activity[d] = "refused"

\* A completion recorded was made.
Agreed ==
  /\ \A d \in Directives :
       /\ worker[d] = "no" => activity[d] = "none"
       /\ res[d].at = "completed" => Took(d)
  /\ EndsAgree

\* The i-th message to the machine on c hands d over.
InFlight(c, i, d) ==
  /\ i \in 1..Len(down[c])
  /\ down[c][i].type = "directive" /\ down[c][i].id = d

\* About to be written.
ToWrite == marks \cup writes

\* A directive runs, is on its way, or is about to be written, one of them
\* only, and not before it is marked sent.
Once ==
  \A d \in Directives :
    /\ runs[d] <= 1
    /\ row[d].sent = NoConn => d \notin ToWrite /\ runs[d] = 0
    /\ d \in ToWrite => runs[d] = 0
    /\ \A c \in Conns : \A i \in Nat : InFlight(c, i, d) =>
         /\ row[d].sent # NoConn /\ d \notin ToWrite /\ runs[d] = 0
         /\ \A b \in Conns : \A j \in Nat : InFlight(b, j, d) => b = c /\ j = i

IInv == TypeOK /\ Conned /\ Rows /\ Said /\ Agreed /\ Once

\* A directive over stays so.
ClosesStep ==
  \A d \in Directives : row[d].state \in Ends => row'[d].state = row[d].state

----------------------------------------------------------------------------
(* What the writes of a row do. *)

LEMMA RowFields ==
  ASSUME NEW r \in Row
  PROVE  /\ r.state \in Ends \cup {"absent", "reserved", "running"} /\ r.token \in BOOLEAN
         /\ r.sent \in Conns \cup {NoConn} /\ r.result \in Statuses \cup {"none"}
  BY DEF Row

LEMMA AbsentRow == Absent \in Row /\ Free \in Claim /\ NoHello \in Hello
  BY DEF Absent, Row, Free, Claim, NoHello, Hello, Ends, Statuses

\* Rows that change their state only by being closed.
OnlyClosed ==
  /\ row' \in [Directives -> Row]
  /\ \A d \in Directives :
       /\ row'[d].state = row[d].state \/ (Open(d) /\ row'[d].state \in Ends)
       /\ row[d].state = "absent" => row'[d] = row[d]

\* Some were closed, in a state of S, and no more was written of them.
RowsClosed(S) ==
  /\ OnlyClosed
  /\ \A d \in Directives :
       /\ row'[d].sent = row[d].sent /\ row'[d].result = row[d].result
       /\ row'[d].state # row[d].state => row'[d].state \in S

LEMMA RowsClosedSame ==
  ASSUME TypeOK, row' = row
  PROVE  \A S : RowsClosed(S)
  BY DEF RowsClosed, OnlyClosed, TypeOK

\* CloseDirective closes one row, and changes nothing else of it.
LEMMA ClosedRow ==
  ASSUME TypeOK, NEW d \in Directives, NEW state \in Ends, row' \in {row, Closed(d, state)}
  PROVE  RowsClosed({state}) /\ \A e \in Directives \ {d} : row'[e] = row[e]
<1>1. CASE row' = row
  BY <1>1, RowsClosedSame
<1>2. CASE Open(d) /\ row' = [row EXCEPT ![d].state = state]
  <2>1. row[d] \in Row
    BY DEF TypeOK
  <2>2. [row[d] EXCEPT !.state = state] \in Row
    BY <2>1 DEF Row
  <2>3. row' \in [Directives -> Row]
    BY <1>2, <2>2 DEF TypeOK
  <2>4. /\ row'[d].state = state /\ row'[d].sent = row[d].sent /\ row'[d].result = row[d].result
        /\ \A e \in Directives \ {d} : row'[e] = row[e]
    BY <1>2, <2>1 DEF TypeOK, Row
  <2>5. row[d].state # "absent"
    BY <1>2 DEF Open
  <2> QED BY <1>2, <2>3, <2>4, <2>5 DEF RowsClosed, OnlyClosed
<1> QED BY <1>1, <1>2 DEF Closed

\* PickMachine reserves a row nobody had.
LEMMA ReserveRow ==
  ASSUME TypeOK, NEW d \in Directives, row' = Reserve(d)
  PROVE  /\ row' \in [Directives -> Row] /\ row'[d].state = "reserved"
         /\ row'[d].sent = NoConn /\ row'[d].result = "none"
         /\ \A e \in Directives \ {d} : row'[e] = row[e]
<1> DEFINE r == [Absent EXCEPT !.state = "reserved"]
<1>1. r \in Row /\ r.state = "reserved" /\ r.sent = NoConn /\ r.result = "none"
  BY DEF Absent, Row, Ends, Statuses
<1> HIDE DEF r
<1>2. row' = [row EXCEPT ![d] = r]
  BY DEF Reserve, r
<1> QED BY <1>1, <1>2 DEF TypeOK

\* StartDirective sets it running.
LEMMA StartedRow ==
  ASSUME TypeOK, NEW d \in Directives, row' = Started(d)
  PROVE  /\ row' \in [Directives -> Row] /\ row'[d].state = "running"
         /\ row'[d].sent = row[d].sent /\ row'[d].result = row[d].result
         /\ \A e \in Directives \ {d} : row'[e] = row[e]
<1> DEFINE r == [row[d] EXCEPT !.state = "running", !.token = TRUE]
<1>1. row[d] \in Row
  BY DEF TypeOK
<1>2. r \in Row /\ r.state = "running" /\ r.sent = row[d].sent /\ r.result = row[d].result
  BY <1>1 DEF Row
<1>3. row' = [row EXCEPT ![d] = r]
  BY DEF Started, TypeOK
<1> HIDE DEF r
<1> QED BY <1>2, <1>3 DEF TypeOK

\* The cap and the revocation, when no row is opened.
LEMMA OpenKeeps ==
  ASSUME Rows, \A d \in Directives : Open(d)' => Open(d)
  PROVE  CapHeld'
<1> DEFINE S == {d \in Directives : Open(d)}
           T == {d \in Directives : Open(d)'}
<1>1. T \subseteq S /\ S \subseteq Directives
  OBVIOUS
<1>2. IsFiniteSet(S)
  BY <1>1, DirectiveAssumption, FS_Subset
<1>3. Cardinality(T) <= Cardinality(S) /\ Cardinality(T) \in Nat /\ Cardinality(S) \in Nat
  BY <1>1, <1>2, FS_Subset, FS_CardinalityType
<1>4. Cardinality(S) <= MaxDirectives
  BY DEF Rows, CapHeld
<1>5. Cardinality(T) <= MaxDirectives
  BY <1>3, <1>4, DirectiveAssumption
<1> QED BY <1>5 DEF CapHeld

LEMMA RowsKeep ==
  ASSUME IInv, OnlyClosed, revoked' = revoked
  PROVE  Rows' /\ ClosesStep
<1>1. \A d \in Directives : Open(d)' => Open(d)
  BY DEF OnlyClosed, Open, Ends
<1>2. CapHeld'
  BY <1>1, OpenKeeps DEF IInv
<1>3. RevokedHoldsNone'
  BY <1>1 DEF IInv, Rows, RevokedHoldsNone
<1>4. \A d \in Directives : row'[d].state = "absent" => row'[d].sent = NoConn /\ row'[d].result = "none"
  BY DEF IInv, Rows, OnlyClosed, Ends
<1>5. ClosesStep
  BY DEF ClosesStep, OnlyClosed, Open, Ends
<1> QED BY <1>2, <1>3, <1>4, <1>5 DEF Rows

----------------------------------------------------------------------------
(* What the messages do. *)

\* No directive is handed over anew: each that is in a queue was in it, some
\* places further on.
NoneNew ==
  \A c \in Conns : \E k \in Nat : \A i \in 1..Len(down'[c]) :
    down'[c][i].type = "directive" => i + k \in 1..Len(down[c]) /\ down'[c][i] = down[c][i + k]

LEMMA OnceKeeps ==
  ASSUME IInv, TypeOK', NoneNew, marks' \subseteq marks, writes' \subseteq writes, runs' = runs,
         \A d \in Directives : row'[d].sent = row[d].sent
  PROVE  Once'
<1>0. ToWrite' \subseteq ToWrite
  BY DEF ToWrite
<1> SUFFICES ASSUME NEW d \in Directives
             PROVE  /\ runs[d] <= 1
                    /\ row[d].sent = NoConn => d \notin ToWrite' /\ runs[d] = 0
                    /\ d \in ToWrite' => runs[d] = 0
                    /\ \A c \in Conns : \A i \in Nat : InFlight(c, i, d)' =>
                         /\ row[d].sent # NoConn /\ d \notin ToWrite' /\ runs[d] = 0
                         /\ \A b \in Conns : \A j \in Nat : InFlight(b, j, d)' => b = c /\ j = i
  BY DEF Once
<1>1. /\ runs[d] <= 1
      /\ row[d].sent = NoConn => d \notin ToWrite' /\ runs[d] = 0
      /\ d \in ToWrite' => runs[d] = 0
  BY <1>0 DEF IInv, Once
<1>2. ASSUME NEW c \in Conns, NEW i \in Nat, InFlight(c, i, d)'
      PROVE  /\ row[d].sent # NoConn /\ d \notin ToWrite' /\ runs[d] = 0
             /\ \A b \in Conns : \A j \in Nat : InFlight(b, j, d)' => b = c /\ j = i
  <2>1. PICK k \in Nat : \A n \in 1..Len(down'[c]) : down'[c][n].type = "directive" =>
            n + k \in 1..Len(down[c]) /\ down'[c][n] = down[c][n + k]
    BY DEF NoneNew
  <2>2. i + k \in Nat /\ InFlight(c, i + k, d)
    BY <1>2, <2>1 DEF InFlight
  <2>3. row[d].sent # NoConn /\ d \notin ToWrite' /\ runs[d] = 0
    BY <1>0, <2>2 DEF IInv, Once
  <2>4. ASSUME NEW b \in Conns, NEW j \in Nat, InFlight(b, j, d)'
        PROVE  b = c /\ j = i
    <3>1. PICK m \in Nat : \A n \in 1..Len(down'[b]) : down'[b][n].type = "directive" =>
              n + m \in 1..Len(down[b]) /\ down'[b][n] = down[b][n + m]
      BY DEF NoneNew
    <3>2. j + m \in Nat /\ InFlight(b, j + m, d)
      BY <2>4, <3>1 DEF InFlight
    <3>3. b = c
      BY <2>2, <3>2 DEF IInv, Once
    <3>4. j + k \in Nat /\ InFlight(c, j + k, d)
      BY <2>1, <2>4, <3>3 DEF InFlight
    <3>5. j + k = i + k
      BY <2>2, <3>4 DEF IInv, Once
    <3> QED BY <3>3, <3>5
  <2> QED BY <2>3, <2>4
<1> QED BY <1>1, <1>2

LEMMA SameQuiet ==
  ASSUME TypeOK, down' = down
  PROVE  NoneNew
<1> SUFFICES ASSUME NEW c \in Conns
             PROVE  \E k \in Nat : \A i \in 1..Len(down[c]) : down[c][i].type = "directive" =>
                      i + k \in 1..Len(down[c]) /\ down[c][i] = down[c][i + k]
  BY DEF NoneNew
<1>1. down[c] \in Seq(Frame) /\ Len(down[c]) \in Nat
  BY DEF TypeOK
<1>2. \A i \in 1..Len(down[c]) : i + 0 = i
  BY <1>1
<1> WITNESS 0 \in Nat
<1> QED BY <1>2

\* Messages about directives, none of which hands one over.
Quiet(ms) == ms \in Seq(Frame) /\ \A i \in 1..Len(ms) : ms[i].type # "directive"

LEMMA WriteQuiet ==
  ASSUME TypeOK, NEW ms, Quiet(ms), Write(ms)
  PROVE  down' \in [Conns -> Seq(Frame)] /\ NoneNew
<1>1. CASE down' = down
  BY <1>1, SameQuiet DEF TypeOK
<1>2. CASE gconn # NoConn /\ down' = [down EXCEPT ![gconn] = down[gconn] \o ms]
  <2>1. gconn \in Conns /\ down[gconn] \in Seq(Frame) /\ ms \in Seq(Frame)
    BY <1>2 DEF TypeOK, Quiet
  <2>2. /\ down[gconn] \o ms \in Seq(Frame)
        /\ Len(down[gconn] \o ms) = Len(down[gconn]) + Len(ms)
        /\ \A i \in 1..Len(down[gconn] \o ms) :
             (down[gconn] \o ms)[i] = IF i <= Len(down[gconn]) THEN down[gconn][i]
                                      ELSE ms[i - Len(down[gconn])]
    BY <2>1
  <2>3. down' \in [Conns -> Seq(Frame)]
    BY <1>2, <2>1, <2>2 DEF TypeOK
  <2>4. ASSUME NEW c \in Conns
        PROVE  \A i \in 1..Len(down'[c]) : down'[c][i].type = "directive" =>
                 i + 0 \in 1..Len(down[c]) /\ down'[c][i] = down[c][i + 0]
    <3>1. CASE c # gconn
      <4>1. down'[c] = down[c] /\ down[c] \in Seq(Frame)
        BY <1>2, <3>1 DEF TypeOK
      <4> QED BY <4>1
    <3>2. CASE c = gconn
      <4>1. down'[c] = down[gconn] \o ms
        BY <1>2, <3>2 DEF TypeOK
      <4> SUFFICES ASSUME NEW i \in 1..Len(down[gconn] \o ms),
                          (down[gconn] \o ms)[i].type = "directive"
                   PROVE  i + 0 \in 1..Len(down[gconn])
                          /\ (down[gconn] \o ms)[i] = down[gconn][i + 0]
        BY <4>1, <3>2
      <4>2. Len(down[gconn]) \in Nat /\ Len(ms) \in Nat
        BY <2>1
      <4>3. i <= Len(down[gconn])
        <5> SUFFICES ASSUME ~(i <= Len(down[gconn])) PROVE FALSE
          OBVIOUS
        <5>1. i - Len(down[gconn]) \in 1..Len(ms)
          BY <2>2, <4>2
        <5> QED BY <2>2, <5>1 DEF Quiet
      <4> QED BY <2>2, <4>2, <4>3
    <3> QED BY <3>1, <3>2
  <2>5. NoneNew
    BY <2>4 DEF NoneNew
  <2> QED BY <2>3, <2>5
<1> QED BY <1>1, <1>2 DEF Write

LEMMA FrameQuiet ==
  ASSUME NEW type \in {"cancel", "ack"}, NEW d \in Directives
  PROVE  Quiet(<<Message(type, d)>>) /\ Quiet(<<>>)
<1>1. Message(type, d) \in Frame /\ Message(type, d).type # "directive"
  BY DEF Message, Frame, Types
<1>2. <<Message(type, d)>> \in Seq(Frame) /\ Len(<<Message(type, d)>>) = 1
      /\ <<Message(type, d)>>[1] = Message(type, d)
  BY <1>1
<1>3. Quiet(<<Message(type, d)>>)
  BY <1>1, <1>2 DEF Quiet
<1>4. Quiet(<<>>)
  BY DEF Quiet
<1> QED BY <1>3, <1>4

LEMMA TellQuiet ==
  ASSUME NEW type \in {"cancel", "ack"}, NEW S \in SUBSET Directives, NEW ms \in Tell(type, S)
  PROVE  Quiet(ms)
<1> DEFINE T == {Message(type, d) : d \in S}
<1>1. IsFiniteSet(S)
  BY DirectiveAssumption, FS_Subset
<1>2. IsFiniteSet(T)
  <2> DEFINE f == [d \in S |-> Message(type, d)]
  <2>1. f \in Surjection(S, T)
    BY DEF Surjection
  <2> QED BY <1>1, <2>1, FS_Surjection
<1>3. \A m \in T : m \in Frame /\ m.type # "directive"
  BY DEF Message, Frame, Types
<1> HIDE DEF T
<1>4. ms \in [1..Cardinality(T) -> T]
  BY DEF Tell, SetToSeqs, T
<1>5. Cardinality(T) \in Nat
  BY <1>2, FS_CardinalityType
<1>6. ms \in Seq(Frame) /\ Len(ms) = Cardinality(T)
  BY <1>3, <1>4, <1>5
<1> QED BY <1>3, <1>4, <1>5, <1>6 DEF Quiet

LEMMA ConcatQuiet ==
  ASSUME NEW s, NEW t, Quiet(s), Quiet(t)
  PROVE  Quiet(s \o t)
<1>1. s \in Seq(Frame) /\ t \in Seq(Frame)
  BY DEF Quiet
<1>2. /\ s \o t \in Seq(Frame) /\ Len(s \o t) = Len(s) + Len(t) /\ Len(s) \in Nat /\ Len(t) \in Nat
      /\ \A i \in 1..Len(s \o t) : (s \o t)[i] = IF i <= Len(s) THEN s[i] ELSE t[i - Len(s)]
  BY <1>1
<1> SUFFICES ASSUME NEW i \in 1..Len(s \o t) PROVE (s \o t)[i].type # "directive"
  BY <1>2 DEF Quiet
<1>3. CASE i <= Len(s)
  BY <1>2, <1>3 DEF Quiet
<1>4. CASE ~(i <= Len(s))
  <2>1. i - Len(s) \in 1..Len(t)
    BY <1>2, <1>4
  <2> QED BY <1>2, <1>4, <2>1 DEF Quiet
<1> QED BY <1>3, <1>4

\* The messages of a connection that ends are lost.
LEMMA DisconnectQuiet ==
  ASSUME TypeOK, Disconnect
  PROVE  down' \in [Conns -> Seq(Frame)] /\ NoneNew
<1>1. CASE down' = down
  BY <1>1, SameQuiet DEF TypeOK
<1>2. CASE cconn # NoConn /\ down' = [down EXCEPT ![cconn] = <<>>]
  <2>1. down' \in [Conns -> Seq(Frame)]
    BY <1>2 DEF TypeOK
  <2>2. ASSUME NEW c \in Conns
        PROVE  \A i \in 1..Len(down'[c]) : down'[c][i].type = "directive" =>
                 i + 0 \in 1..Len(down[c]) /\ down'[c][i] = down[c][i + 0]
    <3>1. CASE c = cconn
      <4>1. down'[c] = <<>>
        BY <1>2, <3>1 DEF TypeOK
      <4> QED BY <4>1
    <3>2. CASE c # cconn
      <4>1. down'[c] = down[c] /\ down[c] \in Seq(Frame)
        BY <1>2, <3>2 DEF TypeOK
      <4> QED BY <4>1
    <3> QED BY <3>1, <3>2
  <2> QED BY <2>1, <2>2 DEF NoneNew
<1> QED BY <1>1, <1>2 DEF Disconnect


----------------------------------------------------------------------------
(* The parts of the invariant that a step leaves alone. *)

LEMMA ConnedSame ==
  ASSUME IInv, UNCHANGED <<gconn, gstage, sends, marks, writes, cconn, cstage>>
  PROVE  Conned'
  BY DEF IInv, Conned

LEMMA RowsSame ==
  ASSUME IInv, row' = row, revoked' = revoked
  PROVE  Rows' /\ ClosesStep
<1>1. OnlyClosed
  BY DEF IInv, TypeOK, OnlyClosed
<1> QED BY <1>1, RowsKeep

LEMMA SaidSame ==
  ASSUME IInv, UNCHANGED <<kept, job, res, row, up, out>>
  PROVE  Said'
  BY DEF IInv, Said

LEMMA AgreedSame ==
  ASSUME IInv, UNCHANGED <<worker, activity, res, row>>
  PROVE  Agreed'
  BY DEF IInv, Agreed, EndsAgree, Took

LEMMA OnceSame ==
  ASSUME IInv, UNCHANGED <<row, ToWrite, down, runs>>
  PROVE  Once'
  BY DEF IInv, Once, InFlight

\* Said, when rows are only closed.
LEMMA SaidRows ==
  ASSUME IInv, NEW S, RowsClosed(S), UNCHANGED <<kept, job, res, up, out>>
  PROVE  Said'
  BY DEF IInv, Said, RowsClosed

\* The ends that no result gives.
Quietly == {"lost", "gone", "failed", "expired", "orphaned", "revoked"}

\* An activity over stays as it is.
ActivityKept ==
  \A d \in Directives :
    /\ activity[d] \notin {"none", "open"} => activity'[d] = activity[d]
    /\ worker'[d] = "no" => worker[d] = "no" /\ activity'[d] = activity[d]

LEMMA AgreedKeeps ==
  ASSUME IInv, RowsClosed(Quietly), ActivityKept,
         \A d \in Directives : res'[d].at = "completed" => res[d].at = "completed"
  PROVE  Agreed'
<1>1. \A d \in Directives : Took(d) => Took(d)'
  BY DEF Took, ActivityKept, RowsClosed
<1>2. \A d \in Directives :
        (worker'[d] = "no" => activity'[d] = "none") /\ (res'[d].at = "completed" => Took(d)')
  BY <1>1 DEF IInv, Agreed, ActivityKept
<1>3. EndsAgree'
  BY DEF IInv, Agreed, EndsAgree, ActivityKept, RowsClosed, Quietly
<1> QED BY <1>2, <1>3 DEF Agreed


\* What EndActivity leaves of the activities.
LEMMA EndActivityKept ==
  ASSUME IInv, NEW d \in Directives, NEW outcome \in Outcomes, EndActivity(d, outcome)
  PROVE  /\ activity' \in [Directives -> Outcomes \cup {"none", "open"}]
         /\ \A e \in Directives :
              /\ activity[e] # "open" => activity'[e] = activity[e]
              /\ activity'[e] # activity[e] => e = d /\ activity'[e] = outcome
  BY DEF EndActivity, IInv, TypeOK, Set, Outcomes

\* What a claim's step leaves of it.
LEMMA ClaimStep ==
  ASSUME TypeOK, NEW d \in Directives, NEW at \in {"none", "got", "finish", "completed", "gone"},
         res' = Set(res, d, [res[d] EXCEPT !.at = at])
  PROVE  /\ res' \in [Directives -> Claim] /\ res'[d].at = at
         /\ \A e \in Directives \ {d} : res'[e] = res[e]
<1>1. res[d] \in Claim
  BY DEF TypeOK
<1>2. [res[d] EXCEPT !.at = at] \in Claim /\ [res[d] EXCEPT !.at = at].at = at
  BY <1>1 DEF Claim
<1> QED BY <1>2 DEF Set, TypeOK

LEMMA ClaimFreed ==
  ASSUME TypeOK, NEW d \in Directives, res' = Set(res, d, Free)
  PROVE  /\ res' \in [Directives -> Claim] /\ res'[d].at = "none"
         /\ \A e \in Directives \ {d} : res'[e] = res[e]
<1>1. Free \in Claim /\ Free.at = "none"
  BY AbsentRow DEF Free
<1> QED BY <1>1 DEF Set, TypeOK

\* The worker moves on, or does not.
LEMMA WorkerStep ==
  ASSUME TypeOK, NEW d \in Directives, NEW at \in {"no", "picked", "handing", "closing", "out"},
         worker' = worker \/ worker' = Set(worker, d, at)
  PROVE  worker' \in [Directives -> {"no", "picked", "handing", "closing", "out"}]
  BY DEF Set, TypeOK

\* An ack hands nothing over.
LEMMA AckQuiet ==
  ASSUME TypeOK, NEW d \in Directives, Ack(d)
  PROVE  /\ down' \in [Conns -> Seq(Frame)] /\ NoneNew
         /\ carried' \subseteq Directives /\ told' \subseteq Directives /\ early' \subseteq Directives
<1>1. carried' \subseteq Directives /\ told' \subseteq Directives /\ early' \subseteq Directives
  BY DEF Ack, Detach, TypeOK
<1>2. CASE down' = down
  BY <1>1, <1>2, SameQuiet DEF TypeOK
<1>3. CASE Write(<<Message("ack", d)>>)
  BY <1>1, <1>3, FrameQuiet, WriteQuiet
<1> QED BY <1>2, <1>3 DEF Ack

LEMMA PickMachineKeeps ==
  ASSUME NEW d \in Directives, IInv, PickMachine(d)
  PROVE  IInv' /\ ClosesStep
<1> USE DEF PickMachine, Fault, Set, temporal, conn, gateway, session, wire, disk, machine, bounds
<1>1. \/ row' = row
      \/ /\ row[d].state = "absent" /\ row' = Reserve(d)
         /\ ~revoked /\ HasRoom
  BY DEF Pickable
<1>2. /\ row' \in [Directives -> Row]
      /\ \A e \in Directives : row'[e].sent = row[e].sent /\ row'[e].result = row[e].result
      /\ \A e \in Directives : row'[e].state # row[e].state =>
           e = d /\ row[e].state = "absent" /\ row'[e].state = "reserved"
      /\ ClosesStep
  <2>1. CASE row' = row
    BY <2>1 DEF IInv, TypeOK, ClosesStep
  <2>2. CASE row[d].state = "absent" /\ row' = Reserve(d)
    <3>1. row[d].sent = NoConn /\ row[d].result = "none"
      BY <2>2 DEF IInv, Rows
    <3> QED BY <2>2, <3>1, ReserveRow DEF IInv, ClosesStep, Ends
  <2> QED BY <1>1, <2>1, <2>2
<1>3. TypeOK'
  <2>1. worker' \in [Directives -> {"no", "picked", "handing", "closing", "out"}]
    <3>1. worker' = worker \/ \E at \in {"picked", "out"} : worker' = Set(worker, d, at)
      OBVIOUS
    <3> HIDE DEF Set
    <3> QED BY <3>1, WorkerStep DEF IInv
  <2>2. activity' \in [Directives -> Outcomes \cup {"none", "open"}]
    BY DEF IInv, TypeOK
  <2> QED BY <1>2, <2>1, <2>2 DEF IInv, TypeOK
<1>4. Conned'
  BY ConnedSame
<1>5. Rows'
  <2>1. CASE row' = row
    BY <2>1, RowsSame
  <2>2. CASE row[d].state = "absent" /\ row' = Reserve(d) /\ ~revoked /\ HasRoom
    <3> DEFINE S == {e \in Directives : Open(e)}
               T == {e \in Directives : Open(e)'}
    <3>1. row'[d].state = "reserved" /\ \A e \in Directives \ {d} : row'[e] = row[e]
      BY <2>2, ReserveRow DEF IInv
    <3>2. T = S \cup {d} /\ d \notin S
      BY <2>2, <3>1 DEF Open
    <3>3. IsFiniteSet(S)
      BY DirectiveAssumption, FS_Subset
    <3>4. Cardinality(T) = Cardinality(S) + 1 /\ Cardinality(S) \in Nat
      BY <3>2, <3>3, FS_AddElement, FS_CardinalityType
    <3>5. Cardinality(S) < MaxDirectives
      BY <2>2 DEF HasRoom
    <3>6. Cardinality(T) <= MaxDirectives
      BY <3>4, <3>5, DirectiveAssumption
    <3>7. CapHeld' /\ RevokedHoldsNone'
      BY <2>2, <3>6 DEF CapHeld, RevokedHoldsNone
    <3>8. \A e \in Directives : row'[e].state = "absent" =>
             row'[e].sent = NoConn /\ row'[e].result = "none"
      BY <3>1 DEF IInv, Rows
    <3> QED BY <3>7, <3>8 DEF Rows
  <2> QED BY <1>1, <2>1, <2>2
<1>6. Said'
  BY <1>2 DEF IInv, Said
<1>7. Agreed'
  <2>1. \A e \in Directives : activity[e] # "none" => activity'[e] = activity[e]
    BY DEF IInv, TypeOK, Agreed
  <2>2. \A e \in Directives : Took(e) => Took(e)'
    BY <1>2, <2>1 DEF Took
  <2>3. EndsAgree'
    BY <1>2, <2>1 DEF IInv, Agreed, EndsAgree
  <2>4. \A e \in Directives : worker'[e] = "no" => activity'[e] = "none"
    BY DEF IInv, TypeOK, Agreed
  <2> QED BY <2>2, <2>3, <2>4 DEF IInv, Agreed
<1>8. Once'
  BY <1>2, <1>3, SameQuiet, OnceKeeps DEF IInv
<1> QED BY <1>2, <1>3, <1>4, <1>5, <1>6, <1>7, <1>8 DEF IInv

LEMMA NoMachineKeeps ==
  ASSUME NEW d \in Directives, IInv, NoMachine(d)
  PROVE  IInv' /\ ClosesStep
<1> USE DEF NoMachine, Set, temporal, conn, gateway, session, wire, disk, machine, bounds
<1>1. TypeOK'
  <2>1. worker' \in [Directives -> {"no", "picked", "handing", "closing", "out"}]
    BY DEF IInv, TypeOK
  <2> QED BY <2>1 DEF IInv, TypeOK
<1>2. Conned' /\ Rows' /\ ClosesStep /\ Said' /\ Once'
  BY ConnedSame, RowsSame, SaidSame, OnceSame DEF ToWrite
<1>3. Agreed'
  <2>1. ActivityKept
    BY EndActivityKept DEF ActivityKept, IInv, TypeOK
  <2> QED BY <2>1, RowsClosedSame, AgreedKeeps DEF IInv
<1> QED BY <1>1, <1>2, <1>3 DEF IInv

LEMMA StartDirectiveKeeps ==
  ASSUME NEW d \in Directives, IInv, StartDirective(d)
  PROVE  IInv' /\ ClosesStep
<1> USE DEF StartDirective, Fault, Set, temporal, conn, gateway, session, wire, disk, machine, bounds
<1>1. row' = row \/ (row[d].state = "reserved" /\ row' = Started(d))
  OBVIOUS
<1>2. /\ row' \in [Directives -> Row]
      /\ \A e \in Directives : row'[e].sent = row[e].sent /\ row'[e].result = row[e].result
      /\ \A e \in Directives : row'[e].state # row[e].state =>
           e = d /\ row[e].state = "reserved" /\ row'[e].state = "running"
  <2>1. CASE row' = row
    BY <2>1 DEF IInv, TypeOK
  <2>2. CASE row[d].state = "reserved" /\ row' = Started(d)
    BY <2>2, StartedRow DEF IInv
  <2> QED BY <1>1, <2>1, <2>2
<1>3. /\ activity' \in [Directives -> Outcomes \cup {"none", "open"}]
      /\ \A e \in Directives : activity[e] # "open" => activity'[e] = activity[e]
  <2>1. activity' = activity \/ \E outcome \in Outcomes : EndActivity(d, outcome)
    BY DEF Outcomes
  <2> QED BY <2>1, EndActivityKept DEF IInv, TypeOK
<1>4. TypeOK'
  <2>1. worker' \in [Directives -> {"no", "picked", "handing", "closing", "out"}]
    <3>1. worker' = worker \/ \E at \in {"handing", "out"} : worker' = Set(worker, d, at)
      OBVIOUS
    <3> HIDE DEF Set
    <3> QED BY <3>1, WorkerStep DEF IInv
  <2>2. faults' \in Nat
    BY DEF IInv, TypeOK
  <2> QED BY <1>2, <1>3, <2>1, <2>2 DEF IInv, TypeOK
<1>5. Conned'
  BY ConnedSame
<1>6. Rows' /\ ClosesStep
  <2>1. \A e \in Directives : Open(e)' => Open(e)
    BY <1>2 DEF Open
  <2>2. CapHeld' /\ RevokedHoldsNone'
    BY <2>1, OpenKeeps DEF IInv, Rows, RevokedHoldsNone
  <2>3. ClosesStep
    BY <1>2 DEF ClosesStep, Ends
  <2> QED BY <1>2, <2>2, <2>3 DEF IInv, Rows
<1>7. Said'
  BY <1>2 DEF IInv, Said
<1>8. Agreed'
  <2>1. \A e \in Directives : Took(e) => Took(e)'
    BY <1>2, <1>3 DEF Took
  <2>2. EndsAgree'
    BY <1>2, <1>3 DEF IInv, Agreed, EndsAgree
  <2>3. \A e \in Directives : worker'[e] = "no" => activity'[e] = "none"
    BY <1>3 DEF IInv, TypeOK, Agreed
  <2> QED BY <2>1, <2>2, <2>3 DEF IInv, Agreed
<1>9. Once'
  BY <1>2, <1>4, SameQuiet, OnceKeeps DEF IInv
<1> QED BY <1>4, <1>5, <1>6, <1>7, <1>8, <1>9 DEF IInv

LEMMA DeliverKeeps ==
  ASSUME NEW d \in Directives, IInv, Deliver(d)
  PROVE  IInv' /\ ClosesStep
<1> USE DEF Deliver, Fault, Set, temporal, conn, gateway, session, wire, disk, machine, bounds
<1>1. TypeOK'
  <2>1. worker' \in [Directives -> {"no", "picked", "handing", "closing", "out"}]
    <3>1. worker' = worker \/ \E at \in {"out", "closing"} : worker' = Set(worker, d, at)
      OBVIOUS
    <3> HIDE DEF Set
    <3> QED BY <3>1, WorkerStep DEF IInv
  <2> QED BY <2>1 DEF IInv, TypeOK
<1>2. Rows' /\ ClosesStep /\ Said' /\ Once'
  BY RowsSame, SaidSame, OnceSame DEF ToWrite
<1>3. Conned'
  BY DEF IInv, Conned, TypeOK
<1>4. Agreed'
  <2>1. ActivityKept
    BY EndActivityKept DEF ActivityKept, IInv, TypeOK
  <2> QED BY <2>1, RowsClosedSame, AgreedKeeps DEF IInv
<1> QED BY <1>1, <1>2, <1>3, <1>4 DEF IInv

LEMMA NotHandedKeeps ==
  ASSUME NEW d \in Directives, IInv, NotHanded(d)
  PROVE  IInv' /\ ClosesStep
<1> USE DEF NotHanded, Fault, Set, EndActivity, temporal, conn, gateway, session, wire, disk, machine, bounds
<1>1. RowsClosed(Quietly)
  <2>1. row' \in {row, Closed(d, "failed")}
    OBVIOUS
  <2> QED BY <2>1, ClosedRow DEF IInv, Ends, RowsClosed, Quietly
<1>2. TypeOK'
  <2>1. worker' \in [Directives -> {"no", "picked", "handing", "closing", "out"}]
    BY DEF IInv, TypeOK
  <2>2. activity' \in [Directives -> Outcomes \cup {"none", "open"}]
    BY EndActivityKept DEF IInv, TypeOK, Outcomes
  <2> QED BY <1>1, <2>1, <2>2 DEF IInv, TypeOK, RowsClosed, OnlyClosed
<1>3. Conned'
  BY ConnedSame
<1>4. Rows' /\ ClosesStep
  BY <1>1, RowsKeep DEF RowsClosed
<1>5. Said'
  BY <1>1, SaidRows
<1>6. Agreed'
  <2>1. ActivityKept
    BY EndActivityKept DEF ActivityKept, IInv, TypeOK, Outcomes
  <2> QED BY <1>1, <2>1, AgreedKeeps
<1>7. Once'
  BY <1>2, <1>1, SameQuiet, OnceKeeps DEF IInv, RowsClosed
<1> QED BY <1>1, <1>2, <1>3, <1>4, <1>5, <1>6, <1>7 DEF IInv

LEMMA CancelActivityKeeps ==
  ASSUME NEW d \in Directives, IInv, CancelActivity(d)
  PROVE  IInv' /\ ClosesStep
<1> USE DEF CancelActivity, Set, temporal, conn, gateway, session, wire, disk, machine, bounds
<1>1. TypeOK'
  <2>1. worker' \in [Directives -> {"no", "picked", "handing", "closing", "out"}]
    <3>1. worker' = worker \/ \E at \in {"out"} : worker' = Set(worker, d, at)
      OBVIOUS
    <3> HIDE DEF Set
    <3> QED BY <3>1, WorkerStep DEF IInv
  <2>2. activity' \in [Directives -> Outcomes \cup {"none", "open"}]
    BY DEF IInv, TypeOK, Outcomes
  <2>3. cancelReq' \in [Directives -> BOOLEAN]
    BY DEF IInv, TypeOK
  <2> QED BY <2>1, <2>2, <2>3 DEF IInv, TypeOK
<1>2. Conned' /\ Rows' /\ ClosesStep /\ Said' /\ Once'
  BY ConnedSame, RowsSame, SaidSame, OnceSame DEF ToWrite
<1>3. Agreed'
  <2>1. ActivityKept
    BY EndActivityKept DEF ActivityKept, IInv, TypeOK
  <2> QED BY <2>1, RowsClosedSame, AgreedKeeps DEF IInv
<1> QED BY <1>1, <1>2, <1>3 DEF IInv

LEMMA DeadlinePassesKeeps ==
  ASSUME NEW d \in Directives, IInv, DeadlinePasses(d)
  PROVE  IInv' /\ ClosesStep
<1> USE DEF DeadlinePasses, Set, temporal, conn, gateway, session, wire, disk, machine, bounds
<1>1. TypeOK'
  BY  DEF IInv, TypeOK
<1>2. Conned' /\ Rows' /\ ClosesStep /\ Said' /\ Agreed' /\ Once'
  BY ConnedSame, RowsSame, SaidSame, AgreedSame, OnceSame DEF ToWrite
<1> QED BY <1>1, <1>2 DEF IInv

LEMMA TimeoutKeeps ==
  ASSUME NEW d \in Directives, IInv, Timeout(d)
  PROVE  IInv' /\ ClosesStep
<1> USE DEF Timeout, Set, temporal, conn, gateway, session, wire, disk, machine, bounds
<1>1. TypeOK'
  <2>1. activity' \in [Directives -> Outcomes \cup {"none", "open"}]
    BY DEF IInv, TypeOK, Outcomes
  <2> QED BY <2>1 DEF IInv, TypeOK
<1>2. Conned' /\ Rows' /\ ClosesStep /\ Said' /\ Once'
  BY ConnedSame, RowsSame, SaidSame, OnceSame DEF ToWrite
<1>3. Agreed'
  <2>1. ActivityKept
    BY DEF ActivityKept, IInv, TypeOK, Agreed
  <2> QED BY <2>1, RowsClosedSame, AgreedKeeps DEF IInv
<1> QED BY <1>1, <1>2, <1>3 DEF IInv

LEMMA HelloResultsKeeps ==
  ASSUME NEW c \in Conns, IInv, HelloResults(c)
  PROVE  IInv' /\ ClosesStep
<1> USE DEF HelloResults, temporal, conn, gateway, session, wire, disk, machine, bounds
<1>1. TypeOK'
  <2>1. hello' \in [Conns -> Hello]
    <3>1. hello[c] \in Hello
      BY DEF IInv, TypeOK
    <3>2. [hello[c] EXCEPT !.finished = kept] \in Hello
      BY <3>1 DEF IInv, TypeOK, Hello
    <3> QED BY <3>2 DEF IInv, TypeOK
  <2> QED BY <2>1 DEF IInv, TypeOK
<1>2. Rows' /\ ClosesStep /\ Said' /\ Agreed' /\ Once'
  BY RowsSame, SaidSame, AgreedSame, OnceSame DEF ToWrite
<1>3. Conned'
  BY DirectiveAssumption DEF IInv, Conned, TypeOK
<1> QED BY <1>1, <1>2, <1>3 DEF IInv

LEMMA HelloJobsKeeps ==
  ASSUME IInv, HelloJobs
  PROVE  IInv' /\ ClosesStep
<1> USE DEF HelloJobs, temporal, conn, gateway, session, wire, disk, machine, bounds
<1>1. TypeOK'
  <2>1. hello' \in [Conns -> Hello]
    <3>1. cconn \in Conns /\ hello[cconn] \in Hello
      BY DEF IInv, TypeOK, Conned
    <3>2. [hello[cconn] EXCEPT !.running = Jobs] \in Hello
      BY <3>1 DEF Hello, Jobs
    <3> QED BY <3>1, <3>2 DEF IInv, TypeOK, Jobs
  <2> QED BY <2>1 DEF IInv, TypeOK
<1>2. Rows' /\ ClosesStep /\ Said' /\ Agreed' /\ Once'
  BY RowsSame, SaidSame, AgreedSame, OnceSame DEF ToWrite
<1>3. Conned'
  BY DEF IInv, Conned, TypeOK
<1> QED BY <1>1, <1>2, <1>3 DEF IInv

LEMMA RegisterKeeps ==
  ASSUME NEW c \in Conns, IInv, Register(c)
  PROVE  IInv' /\ ClosesStep
<1> USE DEF Register, temporal, conn, gateway, session, wire, disk, machine, bounds
<1>1. TypeOK'
  <2>1. down' \in [Conns -> Seq(Frame)]
    <3>1. <<Message("welcome", Nothing)>> \in Seq(Frame)
      BY DEF Message, Frame, Types
    <3> QED BY <3>1 DEF IInv, TypeOK
  <2> QED BY <2>1 DEF IInv, TypeOK
<1>2. Rows' /\ ClosesStep /\ Agreed'
  BY RowsSame, AgreedSame
<1>3. Conned'
  BY DirectiveAssumption DEF IInv, Conned, TypeOK
<1>4. Said'
  BY DEF IInv, TypeOK, Said
<1>5. Once'
  <2>1. CASE down' = down
    BY <1>1, <2>1, SameQuiet, OnceKeeps DEF IInv
  <2>2. CASE down' = [down EXCEPT ![c] = <<Message("welcome", Nothing)>>]
    <3>1. ASSUME NEW x \in Conns
          PROVE  \A i \in 1..Len(down'[x]) : down'[x][i].type = "directive" =>
                   i + 0 \in 1..Len(down[x]) /\ down'[x][i] = down[x][i + 0]
      <4>1. CASE x = c
        <5>1. down'[x] = <<Message("welcome", Nothing)>>
          BY <2>2, <4>1 DEF IInv, TypeOK
        <5> QED BY <5>1 DEF Message
      <4>2. CASE x # c
        <5>1. down'[x] = down[x] /\ down[x] \in Seq(Frame)
          BY <2>2, <4>2 DEF IInv, TypeOK
        <5> QED BY <5>1
      <4> QED BY <4>1, <4>2
    <3>2. NoneNew
      BY <3>1 DEF NoneNew
    <3> QED BY <1>1, <3>2, OnceKeeps DEF IInv
  <2> QED BY <2>1, <2>2
<1> QED BY <1>1, <1>2, <1>3, <1>4, <1>5 DEF IInv

LEMMA RegisterFailsKeeps ==
  ASSUME NEW c \in Conns, IInv, RegisterFails(c)
  PROVE  IInv' /\ ClosesStep
<1> USE DEF RegisterFails, temporal, conn, gateway, session, wire, disk, machine, bounds
<1>1. TypeOK'
  <2>1. hello' \in [Conns -> Hello]
    BY AbsentRow DEF IInv, TypeOK
  <2> QED BY <2>1 DEF IInv, TypeOK
<1>2. Conned' /\ Rows' /\ ClosesStep /\ Agreed' /\ Once'
  BY ConnedSame, RowsSame, AgreedSame, OnceSame DEF ToWrite
<1>3. Said'
  BY DEF IInv, TypeOK, Said
<1> QED BY <1>1, <1>2, <1>3 DEF IInv

LEMMA ReconcileKeeps ==
  ASSUME IInv, Reconcile
  PROVE  IInv' /\ ClosesStep
<1> USE DEF Reconcile, Fault, EndConn, temporal, conn, gateway, session, wire, disk, machine, bounds
<1> DEFINE open == {d \in Directives : Running(d)}
<1>1. gconn \in Conns /\ hello[gconn] \in Hello
  BY DEF IInv, TypeOK, Conned
<1>2. hello[gconn].running \subseteq Directives /\ hello[gconn].finished \subseteq Directives
  BY <1>1 DEF Hello
<1>3. down' \in [Conns -> Seq(Frame)] /\ NoneNew
  <2>1. CASE down' = down
    BY <2>1, SameQuiet DEF IInv, TypeOK
  <2>2. CASE \E stop \in Tell("cancel", hello[gconn].running \ open),
                drop \in Tell("ack", hello[gconn].finished \ open) : Write(stop \o drop)
    <3>1. PICK stop \in Tell("cancel", hello[gconn].running \ open),
               drop \in Tell("ack", hello[gconn].finished \ open) : Write(stop \o drop)
      BY <2>2
    <3>2. Quiet(stop) /\ Quiet(drop)
      BY <1>2, TellQuiet
    <3>3. Quiet(stop \o drop)
      BY <3>2, ConcatQuiet
    <3> QED BY <3>1, <3>3, WriteQuiet DEF IInv
  <2> QED BY <2>1, <2>2
<1>4. /\ hello' \in [Conns -> Hello] /\ up' \in [Conns -> SUBSET Directives]
      /\ \A c \in Conns : up'[c] \subseteq up[c]
  BY AbsentRow DEF IInv, TypeOK
<1>5. TypeOK'
  <2>1. carried' \subseteq Directives /\ sends' \subseteq Directives /\ loses' \subseteq Directives
    BY DEF IInv, TypeOK
  <2>2. faults' \in Nat
    BY DEF IInv, TypeOK
  <2> QED BY <1>3, <1>4, <2>1, <2>2 DEF IInv, TypeOK
<1>6. Conned'
  BY <1>1, DirectiveAssumption DEF IInv, Conned
<1>7. Rows' /\ ClosesStep /\ Agreed'
  BY RowsSame, AgreedSame
<1>8. Said'
  BY <1>4 DEF IInv, Said
<1>9. Once'
  BY <1>3, <1>5, OnceKeeps DEF IInv
<1> QED BY <1>5, <1>6, <1>7, <1>8, <1>9 DEF IInv

LEMMA ReconciledKeeps ==
  ASSUME IInv, Reconciled
  PROVE  IInv' /\ ClosesStep
<1> USE DEF Reconciled, temporal, conn, gateway, session, wire, disk, machine, bounds
<1>1. TypeOK'
  BY  DEF IInv, TypeOK
<1>2. Rows' /\ ClosesStep /\ Said' /\ Agreed' /\ Once'
  BY RowsSame, SaidSame, AgreedSame, OnceSame DEF ToWrite
<1>3. Conned'
  BY DEF IInv, Conned, TypeOK
<1> QED BY <1>1, <1>2, <1>3 DEF IInv

LEMMA MarkSentKeeps ==
  ASSUME NEW d \in Directives, IInv, MarkSent(d)
  PROVE  IInv' /\ ClosesStep
<1> USE DEF MarkSent, Fault, temporal, conn, gateway, session, wire, disk, machine, bounds
<1>1. \/ row' = row /\ marks' = marks
      \/ /\ Running(d) /\ row[d].sent = NoConn
         /\ row' = [row EXCEPT ![d].sent = gconn] /\ marks' \in {marks, marks \cup {d}}
  BY DEF Sendable
<1>2. gconn \in Conns /\ gconn # NoConn
  BY DirectiveAssumption DEF IInv, TypeOK, Conned
<1>3. /\ row' \in [Directives -> Row]
      /\ \A e \in Directives : row'[e].state = row[e].state /\ row'[e].result = row[e].result
      /\ \A e \in Directives : row[e].state = "absent" => row'[e] = row[e]
      /\ \A e \in Directives \ {d} : row'[e] = row[e]
      /\ row'[d].sent \in {row[d].sent, gconn}
      /\ row' # row => row'[d].sent = gconn
  <2>1. CASE row' = row
    BY <2>1 DEF IInv, TypeOK
  <2>2. CASE Running(d) /\ row' = [row EXCEPT ![d].sent = gconn]
    <3>1. row[d] \in Row
      BY DEF IInv, TypeOK
    <3>2. [row[d] EXCEPT !.sent = gconn] \in Row
      BY <1>2, <3>1 DEF Row
    <3>3. row'[d] = [row[d] EXCEPT !.sent = gconn] /\ \A e \in Directives \ {d} : row'[e] = row[e]
      BY <2>2 DEF IInv, TypeOK
    <3>4. /\ row'[d].state = row[d].state /\ row'[d].result = row[d].result
          /\ row'[d].sent = gconn /\ row[d].state = "running"
      BY <2>2, <3>1, <3>3 DEF Row, Running
    <3> QED BY <2>2, <3>2, <3>3, <3>4 DEF IInv, TypeOK
  <2> QED BY <1>1, <2>1, <2>2
<1>4. TypeOK'
  <2>1. sends' \subseteq Directives /\ marks' \subseteq Directives /\ faults' \in Nat
    BY DEF IInv, TypeOK
  <2> QED BY <1>3, <2>1 DEF IInv, TypeOK
<1>5. Conned'
  <2>1. row[d].sent = NoConn => d \notin writes
    BY DEF IInv, Once, ToWrite
  <2> QED BY <1>1, <1>2, <2>1 DEF IInv, Conned
<1>6. Rows' /\ ClosesStep
  BY <1>3, RowsKeep DEF OnlyClosed
<1>7. Said'
  BY <1>3 DEF IInv, Said
<1>8. Agreed'
  BY <1>3 DEF IInv, Agreed, EndsAgree, Took
<1>9. Once'
  <2>1. CASE row' = row /\ marks' = marks
    BY <2>1, OnceSame DEF ToWrite
  <2>2. CASE /\ Running(d) /\ row[d].sent = NoConn
             /\ row' = [row EXCEPT ![d].sent = gconn] /\ marks' \in {marks, marks \cup {d}}
    <3>1. row'[d].sent = gconn /\ \A e \in Directives \ {d} : row'[e].sent = row[e].sent
      <4>1. row[d] \in Row
        BY DEF IInv, TypeOK
      <4> QED BY <2>2, <4>1 DEF IInv, TypeOK, Row
    <3>2. runs[d] = 0 /\ d \notin ToWrite /\ \A c \in Conns : \A i \in Nat : ~InFlight(c, i, d)
      BY <2>2 DEF IInv, Once
    <3>3. \A c \in Conns : \A i \in Nat : \A e \in Directives : InFlight(c, i, e)' = InFlight(c, i, e)
      BY DEF InFlight
    <3>4. \A e \in Directives \ {d} : e \in ToWrite' <=> e \in ToWrite
      BY <2>2 DEF ToWrite
    <3> QED BY <1>2, <3>1, <3>2, <3>3, <3>4 DEF IInv, Once
  <2> QED BY <1>1, <2>1, <2>2
<1> QED BY <1>4, <1>5, <1>6, <1>7, <1>8, <1>9 DEF IInv

LEMMA AttachKeeps ==
  ASSUME NEW d \in Directives, IInv, Attach(d)
  PROVE  IInv' /\ ClosesStep
<1> USE DEF Attach, temporal, conn, gateway, session, wire, disk, machine, bounds
<1>1. TypeOK'
  BY DEF IInv, TypeOK
<1>2. Rows' /\ ClosesStep /\ Said' /\ Agreed'
  BY RowsSame, SaidSame, AgreedSame
<1>3. Conned'
  BY DEF IInv, Conned
<1>4. Once'
  <2>1. ToWrite' = ToWrite
    BY DEF ToWrite
  <2> QED BY <2>1, OnceSame
<1> QED BY <1>1, <1>2, <1>3, <1>4 DEF IInv

LEMMA WriteDirectiveKeeps ==
  ASSUME NEW d \in Directives, IInv, WriteDirective(d)
  PROVE  IInv' /\ ClosesStep
<1> USE DEF WriteDirective, temporal, conn, gateway, session, wire, disk, machine, bounds
<1> DEFINE m == Message("directive", d)
<1>1. m \in Frame
  BY DEF Message, Frame, Types
<1>2. /\ down' \in [Conns -> Seq(Frame)]
      /\ \A c \in Conns : \A i \in 1..Len(down'[c]) :
           \/ i \in 1..Len(down[c]) /\ down'[c][i] = down[c][i]
           \/ c = gconn /\ i = Len(down[c]) + 1 /\ down'[c][i] = m
  <2>1. CASE down' = down
    BY <2>1 DEF IInv, TypeOK
  <2>2. CASE gconn # NoConn /\ down' = [down EXCEPT ![gconn] = down[gconn] \o <<m>>]
    <3>1. gconn \in Conns /\ down[gconn] \in Seq(Frame)
      BY <2>2 DEF IInv, TypeOK
    <3> HIDE DEF m
    <3>2. /\ down[gconn] \o <<m>> \in Seq(Frame)
          /\ Len(down[gconn] \o <<m>>) = Len(down[gconn]) + 1
          /\ \A i \in 1..Len(down[gconn]) : (down[gconn] \o <<m>>)[i] = down[gconn][i]
          /\ (down[gconn] \o <<m>>)[Len(down[gconn]) + 1] = m
      BY <1>1, <3>1
    <3>3. /\ down' \in [Conns -> Seq(Frame)] /\ down'[gconn] = down[gconn] \o <<m>>
          /\ \A c \in Conns \ {gconn} : down'[c] = down[c]
      BY <2>2, <3>1, <3>2 DEF IInv, TypeOK
    <3>4. \A i \in 1..Len(down'[gconn]) : i \in 1..Len(down[gconn]) \/ i = Len(down[gconn]) + 1
      BY <3>1, <3>2, <3>3
    <3> QED BY <3>2, <3>3, <3>4
  <2> QED BY <2>1, <2>2 DEF Write
<1>3. TypeOK'
  BY <1>2 DEF IInv, TypeOK
<1>4. Rows' /\ ClosesStep /\ Said' /\ Agreed'
  BY RowsSame, SaidSame, AgreedSame
<1>5. Conned'
  BY DEF IInv, Conned
<1>6. Once'
  <2>1. row[d].sent # NoConn /\ runs[d] = 0 /\ \A c \in Conns : \A i \in Nat : ~InFlight(c, i, d)
    BY DEF IInv, Once, ToWrite
  <2>3. d \notin ToWrite' /\ \A e \in Directives \ {d} : e \in ToWrite' <=> e \in ToWrite
    BY DEF IInv, Conned, ToWrite
  <2>2. \A c \in Conns : \A i \in Nat : \A e \in Directives : InFlight(c, i, e)' =>
           InFlight(c, i, e) \/ (e = d /\ c = gconn /\ i = Len(down[gconn]) + 1)
    BY <1>2 DEF InFlight, Message
  <2> QED BY <2>1, <2>2, <2>3 DEF IInv, Once
<1> QED BY <1>3, <1>4, <1>5, <1>6 DEF IInv

LEMMA LoseKeeps ==
  ASSUME NEW d \in Directives, IInv, Lose(d)
  PROVE  IInv' /\ ClosesStep
<1> USE DEF Lose, Fault, temporal, conn, gateway, session, wire, disk, machine, bounds
<1>1. RowsClosed(Quietly)
  <2>1. row' \in {row, Closed(d, "lost")}
    OBVIOUS
  <2> QED BY <2>1, ClosedRow DEF IInv, Ends, RowsClosed, Quietly
<1>2. TypeOK'
  <2>1. ending' \in SUBSET (Directives \X {"lost", "revoked"})
    BY DEF IInv, TypeOK
  <2> QED BY <1>1, <2>1 DEF IInv, TypeOK, RowsClosed, OnlyClosed
<1>3. Conned'
  BY ConnedSame
<1>4. Rows' /\ ClosesStep
  BY <1>1, RowsKeep DEF RowsClosed
<1>5. Said'
  BY <1>1, SaidRows
<1>6. Agreed'
  <2>1. ActivityKept
    BY EndActivityKept DEF ActivityKept, IInv, TypeOK
  <2> QED BY <1>1, <2>1, AgreedKeeps
<1>7. Once'
  BY <1>2, <1>1, SameQuiet, OnceKeeps DEF IInv, RowsClosed
<1> QED BY <1>1, <1>2, <1>3, <1>4, <1>5, <1>6, <1>7 DEF IInv

LEMMA EndDirectiveKeeps ==
  ASSUME NEW e \in Directives \X {"lost", "revoked"}, IInv, EndDirective(e)
  PROVE  IInv' /\ ClosesStep
<1> USE DEF EndDirective, Fault, EndActivity, Set, temporal, conn, gateway, session, wire, disk, machine, bounds
<1>1. TypeOK'
  <2>1. activity' \in [Directives -> Outcomes \cup {"none", "open"}]
    <3>1. e[1] \in Directives /\ e[2] \in Outcomes
      BY DEF Outcomes
    <3> QED BY <3>1, EndActivityKept DEF IInv, TypeOK
  <2>2. ending' \in SUBSET (Directives \X {"lost", "revoked"})
    BY DEF IInv, TypeOK
  <2> QED BY <2>1, <2>2 DEF IInv, TypeOK
<1>2. Conned' /\ Rows' /\ ClosesStep /\ Said' /\ Once'
  BY ConnedSame, RowsSame, SaidSame, OnceSame DEF ToWrite
<1>3. Agreed'
  <2>1. e[1] \in Directives /\ e[2] \in Outcomes
    BY DEF Outcomes
  <2>2. ActivityKept
    BY <2>1, EndActivityKept DEF ActivityKept, IInv, TypeOK, Agreed
  <2> QED BY <2>2, RowsClosedSame, AgreedKeeps DEF IInv
<1> QED BY <1>1, <1>2, <1>3 DEF IInv

LEMMA BeatKeeps ==
  ASSUME NEW d \in Directives, IInv, Beat(d)
  PROVE  IInv' /\ ClosesStep
<1> USE DEF Beat, temporal, conn, gateway, session, wire, disk, machine, bounds
<1>1. TypeOK'
  BY  DEF IInv, TypeOK
<1>2. Conned' /\ Rows' /\ ClosesStep /\ Said' /\ Agreed' /\ Once'
  BY ConnedSame, RowsSame, SaidSame, AgreedSame, OnceSame DEF ToWrite
<1> QED BY <1>1, <1>2 DEF IInv

LEMMA BeatAnswerKeeps ==
  ASSUME IInv, BeatAnswer
  PROVE  IInv' /\ ClosesStep
<1> USE DEF BeatAnswer, Fault, Detach, temporal, conn, gateway, session, wire, disk, machine, bounds
<1>1. RowsClosed(Quietly)
  <2>1. beat \in Directives /\ row' \in {row, Closed(beat, "gone")}
    BY DEF IInv, TypeOK, BeatCanceled, BeatGone
  <2> QED BY <2>1, ClosedRow DEF IInv, Ends, RowsClosed, Quietly
<1>2. TypeOK'
  <2>1. down' \in [Conns -> Seq(Frame)]
    <3>1. beat \in Directives
      BY DEF IInv, TypeOK
    <3>2. CASE down' = down
      BY <3>2 DEF IInv, TypeOK
    <3>3. CASE \E ms \in {<<Message("cancel", beat)>>, <<>>} : Write(ms)
      BY <3>1, <3>3, FrameQuiet, WriteQuiet DEF IInv
    <3> QED BY <3>2, <3>3 DEF BeatCanceled, BeatGone
  <2>2. /\ carried' \subseteq Directives /\ told' \subseteq Directives /\ early' \subseteq Directives
        /\ beat' \in Directives \cup {Nothing} /\ faults' \in Nat
    BY DEF IInv, TypeOK, BeatCanceled, BeatGone
  <2> QED BY <1>1, <2>1, <2>2 DEF IInv, TypeOK, RowsClosed, OnlyClosed
<1>3. Conned'
  BY ConnedSame
<1>4. Rows' /\ ClosesStep
  BY <1>1, RowsKeep DEF RowsClosed
<1>5. Said'
  BY <1>1, SaidRows
<1>6. Agreed'
  <2>1. ActivityKept
    BY EndActivityKept DEF ActivityKept, IInv, TypeOK
  <2> QED BY <1>1, <2>1, AgreedKeeps
<1>7. Once'
  <2>1. beat \in Directives
    BY DEF IInv, TypeOK
  <2>2. CASE down' = down
    BY <1>1, <1>2, <2>2, SameQuiet, OnceKeeps DEF IInv, RowsClosed
  <2>3. CASE \E ms \in {<<Message("cancel", beat)>>, <<>>} : Write(ms)
    <3>1. NoneNew
      BY <2>1, <2>3, FrameQuiet, WriteQuiet DEF IInv
    <3> QED BY <1>1, <1>2, <3>1, OnceKeeps DEF IInv, RowsClosed
  <2> QED BY <2>2, <2>3 DEF BeatCanceled, BeatGone
<1> QED BY <1>1, <1>2, <1>3, <1>4, <1>5, <1>6, <1>7 DEF IInv

LEMMA ConnEndsKeeps ==
  ASSUME IInv, ConnEnds
  PROVE  IInv' /\ ClosesStep
<1> USE DEF ConnEnds, EndConn, temporal, conn, gateway, session, wire, disk, machine, bounds
<1>1. TypeOK'
  BY  DEF IInv, TypeOK
<1>2. Rows' /\ ClosesStep /\ Agreed'
  BY RowsSame, AgreedSame
<1>3. Conned'
  BY DEF IInv, Conned, TypeOK
<1>4. Said'
  BY DEF IInv, TypeOK, Said
<1>5. Once'
  BY <1>1, SameQuiet, OnceKeeps DEF IInv, RowsClosed
<1> QED BY <1>1, <1>2, <1>3, <1>4, <1>5 DEF IInv

LEMMA ReadResultKeeps ==
  ASSUME NEW d \in Directives, IInv, ReadResult(d)
  PROVE  IInv' /\ ClosesStep
<1> USE DEF ReadResult, Set, temporal, conn, gateway, session, wire, disk, machine, bounds
<1>1. TypeOK'
  <2>1. res' \in [Directives -> Claim]
    <3>1. gconn \in Conns
      BY DEF IInv, TypeOK, Conned
    <3> QED BY <3>1 DEF IInv, TypeOK, Claim
  <2> QED BY <2>1 DEF IInv, TypeOK
<1>2. Conned' /\ Rows' /\ ClosesStep /\ Once'
  BY ConnedSame, RowsSame, OnceSame DEF ToWrite
<1>3. Said'
  <2>1. gconn \in Conns /\ out[d] # "none"
    BY DEF IInv, TypeOK, Conned, Said
  <2>2. \A x \in Conns : up'[x] \subseteq up[x]
    BY DEF IInv, TypeOK
  <2>3. \A e \in Directives : res'[e] = res[e] \/ (e = d /\ res'[e].at = "got")
    BY DEF IInv, TypeOK
  <2> QED BY <2>1, <2>2, <2>3 DEF IInv, Said
<1>4. Agreed'
  <2>1. \A e \in Directives : res'[e] = res[e] \/ res'[e].at = "got"
    BY DEF IInv, TypeOK
  <2>2. ActivityKept
    BY DEF ActivityKept
  <2> QED BY <2>1, <2>2, RowsClosedSame, AgreedKeeps DEF IInv
<1> QED BY <1>1, <1>2, <1>3, <1>4 DEF IInv

LEMMA SaveResultKeeps ==
  ASSUME NEW d \in Directives, IInv, SaveResult(d)
  PROVE  IInv' /\ ClosesStep
<1> USE DEF SaveResult, Fault, EndConn, temporal, conn, gateway, session, wire, disk, machine, bounds
<1>1. out[d] # "none" /\ out[d] \in Statuses
  BY DEF IInv, Said, TypeOK
<1>2. /\ row' \in [Directives -> Row]
      /\ \A e \in Directives : /\ row'[e].state = row[e].state /\ row'[e].sent = row[e].sent
                               /\ row[e].state = "absent" => row'[e] = row[e]
      /\ \A e \in Directives \ {d} : row'[e] = row[e]
      /\ res'[d].at \in {"none", "finish"}
      /\ res'[d].at = "finish" => row'[d].result # "none"
  <2>1. CASE row' = row /\ res' = Set(res, d, Free)
    BY <2>1, ClaimFreed DEF IInv, TypeOK
  <2>2. CASE /\ Running(d) /\ row' = [row EXCEPT ![d].result = out[d]]
             /\ res' = Set(res, d, [res[d] EXCEPT !.at = "finish"])
    <3>1. row[d] \in Row
      BY DEF IInv, TypeOK
    <3>2. [row[d] EXCEPT !.result = out[d]] \in Row
      BY <1>1, <3>1 DEF Row
    <3>3. row'[d] = [row[d] EXCEPT !.result = out[d]] /\ \A e \in Directives \ {d} : row'[e] = row[e]
      BY <2>2 DEF IInv, TypeOK
    <3>4. /\ row'[d].state = row[d].state /\ row'[d].sent = row[d].sent /\ row'[d].result = out[d]
          /\ row[d].state # "absent"
      BY <2>2, <3>1, <3>3 DEF Row, Running
    <3>5. res'[d].at = "finish"
      BY <2>2, ClaimStep DEF IInv
    <3> QED BY <1>1, <2>2, <3>2, <3>3, <3>4, <3>5 DEF IInv, TypeOK
  <2> QED BY <2>1, <2>2
<1>3. res' \in [Directives -> Claim] /\ \A e \in Directives \ {d} : res'[e] = res[e]
  <2>1. CASE res' = Set(res, d, Free)
    BY <2>1, ClaimFreed DEF IInv
  <2>2. CASE res' = Set(res, d, [res[d] EXCEPT !.at = "finish"])
    BY <2>2, ClaimStep DEF IInv
  <2> QED BY <2>1, <2>2
<1>4. /\ down' \in [Conns -> Seq(Frame)] /\ NoneNew
      /\ carried' \subseteq Directives /\ told' \subseteq Directives /\ early' \subseteq Directives
  <2>1. CASE Ack(d)
    BY <2>1, AckQuiet DEF IInv
  <2>2. CASE down' = down /\ carried' \in {carried, {}} /\ told' \in {told, {}} /\ early' \in {early, {}}
    BY <2>2, SameQuiet DEF IInv, TypeOK
  <2> QED BY <2>1, <2>2
<1>5. up' \in [Conns -> SUBSET Directives] /\ \A c \in Conns : up'[c] \subseteq up[c]
  BY DEF IInv, TypeOK
<1>6. TypeOK'
  <2>1. /\ gconn' \in Conns \cup {NoConn} /\ gstage' \in {"none", "ready", "reconciling", "live"}
        /\ beat' \in Directives \cup {Nothing}
        /\ sends' \subseteq Directives /\ marks' \subseteq Directives /\ writes' \subseteq Directives
        /\ loses' \subseteq Directives
        /\ faults' \in Nat
    BY DEF IInv, TypeOK
  <2> QED BY <1>2, <1>3, <1>4, <1>5, <2>1 DEF IInv, TypeOK
<1>7. Conned' /\ marks' \subseteq marks /\ writes' \subseteq writes
  BY DEF IInv, Conned
<1>8. Rows' /\ ClosesStep
  BY <1>2, RowsKeep DEF OnlyClosed
<1>9. Said'
  BY <1>2, <1>3, <1>5 DEF IInv, Said
<1>10. Agreed'
  BY <1>2, <1>3 DEF IInv, Agreed, EndsAgree, Took
<1>11. Once'
  BY <1>2, <1>4, <1>6, <1>7, OnceKeeps DEF IInv
<1> QED BY <1>6, <1>7, <1>8, <1>9, <1>10, <1>11 DEF IInv

\* completion makes of every status an outcome that says so.
LEMMA CompletionTook ==
  ASSUME TypeOK, NEW d \in Directives, row[d].result # "none"
  PROVE  /\ Completion(d) \in Outcomes
         /\ row' = row /\ activity'[d] = Completion(d) => Took(d)'
<1>1. row[d].result \in Statuses
  BY RowFields DEF TypeOK
<1> QED BY <1>1 DEF Completion, Took, Statuses, Outcomes

LEMMA CompleteKeeps ==
  ASSUME NEW d \in Directives, IInv, Complete(d)
  PROVE  IInv' /\ ClosesStep
<1> USE DEF Complete, Fault, temporal, conn, gateway, session, wire, disk, machine, bounds
<1>1. row[d].result # "none"
  BY DEF IInv, Said
<1>2. Completion(d) \in Outcomes /\ (activity'[d] = Completion(d) => Took(d)')
  BY <1>1, CompletionTook DEF IInv
<1>3. /\ activity' \in [Directives -> Outcomes \cup {"none", "open"}]
      /\ \A e \in Directives : activity[e] # "open" => activity'[e] = activity[e]
  BY <1>2, EndActivityKept DEF IInv, TypeOK
<1>4. /\ res' \in [Directives -> Claim]
      /\ \A e \in Directives \ {d} : res'[e] = res[e]
      /\ res'[d].at \in {"none", "finish", "gone"} \/ (res'[d].at = "completed" /\ Took(d)')
  <2>1. CASE res' \in {res, Set(res, d, Free)}
    BY <2>1, ClaimFreed DEF IInv, TypeOK
  <2>2. CASE activity[d] # "open" /\ res' = Set(res, d, [res[d] EXCEPT !.at = "gone"])
    BY <2>2, ClaimStep DEF IInv
  <2>3. CASE /\ activity[d] = "open" /\ EndActivity(d, Completion(d))
             /\ res' = Set(res, d, [res[d] EXCEPT !.at = "completed"])
    <3>1. activity'[d] = Completion(d)
      BY <2>3 DEF EndActivity, Set, IInv, TypeOK
    <3> QED BY <1>2, <2>3, <3>1, ClaimStep DEF IInv
  <2> QED BY <2>1, <2>2, <2>3
<1>5. TypeOK'
  BY <1>3, <1>4 DEF IInv, TypeOK
<1>6. Conned' /\ Rows' /\ ClosesStep /\ Once'
  BY ConnedSame, RowsSame, OnceSame DEF ToWrite
<1>7. Said'
  BY <1>1, <1>4 DEF IInv, Said
<1>8. Agreed'
  <2>1. \A e \in Directives : Took(e) => Took(e)'
    BY <1>3 DEF Took
  <2>2. EndsAgree'
    BY <1>3 DEF IInv, Agreed, EndsAgree
  <2>3. \A e \in Directives : worker'[e] = "no" => activity'[e] = "none"
    BY <1>3 DEF IInv, Agreed
  <2> QED BY <1>4, <2>1, <2>2, <2>3 DEF IInv, Agreed
<1> QED BY <1>5, <1>6, <1>7, <1>8 DEF IInv

LEMMA CloseResultKeeps ==
  ASSUME NEW d \in Directives, IInv, CloseResult(d)
  PROVE  IInv' /\ ClosesStep
<1> USE DEF CloseResult, Fault, temporal, conn, gateway, session, wire, disk, machine, bounds
<1> DEFINE state == IF res[d].at = "gone" THEN "gone" ELSE ClosedState(d)
<1>1. /\ state \in Ends
      /\ res[d].at = "completed" => Took(d)
  <2>1. row[d].result \in Statuses
    BY RowFields DEF IInv, TypeOK, Said
  <2> QED BY <2>1 DEF ClosedState, Statuses, Ends, IInv, Agreed
<1>2. RowsClosed({state}) /\ \A e \in Directives \ {d} : row'[e] = row[e]
  <2> HIDE DEF state
  <2>1. row' \in {row, Closed(d, state)}
    BY DEF state
  <2> QED BY <1>1, <2>1, ClosedRow DEF IInv
<1>3. /\ res' \in [Directives -> Claim] /\ res'[d].at = "none"
      /\ \A e \in Directives \ {d} : res'[e] = res[e]
  BY ClaimFreed DEF IInv
<1>4. /\ down' \in [Conns -> Seq(Frame)] /\ NoneNew
      /\ carried' \subseteq Directives /\ told' \subseteq Directives /\ early' \subseteq Directives
  BY AckQuiet DEF IInv
<1>5. TypeOK'
  BY <1>2, <1>3, <1>4 DEF IInv, TypeOK, RowsClosed, OnlyClosed
<1>6. Conned'
  BY ConnedSame
<1>7. Rows' /\ ClosesStep
  BY <1>2, RowsKeep DEF RowsClosed
<1>8. Said'
  BY <1>2, <1>3 DEF IInv, Said, RowsClosed
<1>9. Agreed'
  <2>1. \A e \in Directives : Took(e) => Took(e)'
    BY <1>2 DEF Took, RowsClosed
  <2>2. \A e \in Directives :
           \/ row'[e].state = row[e].state
           \/ e = d /\ row'[e].state = state
    BY <1>2 DEF RowsClosed
  <2>3. \/ state = "gone"
        \/ /\ state = "completed" => activity[d] = "ok"
           /\ state = "canceled" => activity[d] \in {"canceled", "failed"}
           /\ state = "machine_stopping" => activity[d] = "stopping"
           /\ state = "refused" => activity[d] = "refused"
    BY <1>1 DEF ClosedState, Took
  <2>4. EndsAgree'
    <3> HIDE DEF state
    <3> QED BY <2>2, <2>3 DEF IInv, Agreed, EndsAgree
  <2> QED BY <1>3, <2>1, <2>4 DEF IInv, Agreed
<1>10. Once'
  BY <1>2, <1>4, <1>5, OnceKeeps DEF IInv, RowsClosed
<1> QED BY <1>5, <1>6, <1>7, <1>8, <1>9, <1>10 DEF IInv

LEMMA SweepResultKeeps ==
  ASSUME NEW d \in Directives, IInv, SweepResult(d)
  PROVE  IInv' /\ ClosesStep
<1> USE DEF SweepResult, Set, temporal, conn, gateway, session, wire, disk, machine, bounds
<1>1. TypeOK'
  <2>1. res' \in [Directives -> Claim]
    <3>1. [at |-> "finish", conn |-> NoConn] \in Claim
      BY DEF Claim
    <3> QED BY <3>1 DEF IInv, TypeOK
  <2> QED BY <2>1 DEF IInv, TypeOK
<1>2. Conned' /\ Rows' /\ ClosesStep /\ Once'
  BY ConnedSame, RowsSame, OnceSame DEF ToWrite
<1>3. Said'
  BY DEF IInv, TypeOK, Said
<1>4. Agreed'
  <2>1. \A e \in Directives : res'[e] = res[e] \/ res'[e].at = "finish"
    BY DEF IInv, TypeOK
  <2>2. ActivityKept
    BY DEF ActivityKept
  <2> QED BY <2>1, <2>2, RowsClosedSame, AgreedKeeps DEF IInv
<1> QED BY <1>1, <1>2, <1>3, <1>4 DEF IInv

LEMMA SweepDirectiveKeeps ==
  ASSUME NEW d \in Directives, IInv, SweepDirective(d)
  PROVE  IInv' /\ ClosesStep
<1> USE DEF SweepDirective, Detach, temporal, conn, gateway, session, wire, disk, machine, bounds
<1>1. RowsClosed(Quietly)
  <2>1. \E state \in {"expired", "orphaned"} : row' = Closed(d, state)
    OBVIOUS
  <2> QED BY <2>1, ClosedRow DEF IInv, Ends, RowsClosed, Quietly
<1>2. TypeOK'
  <2>1. down' \in [Conns -> Seq(Frame)]
    <3>1. Quiet(IF d \in carried THEN <<Message("cancel", d)>> ELSE <<>>)
      BY FrameQuiet
    <3> QED BY <3>1, WriteQuiet DEF IInv
  <2> QED BY <1>1, <2>1 DEF IInv, TypeOK, RowsClosed, OnlyClosed
<1>3. Conned'
  BY ConnedSame
<1>4. Rows' /\ ClosesStep
  BY <1>1, RowsKeep DEF RowsClosed
<1>5. Said'
  BY <1>1, SaidRows
<1>6. Agreed'
  <2>1. ActivityKept
    BY EndActivityKept DEF ActivityKept, IInv, TypeOK
  <2> QED BY <1>1, <2>1, AgreedKeeps
<1>7. Once'
  <2>1. Quiet(IF d \in carried THEN <<Message("cancel", d)>> ELSE <<>>)
    BY FrameQuiet
  <2>2. NoneNew
    BY <2>1, WriteQuiet DEF IInv
  <2> QED BY <1>1, <1>2, <2>2, OnceKeeps DEF IInv, RowsClosed
<1> QED BY <1>1, <1>2, <1>3, <1>4, <1>5, <1>6, <1>7 DEF IInv

LEMMA RevokeKeeps ==
  ASSUME IInv, Revoke
  PROVE  IInv' /\ ClosesStep
<1> USE DEF Revoke, Detach, temporal, conn, gateway, session, wire, disk, machine, bounds
<1> DEFINE closed == {d \in Directives : Open(d)}
<1>1. RowsClosed({"revoked"}) /\ \A d \in Directives : row'[d].state \notin {"reserved", "running"}
  <2>1. ASSUME NEW d \in Directives
        PROVE  /\ row'[d] \in Row
               /\ row'[d].sent = row[d].sent /\ row'[d].result = row[d].result
               /\ \/ ~Open(d) /\ row'[d] = row[d]
                  \/ Open(d) /\ row'[d].state = "revoked"
    <3>1. row[d] \in Row
      BY DEF IInv, TypeOK
    <3>2. CASE Open(d)
      <4>1. row'[d] = [row[d] EXCEPT !.state = "revoked"]
        BY <3>2
      <4> QED BY <3>1, <3>2, <4>1 DEF Row, Ends
    <3>3. CASE ~Open(d)
      BY <3>1, <3>3
    <3> QED BY <3>2, <3>3
  <2>2. row' = [d \in Directives |-> row'[d]]
    OBVIOUS
  <2>3. row' \in [Directives -> Row]
    BY <2>1, <2>2
  <2> QED BY <2>1, <2>3 DEF RowsClosed, OnlyClosed, Open, Ends
<1>2. down' \in [Conns -> Seq(Frame)] /\ NoneNew
  <2>1. PICK stop \in Tell("cancel", closed) : Write(stop)
    OBVIOUS
  <2>2. Quiet(stop)
    BY TellQuiet
  <2> QED BY <2>1, <2>2, WriteQuiet DEF IInv
<1>3. TypeOK'
  <2>1. ending' \subseteq Directives \X {"lost", "revoked"}
    BY DEF IInv, TypeOK
  <2> QED BY <1>1, <1>2, <2>1 DEF IInv, TypeOK, RowsClosed, OnlyClosed
<1>4. Conned'
  BY ConnedSame
<1>5. Rows' /\ ClosesStep
  <2>1. \A d \in Directives : ~Open(d)'
    BY <1>1 DEF Open
  <2>2. CapHeld' /\ RevokedHoldsNone'
    BY <2>1, OpenKeeps DEF IInv, RevokedHoldsNone
  <2>3. ClosesStep
    BY <1>1 DEF ClosesStep, RowsClosed, OnlyClosed, Open, Ends
  <2> QED BY <1>1, <2>2, <2>3 DEF IInv, Rows, RowsClosed, OnlyClosed, Ends
<1>6. Said'
  BY <1>1, SaidRows
<1>7. Agreed'
  <2>1. RowsClosed(Quietly) /\ ActivityKept
    BY <1>1 DEF RowsClosed, Quietly, ActivityKept
  <2> QED BY <2>1, AgreedKeeps
<1>8. Once'
  BY <1>1, <1>2, <1>3, OnceKeeps DEF IInv, RowsClosed
<1> QED BY <1>3, <1>4, <1>5, <1>6, <1>7, <1>8 DEF IInv

LEMMA ServerRestartKeeps ==
  ASSUME IInv, ServerRestart
  PROVE  IInv' /\ ClosesStep
<1> USE DEF ServerRestart, temporal, conn, gateway, session, wire, disk, machine, bounds
<1>1. TypeOK'
  <2>1. ending' \in SUBSET (Directives \X {"lost", "revoked"})
    BY DEF IInv, TypeOK
  <2>2. res' \in [Directives -> Claim]
    BY AbsentRow DEF IInv, TypeOK
  <2> QED BY <2>1, <2>2 DEF IInv, TypeOK
<1>2. Rows' /\ ClosesStep
  BY RowsSame
<1>3. Conned'
  BY DEF IInv, Conned
<1>4. Said'
  <2>1. \A e \in Directives : res'[e].at = "none"
    BY DEF Free
  <2> QED BY <2>1 DEF IInv, Said
<1>5. Agreed'
  <2>1. \A e \in Directives : res'[e].at = "none"
    BY DEF Free
  <2>2. ActivityKept
    BY DEF ActivityKept
  <2> QED BY <2>1, <2>2, RowsClosedSame, AgreedKeeps DEF IInv
<1>6. Once'
  BY <1>1, SameQuiet, OnceKeeps DEF IInv, RowsClosed
<1> QED BY <1>1, <1>2, <1>3, <1>4, <1>5, <1>6 DEF IInv

LEMMA ReceiveKeeps ==
  ASSUME IInv, Receive
  PROVE  IInv' /\ ClosesStep
<1> USE DEF temporal, conn, gateway, session, wire, disk, machine, bounds
<1> DEFINE m == Head(down[cconn])
<1>1. /\ cconn \in Conns /\ down[cconn] \in Seq(Frame) /\ down[cconn] # <<>>
      /\ down' = [down EXCEPT ![cconn] = Tail(down[cconn])]
  BY DEF Receive, IInv, TypeOK, Conned
<1>2. /\ Tail(down[cconn]) \in Seq(Frame) /\ Len(Tail(down[cconn])) = Len(down[cconn]) - 1
      /\ \A i \in 1..Len(Tail(down[cconn])) : Tail(down[cconn])[i] = down[cconn][i + 1]
      /\ m = down[cconn][1] /\ m \in Frame /\ Len(down[cconn]) \in Nat /\ 1 <= Len(down[cconn])
  BY <1>1
<1>3. /\ down' \in [Conns -> Seq(Frame)] /\ down'[cconn] = Tail(down[cconn])
      /\ \A c \in Conns \ {cconn} : down'[c] = down[c]
  BY <1>1, <1>2 DEF IInv, TypeOK
<1>4. m.type # "welcome" => m.id \in Directives
  BY <1>2 DEF Frame
<1> HIDE DEF m
<1>5. /\ out' \in [Directives -> Statuses \cup {"none"}]
      /\ kept' \subseteq Directives /\ up' \in [Conns -> SUBSET Directives]
      /\ \A d \in Directives : out'[d] = out[d] \/ out'[d] # "none"
      /\ \A d \in kept' : d \in kept \/ out'[d] # "none"
      /\ \A c \in Conns : \A d \in up'[c] : d \in up[c] \/ d \in kept \/ out'[d] # "none"
  <2>1. CASE m.type = "welcome"
    <3>1. Send(kept) /\ out' = out /\ kept' = kept
      BY <2>1 DEF Receive, m
    <3>2. up' \in [Conns -> SUBSET Directives] /\ \A c \in Conns : up'[c] \subseteq up[c] \cup kept
      BY <1>1, <3>1 DEF Send, IInv, TypeOK
    <3> QED BY <3>1, <3>2 DEF IInv, TypeOK
  <2>2. CASE m.type = "directive" /\ Refuse(m.id)
    <3>1. m.id \in Directives /\ Send({m.id}) /\ out' = Set(out, m.id, "refused")
      BY <1>4, <2>2 DEF Refuse
    <3>2. out' \in [Directives -> Statuses \cup {"none"}] /\ out'[m.id] = "refused"
          /\ \A d \in Directives \ {m.id} : out'[d] = out[d]
      BY <3>1 DEF Set, IInv, TypeOK, Statuses
    <3>3. kept' \subseteq kept \cup {m.id}
      BY <2>2 DEF Refuse, Keep, Fault
    <3>4. up' \in [Conns -> SUBSET Directives]
          /\ \A c \in Conns : up'[c] \subseteq up[c] \cup {m.id}
      BY <1>1, <3>1 DEF Send, IInv, TypeOK
    <3> QED BY <3>1, <3>2, <3>3, <3>4 DEF IInv, TypeOK
  <2>3. CASE UNCHANGED <<out, up>> /\ kept' \subseteq kept
    BY <2>3 DEF IInv, TypeOK
  <2> QED BY <2>1, <2>2, <2>3 DEF Receive, Begin, Cancel, m
<1>6. /\ job' \in [Directives -> {"none", "run", "ended"}]
      /\ \A d \in Directives : job'[d] = "ended" => job[d] = "ended"
      /\ cause' \in [Directives -> {"none", "canceled", "stopping"}]
      /\ marked' \subseteq Directives /\ unkept' \subseteq Directives /\ faults' \in Nat
  <2>1. CASE UNCHANGED <<job, cause, marked, unkept, faults>>
    BY <2>1 DEF IInv, TypeOK
  <2>2. CASE m.type = "directive" /\ Refuse(m.id)
    BY <1>4, <2>2 DEF Refuse, Keep, Fault, IInv, TypeOK
  <2>3. CASE m.type = "directive" /\ Begin(m.id)
    BY <1>4, <2>3 DEF Begin, Set, IInv, TypeOK
  <2>4. CASE m.type = "cancel" /\ Cancel(m.id)
    BY <1>4, <2>4 DEF Cancel, Set, IInv, TypeOK
  <2> QED BY <2>1, <2>2, <2>3, <2>4 DEF Receive, m
<1>7. \/ runs' = runs
      \/ /\ m.type = "directive" /\ m.id \in Directives
         /\ runs' = [runs EXCEPT ![m.id] = runs[m.id] + 1]
  BY <1>4 DEF Receive, Refuse, Begin, Cancel, Set, m
<1>8. /\ UNCHANGED <<row, worker, temporal, revoked, gateway, session, stopping, refused, used>>
      /\ UNCHANGED <<cancels, crashes>>
  BY DEF Receive
<1>9. TypeOK'
  <2>1. runs' \in [Directives -> Nat]
    <3>1. CASE runs' = runs
      BY <3>1 DEF IInv, TypeOK
    <3>2. CASE m.id \in Directives /\ runs' = [runs EXCEPT ![m.id] = runs[m.id] + 1]
      <4>1. runs[m.id] + 1 \in Nat
        BY <3>2 DEF IInv, TypeOK
      <4> QED BY <3>2, <4>1 DEF IInv, TypeOK
    <3> QED BY <1>7, <3>1, <3>2
  <2> QED BY <1>3, <1>5, <1>6, <1>8, <2>1 DEF IInv, TypeOK
<1>10. Conned' /\ Rows' /\ ClosesStep /\ Agreed'
  BY <1>8, ConnedSame, RowsSame, AgreedSame
<1>11. Said'
  BY <1>5, <1>6, <1>8 DEF IInv, Said, TypeOK
<1>12. Once'
  <2>1. NoneNew
    <3>1. \A i \in 1..Len(down'[cconn]) : i + 1 \in 1..Len(down[cconn])
                                          /\ down'[cconn][i] = down[cconn][i + 1]
      BY <1>2, <1>3
    <3>2. \A c \in Conns \ {cconn} : \A i \in 1..Len(down'[c]) :
             i + 0 \in 1..Len(down[c]) /\ down'[c][i] = down[c][i + 0]
      BY <1>3 DEF IInv, TypeOK
    <3> QED BY <3>1, <3>2 DEF NoneNew
  <2>2. CASE runs' = runs
    BY <1>8, <1>9, <2>1, <2>2, OnceKeeps
  <2>3. CASE /\ m.type = "directive" /\ m.id \in Directives
             /\ runs' = [runs EXCEPT ![m.id] = runs[m.id] + 1]
    <3>0. PICK x \in Directives : x = m.id
      BY <2>3
    <3>1. InFlight(cconn, 1, x)
      BY <1>2, <2>3, <3>0 DEF InFlight
    <3>2. /\ row[x].sent # NoConn /\ x \notin ToWrite /\ runs[x] = 0
          /\ \A b \in Conns : \A j \in Nat : InFlight(b, j, x) => b = cconn /\ j = 1
      <4>1. 1 \in Nat
        OBVIOUS
      <4> QED BY <1>1, <3>1, <4>1 DEF IInv, Once
    <3>3. /\ runs'[x] = 1 /\ \A d \in Directives \ {x} : runs'[d] = runs[d]
      BY <2>3, <3>0, <3>2 DEF IInv, TypeOK
    <3>4. ASSUME NEW c \in Conns, NEW i \in Nat, NEW d \in Directives, InFlight(c, i, d)'
          PROVE  \/ c = cconn /\ InFlight(c, i + 1, d) /\ i + 1 # 1
                 \/ c # cconn /\ InFlight(c, i, d)
      <4>1. CASE c = cconn
        <5>1. i \in 1..Len(Tail(down[cconn])) /\ Tail(down[cconn])[i] = down[cconn][i + 1]
              /\ Tail(down[cconn])[i].type = "directive" /\ Tail(down[cconn])[i].id = d
          BY <1>2, <1>3, <3>4, <4>1 DEF InFlight
        <5>2. i + 1 \in 1..Len(down[cconn]) /\ i + 1 # 1
          BY <1>2, <5>1
        <5> QED BY <4>1, <5>1, <5>2 DEF InFlight
      <4>2. CASE c # cconn
        BY <1>3, <3>4, <4>2 DEF InFlight
      <4> QED BY <4>1, <4>2
    <3>5. ASSUME NEW c \in Conns, NEW i \in Nat, InFlight(c, i, x)'
          PROVE  FALSE
      <4>1. \/ c = cconn /\ InFlight(c, i + 1, x) /\ i + 1 # 1
            \/ c # cconn /\ InFlight(c, i, x)
        BY <3>4, <3>5
      <4>2. i + 1 \in Nat
        OBVIOUS
      <4> QED BY <3>2, <4>1, <4>2
    <3>6. ASSUME NEW d \in Directives \ {x}, NEW c \in Conns, NEW i \in Nat, InFlight(c, i, d)'
          PROVE  /\ row[d].sent # NoConn /\ d \notin ToWrite /\ runs[d] = 0
                 /\ \A b \in Conns : \A j \in Nat : InFlight(b, j, d)' => b = c /\ j = i
      <4>1. CASE c = cconn
        <5>1. InFlight(cconn, i + 1, d) /\ i + 1 \in Nat
          BY <3>4, <3>6, <4>1
        <5>2. /\ row[d].sent # NoConn /\ d \notin ToWrite /\ runs[d] = 0
              /\ \A b \in Conns : \A j \in Nat : InFlight(b, j, d) => b = cconn /\ j = i + 1
          BY <1>1, <5>1 DEF IInv, Once
        <5>3. \A j \in Nat : j + 1 = i + 1 => j = i
          OBVIOUS
        <5> QED BY <3>4, <4>1, <5>2, <5>3
      <4>2. CASE c # cconn
        <5>1. InFlight(c, i, d)
          BY <3>4, <3>6, <4>2
        <5>2. /\ row[d].sent # NoConn /\ d \notin ToWrite /\ runs[d] = 0
              /\ \A b \in Conns : \A j \in Nat : InFlight(b, j, d) => b = c /\ j = i
          BY <5>1 DEF IInv, Once
        <5> QED BY <3>4, <4>2, <5>2
      <4> QED BY <4>1, <4>2
    <3>7. Once' <=> \A d \in Directives :
            /\ runs'[d] <= 1
            /\ row[d].sent = NoConn => d \notin ToWrite /\ runs'[d] = 0
            /\ d \in ToWrite => runs'[d] = 0
            /\ \A c \in Conns : \A i \in Nat : InFlight(c, i, d)' =>
                 /\ row[d].sent # NoConn /\ d \notin ToWrite /\ runs'[d] = 0
                 /\ \A b \in Conns : \A j \in Nat : InFlight(b, j, d)' => b = c /\ j = i
      BY <1>8 DEF Once, ToWrite
    <3>8. \A d \in Directives :
            /\ runs'[d] <= 1
            /\ row[d].sent = NoConn => d \notin ToWrite /\ runs'[d] = 0
            /\ d \in ToWrite => runs'[d] = 0
      BY <3>2, <3>3 DEF IInv, Once
    <3> QED BY <3>3, <3>5, <3>6, <3>7, <3>8
  <2> QED BY <1>7, <2>2, <2>3
<1> QED BY <1>9, <1>10, <1>11, <1>12 DEF IInv

LEMMA RunEndsKeeps ==
  ASSUME NEW d \in Directives, IInv, RunEnds(d)
  PROVE  IInv' /\ ClosesStep
<1> USE DEF RunEnds, Fault, Set, Keep, temporal, conn, gateway, session, wire, disk, machine, bounds
<1>1. TypeOK'
  <2>1. out' \in [Directives -> Statuses \cup {"none"}]
    BY DEF IInv, TypeOK, Status, Statuses
  <2> QED BY <2>1 DEF IInv, TypeOK
<1>2. Conned' /\ Rows' /\ ClosesStep /\ Agreed' /\ Once'
  BY ConnedSame, RowsSame, AgreedSame, OnceSame DEF ToWrite
<1>3. Said'
  <2>1. out'[d] # "none" /\ \A e \in Directives \ {d} : out'[e] = out[e] /\ job'[e] = job[e]
    BY DEF IInv, TypeOK, Status
  <2>2. kept' \subseteq kept \cup {d}
    OBVIOUS
  <2> QED BY <2>1, <2>2 DEF IInv, Said, TypeOK
<1> QED BY <1>1, <1>2, <1>3 DEF IInv

LEMMA RunSentKeeps ==
  ASSUME NEW d \in Directives, IInv, RunSent(d)
  PROVE  IInv' /\ ClosesStep
<1> USE DEF RunSent, Set, Send, temporal, conn, gateway, session, wire, disk, machine, bounds
<1>1. TypeOK'
  BY  DEF IInv, TypeOK
<1>2. Conned' /\ Rows' /\ ClosesStep /\ Agreed' /\ Once'
  BY ConnedSame, RowsSame, AgreedSame, OnceSame DEF ToWrite
<1>3. Said'
  BY DEF IInv, TypeOK, Said
<1> QED BY <1>1, <1>2, <1>3 DEF IInv

LEMMA LeaveKeeps ==
  ASSUME IInv, Leave
  PROVE  IInv' /\ ClosesStep
<1> USE DEF Leave, Disconnect, temporal, conn, gateway, session, wire, disk, machine, bounds
<1>1. TypeOK'
  <2>1. down' \in [Conns -> Seq(Frame)]
    BY DisconnectQuiet DEF IInv
  <2> QED BY <2>1 DEF IInv, TypeOK
<1>2. Rows' /\ ClosesStep /\ Said' /\ Agreed'
  BY RowsSame, SaidSame, AgreedSame
<1>3. Conned'
  BY DEF IInv, Conned, TypeOK
<1>4. Once'
  BY <1>1, DisconnectQuiet, OnceKeeps DEF IInv
<1> QED BY <1>1, <1>2, <1>3, <1>4 DEF IInv

LEMMA ClientStopKeeps ==
  ASSUME IInv, ClientStop
  PROVE  IInv' /\ ClosesStep
<1> USE DEF ClientStop, StopJobs, temporal, conn, gateway, session, wire, disk, machine, bounds
<1>1. TypeOK'
  BY  DEF IInv, TypeOK
<1>2. Conned' /\ Rows' /\ ClosesStep /\ Said' /\ Agreed' /\ Once'
  BY ConnedSame, RowsSame, SaidSame, AgreedSame, OnceSame DEF ToWrite
<1> QED BY <1>1, <1>2 DEF IInv

LEMMA ClientExitKeeps ==
  ASSUME IInv, ClientExit
  PROVE  IInv' /\ ClosesStep
<1> USE DEF ClientExit, Disconnect, temporal, conn, gateway, session, wire, disk, machine, bounds
<1>1. TypeOK'
  <2>1. down' \in [Conns -> Seq(Frame)]
    BY DisconnectQuiet DEF IInv
  <2> QED BY <2>1 DEF IInv, TypeOK
<1>2. Rows' /\ ClosesStep /\ Said' /\ Agreed'
  BY RowsSame, SaidSame, AgreedSame
<1>3. Conned'
  BY DEF IInv, Conned, TypeOK
<1>4. Once'
  BY <1>1, DisconnectQuiet, OnceKeeps DEF IInv
<1> QED BY <1>1, <1>2, <1>3, <1>4 DEF IInv

LEMMA ClientRefusedKeeps ==
  ASSUME IInv, ClientRefused
  PROVE  IInv' /\ ClosesStep
<1> USE DEF ClientRefused, Disconnect, StopJobs, temporal, conn, gateway, session, wire, disk, machine, bounds
<1>1. TypeOK'
  <2>1. down' \in [Conns -> Seq(Frame)]
    BY DisconnectQuiet DEF IInv
  <2> QED BY <2>1 DEF IInv, TypeOK
<1>2. Rows' /\ ClosesStep /\ Said' /\ Agreed'
  BY RowsSame, SaidSame, AgreedSame
<1>3. Conned'
  BY DEF IInv, Conned, TypeOK
<1>4. Once'
  BY <1>1, DisconnectQuiet, OnceKeeps DEF IInv
<1> QED BY <1>1, <1>2, <1>3, <1>4 DEF IInv

LEMMA ClientCrashKeeps ==
  ASSUME IInv, ClientCrash
  PROVE  IInv' /\ ClosesStep
<1> USE DEF ClientCrash, Disconnect, Recover, temporal, conn, gateway, session, wire, disk, machine, bounds
<1>1. TypeOK'
  <2>1. down' \in [Conns -> Seq(Frame)]
    BY DisconnectQuiet DEF IInv
  <2>2. job' \in [Directives -> {"none", "run", "ended"}]
    BY DEF IInv, TypeOK
  <2>3. cause' \in [Directives -> {"none", "canceled", "stopping"}]
    BY DEF IInv, TypeOK
  <2>4. out' \in [Directives -> Statuses \cup {"none"}]
    BY DEF IInv, TypeOK, Statuses
  <2>5. kept' \subseteq Directives /\ marked' \subseteq Directives /\ crashes' \in Nat
    BY DEF IInv, TypeOK
  <2> QED BY <2>1, <2>2, <2>3, <2>4, <2>5 DEF IInv, TypeOK
<1>2. Rows' /\ ClosesStep /\ Agreed'
  BY RowsSame, AgreedSame
<1>3. Conned'
  BY DEF IInv, Conned, TypeOK
<1>4. Said'
  BY DEF IInv, TypeOK, Said
<1>5. Once'
  BY <1>1, DisconnectQuiet, OnceKeeps DEF IInv
<1> QED BY <1>1, <1>2, <1>3, <1>4, <1>5 DEF IInv

----------------------------------------------------------------------------
(* The theorems. *)

LEMMA InitIInv == Init => IInv
<1> SUFFICES ASSUME Init PROVE IInv
  OBVIOUS
<1> USE DEF Init
<1>1. TypeOK
  <2>1. row \in [Directives -> Row] /\ res \in [Directives -> Claim] /\ hello \in [Conns -> Hello]
    BY AbsentRow
  <2>2. down \in [Conns -> Seq(Frame)] /\ up \in [Conns -> SUBSET Directives]
    OBVIOUS
  <2>3. /\ cancelReq \in [Directives -> BOOLEAN] /\ due \in [Directives -> BOOLEAN]
        /\ runs \in [Directives -> Nat] /\ out \in [Directives -> Statuses \cup {"none"}]
        /\ activity \in [Directives -> Outcomes \cup {"none", "open"}]
    OBVIOUS
  <2> QED BY <2>1, <2>2, <2>3 DEF TypeOK
<1>2. Conned
  BY DEF Conned
<1>3. Rows
  <2>1. \A d \in Directives : ~Open(d) /\ row[d].sent = NoConn /\ row[d].result = "none"
    BY DEF Open, Absent
  <2>2. {d \in Directives : Open(d)} = {}
    BY <2>1
  <2>3. CapHeld
    <3>1. Cardinality({}) = 0
      BY FS_EmptySet
    <3>2. 0 <= MaxDirectives
      BY DirectiveAssumption
    <3> QED BY <2>2, <3>1, <3>2 DEF CapHeld
  <2> QED BY <2>1, <2>3 DEF Rows, RevokedHoldsNone
<1>4. Said
  BY DEF Said, Free
<1>5. Agreed
  BY DEF Agreed, EndsAgree, Free, Absent
<1>6. Once
  BY DEF Once, InFlight, ToWrite
<1> QED BY <1>1, <1>2, <1>3, <1>4, <1>5, <1>6 DEF IInv

LEMMA StutterKeeps ==
  ASSUME IInv, UNCHANGED vars
  PROVE  IInv' /\ ClosesStep
<1> USE DEF vars, temporal, conn, gateway, session, wire, disk, machine, bounds
<1>1. TypeOK'
  BY DEF IInv, TypeOK
<1> QED BY <1>1, ConnedSame, RowsSame, SaidSame, AgreedSame, OnceSame DEF IInv, ToWrite

LEMMA NextKeeps ==
  ASSUME IInv, [Next]_vars
  PROVE  IInv' /\ ClosesStep
<1>1. CASE UNCHANGED vars
  BY <1>1, StutterKeeps
<1>2. ASSUME NEW d \in Directives,
             \/ PickMachine(d) \/ NoMachine(d) \/ Worker(d) \/ CancelActivity(d)
             \/ DeadlinePasses(d) \/ Timeout(d)
      PROVE  IInv' /\ ClosesStep
  BY <1>2, PickMachineKeeps, NoMachineKeeps, StartDirectiveKeeps, DeliverKeeps, NotHandedKeeps,
     CancelActivityKeeps, DeadlinePassesKeeps, TimeoutKeeps
     DEF Worker
<1>3. ASSUME NEW d \in Directives,
             \/ Sender(d) \/ ReadResult(d) \/ Handler(d) \/ Sweep(d)
             \/ EndDirective(<<d, "revoked">>) \/ RunEnds(d) \/ RunSent(d)
      PROVE  IInv' /\ ClosesStep
  BY <1>3, MarkSentKeeps, AttachKeeps, WriteDirectiveKeeps, ReadResultKeeps, SaveResultKeeps, CompleteKeeps,
     CloseResultKeeps, SweepResultKeeps, SweepDirectiveKeeps, EndDirectiveKeeps, RunEndsKeeps,
     RunSentKeeps
     DEF Sender, Handler, Sweep
<1>4. ASSUME NEW c \in Conns, HelloResults(c) \/ Register(c) \/ RegisterFails(c)
      PROVE  IInv' /\ ClosesStep
  BY <1>4, HelloResultsKeeps, RegisterKeeps, RegisterFailsKeeps
<1>5. CASE Serve
  BY <1>5, ReconcileKeeps, ReconciledKeeps, LoseKeeps, EndDirectiveKeeps DEF Serve
<1>6. CASE Heartbeats \/ ConnEnds \/ Revoke \/ ServerRestart
  BY <1>6, BeatAnswerKeeps, BeatKeeps, ConnEndsKeeps, RevokeKeeps, ServerRestartKeeps
     DEF Heartbeats
<1>7. CASE Session \/ Leave \/ ClientStop \/ ClientRun \/ ClientCrash
  BY <1>7, HelloJobsKeeps, ReceiveKeeps, LeaveKeeps, ClientStopKeeps, ClientExitKeeps,
     ClientRefusedKeeps, ClientCrashKeeps
     DEF Session, ClientRun
<1> QED BY <1>1, <1>2, <1>3, <1>4, <1>5, <1>6, <1>7 DEF Next

LEMMA Inductive == Spec => []IInv
<1>1. IInv /\ [Next]_vars => IInv'
  BY NextKeeps
<1> QED BY <1>1, InitIInv, PTL DEF Spec

\* Every state of the directives, the connection and the machine is well
\* typed: in particular every result completes its activity and closes its row
\* with an outcome and an end that exist (completion, closedState).
THEOREM TypeCorrect == Spec => []TypeOK
<1>1. IInv => TypeOK
  BY DEF IInv
<1> QED BY <1>1, Inductive, PTL

\* The machine never has more open directives than it announced, however many
\* picks run at once (PickMachine).
THEOREM Capped == Spec => []CapHeld
<1>1. IInv => CapHeld
  BY DEF IInv, Rows
<1> QED BY <1>1, Inductive, PTL

\* A revoked machine has no directive open, and gets none, whatever was under
\* way (revoke, PickMachine, StartDirective).
THEOREM RevokedIsEmpty == Spec => []RevokedHoldsNone
<1>1. IInv => RevokedHoldsNone
  BY DEF IInv, Rows
<1> QED BY <1>1, Inductive, PTL

\* A machine runs a directive at most once, over any number of connections,
\* faults and crashes (MarkDirectiveSent, send, reconcile, start).
THEOREM RunsOnce == Spec => []AtMostOnce
<1>1. IInv => AtMostOnce
  BY DEF IInv, Once, AtMostOnce
<1> QED BY <1>1, Inductive, PTL

\* A row closed with a machine's result says what its activity got, although
\* the two are written apart and by several handlers (finish, retryResults).
THEOREM RowsAgree == Spec => []EndsAgree
<1>1. IInv => EndsAgree
  BY DEF IInv, Agreed
<1> QED BY <1>1, Inductive, PTL

\* A directive over stays over in the state it was closed in: the sweep, a
\* result, a heartbeat, a lost hello and a revocation close it once
\* (CloseDirective).
THEOREM OneEnd == Spec => ClosesOnce
<1>1. IInv /\ [Next]_vars => [ClosesStep]_vars
  BY NextKeeps
<1>2. [ClosesStep]_vars <=>
        [\A d \in Directives : row[d].state \in Ends => row'[d].state = row[d].state]_vars
  BY DEF ClosesStep
<1> QED BY <1>1, <1>2, Inductive, PTL DEF Spec, ClosesOnce

----------------------------------------------------------------------------
(* What the machine keeps.  A result leaves its disk on a cancel or an ack    *)
(* only, and neither is on its way before the result may go: the row is over, *)
(* it has the result itself, or the activity is over or cancelled.            *)

MayDrop(d) ==
  \/ row[d].state \in Ends \/ row[d].result # "none"
  \/ activity[d] \notin {"none", "open"} \/ cancelReq[d]

\* A row sent was set running by its activity.
Reached ==
  \A d \in Directives :
    /\ row[d].sent # NoConn => row[d].state \notin {"absent", "reserved"}
    /\ Running(d) \/ worker[d] = "picked" => activity[d] # "none"

\* The connection carries it, or the machine has it, or had, or says so.
Met(d) ==
  \/ d \in carried \/ d \in kept \/ d \in marked \/ job[d] # "none" \/ out[d] # "none"
  \/ \E c \in Conns : d \in hello[c].running \/ d \in hello[c].finished

MetSent == \A d \in Directives : Met(d) => row[d].sent # NoConn

\* A message that has the machine drop d's result.
Drops(m, d) == m.type \in {"cancel", "ack"} /\ m.id = d

DropsRight ==
  \A d \in Directives : \A c \in Conns : \A i \in 1..Len(down[c]) : Drops(down[c][i], d) => MayDrop(d)

Holds ==
  \A d \in Directives :
    /\ job[d] = "run" => d \in marked
    /\ job[d] # "run" /\ out[d] # "none" /\ d \notin unkept => d \in kept \/ MayDrop(d)

Keeping == Reached /\ MetSent /\ DropsRight /\ Holds

KInv == IInv /\ Keeping

\* A row and its activity go one way.
RowOn ==
  \A d \in Directives :
    /\ row[d].state \in Ends => row'[d].state \in Ends
    /\ row[d].result # "none" => row'[d].result # "none"
    /\ row[d].sent # NoConn => row'[d].sent # NoConn

ActivityOn ==
  \A d \in Directives :
    /\ activity[d] # "none" => activity'[d] # "none"
    /\ activity[d] \notin {"none", "open"} => activity'[d] \notin {"none", "open"}
    /\ cancelReq[d] => cancelReq'[d]

LEMMA MayDropStays ==
  ASSUME RowOn, ActivityOn, NEW d \in Directives, MayDrop(d)
  PROVE  MayDrop(d)'
  BY DEF RowOn, ActivityOn, MayDrop

LEMMA ActivitySameOn == UNCHANGED <<activity, cancelReq>> => ActivityOn
  BY DEF ActivityOn

LEMMA EndActivityOn ==
  ASSUME IInv, NEW d \in Directives, NEW outcome \in Outcomes, EndActivity(d, outcome), cancelReq' = cancelReq
  PROVE  ActivityOn
<1>1. outcome \notin {"none", "open"}
  BY DEF Outcomes
<1> QED BY <1>1, EndActivityKept DEF ActivityOn

LEMMA ClosedOn ==
  ASSUME NEW S, RowsClosed(S)
  PROVE  RowOn
  BY DEF RowsClosed, OnlyClosed, RowOn, Open, Ends

LEMMA ReachedKeeps ==
  ASSUME KInv, NEW S, RowsClosed(S), ActivityOn, \A d \in Directives : worker'[d] = "picked" => worker[d] = "picked"
  PROVE  Reached'
<1>1. \A d \in Directives : Running(d)' => Running(d)
  BY DEF RowsClosed, OnlyClosed, Running, Ends
<1>2. \A d \in Directives : row'[d].sent # NoConn => row'[d].state \notin {"absent", "reserved"}
  BY DEF KInv, Keeping, Reached, RowsClosed, OnlyClosed, Ends
<1> QED BY <1>1, <1>2 DEF KInv, Keeping, Reached, ActivityOn

LEMMA MetKeeps ==
  ASSUME KInv, RowOn, \A d \in Directives : Met(d)' => Met(d) \/ row[d].sent # NoConn
  PROVE  MetSent'
  BY DEF KInv, Keeping, MetSent, RowOn

LEMMA HoldsKeeps ==
  ASSUME KInv, RowOn, ActivityOn, UNCHANGED <<job, marked, out, unkept, kept>>
  PROVE  Holds'
  BY MayDropStays DEF KInv, Keeping, Holds

\* The messages that have a result dropped are old ones, or are about S.
Tells(S) ==
  \A d \in Directives : \A c \in Conns : \A i \in 1..Len(down'[c]) :
    Drops(down'[c][i], d) => (\E j \in 1..Len(down[c]) : Drops(down[c][j], d)) \/ d \in S

LEMMA DropsKeep ==
  ASSUME KInv, RowOn, ActivityOn, NEW S, Tells(S), \A d \in S : MayDrop(d)'
  PROVE  DropsRight'
<1> SUFFICES ASSUME NEW d \in Directives, NEW c \in Conns, NEW i \in 1..Len(down'[c]), Drops(down'[c][i], d)
             PROVE  MayDrop(d)'
  BY DEF DropsRight, Drops
<1>1. CASE d \in S
  BY <1>1
<1>2. CASE \E j \in 1..Len(down[c]) : Drops(down[c][j], d)
  <2>1. MayDrop(d)
    BY <1>2 DEF KInv, Keeping, DropsRight
  <2> QED BY <2>1, MayDropStays
<1> QED BY <1>1, <1>2 DEF Tells

LEMMA SameTells == down' = down => Tells({})
  BY DEF Tells, Drops

About(ms, S) == ms \in Seq(Frame) /\ \A i \in 1..Len(ms) : ms[i].id \in S

LEMMA WriteTells ==
  ASSUME TypeOK, NEW ms, NEW S, About(ms, S), Write(ms)
  PROVE  Tells(S)
<1>1. CASE down' = down
  BY <1>1 DEF Tells, Drops
<1>2. CASE gconn # NoConn /\ down' = [down EXCEPT ![gconn] = down[gconn] \o ms]
  <2>1. gconn \in Conns /\ down[gconn] \in Seq(Frame) /\ ms \in Seq(Frame)
    BY <1>2 DEF TypeOK, About
  <2>2. /\ Len(down[gconn] \o ms) = Len(down[gconn]) + Len(ms)
        /\ Len(down[gconn]) \in Nat /\ Len(ms) \in Nat
        /\ \A i \in 1..Len(down[gconn] \o ms) :
             (down[gconn] \o ms)[i] = IF i <= Len(down[gconn]) THEN down[gconn][i]
                                      ELSE ms[i - Len(down[gconn])]
    BY <2>1
  <2>3. down'[gconn] = down[gconn] \o ms /\ \A c \in Conns \ {gconn} : down'[c] = down[c]
    BY <1>2, <2>1 DEF TypeOK
  <2>4. ASSUME NEW i \in 1..Len(down[gconn] \o ms)
        PROVE  \/ \E j \in 1..Len(down[gconn]) : (down[gconn] \o ms)[i] = down[gconn][j]
               \/ (down[gconn] \o ms)[i].id \in S
    <3>1. CASE i <= Len(down[gconn])
      <4>1. i \in 1..Len(down[gconn])
        BY <2>2, <3>1
      <4> QED BY <2>2, <3>1, <4>1
    <3>2. CASE ~(i <= Len(down[gconn]))
      <4>1. i - Len(down[gconn]) \in 1..Len(ms)
        BY <2>2, <3>2
      <4> QED BY <2>2, <3>2, <4>1 DEF About
    <3> QED BY <3>1, <3>2
  <2>5. \A c \in Conns : \A i \in 1..Len(down'[c]) :
           \/ \E j \in 1..Len(down[c]) : down'[c][i] = down[c][j]
           \/ down'[c][i].id \in S
    BY <2>3, <2>4
  <2> QED BY <2>5 DEF Tells, Drops
<1> QED BY <1>1, <1>2 DEF Write

LEMMA FrameAbout ==
  ASSUME NEW type \in {"cancel", "ack"}, NEW d \in Directives
  PROVE  About(<<Message(type, d)>>, {d}) /\ About(<<>>, {d})
<1>1. Message(type, d) \in Frame /\ Message(type, d).id = d
  BY DEF Message, Frame, Types
<1>2. <<Message(type, d)>> \in Seq(Frame) /\ Len(<<Message(type, d)>>) = 1
      /\ <<Message(type, d)>>[1] = Message(type, d)
  BY <1>1
<1>3. About(<<Message(type, d)>>, {d})
  BY <1>1, <1>2 DEF About
<1>4. About(<<>>, {d})
  BY DEF About
<1> QED BY <1>3, <1>4

LEMMA TellAbout ==
  ASSUME NEW type \in {"cancel", "ack"}, NEW S \in SUBSET Directives, NEW ms \in Tell(type, S)
  PROVE  About(ms, S)
<1> DEFINE T == {Message(type, d) : d \in S}
<1>1. ms \in Seq(Frame)
  BY TellQuiet DEF Quiet
<1>2. \A m \in T : m.id \in S
  BY DEF Message
<1> HIDE DEF T
<1>3. ms \in [1..Cardinality(T) -> T]
  BY DEF Tell, SetToSeqs, T
<1>4. \A i \in 1..Len(ms) : ms[i] \in T
  <2>1. DOMAIN ms = 1..Len(ms)
    BY <1>1
  <2> QED BY <1>3, <2>1
<1> QED BY <1>1, <1>2, <1>4 DEF About

LEMMA ConcatAbout ==
  ASSUME NEW s, NEW t, NEW S, NEW T, About(s, S), About(t, T)
  PROVE  About(s \o t, S \cup T)
<1>1. s \in Seq(Frame) /\ t \in Seq(Frame)
  BY DEF About
<1>2. /\ s \o t \in Seq(Frame) /\ Len(s \o t) = Len(s) + Len(t) /\ Len(s) \in Nat /\ Len(t) \in Nat
      /\ \A i \in 1..Len(s \o t) : (s \o t)[i] = IF i <= Len(s) THEN s[i] ELSE t[i - Len(s)]
  BY <1>1
<1> SUFFICES ASSUME NEW i \in 1..Len(s \o t) PROVE (s \o t)[i].id \in S \cup T
  BY <1>2 DEF About
<1>3. CASE i <= Len(s)
  BY <1>2, <1>3 DEF About
<1>4. CASE ~(i <= Len(s))
  <2>1. i - Len(s) \in 1..Len(t)
    BY <1>2, <1>4
  <2> QED BY <1>2, <1>4, <2>1 DEF About
<1> QED BY <1>3, <1>4

LEMMA DisconnectTells ==
  ASSUME TypeOK, Disconnect
  PROVE  Tells({})
<1>1. CASE down' = down
  BY <1>1, SameTells
<1>2. CASE cconn # NoConn /\ down' = [down EXCEPT ![cconn] = <<>>]
  <2>1. \A c \in Conns : down'[c] = down[c] \/ down'[c] = <<>>
    BY <1>2 DEF TypeOK
  <2> QED BY <2>1 DEF Tells, Drops
<1> QED BY <1>1, <1>2 DEF Disconnect

\* A step that closes rows, at most, and leaves the machine alone.
LEMMA GatewayKeeps ==
  ASSUME KInv, NEW S, RowsClosed(S), ActivityOn,
         \A d \in Directives : worker'[d] = "picked" => worker[d] = "picked",
         \A d \in Directives : Met(d)' => Met(d) \/ row[d].sent # NoConn,
         UNCHANGED <<job, marked, out, unkept, kept>>,
         NEW T, Tells(T), \A d \in T : MayDrop(d)'
  PROVE  Keeping'
<1>1. RowOn
  BY ClosedOn
<1>2. Reached'
  BY ReachedKeeps
<1>3. MetSent'
  BY <1>1, MetKeeps
<1>4. DropsRight'
  BY <1>1, DropsKeep
<1>5. Holds'
  BY <1>1, HoldsKeeps
<1> QED BY <1>2, <1>3, <1>4, <1>5 DEF Keeping

\* One that writes nothing to the machine either.
LEMMA SilentKeeps ==
  ASSUME KInv, NEW S, RowsClosed(S), ActivityOn,
         \A d \in Directives : worker'[d] = "picked" => worker[d] = "picked",
         carried' \subseteq carried, UNCHANGED <<job, marked, out, unkept, kept, hello, down>>
  PROVE  Keeping'
<1>1. \A d \in Directives : Met(d)' => Met(d)
  BY DEF Met
<1>2. Tells({})
  BY SameTells
<1> QED BY <1>1, <1>2, GatewayKeeps

LEMMA PickMachineHolds ==
  ASSUME NEW d \in Directives, KInv, PickMachine(d)
  PROVE  Keeping'
<1> USE DEF temporal, conn, gateway, session, wire, disk, machine, bounds
<1>1. activity[d] = "none"
  BY DEF PickMachine, KInv, IInv, Agreed
<1>2. /\ UNCHANGED <<cancelReq, carried, kept, marked, job, out, unkept, hello, down>>
      /\ worker[d] = "no"
  BY DEF PickMachine
<1>3. /\ \A e \in Directives \ {d} : row'[e] = row[e]
      /\ \/ row' = row
         \/ /\ row[d].state = "absent" /\ row'[d].state = "reserved"
            /\ row'[d].sent = NoConn /\ row'[d].result = "none"
  <2>1. CASE row' = row
    BY <2>1
  <2>2. CASE row[d].state = "absent" /\ row' = Reserve(d)
    BY <2>2, ReserveRow DEF KInv, IInv
  <2> QED BY <2>1, <2>2 DEF PickMachine
<1>4. /\ \A e \in Directives \ {d} : activity'[e] = activity[e] /\ worker'[e] = worker[e]
      /\ activity'[d] \in {"none", "open"}
      /\ worker'[d] = "picked" => activity'[d] = "open"
  BY <1>1, <1>2 DEF PickMachine, Set, KInv, IInv, TypeOK
<1>5. row[d].state = "absent" => row[d].sent = NoConn /\ row[d].result = "none"
  BY DEF KInv, IInv, Rows
<1>6. RowOn
  BY <1>3, <1>5 DEF RowOn, Ends
<1>7. ActivityOn
  BY <1>1, <1>2, <1>4 DEF ActivityOn
<1>8. Reached'
  <2>1. ~Running(d)
    BY <1>1 DEF KInv, Keeping, Reached
  <2>2. \A e \in Directives : Running(e)' => Running(e)
    BY <1>3 DEF Running
  <2> QED BY <1>3, <1>4, <2>1, <2>2 DEF KInv, Keeping, Reached
<1>9. MetSent'
  <2>1. \A e \in Directives : Met(e)' => Met(e)
    BY <1>2 DEF Met
  <2> QED BY <1>6, <2>1, MetKeeps
<1>10. DropsRight' /\ Holds'
  BY <1>2, <1>6, <1>7, SameTells, DropsKeep, HoldsKeeps
<1> QED BY <1>8, <1>9, <1>10 DEF Keeping

LEMMA NoMachineHolds ==
  ASSUME NEW d \in Directives, KInv, NoMachine(d)
  PROVE  Keeping'
<1> USE DEF NoMachine, Set, temporal, conn, gateway, session, wire, disk, machine, bounds
<1>1. \A e \in Directives : worker'[e] = "picked" => worker[e] = "picked"
  BY DEF KInv, IInv, TypeOK
<1> QED BY <1>1, RowsClosedSame, ActivitySameOn, SilentKeeps DEF KInv, IInv

LEMMA StartDirectiveHolds ==
  ASSUME NEW d \in Directives, KInv, StartDirective(d)
  PROVE  Keeping'
<1> USE DEF temporal, conn, gateway, session, wire, disk, machine, bounds
<1>1. /\ UNCHANGED <<cancelReq, carried, kept, marked, job, out, unkept, hello, down>>
      /\ worker[d] = "picked" /\ activity[d] # "none"
  BY DEF StartDirective, KInv, Keeping, Reached
<1>2. /\ \A e \in Directives \ {d} : row'[e] = row[e]
      /\ \/ row' = row
         \/ /\ row[d].state = "reserved" /\ row'[d].state = "running"
            /\ row'[d].sent = row[d].sent /\ row'[d].result = row[d].result
  <2>1. CASE row' = row
    BY <2>1
  <2>2. CASE row[d].state = "reserved" /\ row' = Started(d)
    BY <2>2, StartedRow DEF KInv, IInv
  <2> QED BY <2>1, <2>2 DEF StartDirective
<1>3. ActivityOn
  <2>1. CASE activity' = activity
    BY <1>1, <2>1, ActivitySameOn
  <2>2. CASE \E o \in {"revoked", "closed", "error"} : EndActivity(d, o)
    <3>1. PICK o \in {"revoked", "closed", "error"} : EndActivity(d, o)
      BY <2>2
    <3>2. o \in Outcomes
      BY DEF Outcomes
    <3> QED BY <1>1, <3>1, <3>2, EndActivityOn DEF KInv
  <2> QED BY <2>1, <2>2 DEF StartDirective
<1>4. \A e \in Directives : worker'[e] = "picked" => worker[e] = "picked"
  BY DEF StartDirective, Set, KInv, IInv, TypeOK
<1>5. RowOn
  BY <1>2 DEF RowOn, Ends
<1>6. Reached'
  <2>1. \A e \in Directives : Running(e)' => Running(e) \/ e = d
    BY <1>2 DEF Running
  <2> QED BY <1>1, <1>2, <1>3, <1>4, <2>1 DEF KInv, Keeping, Reached, ActivityOn
<1>7. MetSent'
  <2>1. \A e \in Directives : Met(e)' => Met(e)
    BY <1>1 DEF Met
  <2> QED BY <1>5, <2>1, MetKeeps
<1>8. DropsRight' /\ Holds'
  BY <1>1, <1>3, <1>5, SameTells, DropsKeep, HoldsKeeps
<1> QED BY <1>6, <1>7, <1>8 DEF Keeping

LEMMA DeliverHolds ==
  ASSUME NEW d \in Directives, KInv, Deliver(d)
  PROVE  Keeping'
<1> USE DEF Deliver, Set, temporal, conn, gateway, session, wire, disk, machine, bounds
<1>1. \A e \in Directives : worker'[e] = "picked" => worker[e] = "picked"
  BY DEF KInv, IInv, TypeOK
<1> QED BY <1>1, RowsClosedSame, ActivitySameOn, SilentKeeps DEF KInv, IInv

LEMMA NotHandedHolds ==
  ASSUME NEW d \in Directives, KInv, NotHanded(d)
  PROVE  Keeping'
<1> USE DEF NotHanded, temporal, conn, gateway, session, wire, disk, machine, bounds
<1>1. \A e \in Directives : worker'[e] = "picked" => worker[e] = "picked"
  BY DEF Set, KInv, IInv, TypeOK
<1>2. RowsClosed({"failed"})
  BY ClosedRow DEF KInv, IInv, Ends
<1>3. ActivityOn
  BY EndActivityOn DEF KInv, Outcomes
<1> QED BY <1>1, <1>2, <1>3, SilentKeeps

LEMMA CancelActivityHolds ==
  ASSUME NEW d \in Directives, KInv, CancelActivity(d)
  PROVE  Keeping'
<1> USE DEF CancelActivity, Set, temporal, conn, gateway, session, wire, disk, machine, bounds
<1>1. \A e \in Directives : worker'[e] = "picked" => worker[e] = "picked"
  BY DEF KInv, IInv, TypeOK
<1>2. ActivityOn
  BY DEF ActivityOn, KInv, IInv, TypeOK
<1> QED BY <1>1, <1>2, RowsClosedSame, SilentKeeps DEF KInv, IInv

LEMMA DeadlinePassesHolds ==
  ASSUME NEW d \in Directives, KInv, DeadlinePasses(d)
  PROVE  Keeping'
<1> USE DEF DeadlinePasses, temporal, conn, gateway, session, wire, disk, machine, bounds
<1> QED BY RowsClosedSame, ActivitySameOn, SilentKeeps DEF KInv, IInv

LEMMA TimeoutHolds ==
  ASSUME NEW d \in Directives, KInv, Timeout(d)
  PROVE  Keeping'
<1> USE DEF Timeout, temporal, conn, gateway, session, wire, disk, machine, bounds
<1>1. ActivityOn
  BY DEF ActivityOn, Set, KInv, IInv, TypeOK
<1> QED BY <1>1, RowsClosedSame, SilentKeeps DEF KInv, IInv

\* A hello lists what the machine has.
LEMMA HelloResultsHolds ==
  ASSUME NEW c \in Conns, KInv, HelloResults(c)
  PROVE  Keeping'
<1> USE DEF HelloResults, temporal, conn, gateway, session, wire, disk, machine, bounds
<1>1. \A b \in Conns : /\ hello'[b].running \subseteq hello[b].running
                       /\ hello'[b].finished \subseteq hello[b].finished \cup kept
  <2>1. hello[c] \in Hello
    BY DEF KInv, IInv, TypeOK
  <2>2. hello'[c] = [hello[c] EXCEPT !.finished = kept] /\ \A b \in Conns \ {c} : hello'[b] = hello[b]
    BY DEF KInv, IInv, TypeOK
  <2> QED BY <2>1, <2>2 DEF Hello
<1>2. \A d \in Directives : Met(d)' => Met(d)
  BY <1>1 DEF Met
<1>3. Tells({})
  BY SameTells
<1> QED BY <1>2, <1>3, RowsClosedSame, ActivitySameOn, GatewayKeeps DEF KInv, IInv

LEMMA HelloJobsHolds ==
  ASSUME KInv, HelloJobs
  PROVE  Keeping'
<1> USE DEF HelloJobs, temporal, conn, gateway, session, wire, disk, machine, bounds
<1>1. \A b \in Conns : /\ \A d \in hello'[b].running : d \in hello[b].running \/ job[d] # "none"
                       /\ hello'[b].finished \subseteq hello[b].finished
  <2>1. cconn \in Conns /\ hello[cconn] \in Hello
    BY DEF KInv, IInv, TypeOK, Conned
  <2> DEFINE jobs == {d \in Directives : job[d] # "none"}
  <2>2. /\ hello'[cconn] = [hello[cconn] EXCEPT !.running = jobs]
        /\ \A b \in Conns \ {cconn} : hello'[b] = hello[b]
    BY <2>1 DEF KInv, IInv, TypeOK
  <2>3. hello'[cconn].running = jobs /\ hello'[cconn].finished = hello[cconn].finished
    BY <2>1, <2>2 DEF Hello
  <2> QED BY <2>2, <2>3
<1>2. \A d \in Directives : Met(d)' => Met(d)
  BY <1>1 DEF Met
<1>3. Tells({})
  BY SameTells
<1> QED BY <1>2, <1>3, RowsClosedSame, ActivitySameOn, GatewayKeeps DEF KInv, IInv

LEMMA RegisterHolds ==
  ASSUME NEW c \in Conns, KInv, Register(c)
  PROVE  Keeping'
<1> USE DEF Register, temporal, conn, gateway, session, wire, disk, machine, bounds
<1>1. Tells({})
  <2>1. CASE down' = down
    BY <2>1, SameTells
  <2>2. CASE down' = [down EXCEPT ![c] = <<Message("welcome", Nothing)>>]
    <3>1. \A b \in Conns : down'[b] = down[b] \/ down'[b] = <<Message("welcome", Nothing)>>
      BY <2>2 DEF KInv, IInv, TypeOK
    <3>2. ASSUME NEW i \in 1..Len(<<Message("welcome", Nothing)>>)
          PROVE  <<Message("welcome", Nothing)>>[i].type = "welcome"
      BY DEF Message
    <3> QED BY <3>1, <3>2 DEF Tells, Drops
  <2> QED BY <2>1, <2>2
<1>2. \A d \in Directives : Met(d)' => Met(d)
  BY DEF Met
<1> QED BY <1>1, <1>2, RowsClosedSame, ActivitySameOn, GatewayKeeps DEF KInv, IInv

LEMMA HelloForgotten ==
  ASSUME KInv, NEW c \in Conns, hello' = [hello EXCEPT ![c] = NoHello]
  PROVE  \A b \in Conns : /\ hello'[b].running \subseteq hello[b].running
                          /\ hello'[b].finished \subseteq hello[b].finished
<1>1. \A b \in Conns : hello'[b] = hello[b] \/ hello'[b] = NoHello
  BY DEF KInv, IInv, TypeOK
<1>2. NoHello.running = {} /\ NoHello.finished = {}
  BY DEF NoHello
<1> QED BY <1>1, <1>2

LEMMA RegisterFailsHolds ==
  ASSUME NEW c \in Conns, KInv, RegisterFails(c)
  PROVE  Keeping'
<1> USE DEF RegisterFails, temporal, conn, gateway, session, wire, disk, machine, bounds
<1>1. \A d \in Directives : Met(d)' => Met(d)
  BY HelloForgotten DEF Met
<1>2. Tells({})
  BY SameTells
<1> QED BY <1>1, <1>2, RowsClosedSame, ActivitySameOn, GatewayKeeps DEF KInv, IInv

\* What a row over was sent for is over.
LEMMA SentAndOver ==
  ASSUME KInv, NEW d \in Directives, row[d].sent # NoConn, ~Running(d)
  PROVE  MayDrop(d)
<1>1. row[d] \in Row
  BY DEF KInv, IInv, TypeOK
<1>2. row[d].state \in Ends
  BY <1>1, RowFields DEF KInv, Keeping, Reached, Running
<1> QED BY <1>2 DEF MayDrop

LEMMA ReconcileHolds ==
  ASSUME KInv, Reconcile
  PROVE  Keeping'
<1> USE DEF Reconcile, Fault, EndConn, temporal, conn, gateway, session, wire, disk, machine, bounds
<1> DEFINE open == {d \in Directives : Running(d)}
           over == (hello[gconn].running \cup hello[gconn].finished) \ open
<1>1. gconn \in Conns /\ hello[gconn] \in Hello
  BY DEF KInv, IInv, TypeOK, Conned
<1>2. hello[gconn].running \subseteq Directives /\ hello[gconn].finished \subseteq Directives
  BY <1>1 DEF Hello
<1>3. Tells(over)
  <2>1. CASE down' = down
    BY <2>1 DEF Tells, Drops
  <2>2. CASE \E stop \in Tell("cancel", hello[gconn].running \ open),
                drop \in Tell("ack", hello[gconn].finished \ open) : Write(stop \o drop)
    <3>1. PICK stop \in Tell("cancel", hello[gconn].running \ open),
               drop \in Tell("ack", hello[gconn].finished \ open) : Write(stop \o drop)
      BY <2>2
    <3>2. About(stop, hello[gconn].running \ open) /\ About(drop, hello[gconn].finished \ open)
      BY <1>2, TellAbout
    <3>3. About(stop \o drop, (hello[gconn].running \ open) \cup (hello[gconn].finished \ open))
      BY <3>2, ConcatAbout
    <3>4. over = (hello[gconn].running \ open) \cup (hello[gconn].finished \ open)
      OBVIOUS
    <3> HIDE DEF open, over
    <3> QED BY <3>1, <3>3, <3>4, WriteTells DEF KInv, IInv
  <2> QED BY <2>1, <2>2
<1>4. \A d \in over : MayDrop(d)'
  <2> SUFFICES ASSUME NEW d \in over PROVE MayDrop(d)'
    OBVIOUS
  <2>1. d \in Directives /\ ~Running(d) /\ Met(d)
    BY <1>1, <1>2 DEF Met
  <2>2. MayDrop(d)
    BY <2>1, SentAndOver DEF KInv, Keeping, MetSent
  <2> QED BY <2>2 DEF MayDrop
<1>5. \A d \in Directives : Met(d)' => Met(d)
  <2>1. \A d \in carried' : d \in carried \/ d \in hello[gconn].running \/ d \in hello[gconn].finished
    OBVIOUS
  <2>2. \A b \in Conns : /\ hello'[b].running \subseteq hello[b].running
                         /\ hello'[b].finished \subseteq hello[b].finished
    BY <1>1, HelloForgotten
  <2> HIDE DEF Reconcile
  <2>3. UNCHANGED <<kept, marked, job, out>>
    BY DEF Reconcile
  <2> QED BY <1>1, <2>1, <2>2, <2>3 DEF Met
<1> HIDE DEF over
<1>6. UNCHANGED <<row, worker, activity, cancelReq, job, marked, out, unkept, kept>>
  OBVIOUS
<1> HIDE DEF Reconcile
<1> QED BY <1>3, <1>4, <1>5, <1>6, RowsClosedSame, ActivitySameOn, GatewayKeeps DEF KInv, IInv

LEMMA ReconciledHolds ==
  ASSUME KInv, Reconciled
  PROVE  Keeping'
<1> USE DEF Reconciled, temporal, conn, gateway, session, wire, disk, machine, bounds
<1> QED BY RowsClosedSame, ActivitySameOn, SilentKeeps DEF KInv, IInv

LEMMA MarkSentHolds ==
  ASSUME NEW d \in Directives, KInv, MarkSent(d)
  PROVE  Keeping'
<1> USE DEF MarkSent, Fault, temporal, conn, gateway, session, wire, disk, machine, bounds
<1>1. gconn \in Conns /\ gconn # NoConn
  BY DirectiveAssumption DEF KInv, IInv, TypeOK, Conned
<1>2. /\ \A e \in Directives \ {d} : row'[e] = row[e]
      /\ row'[d].state = row[d].state /\ row'[d].result = row[d].result
      /\ row'[d] = row[d] \/ (row'[d].sent = gconn /\ row'[d].state = "running")
  <2>1. CASE row' = row
    BY <2>1
  <2>2. CASE Running(d) /\ row' = [row EXCEPT ![d].sent = gconn]
    <3>1. row[d] \in Row
      BY DEF KInv, IInv, TypeOK
    <3>2. row'[d] = [row[d] EXCEPT !.sent = gconn] /\ \A e \in Directives \ {d} : row'[e] = row[e]
      BY <2>2 DEF KInv, IInv, TypeOK
    <3> QED BY <2>2, <3>1, <3>2 DEF Row, Running
  <2> QED BY <2>1, <2>2 DEF Sendable
<1>3. UNCHANGED <<worker, activity, cancelReq, carried, kept, marked, job, out, unkept, hello, down>>
  OBVIOUS
<1> HIDE DEF MarkSent
<1>4. RowOn
  BY <1>1, <1>2 DEF RowOn
<1>5. ActivityOn
  BY <1>3, ActivitySameOn
<1>6. Reached'
  <2>1. \A e \in Directives : Running(e)' => Running(e)
    BY <1>2 DEF Running
  <2> QED BY <1>2, <1>3, <2>1 DEF KInv, Keeping, Reached
<1>7. MetSent'
  <2>1. \A e \in Directives : Met(e)' => Met(e)
    BY <1>3 DEF Met
  <2> QED BY <1>4, <2>1, MetKeeps
<1>8. DropsRight' /\ Holds'
  BY <1>3, <1>4, <1>5, SameTells, DropsKeep, HoldsKeeps
<1> QED BY <1>6, <1>7, <1>8 DEF Keeping

LEMMA AttachHolds ==
  ASSUME NEW d \in Directives, KInv, Attach(d)
  PROVE  Keeping'
<1> USE DEF Attach, temporal, conn, gateway, session, wire, disk, machine, bounds
<1>1. \A e \in Directives : Met(e)' => Met(e) \/ row[e].sent # NoConn
  BY DEF Met, KInv, IInv, Once, ToWrite
<1>2. Tells({})
  BY SameTells
<1> QED BY <1>1, <1>2, RowsClosedSame, ActivitySameOn, GatewayKeeps DEF KInv, IInv
LEMMA WriteDirectiveHolds ==
  ASSUME NEW d \in Directives, KInv, WriteDirective(d)
  PROVE  Keeping'
<1> USE DEF WriteDirective, temporal, conn, gateway, session, wire, disk, machine, bounds
<1>1. Tells({})
  <2>1. CASE down' = down
    BY <2>1, SameTells
  <2>2. CASE gconn # NoConn /\ down' = [down EXCEPT ![gconn] = down[gconn] \o <<Message("directive", d)>>]
    <3> DEFINE m == Message("directive", d)
    <3>1. gconn \in Conns /\ down[gconn] \in Seq(Frame) /\ m \in Frame /\ m.type = "directive"
      BY <2>2 DEF KInv, IInv, TypeOK, Message, Frame, Types
    <3> HIDE DEF m
    <3>2. \A i \in 1..Len(down[gconn] \o <<m>>) :
             \/ i \in 1..Len(down[gconn]) /\ (down[gconn] \o <<m>>)[i] = down[gconn][i]
             \/ (down[gconn] \o <<m>>)[i] = m
      BY <3>1
    <3>3. /\ down'[gconn] = down[gconn] \o <<m>>
          /\ \A c \in Conns \ {gconn} : down'[c] = down[c]
      BY <2>2, <3>1 DEF KInv, IInv, TypeOK, m
    <3> QED BY <3>1, <3>2, <3>3 DEF Tells, Drops
  <2> QED BY <2>1, <2>2 DEF Write
<1>2. \A e \in Directives : Met(e)' => Met(e) \/ row[e].sent # NoConn
  BY DEF Met, KInv, IInv, Once
<1> QED BY <1>1, <1>2, RowsClosedSame, ActivitySameOn, GatewayKeeps DEF KInv, IInv

LEMMA LoseHolds ==
  ASSUME NEW d \in Directives, KInv, Lose(d)
  PROVE  Keeping'
<1> USE DEF Lose, temporal, conn, gateway, session, wire, disk, machine, bounds
<1>1. RowsClosed({"lost"})
  BY ClosedRow DEF KInv, IInv, Ends
<1> QED BY <1>1, ActivitySameOn, SilentKeeps

LEMMA EndDirectiveHolds ==
  ASSUME NEW e \in Directives \X {"lost", "revoked"}, KInv, EndDirective(e)
  PROVE  Keeping'
<1> USE DEF EndDirective, temporal, conn, gateway, session, wire, disk, machine, bounds
<1>1. e[1] \in Directives /\ e[2] \in Outcomes
  BY DEF Outcomes
<1>2. ActivityOn
  BY <1>1, EndActivityOn, ActivitySameOn DEF KInv
<1> QED BY <1>2, RowsClosedSame, SilentKeeps DEF KInv, IInv

LEMMA BeatHolds ==
  ASSUME NEW d \in Directives, KInv, Beat(d)
  PROVE  Keeping'
<1> USE DEF Beat, temporal, conn, gateway, session, wire, disk, machine, bounds
<1> QED BY RowsClosedSame, ActivitySameOn, SilentKeeps DEF KInv, IInv

LEMMA BeatAnswerHolds ==
  ASSUME KInv, BeatAnswer
  PROVE  Keeping'
<1> USE DEF BeatAnswer, temporal, conn, gateway, session, wire, disk, machine, bounds
<1>1. PICK d \in Directives : d = beat
  BY DEF KInv, IInv, TypeOK
<1>2. RowsClosed({"gone"})
  <2>1. row' \in {row, Closed(d, "gone")}
    BY <1>1 DEF BeatCanceled, BeatGone
  <2> QED BY <2>1, ClosedRow DEF KInv, IInv, Ends
<1>3. /\ UNCHANGED <<worker, activity, cancelReq, kept, marked, job, out, unkept, hello>>
      /\ carried' \subseteq carried
  BY DEF BeatCanceled, BeatGone, Detach
<1>4. \A e \in Directives : Met(e)' => Met(e)
  BY <1>3 DEF Met
<1>5. CASE down' = down
  BY <1>2, <1>3, <1>5, ActivitySameOn, SilentKeeps
<1>6. CASE \E ms \in {<<Message("cancel", d)>>, <<>>} : Write(ms) /\ (cancelReq[d] \/ (d \in carried /\ activity[d] # "open"))
  <2>1. Tells({d})
    BY <1>6, FrameAbout, WriteTells DEF KInv, IInv
  <2>2. MayDrop(d)
    <3>1. CASE cancelReq[d]
      BY <3>1 DEF MayDrop
    <3>2. CASE d \in carried /\ activity[d] # "open" /\ Running(d)
      BY <3>2 DEF MayDrop, KInv, Keeping, Reached
    <3>3. CASE d \in carried /\ ~Running(d)
      BY <3>3, SentAndOver DEF KInv, Keeping, MetSent, Met
    <3> QED BY <1>6, <3>1, <3>2, <3>3
  <2>3. ActivityOn /\ RowOn
    BY <1>2, <1>3, ActivitySameOn, ClosedOn
  <2>4. MayDrop(d)'
    BY <2>2, <2>3, MayDropStays
  <2> QED BY <1>2, <1>3, <1>4, <2>1, <2>3, <2>4, GatewayKeeps
<1> QED BY <1>1, <1>5, <1>6 DEF BeatCanceled, BeatGone

LEMMA ConnEndsHolds ==
  ASSUME KInv, ConnEnds
  PROVE  Keeping'
<1> USE DEF ConnEnds, EndConn, temporal, conn, gateway, session, wire, disk, machine, bounds
<1> QED BY RowsClosedSame, ActivitySameOn, SilentKeeps DEF KInv, IInv

LEMMA ReadResultHolds ==
  ASSUME NEW d \in Directives, KInv, ReadResult(d)
  PROVE  Keeping'
<1> USE DEF ReadResult, temporal, conn, gateway, session, wire, disk, machine, bounds
<1> QED BY RowsClosedSame, ActivitySameOn, SilentKeeps DEF KInv, IInv

LEMMA AckTells ==
  ASSUME TypeOK, NEW d \in Directives, Ack(d)
  PROVE  Tells({d}) /\ carried' \subseteq carried
<1>1. carried' \subseteq carried
  BY DEF Ack, Detach
<1>2. CASE down' = down
  BY <1>1, <1>2 DEF Tells, Drops
<1>3. CASE Write(<<Message("ack", d)>>)
  BY <1>1, <1>3, FrameAbout, WriteTells
<1> QED BY <1>2, <1>3 DEF Ack

LEMMA SaveResultHolds ==
  ASSUME NEW d \in Directives, KInv, SaveResult(d)
  PROVE  Keeping'
<1> USE DEF temporal, conn, gateway, session, wire, disk, machine, bounds
<1>1. UNCHANGED <<worker, activity, cancelReq, kept, marked, job, out, unkept, hello>>
  BY DEF SaveResult
<1>2. out[d] # "none"
  BY DEF SaveResult, KInv, IInv, Said
<1>3. ActivityOn
  BY <1>1, ActivitySameOn
<1>4. CASE Running(d) /\ row' = [row EXCEPT ![d].result = out[d]] /\ UNCHANGED <<carried, down>>
  <2>1. row[d] \in Row /\ row'[d] = [row[d] EXCEPT !.result = out[d]]
        /\ \A e \in Directives \ {d} : row'[e] = row[e]
    BY <1>4 DEF KInv, IInv, TypeOK
  <2>2. row'[d].state = row[d].state /\ row'[d].sent = row[d].sent /\ row'[d].result = out[d]
    BY <2>1 DEF Row
  <2>3. RowOn
    BY <1>2, <2>1, <2>2 DEF RowOn
  <2>4. Reached'
    <3>1. \A e \in Directives : Running(e)' => Running(e)
      BY <2>1, <2>2 DEF Running
    <3> QED BY <1>1, <2>1, <2>2, <3>1 DEF KInv, Keeping, Reached
  <2>5. MetSent'
    <3>1. \A e \in Directives : Met(e)' => Met(e)
      BY <1>1, <1>4 DEF Met
    <3> QED BY <2>3, <3>1, MetKeeps
  <2>6. DropsRight' /\ Holds'
    BY <1>1, <1>3, <1>4, <2>3, SameTells, DropsKeep, HoldsKeeps
  <2> QED BY <2>4, <2>5, <2>6 DEF Keeping
<1>5. CASE ~Running(d) /\ row' = row /\ Ack(d)
  <2>1. Tells({d}) /\ carried' \subseteq carried
    BY <1>5, AckTells DEF KInv, IInv
  <2>2. MayDrop(d)
    BY <1>2, <1>5, SentAndOver DEF KInv, Keeping, MetSent, Met
  <2>3. MayDrop(d)'
    BY <1>1, <1>5, <2>2 DEF MayDrop
  <2>4. \A e \in Directives : Met(e)' => Met(e)
    BY <1>1, <2>1 DEF Met
  <2>5. RowsClosed({})
    BY <1>5, RowsClosedSame DEF KInv, IInv
  <2> QED BY <1>1, <1>3, <2>1, <2>3, <2>4, <2>5, GatewayKeeps
<1>6. CASE row' = row /\ UNCHANGED down /\ carried' \subseteq carried
  BY <1>1, <1>3, <1>6, RowsClosedSame, SilentKeeps DEF KInv, IInv
<1> QED BY <1>4, <1>5, <1>6 DEF SaveResult, EndConn

LEMMA CompleteHolds ==
  ASSUME NEW d \in Directives, KInv, Complete(d)
  PROVE  Keeping'
<1> USE DEF Complete, temporal, conn, gateway, session, wire, disk, machine, bounds
<1>1. Completion(d) \in Outcomes
  <2>1. row[d] \in Row /\ row[d].result # "none"
    BY DEF KInv, IInv, TypeOK, Said
  <2>2. row[d].result \in Statuses
    BY <2>1, RowFields
  <2> HIDE DEF Complete
  <2> QED BY <2>2 DEF Completion, Outcomes, Statuses
<1>2. ActivityOn
  BY <1>1, EndActivityOn, ActivitySameOn DEF KInv
<1> QED BY <1>2, RowsClosedSame, SilentKeeps DEF KInv, IInv

LEMMA CloseResultHolds ==
  ASSUME NEW d \in Directives, KInv, CloseResult(d)
  PROVE  Keeping'
<1> USE DEF CloseResult, temporal, conn, gateway, session, wire, disk, machine, bounds
<1>1. row[d].result # "none"
  BY DEF KInv, IInv, Said
<1>2. RowsClosed(Ends)
  <2>1. row[d].result \in Statuses
    BY <1>1, RowFields DEF KInv, IInv, TypeOK
  <2>2. ClosedState(d) \in Ends /\ "gone" \in Ends
    BY <2>1 DEF ClosedState, Ends, Statuses
  <2>3. PICK s \in Ends : row' \in {row, Closed(d, s)}
    BY <2>2
  <2> QED BY <2>3, ClosedRow DEF KInv, IInv, RowsClosed
<1>3. UNCHANGED <<worker, activity, cancelReq, kept, marked, job, out, unkept, hello>>
  OBVIOUS
<1>4. Tells({d}) /\ carried' \subseteq carried
  BY AckTells DEF KInv, IInv
<1> HIDE DEF CloseResult
<1>5. MayDrop(d)'
  BY <1>1, <1>2 DEF MayDrop, RowsClosed
<1>6. \A e \in Directives : Met(e)' => Met(e)
  BY <1>3, <1>4 DEF Met
<1> QED BY <1>2, <1>3, <1>4, <1>5, <1>6, ActivitySameOn, GatewayKeeps

LEMMA SweepResultHolds ==
  ASSUME NEW d \in Directives, KInv, SweepResult(d)
  PROVE  Keeping'
<1> USE DEF SweepResult, temporal, conn, gateway, session, wire, disk, machine, bounds
<1> QED BY RowsClosedSame, ActivitySameOn, SilentKeeps DEF KInv, IInv

LEMMA SweepDirectiveHolds ==
  ASSUME NEW d \in Directives, KInv, SweepDirective(d)
  PROVE  Keeping'
<1> USE DEF SweepDirective, temporal, conn, gateway, session, wire, disk, machine, bounds
<1>1. PICK s \in Ends : row' = Closed(d, s)
  BY DEF Ends
<1>2. RowsClosed({s})
  BY <1>1, ClosedRow DEF KInv, IInv
<1>3. UNCHANGED <<worker, activity, cancelReq, kept, marked, job, out, unkept, hello>> /\ carried' \subseteq carried
  BY DEF Detach
<1>4. Open(d)
  BY DEF Swept, Open, Running
<1>5. Tells({d})
  BY FrameAbout, WriteTells DEF KInv, IInv
<1> HIDE DEF SweepDirective
<1>6. MayDrop(d)'
  <2>1. row[d] \in Row
    BY DEF KInv, IInv, TypeOK
  <2>2. row'[d] = [row[d] EXCEPT !.state = s]
    BY <1>1, <1>4 DEF Closed, KInv, IInv, TypeOK
  <2>3. row'[d].state = s
    BY <2>1, <2>2 DEF Row
  <2> QED BY <2>3 DEF MayDrop
<1>7. \A e \in Directives : Met(e)' => Met(e)
  BY <1>3 DEF Met
<1> QED BY <1>2, <1>3, <1>5, <1>6, <1>7, ActivitySameOn, GatewayKeeps

LEMMA RevokeHolds ==
  ASSUME KInv, Revoke, IInv'
  PROVE  Keeping'
<1> USE DEF Revoke, temporal, conn, gateway, session, wire, disk, machine, bounds
<1> DEFINE closed == {d \in Directives : Open(d)}
<1>1. ASSUME NEW d \in Directives
      PROVE  /\ row'[d].sent = row[d].sent /\ row'[d].result = row[d].result
             /\ ~Open(d) => row'[d] = row[d]
             /\ Open(d) => row'[d].state = "revoked"
  <2>1. row[d] \in Row
    BY DEF KInv, IInv, TypeOK
  <2>2. CASE Open(d)
    <3>1. row'[d] = [row[d] EXCEPT !.state = "revoked"]
      BY <2>2
    <3> QED BY <2>1, <2>2, <3>1 DEF Row
  <2>3. CASE ~Open(d)
    BY <2>3
  <2> QED BY <2>2, <2>3
<1>2. RowsClosed({"revoked"})
  <2>1. row' \in [Directives -> Row]
    BY DEF IInv, TypeOK
  <2> HIDE DEF Revoke
  <2> QED BY <1>1, <2>1 DEF RowsClosed, OnlyClosed, Open, Ends
<1>3. UNCHANGED <<worker, activity, cancelReq, kept, marked, job, out, unkept, hello>> /\ carried' \subseteq carried
  BY DEF Detach
<1>4. Tells(closed)
  <2>1. PICK stop \in Tell("cancel", closed) : Write(stop)
    OBVIOUS
  <2>2. About(stop, closed)
    <3> HIDE DEF Revoke
    <3> QED BY TellAbout
  <2> HIDE DEF Revoke, closed
  <2> QED BY <2>1, <2>2, WriteTells DEF KInv, IInv
<1>5. \A d \in closed : MayDrop(d)'
  <2> HIDE DEF Revoke
  <2> QED BY <1>1 DEF MayDrop, Ends
<1> HIDE DEF Revoke
<1>6. \A e \in Directives : Met(e)' => Met(e)
  BY <1>3 DEF Met
<1> QED BY <1>2, <1>3, <1>4, <1>5, <1>6, ActivitySameOn, GatewayKeeps

LEMMA ServerRestartHolds ==
  ASSUME KInv, ServerRestart
  PROVE  Keeping'
<1> USE DEF ServerRestart, temporal, conn, gateway, session, wire, disk, machine, bounds
<1> QED BY RowsClosedSame, ActivitySameOn, SilentKeeps DEF KInv, IInv

\* The machine's own steps: what they change of what it has.
LEMMA MachineKeeps ==
  ASSUME KInv, UNCHANGED <<row, worker, activity, cancelReq, carried, hello>>,
         Tells({}),
         \A d \in Directives :
           d \in kept' \/ d \in marked' \/ job'[d] # "none" \/ out'[d] # "none" => row[d].sent # NoConn
  PROVE  Reached' /\ MetSent' /\ DropsRight' /\ \A d \in Directives : MayDrop(d)' <=> MayDrop(d)
<1>1. RowsClosed({})
  BY RowsClosedSame DEF KInv, IInv
<1>2. RowOn /\ ActivityOn
  BY <1>1, ClosedOn, ActivitySameOn
<1>3. Reached'
  BY <1>1, <1>2, ReachedKeeps
<1>4. DropsRight'
  BY <1>2, DropsKeep
<1>5. \A d \in Directives : Met(d)' => row[d].sent # NoConn
  BY DEF Met, KInv, Keeping, MetSent
<1>6. MetSent'
  BY <1>2, <1>5, MetKeeps
<1> QED BY <1>3, <1>4, <1>6 DEF MayDrop

LEMMA ReceiveHolds ==
  ASSUME KInv, Receive
  PROVE  Keeping'
<1> USE DEF temporal, conn, gateway, session, wire, disk, machine, bounds
<1> DEFINE m == Head(down[cconn])
<1>1. /\ cconn \in Conns /\ down[cconn] \in Seq(Frame) /\ down[cconn] # <<>>
      /\ down' = [down EXCEPT ![cconn] = Tail(down[cconn])]
  BY DEF Receive, KInv, IInv, TypeOK, Conned
<1>2. /\ Len(Tail(down[cconn])) = Len(down[cconn]) - 1
      /\ \A i \in 1..Len(Tail(down[cconn])) : Tail(down[cconn])[i] = down[cconn][i + 1]
      /\ m = down[cconn][1] /\ m \in Frame /\ Len(down[cconn]) \in Nat /\ 1 <= Len(down[cconn])
  BY <1>1
<1>3. Tells({})
  <2>1. down'[cconn] = Tail(down[cconn]) /\ \A c \in Conns \ {cconn} : down'[c] = down[c]
    BY <1>1 DEF KInv, IInv, TypeOK
  <2>2. \A i \in 1..Len(down'[cconn]) : i + 1 \in 1..Len(down[cconn]) /\ down'[cconn][i] = down[cconn][i + 1]
    BY <1>2, <2>1
  <2>3. \A c \in Conns : \A i \in 1..Len(down'[c]) : \E j \in 1..Len(down[c]) : down'[c][i] = down[c][j]
    BY <2>1, <2>2
  <2> QED BY <2>3 DEF Tells, Drops
<1>4. m.type # "welcome" => m.id \in Directives
  BY <1>2 DEF Frame
<1>5. m.type = "directive" => row[m.id].sent # NoConn
  <2> SUFFICES ASSUME m.type = "directive" PROVE row[m.id].sent # NoConn
    OBVIOUS
  <2>1. PICK x \in Directives : x = m.id
    BY <1>4
  <2>2. InFlight(cconn, 1, x) /\ 1 \in Nat
    BY <1>2, <2>1 DEF InFlight
  <2> QED BY <1>1, <2>1, <2>2 DEF KInv, IInv, Once
<1>6. m.type \in {"cancel", "ack"} => MayDrop(m.id)
  <2> SUFFICES ASSUME m.type \in {"cancel", "ack"} PROVE MayDrop(m.id)
    OBVIOUS
  <2>1. PICK x \in Directives : x = m.id
    BY <1>4
  <2>2. Drops(down[cconn][1], x) /\ 1 \in 1..Len(down[cconn])
    BY <1>2, <2>1 DEF Drops
  <2>3. MayDrop(x)
    BY <1>1, <2>2 DEF KInv, Keeping, DropsRight
  <2> QED BY <2>1, <2>3
<1>7. UNCHANGED <<row, worker, activity, cancelReq, carried, hello>>
  BY DEF Receive
<1>8. \/ UNCHANGED <<job, marked, out, unkept, kept>>
      \/ /\ m.type = "directive" /\ out' = [out EXCEPT ![m.id] = "refused"]
         /\ UNCHANGED <<job, marked>>
         /\ \/ kept' = kept \cup {m.id} /\ unkept' = unkept
            \/ kept' = kept /\ unkept' = unkept \cup {m.id}
      \/ /\ m.type = "directive" /\ marked' = marked \cup {m.id} /\ job' = [job EXCEPT ![m.id] = "run"]
         /\ UNCHANGED <<out, unkept, kept>>
      \/ /\ m.type \in {"cancel", "ack"} /\ kept' \in {kept, kept \ {m.id}}
         /\ UNCHANGED <<job, marked, out, unkept>>
  BY DEF Receive, Refuse, Keep, Begin, Cancel, Set
<1>9. \A d \in Directives : d \in kept \/ d \in marked \/ job[d] # "none" \/ out[d] # "none" => row[d].sent # NoConn
  BY DEF KInv, Keeping, MetSent, Met
<1> HIDE DEF m
<1>10. ASSUME NEW d \in Directives
       PROVE  d \in kept' \/ d \in marked' \/ job'[d] # "none" \/ out'[d] # "none" => row[d].sent # NoConn
  <2>1. /\ job'[d] # job[d] \/ out'[d] # out[d] => m.type = "directive" /\ m.id = d
        /\ d \in kept' \ kept \/ d \in marked' \ marked => m.type = "directive" /\ m.id = d
    BY <1>4, <1>8 DEF KInv, IInv, TypeOK
  <2> QED BY <1>5, <1>9, <2>1
<1>11. Reached' /\ MetSent' /\ DropsRight' /\ \A d \in Directives : MayDrop(d)' <=> MayDrop(d)
  BY <1>3, <1>7, <1>10, MachineKeeps
<1>12. Holds'
  <2> SUFFICES ASSUME NEW d \in Directives
               PROVE  /\ job'[d] = "run" => d \in marked'
                      /\ job'[d] # "run" /\ out'[d] # "none" /\ d \notin unkept' => d \in kept' \/ MayDrop(d)
    BY <1>11 DEF Holds
  <2>1. /\ job[d] = "run" => d \in marked
        /\ job[d] # "run" /\ out[d] # "none" /\ d \notin unkept => d \in kept \/ MayDrop(d)
    BY DEF KInv, Keeping, Holds
  <2>2. CASE UNCHANGED <<job, marked, out, unkept, kept>>
    BY <2>1, <2>2
  <2>3. CASE /\ m.type = "directive" /\ out' = [out EXCEPT ![m.id] = "refused"]
             /\ UNCHANGED <<job, marked>>
             /\ \/ kept' = kept \cup {m.id} /\ unkept' = unkept
                \/ kept' = kept /\ unkept' = unkept \cup {m.id}
    BY <1>4, <2>1, <2>3 DEF KInv, IInv, TypeOK
  <2>4. CASE /\ m.type = "directive" /\ marked' = marked \cup {m.id} /\ job' = [job EXCEPT ![m.id] = "run"]
             /\ UNCHANGED <<out, unkept, kept>>
    BY <1>4, <2>1, <2>4 DEF KInv, IInv, TypeOK
  <2>5. CASE /\ m.type \in {"cancel", "ack"} /\ kept' \in {kept, kept \ {m.id}}
             /\ UNCHANGED <<job, marked, out, unkept>>
    <3>1. CASE d = m.id
      BY <1>6, <2>1, <2>5, <3>1
    <3>2. CASE d # m.id
      BY <2>1, <2>5, <3>2
    <3> QED BY <3>1, <3>2
  <2> QED BY <1>8, <2>2, <2>3, <2>4, <2>5
<1> QED BY <1>11, <1>12 DEF Keeping

LEMMA RunEndsHolds ==
  ASSUME NEW d \in Directives, KInv, RunEnds(d)
  PROVE  Keeping'
<1> USE DEF temporal, conn, gateway, session, wire, disk, machine, bounds
<1>1. UNCHANGED <<row, worker, activity, cancelReq, carried, hello, down, marked>>
  BY DEF RunEnds
<1>2. /\ job[d] = "run" /\ job'[d] = "ended" /\ \A e \in Directives \ {d} : job'[e] = job[e]
      /\ \A e \in Directives \ {d} : out'[e] = out[e]
      /\ \/ kept' = kept \cup {d} /\ unkept' = unkept
         \/ kept' = kept /\ unkept' = unkept \cup {d}
  BY DEF RunEnds, Keep, Set, KInv, IInv, TypeOK
<1>3. row[d].sent # NoConn
  BY <1>2 DEF KInv, Keeping, MetSent, Met
<1>4. \A e \in Directives :
        e \in kept' \/ e \in marked' \/ job'[e] # "none" \/ out'[e] # "none" => row[e].sent # NoConn
  BY <1>1, <1>2, <1>3 DEF KInv, Keeping, MetSent, Met
<1>5. Reached' /\ MetSent' /\ DropsRight' /\ \A e \in Directives : MayDrop(e)' <=> MayDrop(e)
  BY <1>1, <1>4, SameTells, MachineKeeps
<1>6. Holds'
  BY <1>1, <1>2, <1>5 DEF KInv, Keeping, Holds
<1> QED BY <1>5, <1>6 DEF Keeping

LEMMA RunSentHolds ==
  ASSUME NEW d \in Directives, KInv, RunSent(d)
  PROVE  Keeping'
<1> USE DEF temporal, conn, gateway, session, wire, disk, machine, bounds
<1>1. UNCHANGED <<row, worker, activity, cancelReq, carried, hello, down, kept, out, unkept>>
  BY DEF RunSent
<1>2. /\ job[d] = "ended" /\ job'[d] = "none" /\ \A e \in Directives \ {d} : job'[e] = job[e]
      /\ marked' = marked \ {d}
  BY DEF RunSent, Set, KInv, IInv, TypeOK
<1>3. \A e \in Directives :
        e \in kept' \/ e \in marked' \/ job'[e] # "none" \/ out'[e] # "none" => row[e].sent # NoConn
  BY <1>1, <1>2 DEF KInv, Keeping, MetSent, Met
<1>4. Reached' /\ MetSent' /\ DropsRight' /\ \A e \in Directives : MayDrop(e)' <=> MayDrop(e)
  BY <1>1, <1>3, SameTells, MachineKeeps
<1>5. Holds'
  BY <1>1, <1>2, <1>4 DEF KInv, Keeping, Holds
<1> QED BY <1>4, <1>5 DEF Keeping

\* The client leaves, and what was on its way to it is lost.
LEMMA LeavingHolds ==
  ASSUME KInv, Tells({}),
         UNCHANGED <<row, worker, activity, cancelReq, carried, hello, job, marked, out, unkept, kept>>
  PROVE  Keeping'
<1>1. \A d \in Directives : Met(d)' => Met(d)
  BY DEF Met
<1>2. RowsClosed({})
  BY RowsClosedSame DEF KInv, IInv
<1> QED BY <1>1, <1>2, ActivitySameOn, GatewayKeeps

LEMMA ClientLeavesHolds ==
  ASSUME KInv, Leave \/ ClientExit \/ ClientRefused \/ ClientStop
  PROVE  Keeping'
<1> USE DEF temporal, conn, gateway, session, wire, disk, machine, bounds
<1>1. UNCHANGED <<row, worker, activity, cancelReq, carried, hello, job, marked, out, unkept, kept>>
  BY DEF Leave, ClientExit, ClientRefused, ClientStop
<1>2. Disconnect \/ down' = down
  BY DEF Leave, ClientExit, ClientRefused, ClientStop
<1>3. Tells({})
  BY <1>2, DisconnectTells, SameTells DEF KInv, IInv
<1> QED BY <1>1, <1>3, LeavingHolds

LEMMA ClientCrashHolds ==
  ASSUME KInv, ClientCrash
  PROVE  Keeping'
<1> USE DEF temporal, conn, gateway, session, wire, disk, machine, bounds
<1>1. /\ UNCHANGED <<row, worker, activity, cancelReq, carried, hello, unkept>> /\ Disconnect
      /\ marked' = {} /\ kept' = kept \cup marked
      /\ \A d \in Directives : job'[d] = "none" /\ out'[d] = IF d \in marked \ kept THEN "error" ELSE out[d]
  BY DEF ClientCrash, Recover
<1>2. Tells({})
  BY <1>1, DisconnectTells DEF KInv, IInv
<1>3. \A d \in Directives :
        d \in kept' \/ d \in marked' \/ job'[d] # "none" \/ out'[d] # "none" => row[d].sent # NoConn
  BY <1>1 DEF KInv, Keeping, MetSent, Met
<1>4. Reached' /\ MetSent' /\ DropsRight' /\ \A d \in Directives : MayDrop(d)' <=> MayDrop(d)
  BY <1>1, <1>2, <1>3, MachineKeeps
<1>5. Holds'
  BY <1>1, <1>4 DEF KInv, Keeping, Holds
<1> QED BY <1>4, <1>5 DEF Keeping

LEMMA InitKInv == Init => KInv
<1> SUFFICES ASSUME Init PROVE KInv
  OBVIOUS
<1>1. \A d \in Directives : row[d].sent = NoConn /\ row[d].state = "absent" /\ ~Running(d)
  BY DEF Init, Absent, Running
<1>2. \A d \in Directives : ~Met(d)
  BY DEF Init, Met, NoHello
<1>3. \A c \in Conns : Len(down[c]) = 0
  BY DEF Init
<1>4. DropsRight
  BY <1>3 DEF DropsRight
<1>5. Reached /\ Holds
  BY <1>1 DEF Init, Reached, Holds
<1> QED BY <1>2, <1>4, <1>5, InitIInv DEF KInv, Keeping, MetSent

LEMMA NextKInv == KInv /\ [Next]_vars => KInv'
<1> SUFFICES ASSUME KInv, [Next]_vars PROVE KInv'
  OBVIOUS
<1>1. IInv'
  BY NextKeeps DEF KInv
<1>2. CASE UNCHANGED vars
  BY <1>2, SameTells, LeavingHolds, <1>1
     DEF KInv, vars, temporal, conn, gateway, session, wire, disk, machine, bounds
<1>3. ASSUME NEW d \in Directives,
             \/ PickMachine(d) \/ NoMachine(d) \/ Worker(d) \/ CancelActivity(d)
             \/ DeadlinePasses(d) \/ Timeout(d)
      PROVE  Keeping'
  BY <1>3, PickMachineHolds, NoMachineHolds, StartDirectiveHolds, DeliverHolds, NotHandedHolds,
     CancelActivityHolds, DeadlinePassesHolds, TimeoutHolds
     DEF Worker
<1>4. ASSUME NEW d \in Directives,
             \/ Sender(d) \/ ReadResult(d) \/ Handler(d) \/ Sweep(d)
             \/ EndDirective(<<d, "revoked">>) \/ RunEnds(d) \/ RunSent(d)
      PROVE  Keeping'
  BY <1>4, MarkSentHolds, AttachHolds, WriteDirectiveHolds, ReadResultHolds, SaveResultHolds, CompleteHolds,
     CloseResultHolds, SweepResultHolds, SweepDirectiveHolds, EndDirectiveHolds, RunEndsHolds,
     RunSentHolds
     DEF Sender, Handler, Sweep
<1>5. ASSUME NEW c \in Conns, HelloResults(c) \/ Register(c) \/ RegisterFails(c)
      PROVE  Keeping'
  BY <1>5, HelloResultsHolds, RegisterHolds, RegisterFailsHolds
<1>6. ASSUME Serve PROVE Keeping'
  BY <1>6, ReconcileHolds, ReconciledHolds, LoseHolds, EndDirectiveHolds DEF Serve
<1>7. ASSUME Heartbeats \/ ConnEnds \/ Revoke \/ ServerRestart PROVE Keeping'
  BY <1>1, <1>7, BeatAnswerHolds, BeatHolds, ConnEndsHolds, RevokeHolds, ServerRestartHolds
     DEF Heartbeats
<1>8. ASSUME Session \/ Leave \/ ClientStop \/ ClientRun \/ ClientCrash PROVE Keeping'
  BY <1>8, HelloJobsHolds, ReceiveHolds, ClientLeavesHolds, ClientCrashHolds DEF Session, ClientRun
<1>9. Keeping' \/ UNCHANGED vars
  BY <1>3, <1>4, <1>5, <1>6, <1>7, <1>8 DEF Next
<1> QED BY <1>1, <1>2, <1>9 DEF KInv

\* The machine keeps a result until the row has it or its directive is over,
\* over any number of connections, faults and crashes of either side
\* (SaveResult, recover, result): no cancel or ack is on its way before.
THEOREM ResultsAreKept == Spec => []KeptUntilTaken
<1>1. KInv => KeptUntilTaken
  <2> SUFFICES ASSUME KInv, NEW d \in Directives,
                      Running(d), activity[d] = "open", ~cancelReq[d], job[d] = "none", out[d] # "none",
                      d \notin unkept, d \notin kept
               PROVE  row[d].result # "none"
    BY DEF KeptUntilTaken
  <2>1. MayDrop(d)
    BY DEF KInv, Keeping, Holds
  <2>2. row[d].state \notin Ends
    BY DEF Running, Ends
  <2> QED BY <2>1, <2>2 DEF MayDrop
<1> QED BY <1>1, InitKInv, NextKInv, PTL DEF Spec

=============================================================================
