------------------------- MODULE ParticipantProofs -------------------------
(***************************************************************************)
(* Proofs about Participant, for any agents, messages and routes.          *)
(***************************************************************************)
EXTENDS Participant, TLAPS

\* What a participant holds at each point of its workflow.
InHand ==
  \A a \in Agents :
    /\ pc[a] \in {"check", "checked", "starting", "turn", "end", "relay", "relayEnd"}
          => cur[a] \in Delivery
    /\ pc[a] \in {"relay", "relayEnd"} => cur[a].next # <<>>
    /\ pc[a] \in {"dropping", "sweeping"} => dropped[a] # <<>>
    /\ pc[a] = "starting" => check[a] = "ok"

\* A stop sent, or about to be, is one its sender may make of the turn it
\* names; one naming no turn is the creator's.
Rightful(s) == IF s.key = NoKey THEN s.by = Creator ELSE MayStop(s.key, s.by)

StopsRightful ==
  /\ \A a \in Agents : \A s \in stops[a] : Rightful(s)
  /\ \A r \in asked : Rightful(r.stop)

\* The stops taken are of the turn in hand, and go with it.
HaltedRightly ==
  \A a \in Agents :
    /\ pc[a] \in {"closed", "top", "check", "checked", "starting", "sweeping", "swept"}
          => halted[a] = {}
    /\ cur[a] # NoTurn => \A u \in halted[a] : MayStop(cur[a].id, u)

\* A turn that ran has its end, or runs still, or its session is gone; one
\* about to run has not run, unless its first end was given up.
RunsOnce ==
  \A a \in Agents :
    /\ \A m \in Messages : runs[m][a] > 0 =>
         \/ Ended(m, a) \/ sessionGone
         \/ pc[a] \in {"turn", "end"} /\ cur[a].id = m
    /\ (pc[a] \in {"checked", "starting"} /\ check[a] = "ok") =>
         runs[cur[a].id][a] = 0 \/ <<cur[a].id, a>> \in unwritten

IInv == TypeOK /\ InHand /\ StopsRightful /\ HaltedRightly /\ RunsOnce /\ AnsweredOnce

----------------------------------------------------------------------------
LEMMA DeliveryFields ==
  ASSUME NEW d \in Delivery
  PROVE  d.id \in Messages /\ d.next \in Seq(Agents) /\ d.earlier \in Seq(Agents)
  BY DEF Delivery

LEMMA DeliveryMade ==
  ASSUME NEW m \in Messages, NEW n \in Seq(Agents), NEW e \in Seq(Agents)
  PROVE  [id |-> m, next |-> n, earlier |-> e] \in Delivery
  BY DEF Delivery

\* The message relayed, and to whom, when there is a next agent.
LEMMA RelayedType ==
  ASSUME TypeOK, NEW a \in Agents, cur[a] \in Delivery, cur[a].next # <<>>
  PROVE  Relayed(a) \in Delivery /\ RelayTo(a) \in Agents
<1>1. /\ cur[a].id \in Messages /\ cur[a].next \in Seq(Agents)
      /\ cur[a].earlier \in Seq(Agents)
  BY DeliveryFields
<1>2. Tail(cur[a].next) \in Seq(Agents) /\ RelayTo(a) \in Agents
  BY <1>1 DEF RelayTo
<1>3. (IF reason[a] = "ok" THEN Append(cur[a].earlier, a) ELSE cur[a].earlier) \in Seq(Agents)
  BY <1>1
<1> QED BY <1>1, <1>2, <1>3, DeliveryMade DEF Relayed

\* A delivery keeps the channels and the points of the workflows typed.
LEMMA SignalType ==
  ASSUME TypeOK, NEW b \in Agents, NEW d \in Delivery, SignalWithStart(b, d)
  PROVE  chan' \in [Agents -> Seq(Delivery)] /\ pc' \in [Agents -> Points]
  BY DEF TypeOK, SignalWithStart, Points

\* endTurn leaves the turn ended, and no turn less ended than it was.
LEMMA EndTurnEnds ==
  ASSUME TypeOK, NEW m \in Messages, NEW b \in Agents, NEW why \in Reasons, EndTurn(m, b, why)
  PROVE  /\ ends' \in [Messages -> [Agents -> Reasons \cup {"none"}]]
         /\ faults' \in Nat
         /\ unwritten' \subseteq Messages \X Agents
         /\ unwritten \subseteq unwritten'
         /\ Ended(m, b)'
         /\ \A n \in Messages, c \in Agents : Ended(n, c) => Ended(n, c)'
<1>1. CASE AppendTurnEnd(m, b, why) /\ UNCHANGED <<faults, unwritten>>
  BY <1>1 DEF TypeOK, AppendTurnEnd, Ended, Reasons
<1>2. CASE /\ UNCHANGED ends
           /\ faults' = IF sessionGone THEN faults ELSE faults + 1
           /\ unwritten' = IF ends[m][b] = "none" THEN unwritten \cup {<<m, b>>} ELSE unwritten
  <2>1. faults' \in Nat
    BY <1>2 DEF TypeOK
  <2>2. unwritten \subseteq unwritten' /\ unwritten' \subseteq Messages \X Agents
    BY <1>2 DEF TypeOK
  <2>3. Ended(m, b)' /\ \A n \in Messages, c \in Agents : Ended(n, c) => Ended(n, c)'
    BY <1>2 DEF TypeOK, Ended
  <2> QED BY <1>2, <2>1, <2>2, <2>3 DEF TypeOK
<1> QED BY <1>1, <1>2 DEF EndTurn

\* A step of one participant that starts no turn keeps turns single, when a
\* turn it leaves is ended and one it checks has not run.
KeepsTurns(a) ==
  /\ runs' = runs /\ sessionGone' = sessionGone /\ unwritten \subseteq unwritten'
  /\ \A m \in Messages, b \in Agents : Ended(m, b) => Ended(m, b)'
  /\ \A b \in Agents \ {a} : pc'[b] = pc[b] /\ cur'[b] = cur[b] /\ check'[b] = check[b]
  /\ \A m \in Messages : pc[a] \in {"turn", "end"} /\ cur[a].id = m =>
        Ended(m, a)' \/ (pc'[a] \in {"turn", "end"} /\ cur'[a].id = m)
  /\ pc'[a] \in {"checked", "starting"} /\ check'[a] = "ok" =>
        runs[cur'[a].id][a] = 0 \/ <<cur'[a].id, a>> \in unwritten

LEMMA RunsKeep ==
  ASSUME NEW a \in Agents, IInv, KeepsTurns(a)
  PROVE  RunsOnce' /\ AnsweredOnce'
<1> USE DEF IInv, KeepsTurns
<1>1. AnsweredOnce'
  BY DEF AnsweredOnce
<1>2. ASSUME NEW b \in Agents, NEW m \in Messages, runs'[m][b] > 0
      PROVE  \/ Ended(m, b)' \/ sessionGone'
             \/ pc'[b] \in {"turn", "end"} /\ cur'[b].id = m
  <2>1. \/ Ended(m, b) \/ sessionGone
        \/ pc[b] \in {"turn", "end"} /\ cur[b].id = m
    BY <1>2 DEF RunsOnce
  <2> QED BY <2>1
<1>3. ASSUME NEW b \in Agents, pc'[b] \in {"checked", "starting"}, check'[b] = "ok"
      PROVE  runs'[cur'[b].id][b] = 0 \/ <<cur'[b].id, b>> \in unwritten'
  BY <1>3 DEF RunsOnce
<1> QED BY <1>1, <1>2, <1>3 DEF RunsOnce

LEMMA InitIInv == Init => IInv
<1> SUFFICES ASSUME Init PROVE IInv
  OBVIOUS
<1>1. TypeOK
  <2> USE DEF Init
  <2>1. /\ pc \in [Agents -> Points] /\ cur \in [Agents -> Delivery \cup {NoTurn}]
        /\ reason \in [Agents -> Reasons]
    BY DEF Points, Reasons
  <2>2. /\ chan \in [Agents -> Seq(Delivery)] /\ inbox \in [Agents -> Seq(Delivery)]
        /\ dropped \in [Agents -> Seq(Delivery)]
    <3>1. <<>> \in Seq(Delivery)
      OBVIOUS
    <3> QED BY <3>1
  <2>3. /\ clears \in [Agents -> BOOLEAN] /\ cleared \in [Agents -> BOOLEAN]
        /\ goneSeen \in [Agents -> BOOLEAN] /\ fresh \in [Agents -> BOOLEAN]
        /\ sessionGone \in BOOLEAN
    OBVIOUS
  <2>4. /\ stops \in [Agents -> SUBSET Stop] /\ halted \in [Agents -> SUBSET Users]
        /\ check \in [Agents -> {"gone", "answered", "error", "ok"}]
        /\ sent \in [Agents -> Nat]
    OBVIOUS
  <2>5. /\ ends \in [Messages -> [Agents -> Reasons \cup {"none"}]]
        /\ runs \in [Messages -> [Agents -> Nat]]
    OBVIOUS
  <2> QED BY <2>1, <2>2, <2>3, <2>4, <2>5 DEF TypeOK
<1>2. InHand /\ StopsRightful /\ HaltedRightly
  BY DEF Init, InHand, StopsRightful, HaltedRightly
<1>3. RunsOnce /\ AnsweredOnce
  BY DEF Init, RunsOnce, AnsweredOnce
<1> QED BY <1>1, <1>2, <1>3 DEF IInv

LEMMA DeliverKeeps ==
  ASSUME NEW m \in Messages, IInv, Deliver(m)
  PROVE  IInv'
<1> USE ParticipantAssumption DEF Deliver, SignalWithStart, signals, turn, store, history
<1>1. TypeOK'
  <2> HIDE DEF SignalWithStart
  <2>1. Head(Route[m]) \in Agents /\ Tail(Route[m]) \in Seq(Agents)
    OBVIOUS
  <2>2. [id |-> m, next |-> Tail(Route[m]), earlier |-> <<>>] \in Delivery
    <3>1. <<>> \in Seq(Agents)
      OBVIOUS
    <3> HIDE DEF Deliver
    <3> QED BY <2>1, <3>1, DeliveryMade
  <2>3. chan' \in [Agents -> Seq(Delivery)] /\ pc' \in [Agents -> Points]
    BY <2>1, <2>2, SignalType DEF IInv
  <2> QED BY <2>3 DEF IInv, TypeOK
<1>2. InHand'
  BY <1>1 DEF IInv, TypeOK, InHand
<1>3. StopsRightful'
  BY DEF IInv, TypeOK, StopsRightful, Rightful, MayStop
<1>4. HaltedRightly'
  BY DEF IInv, TypeOK, InHand, Delivery, StopsRightful, Rightful, MayStop, HaltedRightly, Stop
<1>5. RunsOnce' /\ AnsweredOnce'
  BY DEF IInv, TypeOK, InHand, Delivery, RunsOnce, AnsweredOnce, Ended, Reasons
<1> QED BY <1>1, <1>2, <1>3, <1>4, <1>5 DEF IInv

LEMMA AskStopKeeps ==
  ASSUME NEW a \in Agents, NEW u \in Users, IInv, AskStop(a, u)
  PROVE  IInv'
<1> USE ParticipantAssumption DEF AskStop, signals, turn, store, history
<1>1. TypeOK'
  <2>1. asked' \subseteq [to : Agents, stop : Stop]
    BY DeliveryFields DEF IInv, TypeOK, Stop
  <2>2. stopsAsked' \in Nat
    BY DEF IInv, TypeOK
  <2> QED BY <2>1, <2>2 DEF IInv, TypeOK
<1>2. InHand'
  BY <1>1 DEF IInv, TypeOK, InHand
<1>3. StopsRightful'
  <2>1. \A r \in asked' : Rightful(r.stop)
    BY DeliveryFields DEF IInv, TypeOK, StopsRightful, Rightful
  <2> QED BY <2>1 DEF IInv, StopsRightful, Rightful
<1>4. HaltedRightly'
  BY DEF IInv, TypeOK, InHand, Delivery, StopsRightful, Rightful, MayStop, HaltedRightly, Stop
<1>5. RunsOnce' /\ AnsweredOnce'
  BY DEF IInv, TypeOK, InHand, Delivery, RunsOnce, AnsweredOnce, Ended, Reasons
<1> QED BY <1>1, <1>2, <1>3, <1>4, <1>5 DEF IInv

LEMMA SendStopKeeps ==
  ASSUME NEW r \in asked, IInv, SendStop(r)
  PROVE  IInv'
<1> USE DEF SendStop, signals, turn, store, history
<1>1. TypeOK'
  BY DEF IInv, TypeOK, InHand, Points, Reasons
<1>2. InHand'
  BY <1>1 DEF IInv, TypeOK, InHand
<1>3. StopsRightful'
  BY DEF IInv, TypeOK, StopsRightful, Rightful, MayStop
<1>4. HaltedRightly'
  BY DEF IInv, TypeOK, InHand, Delivery, StopsRightful, Rightful, MayStop, HaltedRightly, Stop
<1>5. RunsOnce' /\ AnsweredOnce'
  BY DEF IInv, TypeOK, InHand, Delivery, RunsOnce, AnsweredOnce, Ended, Reasons
<1> QED BY <1>1, <1>2, <1>3, <1>4, <1>5 DEF IInv

LEMMA SendClearKeeps ==
  ASSUME NEW a \in Agents, IInv, SendClear(a)
  PROVE  IInv'
<1> USE DEF SendClear, signals, turn, store, history
<1>1. TypeOK'
  BY DEF IInv, TypeOK, InHand, Points, Reasons
<1>2. InHand'
  BY <1>1 DEF IInv, TypeOK, InHand
<1>3. StopsRightful'
  BY DEF IInv, TypeOK, StopsRightful, Rightful, MayStop
<1>4. HaltedRightly'
  BY DEF IInv, TypeOK, InHand, Delivery, StopsRightful, Rightful, MayStop, HaltedRightly, Stop
<1>5. RunsOnce' /\ AnsweredOnce'
  BY DEF IInv, TypeOK, InHand, Delivery, RunsOnce, AnsweredOnce, Ended, Reasons
<1> QED BY <1>1, <1>2, <1>3, <1>4, <1>5 DEF IInv

LEMMA DeleteAgentKeeps ==
  ASSUME NEW a \in Agents, IInv, DeleteAgent(a)
  PROVE  IInv'
<1> USE DEF DeleteAgent, signals, turn, store, history
<1>1. TypeOK'
  BY DEF IInv, TypeOK, InHand, Points, Reasons
<1>2. InHand'
  BY <1>1 DEF IInv, TypeOK, InHand
<1>3. StopsRightful'
  BY DEF IInv, TypeOK, StopsRightful, Rightful, MayStop
<1>4. HaltedRightly'
  BY DEF IInv, TypeOK, InHand, Delivery, StopsRightful, Rightful, MayStop, HaltedRightly, Stop
<1>5. RunsOnce' /\ AnsweredOnce'
  BY DEF IInv, TypeOK, InHand, Delivery, RunsOnce, AnsweredOnce, Ended, Reasons
<1> QED BY <1>1, <1>2, <1>3, <1>4, <1>5 DEF IInv

LEMMA DeleteSessionKeeps ==
  ASSUME IInv, DeleteSession
  PROVE  IInv'
<1> USE DEF DeleteSession, Forget, signals, turn, store, history
<1>1. TypeOK'
  <2> PICK S \in SUBSET {a \in Agents : pc[a] # "closed"} :
         /\ pc' = [a \in Agents |-> IF a \in S THEN "closed" ELSE pc[a]]
         /\ chan' = [a \in Agents |-> IF a \in S THEN <<>> ELSE chan[a]]
         /\ stops' = [a \in Agents |-> IF a \in S THEN {} ELSE stops[a]]
         /\ clears' = [a \in Agents |-> IF a \in S THEN FALSE ELSE clears[a]]
         /\ inbox' = [a \in Agents |-> IF a \in S THEN <<>> ELSE inbox[a]]
         /\ Forget(S)
         /\ dropped' = [a \in Agents |-> IF a \in S THEN <<>> ELSE dropped[a]]
         /\ goneSeen' = [a \in Agents |-> IF a \in S THEN FALSE ELSE goneSeen[a]]
         /\ fresh' = [a \in Agents |-> IF a \in S THEN TRUE ELSE fresh[a]]
    OBVIOUS
  <2>1. /\ pc' \in [Agents -> Points] /\ chan' \in [Agents -> Seq(Delivery)]
        /\ stops' \in [Agents -> SUBSET Stop] /\ inbox' \in [Agents -> Seq(Delivery)]
        /\ dropped' \in [Agents -> Seq(Delivery)]
    BY DEF IInv, TypeOK, Points
  <2>2. /\ clears' \in [Agents -> BOOLEAN] /\ goneSeen' \in [Agents -> BOOLEAN]
        /\ fresh' \in [Agents -> BOOLEAN]
    BY DEF IInv, TypeOK
  <2>3. /\ cur' \in [Agents -> Delivery \cup {NoTurn}]
        /\ check' \in [Agents -> {"gone", "answered", "error", "ok"}]
        /\ halted' \in [Agents -> SUBSET Users] /\ cleared' \in [Agents -> BOOLEAN]
        /\ reason' \in [Agents -> Reasons] /\ sent' \in [Agents -> Nat]
    BY DEF IInv, TypeOK, Reasons
  <2>4. ends' \in [Messages -> [Agents -> Reasons \cup {"none"}]] /\ sessionGone' \in BOOLEAN
    OBVIOUS
  <2> QED BY <2>1, <2>2, <2>3, <2>4 DEF IInv, TypeOK
<1>2. InHand'
  BY <1>1 DEF IInv, TypeOK, InHand
<1>3. StopsRightful'
  BY DEF IInv, TypeOK, StopsRightful, Rightful, MayStop
<1>4. HaltedRightly'
  BY DEF IInv, TypeOK, InHand, Delivery, StopsRightful, Rightful, MayStop, HaltedRightly, Stop
<1>5. RunsOnce' /\ AnsweredOnce'
  <2>1. sessionGone' /\ runs' = runs /\ unwritten' = unwritten
    OBVIOUS
  <2>2. \A a \in Agents : pc'[a] \in {"checked", "starting"} =>
           pc'[a] = pc[a] /\ cur'[a] = cur[a] /\ check'[a] = check[a]
    OBVIOUS
  <2> QED BY <2>1, <2>2 DEF IInv, RunsOnce, AnsweredOnce
<1> QED BY <1>1, <1>2, <1>3, <1>4, <1>5 DEF IInv

LEMMA LoopCloseKeeps ==
  ASSUME NEW a \in Agents, IInv, LoopClose(a)
  PROVE  IInv'
<1> USE DEF LoopClose, Close, Go, Received, LoopOver, signals, turn, store, history
<1>1. TypeOK'
  <2>1. /\ chan' \in [Agents -> Seq(Delivery)] /\ inbox' \in [Agents -> Seq(Delivery)]
        /\ stops' \in [Agents -> SUBSET Stop] /\ clears' \in [Agents -> BOOLEAN]
        /\ goneSeen' \in [Agents -> BOOLEAN] /\ fresh' \in [Agents -> BOOLEAN]
        /\ pc' \in [Agents -> Points]
    BY DEF IInv, TypeOK, Points
  <2> QED BY <2>1 DEF IInv, TypeOK
<1>2. InHand'
  BY <1>1 DEF IInv, TypeOK, InHand
<1>3. StopsRightful'
  BY DEF IInv, TypeOK, StopsRightful, Rightful, MayStop
<1>4. HaltedRightly'
  BY DEF IInv, TypeOK, InHand, Delivery, StopsRightful, Rightful, MayStop, HaltedRightly, Stop
<1>5. RunsOnce' /\ AnsweredOnce'
  <2>1. KeepsTurns(a)
    BY DEF IInv, TypeOK, KeepsTurns, Ended
  <2> QED BY <2>1, RunsKeep
<1> QED BY <1>1, <1>2, <1>3, <1>4, <1>5 DEF IInv

LEMMA LoopClearKeeps ==
  ASSUME NEW a \in Agents, IInv, LoopClear(a)
  PROVE  IInv'
<1> USE DEF LoopClear, Go, Received, signals, turn, store, history
<1>1. TypeOK'
  BY DEF IInv, TypeOK, InHand, Points, Reasons
<1>2. InHand'
  BY <1>1 DEF IInv, TypeOK, InHand
<1>3. StopsRightful'
  BY DEF IInv, TypeOK, StopsRightful, Rightful, MayStop
<1>4. HaltedRightly'
  BY DEF IInv, TypeOK, InHand, Delivery, StopsRightful, Rightful, MayStop, HaltedRightly, Stop
<1>5. RunsOnce' /\ AnsweredOnce'
  <2>1. KeepsTurns(a)
    BY DEF IInv, TypeOK, KeepsTurns, Ended
  <2> QED BY <2>1, RunsKeep
<1> QED BY <1>1, <1>2, <1>3, <1>4, <1>5 DEF IInv

LEMMA ContinueAsNewKeeps ==
  ASSUME NEW a \in Agents, IInv, ContinueAsNew(a)
  PROVE  IInv'
<1> USE DEF ContinueAsNew, Received, LoopOver, signals, turn, store, history
<1>1. TypeOK'
  BY DEF IInv, TypeOK, InHand, Points, Reasons
<1>2. InHand'
  BY <1>1 DEF IInv, TypeOK, InHand
<1>3. StopsRightful'
  BY DEF IInv, TypeOK, StopsRightful, Rightful, MayStop
<1>4. HaltedRightly'
  BY DEF IInv, TypeOK, InHand, Delivery, StopsRightful, Rightful, MayStop, HaltedRightly, Stop
<1>5. RunsOnce' /\ AnsweredOnce'
  <2>1. KeepsTurns(a)
    BY DEF IInv, TypeOK, KeepsTurns, Ended
  <2> QED BY <2>1, RunsKeep
<1> QED BY <1>1, <1>2, <1>3, <1>4, <1>5 DEF IInv

LEMMA AnswerKeeps ==
  ASSUME NEW a \in Agents, IInv, Answer(a)
  PROVE  IInv'
<1> USE DEF Answer, Received, LoopOver, Go, signals, turn, store, history
<1>1. TypeOK'
  BY DEF IInv, TypeOK, InHand, Points, Reasons
<1>2. InHand'
  BY <1>1 DEF IInv, TypeOK, InHand
<1>3. StopsRightful'
  BY DEF IInv, TypeOK, StopsRightful, Rightful, MayStop
<1>4. HaltedRightly'
  BY DEF IInv, TypeOK, InHand, Delivery, StopsRightful, Rightful, MayStop, HaltedRightly, Stop
<1>5. RunsOnce' /\ AnsweredOnce'
  <2>1. /\ UNCHANGED <<runs, sessionGone, unwritten, ends>>
        /\ \A b \in Agents \ {a} : pc'[b] = pc[b] /\ cur'[b] = cur[b] /\ check'[b] = check[b]
    BY DEF IInv, TypeOK
  <2>2. \A m \in Messages, b \in Agents : Ended(m, b) => Ended(m, b)'
    BY <2>1 DEF Ended
  <2>3. pc[a] = "top" /\ pc'[a] = "check"
    BY DEF IInv, TypeOK
  <2>9. KeepsTurns(a)
    BY <2>1, <2>2, <2>3 DEF KeepsTurns
  <2> QED BY <2>9, RunsKeep
<1> QED BY <1>1, <1>2, <1>3, <1>4, <1>5 DEF IInv

LEMMA CheckTurnKeeps ==
  ASSUME NEW a \in Agents, IInv, CheckTurn(a)
  PROVE  IInv'
<1> USE DEF CheckTurn, TurnCheck, Go, signals, turn, store, history
<1>1. TypeOK'
  <2>1. TurnCheck(a) \in {"gone", "answered", "error", "ok"}
    OBVIOUS
  <2>2. check' \in [Agents -> {"gone", "answered", "error", "ok"}]
    <3> HIDE DEF TurnCheck
    <3> QED BY <2>1 DEF IInv, TypeOK
  <2>3. faults' \in Nat
    BY DEF IInv, TypeOK
  <2> QED BY <2>2, <2>3 DEF IInv, TypeOK, Points
<1>2. InHand'
  BY <1>1 DEF IInv, TypeOK, InHand
<1>3. StopsRightful'
  BY DEF IInv, TypeOK, StopsRightful, Rightful, MayStop
<1>4. HaltedRightly'
  BY DEF IInv, TypeOK, InHand, Delivery, StopsRightful, Rightful, MayStop, HaltedRightly, Stop
<1>5. RunsOnce' /\ AnsweredOnce'
  <2>1. /\ UNCHANGED <<runs, sessionGone, unwritten, ends, cur>>
        /\ \A b \in Agents \ {a} : pc'[b] = pc[b] /\ check'[b] = check[b]
    BY DEF IInv, TypeOK
  <2>2. \A m \in Messages, b \in Agents : Ended(m, b) => Ended(m, b)'
    BY <2>1 DEF Ended
  <2>3. pc[a] = "check" /\ cur[a] \in Delivery /\ cur[a].id \in Messages
    BY DeliveryFields DEF IInv, InHand
  <2>4. ASSUME check'[a] = "ok"
        PROVE  runs[cur[a].id][a] = 0 \/ <<cur[a].id, a>> \in unwritten
    <3>1. ~sessionGone /\ ends[cur[a].id][a] = "none"
      BY <2>4 DEF IInv, TypeOK
    <3>2. runs[cur[a].id][a] \in Nat
      BY <2>3 DEF IInv, TypeOK
    <3>3. runs[cur[a].id][a] > 0 => <<cur[a].id, a>> \in unwritten
      BY <2>3, <3>1 DEF IInv, RunsOnce, Ended
    <3> QED BY <3>2, <3>3
  <2>5. \A m \in Messages : pc[a] \in {"turn", "end"} /\ cur[a].id = m =>
             Ended(m, a)' \/ (pc'[a] \in {"turn", "end"} /\ cur'[a].id = m)
    BY <2>3
  <2>9. KeepsTurns(a)
    BY <2>1, <2>2, <2>4, <2>5 DEF KeepsTurns
  <2> QED BY <2>9, RunsKeep
<1> QED BY <1>1, <1>2, <1>3, <1>4, <1>5 DEF IInv

LEMMA SkipTurnKeeps ==
  ASSUME NEW a \in Agents, IInv, SkipTurn(a)
  PROVE  IInv'
<1> USE DEF SkipTurn, Go, signals, turn, store, history
<1>1. TypeOK'
  BY DEF IInv, TypeOK, InHand, Points, Reasons
<1>2. InHand'
  BY <1>1 DEF IInv, TypeOK, InHand
<1>3. StopsRightful'
  BY DEF IInv, TypeOK, StopsRightful, Rightful, MayStop
<1>4. HaltedRightly'
  BY DEF IInv, TypeOK, InHand, Delivery, StopsRightful, Rightful, MayStop, HaltedRightly, Stop
<1>5. RunsOnce' /\ AnsweredOnce'
  <2>1. KeepsTurns(a)
    BY DEF IInv, TypeOK, KeepsTurns, Ended
  <2> QED BY <2>1, RunsKeep
<1> QED BY <1>1, <1>2, <1>3, <1>4, <1>5 DEF IInv

LEMMA RefuseTurnKeeps ==
  ASSUME NEW a \in Agents, IInv, RefuseTurn(a)
  PROVE  IInv'
<1> USE DEF RefuseTurn, Go, signals, turn, store, history
<1>1. TypeOK'
  BY DEF IInv, TypeOK, InHand, Points, Reasons
<1>2. InHand'
  BY <1>1 DEF IInv, TypeOK, InHand
<1>3. StopsRightful'
  BY DEF IInv, TypeOK, StopsRightful, Rightful, MayStop
<1>4. HaltedRightly'
  BY DEF IInv, TypeOK, InHand, Delivery, StopsRightful, Rightful, MayStop, HaltedRightly, Stop
<1>5. RunsOnce' /\ AnsweredOnce'
  <2>1. KeepsTurns(a)
    BY DEF IInv, TypeOK, KeepsTurns, Ended
  <2> QED BY <2>1, RunsKeep
<1> QED BY <1>1, <1>2, <1>3, <1>4, <1>5 DEF IInv

LEMMA BeginTurnKeeps ==
  ASSUME NEW a \in Agents, IInv, BeginTurn(a)
  PROVE  IInv'
<1> USE DEF BeginTurn, StopsFor, Go, signals, turn, store, history
<1>1. TypeOK'
  <2>0. {s.by : s \in StopsFor(a)} \subseteq Users
    BY DEF IInv, TypeOK, Stop
  <2>1. halted' \in [Agents -> SUBSET Users] /\ reason' \in [Agents -> Reasons]
    <3>1. CASE halted' = halted /\ reason' = reason
      BY <3>1 DEF IInv, TypeOK
    <3>2. CASE /\ halted' = [halted EXCEPT ![a] = {s.by : s \in StopsFor(a)}]
               /\ reason' = [reason EXCEPT ![a] = "stoppedBefore"]
      <4> DEFINE H == {s.by : s \in StopsFor(a)}
      <4>1. H \in SUBSET Users /\ halted' = [halted EXCEPT ![a] = H]
        BY <2>0, <3>2
      <4> HIDE DEF H
      <4> QED BY <4>1, <3>2 DEF IInv, TypeOK, Reasons
    <3> QED BY <3>1, <3>2
  <2>2. stops' \in [Agents -> SUBSET Stop] /\ pc' \in [Agents -> Points]
    BY DEF IInv, TypeOK, Points
  <2> QED BY <2>1, <2>2 DEF IInv, TypeOK
<1>2. InHand'
  BY <1>1 DEF IInv, TypeOK, InHand
<1>3. StopsRightful'
  BY DEF IInv, TypeOK, StopsRightful, Rightful, MayStop
<1>4. HaltedRightly'
  <2>1. cur[a] \in Delivery /\ cur[a].id \in Messages
    BY DeliveryFields DEF IInv, InHand
  <2>2. /\ cur' = cur
        /\ \A b \in Agents \ {a} : pc'[b] = pc[b] /\ halted'[b] = halted[b]
    BY DEF IInv, TypeOK
  <2>3. \/ pc'[a] = "starting" /\ halted' = halted
        \/ pc'[a] = "end" /\ halted'[a] = {s.by : s \in StopsFor(a)}
    BY DEF IInv, TypeOK
  <2>4. \A u \in {s.by : s \in StopsFor(a)} : MayStop(cur[a].id, u)
    BY <2>1, ParticipantAssumption DEF IInv, StopsRightful, Rightful
  <2>5. halted[a] = {}
    BY DEF IInv, HaltedRightly
  <2>6. \A b \in Agents \ {a} : pc[b] \in {"closed", "top", "check", "checked", "starting",
                                          "sweeping", "swept"} => halted[b] = {}
    BY DEF IInv, HaltedRightly
  <2>7. \A b \in Agents \ {a} : cur[b] # NoTurn => \A u \in halted[b] : MayStop(cur[b].id, u)
    BY DEF IInv, HaltedRightly
  <2> QED BY <2>2, <2>3, <2>4, <2>5, <2>6, <2>7 DEF HaltedRightly, MayStop
<1>5. RunsOnce' /\ AnsweredOnce'
  <2>1. /\ UNCHANGED <<runs, sessionGone, unwritten, ends, cur, check>>
        /\ \A b \in Agents \ {a} : pc'[b] = pc[b]
        /\ pc[a] = "checked" /\ check[a] = "ok"
    BY DEF IInv, TypeOK
  <2>2. \A m \in Messages, b \in Agents : Ended(m, b) => Ended(m, b)'
    BY <2>1 DEF Ended
  <2>3. runs[cur[a].id][a] = 0 \/ <<cur[a].id, a>> \in unwritten
    BY <2>1 DEF IInv, RunsOnce
  <2>9. KeepsTurns(a)
    BY <2>1, <2>2, <2>3 DEF KeepsTurns
  <2> QED BY <2>9, RunsKeep
<1> QED BY <1>1, <1>2, <1>3, <1>4, <1>5 DEF IInv

LEMMA StartTurnKeeps ==
  ASSUME NEW a \in Agents, IInv, StartTurn(a)
  PROVE  IInv'
<1> USE DEF StartTurn, Go, signals, turn, store, history
<1>1. TypeOK'
  <2>1. cur[a].id \in Messages
    BY DeliveryFields DEF IInv, InHand
  <2>2. runs' \in [Messages -> [Agents -> Nat]]
    BY <2>1 DEF IInv, TypeOK
  <2> QED BY <2>2 DEF IInv, TypeOK, Points
<1>2. InHand'
  BY <1>1 DEF IInv, TypeOK, InHand
<1>3. StopsRightful'
  BY DEF IInv, TypeOK, StopsRightful, Rightful, MayStop
<1>4. HaltedRightly'
  BY DEF IInv, TypeOK, InHand, Delivery, StopsRightful, Rightful, MayStop, HaltedRightly, Stop
<1>5. RunsOnce' /\ AnsweredOnce'
  <2> DEFINE k == cur[a].id
  <2>1. k \in Messages /\ pc[a] = "starting" /\ check[a] = "ok"
    BY DeliveryFields DEF IInv, InHand
  <2>2. runs[k][a] = 0 \/ <<k, a>> \in unwritten
    BY <2>1 DEF IInv, RunsOnce
  <2>3. /\ UNCHANGED <<sessionGone, unwritten, ends, cur, check>>
        /\ \A b \in Agents \ {a} : pc'[b] = pc[b]
        /\ pc'[a] = "turn"
    BY DEF IInv, TypeOK
  <2>4. \A m \in Messages, b \in Agents :
           runs'[m][b] = IF m = k /\ b = a THEN runs[k][a] + 1 ELSE runs[m][b]
    BY <2>1 DEF IInv, TypeOK
  <2>8. \A m \in Messages, b \in Agents : runs[m][b] \in Nat
    BY DEF IInv, TypeOK
  <2> HIDE DEF StartTurn, k
  <2>5. AnsweredOnce'
    <3> SUFFICES ASSUME NEW m \in Messages, NEW b \in Agents, runs'[m][b] > 1
                 PROVE  <<m, b>> \in unwritten
      BY <2>3 DEF AnsweredOnce
    <3>1. CASE m = k /\ b = a
      BY <3>1, <2>1, <2>2, <2>4, <2>8
    <3>2. CASE ~(m = k /\ b = a)
      BY <3>2, <2>4 DEF IInv, AnsweredOnce
    <3> QED BY <3>1, <3>2
  <2>6. ASSUME NEW b \in Agents, NEW m \in Messages, runs'[m][b] > 0
        PROVE  \/ Ended(m, b)' \/ sessionGone'
               \/ pc'[b] \in {"turn", "end"} /\ cur'[b].id = m
    <3>1. CASE m = k /\ b = a
      BY <3>1, <2>3 DEF k
    <3>2. CASE ~(m = k /\ b = a)
      <4>1. \/ Ended(m, b) \/ sessionGone
            \/ pc[b] \in {"turn", "end"} /\ cur[b].id = m
        <5>1. runs[m][b] > 0
          BY <2>6, <2>4, <3>2
        <5> QED BY <5>1 DEF IInv, RunsOnce
      <4>2. b = a => pc[b] \notin {"turn", "end"}
        BY <2>1
      <4> QED BY <4>1, <4>2, <2>3 DEF Ended
    <3> QED BY <3>1, <3>2
  <2>7. ASSUME NEW b \in Agents, pc'[b] \in {"checked", "starting"}, check'[b] = "ok"
        PROVE  runs'[cur'[b].id][b] = 0 \/ <<cur'[b].id, b>> \in unwritten'
    <3>1. b # a /\ pc[b] \in {"checked", "starting"} /\ check[b] = "ok"
      BY <2>3, <2>7
    <3>2. cur[b].id \in Messages
      BY <3>1, DeliveryFields DEF IInv, InHand
    <3> QED BY <3>1, <3>2, <2>3, <2>4 DEF IInv, RunsOnce
  <2> QED BY <2>5, <2>6, <2>7 DEF RunsOnce
<1> QED BY <1>1, <1>2, <1>3, <1>4, <1>5 DEF IInv

LEMMA TakeStopKeeps ==
  ASSUME NEW a \in Agents, IInv, TakeStop(a)
  PROVE  IInv'
<1> USE DEF TakeStop, StopsThis, signals, turn, store, history
<1>1. TypeOK'
  <2>1. stops' \in [Agents -> SUBSET Stop]
    BY DEF IInv, TypeOK
  <2>2. halted' \in [Agents -> SUBSET Users]
    BY DEF IInv, TypeOK, Stop
  <2> QED BY <2>1, <2>2 DEF IInv, TypeOK
<1>2. InHand'
  BY <1>1 DEF IInv, TypeOK, InHand
<1>3. StopsRightful'
  BY DEF IInv, TypeOK, StopsRightful, Rightful, MayStop
<1>4. HaltedRightly'
  <2>1. cur[a] \in Delivery /\ cur[a].id \in Messages
    BY DeliveryFields DEF IInv, InHand
  <2>2. PICK s \in stops[a] :
           halted' = [halted EXCEPT ![a] = IF StopsThis(s, a) THEN @ \cup {s.by} ELSE @]
    OBVIOUS
  <2>3. StopsThis(s, a) => MayStop(cur[a].id, s.by)
    BY <2>1 DEF IInv, StopsRightful, Rightful, MayStop
  <2>4. /\ \A u \in halted'[a] : u \in halted[a] \/ (StopsThis(s, a) /\ u = s.by)
        /\ \A b \in Agents \ {a} : halted'[b] = halted[b]
    BY <2>2 DEF IInv, TypeOK
  <2>5. cur' = cur /\ pc' = pc /\ pc[a] = "turn"
    OBVIOUS
  <2> HIDE DEF TakeStop, StopsThis
  <2>6. \A u \in halted[a] : MayStop(cur[a].id, u)
    BY <2>1, <2>5, NoTurnAssumption DEF IInv, HaltedRightly
  <2> SUFFICES ASSUME NEW b \in Agents
               PROVE  /\ pc[b] \in {"closed", "top", "check", "checked", "starting", "sweeping",
                                    "swept"} => halted'[b] = {}
                      /\ cur[b] # NoTurn => \A u \in halted'[b] : MayStop(cur[b].id, u)
    BY <2>5 DEF HaltedRightly, MayStop
  <2>7. CASE b = a
    BY <2>3, <2>4, <2>5, <2>6, <2>7
  <2>8. CASE b # a
    BY <2>4, <2>8 DEF IInv, HaltedRightly
  <2> QED BY <2>7, <2>8
<1>5. RunsOnce' /\ AnsweredOnce'
  <2>1. KeepsTurns(a)
    BY DEF IInv, TypeOK, KeepsTurns, Ended
  <2> QED BY <2>1, RunsKeep
<1> QED BY <1>1, <1>2, <1>3, <1>4, <1>5 DEF IInv

LEMMA TakeClearKeeps ==
  ASSUME NEW a \in Agents, IInv, TakeClear(a)
  PROVE  IInv'
<1> USE ParticipantAssumption DEF TakeClear, signals, turn, store, history
<1>1. TypeOK'
  BY DEF IInv, TypeOK, InHand, Points, Reasons
<1>2. InHand'
  BY <1>1 DEF IInv, TypeOK, InHand
<1>3. StopsRightful'
  BY DEF IInv, TypeOK, StopsRightful, Rightful, MayStop
<1>4. HaltedRightly'
  BY DEF IInv, TypeOK, InHand, Delivery, StopsRightful, Rightful, MayStop, HaltedRightly, Stop
<1>5. RunsOnce' /\ AnsweredOnce'
  <2>1. KeepsTurns(a)
    BY DEF IInv, TypeOK, KeepsTurns, Ended
  <2> QED BY <2>1, RunsKeep
<1> QED BY <1>1, <1>2, <1>3, <1>4, <1>5 DEF IInv

LEMMA TakeMessageKeeps ==
  ASSUME NEW a \in Agents, IInv, TakeMessage(a)
  PROVE  IInv'
<1> USE DEF TakeMessage, signals, turn, store, history
<1>1. TypeOK'
  <2>1. chan[a] \in Seq(Delivery) /\ inbox[a] \in Seq(Delivery)
    BY DEF IInv, TypeOK
  <2>2. Head(chan[a]) \in Delivery /\ Tail(chan[a]) \in Seq(Delivery)
    BY <2>1
  <2>3. Append(inbox[a], Head(chan[a])) \in Seq(Delivery)
    BY <2>1, <2>2
  <2> QED BY <2>2, <2>3 DEF IInv, TypeOK
<1>2. InHand'
  BY <1>1 DEF IInv, TypeOK, InHand
<1>3. StopsRightful'
  BY DEF IInv, TypeOK, StopsRightful, Rightful, MayStop
<1>4. HaltedRightly'
  BY DEF IInv, TypeOK, InHand, Delivery, StopsRightful, Rightful, MayStop, HaltedRightly, Stop
<1>5. RunsOnce' /\ AnsweredOnce'
  <2>1. KeepsTurns(a)
    BY DEF IInv, TypeOK, KeepsTurns, Ended
  <2> QED BY <2>1, RunsKeep
<1> QED BY <1>1, <1>2, <1>3, <1>4, <1>5 DEF IInv

LEMMA FinishTurnKeeps ==
  ASSUME NEW a \in Agents, IInv, FinishTurn(a)
  PROVE  IInv'
<1> USE DEF FinishTurn, Go, signals, turn, store, history
<1>1. TypeOK'
  BY DEF IInv, TypeOK, InHand, Points, Reasons
<1>2. InHand'
  BY <1>1 DEF IInv, TypeOK, InHand
<1>3. StopsRightful'
  BY DEF IInv, TypeOK, StopsRightful, Rightful, MayStop
<1>4. HaltedRightly'
  BY DEF IInv, TypeOK, InHand, Delivery, StopsRightful, Rightful, MayStop, HaltedRightly, Stop
<1>5. RunsOnce' /\ AnsweredOnce'
  <2>1. /\ UNCHANGED <<runs, sessionGone, unwritten, ends>>
        /\ \A b \in Agents \ {a} : pc'[b] = pc[b] /\ cur'[b] = cur[b] /\ check'[b] = check[b]
    BY DEF IInv, TypeOK
  <2>2. \A m \in Messages, b \in Agents : Ended(m, b) => Ended(m, b)'
    BY <2>1 DEF Ended
  <2>3. pc[a] = "turn" /\ pc'[a] = "end" /\ cur'[a] = cur[a]
    BY DEF IInv, TypeOK
  <2>9. KeepsTurns(a)
    BY <2>1, <2>2, <2>3 DEF KeepsTurns
  <2> QED BY <2>9, RunsKeep
<1> QED BY <1>1, <1>2, <1>3, <1>4, <1>5 DEF IInv

LEMMA FinishEndKeeps ==
  ASSUME NEW a \in Agents, IInv, FinishEnd(a)
  PROVE  IInv'
<1> USE DEF FinishEnd, EndTurn, AppendTurnEnd, Relays, Received, Go, signals, turn, store, history
<1>1. TypeOK'
  <2> HIDE DEF EndTurn, AppendTurnEnd
  <2>0. cur[a] \in Delivery /\ cur[a].id \in Messages /\ reason[a] \in Reasons
    BY DeliveryFields DEF IInv, TypeOK, InHand
  <2>1. EndTurn(cur[a].id, a, reason[a])
    BY DEF FinishEnd
  <2>2. /\ ends' \in [Messages -> [Agents -> Reasons \cup {"none"}]] /\ faults' \in Nat
        /\ unwritten' \subseteq Messages \X Agents
    BY <2>0, <2>1, EndTurnEnds DEF IInv
  <2>3. inbox[a] \o chan[a] \in Seq(Delivery)
    BY DEF IInv, TypeOK
  <2>4. /\ chan' \in [Agents -> Seq(Delivery)] /\ inbox' \in [Agents -> Seq(Delivery)]
        /\ dropped' \in [Agents -> Seq(Delivery)]
    <3>1. <<>> \in Seq(Delivery)
      OBVIOUS
    <3>2. CASE UNCHANGED <<chan, inbox, dropped>>
      BY <3>2 DEF IInv, TypeOK
    <3>3. CASE /\ dropped' = [dropped EXCEPT ![a] = inbox[a] \o chan[a]]
               /\ inbox' = [inbox EXCEPT ![a] = <<>>]
               /\ chan' = [chan EXCEPT ![a] = <<>>]
      BY <2>3, <3>1, <3>3 DEF IInv, TypeOK
    <3> QED BY <3>2, <3>3
  <2>5. sent' \in [Agents -> Nat] /\ pc' \in [Agents -> Points]
    <3>1. sent' = sent \/ sent' = [sent EXCEPT ![a] = 0]
      OBVIOUS
    <3>2. \/ pc' = [pc EXCEPT ![a] = "relay"] \/ pc' = [pc EXCEPT ![a] = "done"]
          \/ pc' = [pc EXCEPT ![a] = "dropping"]
      OBVIOUS
    <3> HIDE DEF FinishEnd
    <3>3. sent' \in [Agents -> Nat]
      <4>1. sent \in [Agents -> Nat]
        BY DEF IInv, TypeOK
      <4> QED BY <3>1, <4>1
    <3>4. pc' \in [Agents -> Points]
      BY <3>2 DEF IInv, TypeOK, Points
    <3> QED BY <3>3, <3>4
  <2> QED BY <2>2, <2>4, <2>5 DEF IInv, TypeOK
<1>2. InHand'
  <2>1. /\ UNCHANGED <<cur, check>>
        /\ \A b \in Agents \ {a} : pc'[b] = pc[b] /\ dropped'[b] = dropped[b]
    BY DEF IInv, TypeOK
  <2>2. cur[a] \in Delivery
    BY DEF IInv, InHand
  <2>3. \/ pc'[a] = "relay" /\ cur[a].next # <<>>
        \/ pc'[a] = "done"
        \/ pc'[a] = "dropping" /\ dropped'[a] # <<>>
    BY DEF IInv, TypeOK
  <2> QED BY <2>1, <2>2, <2>3 DEF IInv, InHand
<1>3. StopsRightful'
  BY DEF IInv, TypeOK, StopsRightful, Rightful, MayStop
<1>4. HaltedRightly'
  <2>1. /\ UNCHANGED <<cur, halted>>
        /\ \A b \in Agents \ {a} : pc'[b] = pc[b]
        /\ pc'[a] \in {"relay", "done", "dropping"}
    BY DEF IInv, TypeOK
  <2> QED BY <2>1 DEF IInv, HaltedRightly, MayStop
<1>5. RunsOnce' /\ AnsweredOnce'
  <2> HIDE DEF EndTurn, AppendTurnEnd
  <2>0. cur[a] \in Delivery /\ cur[a].id \in Messages /\ reason[a] \in Reasons
    BY DeliveryFields DEF IInv, TypeOK, InHand
  <2>1. EndTurn(cur[a].id, a, reason[a])
    BY DEF FinishEnd
  <2>2. /\ unwritten \subseteq unwritten' /\ Ended(cur[a].id, a)'
        /\ \A m \in Messages, b \in Agents : Ended(m, b) => Ended(m, b)'
    BY <2>0, <2>1, EndTurnEnds DEF IInv
  <2>3. /\ UNCHANGED <<runs, sessionGone, cur, check>>
        /\ \A b \in Agents \ {a} : pc'[b] = pc[b]
        /\ pc'[a] \in {"relay", "done", "dropping"}
    BY DEF IInv, TypeOK
  <2>9. KeepsTurns(a)
    BY <2>2, <2>3 DEF KeepsTurns
  <2> QED BY <2>9, RunsKeep
<1> QED BY <1>1, <1>2, <1>3, <1>4, <1>5 DEF IInv

LEMMA FinishMessageKeeps ==
  ASSUME NEW a \in Agents, IInv, FinishMessage(a)
  PROVE  IInv'
<1> USE DEF FinishMessage, Forget, Go, signals, turn, store, history
<1>1. TypeOK'
  BY DEF IInv, TypeOK, InHand, Points, Reasons
<1>2. InHand'
  BY <1>1 DEF IInv, TypeOK, InHand
<1>3. StopsRightful'
  BY DEF IInv, TypeOK, StopsRightful, Rightful, MayStop
<1>4. HaltedRightly'
  BY DEF IInv, TypeOK, InHand, Delivery, StopsRightful, Rightful, MayStop, HaltedRightly, Stop
<1>5. RunsOnce' /\ AnsweredOnce'
  <2>1. KeepsTurns(a)
    BY DEF IInv, TypeOK, KeepsTurns, Ended
  <2> QED BY <2>1, RunsKeep
<1> QED BY <1>1, <1>2, <1>3, <1>4, <1>5 DEF IInv

LEMMA DropMessageKeeps ==
  ASSUME NEW a \in Agents, IInv, DropMessage(a)
  PROVE  IInv'
<1> USE DEF DropMessage, EndTurn, AppendTurnEnd, LeftToDrop, signals, turn, store, history
<1>1. TypeOK'
  <2> HIDE DEF EndTurn, AppendTurnEnd
  <2>0. /\ dropped[a] \in Seq(Delivery) /\ dropped[a] # <<>>
        /\ Head(dropped[a]) \in Delivery /\ Head(dropped[a]).id \in Messages
        /\ Tail(dropped[a]) \in Seq(Delivery) /\ "cleared" \in Reasons
    BY DeliveryFields DEF IInv, TypeOK, InHand, Reasons
  <2>1. EndTurn(Head(dropped[a]).id, a, "cleared")
    BY DEF DropMessage
  <2>2. /\ ends' \in [Messages -> [Agents -> Reasons \cup {"none"}]] /\ faults' \in Nat
        /\ unwritten' \subseteq Messages \X Agents
    BY <2>0, <2>1, EndTurnEnds DEF IInv
  <2>3. dropped' \in [Agents -> Seq(Delivery)] /\ pc' \in [Agents -> Points]
    BY <2>0 DEF IInv, TypeOK, Points
  <2> QED BY <2>2, <2>3 DEF IInv, TypeOK
<1>2. InHand'
  BY <1>1 DEF IInv, TypeOK, InHand
<1>3. StopsRightful'
  BY DEF IInv, TypeOK, StopsRightful, Rightful, MayStop
<1>4. HaltedRightly'
  BY DEF IInv, TypeOK, InHand, Delivery, StopsRightful, Rightful, MayStop, HaltedRightly, Stop
<1>5. RunsOnce' /\ AnsweredOnce'
  <2> HIDE DEF EndTurn, AppendTurnEnd
  <2>0. /\ dropped[a] \in Seq(Delivery) /\ dropped[a] # <<>>
        /\ Head(dropped[a]) \in Delivery /\ Head(dropped[a]).id \in Messages
        /\ Tail(dropped[a]) \in Seq(Delivery) /\ "cleared" \in Reasons
    BY DeliveryFields DEF IInv, TypeOK, InHand, Reasons
  <2>1. EndTurn(Head(dropped[a]).id, a, "cleared")
    BY DEF DropMessage
  <2>2. /\ unwritten \subseteq unwritten'
        /\ \A m \in Messages, b \in Agents : Ended(m, b) => Ended(m, b)'
    BY <2>0, <2>1, EndTurnEnds DEF IInv
  <2>3. /\ UNCHANGED <<runs, sessionGone, cur, check>>
        /\ \A b \in Agents \ {a} : pc'[b] = pc[b]
        /\ pc[a] \in {"dropping", "sweeping"}
        /\ pc'[a] \in {"dropping", "sweeping", "done", "swept"}
    BY DEF IInv, TypeOK
  <2>9. KeepsTurns(a)
    BY <2>2, <2>3 DEF KeepsTurns
  <2> QED BY <2>9, RunsKeep
<1> QED BY <1>1, <1>2, <1>3, <1>4, <1>5 DEF IInv

LEMMA SweptCloseKeeps ==
  ASSUME NEW a \in Agents, IInv, SweptClose(a)
  PROVE  IInv'
<1> USE DEF SweptClose, Close, Go, signals, turn, store, history
<1>1. TypeOK'
  <2>1. lost' \subseteq Messages \X Agents
    <3>1. \A i \in 1..Len(chan[a]) : chan[a][i].id \in Messages
      BY DeliveryFields DEF IInv, TypeOK
    <3> QED BY <3>1 DEF IInv, TypeOK
  <2>2. /\ chan' \in [Agents -> Seq(Delivery)] /\ inbox' \in [Agents -> Seq(Delivery)]
        /\ stops' \in [Agents -> SUBSET Stop] /\ clears' \in [Agents -> BOOLEAN]
        /\ goneSeen' \in [Agents -> BOOLEAN] /\ fresh' \in [Agents -> BOOLEAN]
        /\ pc' \in [Agents -> Points]
    BY DEF IInv, TypeOK, Points
  <2> QED BY <2>1, <2>2 DEF IInv, TypeOK
<1>2. InHand'
  BY <1>1 DEF IInv, TypeOK, InHand
<1>3. StopsRightful'
  BY DEF IInv, TypeOK, StopsRightful, Rightful, MayStop
<1>4. HaltedRightly'
  BY DEF IInv, TypeOK, InHand, Delivery, StopsRightful, Rightful, MayStop, HaltedRightly, Stop
<1>5. RunsOnce' /\ AnsweredOnce'
  <2>1. KeepsTurns(a)
    BY DEF IInv, TypeOK, KeepsTurns, Ended
  <2> QED BY <2>1, RunsKeep
<1> QED BY <1>1, <1>2, <1>3, <1>4, <1>5 DEF IInv

LEMMA RelaySendKeeps ==
  ASSUME NEW a \in Agents, IInv, RelaySend(a)
  PROVE  IInv'
<1> USE DEF RelaySend, SignalWithStart, RelayTo, Relayed, signals, turn, store, history
<1>1. TypeOK'
  <2> HIDE DEF SignalWithStart, RelayTo, Relayed
  <2>1. Relayed(a) \in Delivery /\ RelayTo(a) \in Agents
    BY RelayedType DEF IInv, InHand
  <2>2. chan' \in [Agents -> Seq(Delivery)] /\ pc' \in [Agents -> Points]
    <3>1. SignalWithStart(RelayTo(a), Relayed(a))
      BY DEF RelaySend
    <3> QED BY <2>1, <3>1, SignalType DEF IInv
  <2>3. sent' \in [Agents -> Nat]
    BY DEF IInv, TypeOK
  <2> QED BY <2>2, <2>3 DEF IInv, TypeOK
<1>2. InHand'
  BY <1>1 DEF IInv, TypeOK, InHand
<1>3. StopsRightful'
  BY DEF IInv, TypeOK, StopsRightful, Rightful, MayStop
<1>4. HaltedRightly'
  BY DEF IInv, TypeOK, InHand, Delivery, StopsRightful, Rightful, MayStop, HaltedRightly, Stop
<1>5. RunsOnce' /\ AnsweredOnce'
  BY DEF IInv, TypeOK, InHand, Delivery, RunsOnce, AnsweredOnce, Ended, Reasons
<1> QED BY <1>1, <1>2, <1>3, <1>4, <1>5 DEF IInv

LEMMA RelayDoneKeeps ==
  ASSUME NEW a \in Agents, IInv, RelayDone(a)
  PROVE  IInv'
<1> USE DEF RelayDone, Go, signals, turn, store, history
<1>1. TypeOK'
  BY DEF IInv, TypeOK, InHand, Points, Reasons
<1>2. InHand'
  BY <1>1 DEF IInv, TypeOK, InHand
<1>3. StopsRightful'
  BY DEF IInv, TypeOK, StopsRightful, Rightful, MayStop
<1>4. HaltedRightly'
  BY DEF IInv, TypeOK, InHand, Delivery, StopsRightful, Rightful, MayStop, HaltedRightly, Stop
<1>5. RunsOnce' /\ AnsweredOnce'
  <2>1. KeepsTurns(a)
    BY DEF IInv, TypeOK, KeepsTurns, Ended
  <2> QED BY <2>1, RunsKeep
<1> QED BY <1>1, <1>2, <1>3, <1>4, <1>5 DEF IInv

LEMMA RelayGiveUpKeeps ==
  ASSUME NEW a \in Agents, IInv, RelayGiveUp(a)
  PROVE  IInv'
<1> USE DEF RelayGiveUp, RelayTo, Relayed, Go, signals, turn, store, history
<1>1. TypeOK'
  <2> HIDE DEF RelayTo, Relayed
  <2>1. Relayed(a) \in Delivery /\ RelayTo(a) \in Agents
    BY RelayedType DEF IInv, InHand
  <2>2. late' \subseteq [to : Agents, d : Delivery]
    <3>1. late' \in {late, late \cup {[to |-> RelayTo(a), d |-> Relayed(a)]}}
      BY DEF RelayGiveUp
    <3>2. [to |-> RelayTo(a), d |-> Relayed(a)] \in [to : Agents, d : Delivery]
      BY <2>1
    <3> QED BY <3>1, <3>2 DEF IInv, TypeOK
  <2>3. faults' \in Nat /\ pc' \in [Agents -> Points]
    BY DEF IInv, TypeOK, Points
  <2> QED BY <2>2, <2>3 DEF IInv, TypeOK
<1>2. InHand'
  BY <1>1 DEF IInv, TypeOK, InHand
<1>3. StopsRightful'
  BY DEF IInv, TypeOK, StopsRightful, Rightful, MayStop
<1>4. HaltedRightly'
  BY DEF IInv, TypeOK, InHand, Delivery, StopsRightful, Rightful, MayStop, HaltedRightly, Stop
<1>5. RunsOnce' /\ AnsweredOnce'
  <2>1. KeepsTurns(a)
    BY DEF IInv, TypeOK, KeepsTurns, Ended
  <2> QED BY <2>1, RunsKeep
<1> QED BY <1>1, <1>2, <1>3, <1>4, <1>5 DEF IInv

LEMMA LateRelayKeeps ==
  ASSUME NEW r \in late, IInv, LateRelay(r)
  PROVE  IInv'
<1> USE DEF LateRelay, SignalWithStart, signals, turn, store, history
<1>1. TypeOK'
  BY DEF IInv, TypeOK, InHand, Points, Reasons
<1>2. InHand'
  BY <1>1 DEF IInv, TypeOK, InHand
<1>3. StopsRightful'
  BY DEF IInv, TypeOK, StopsRightful, Rightful, MayStop
<1>4. HaltedRightly'
  BY DEF IInv, TypeOK, InHand, Delivery, StopsRightful, Rightful, MayStop, HaltedRightly, Stop
<1>5. RunsOnce' /\ AnsweredOnce'
  BY DEF IInv, TypeOK, InHand, Delivery, RunsOnce, AnsweredOnce, Ended, Reasons
<1> QED BY <1>1, <1>2, <1>3, <1>4, <1>5 DEF IInv

LEMMA RelayEndKeeps ==
  ASSUME NEW a \in Agents, IInv, RelayEnd(a)
  PROVE  IInv'
<1> USE DEF RelayEnd, EndTurn, AppendTurnEnd, RelayTo, Go, signals, turn, store, history
<1>1. TypeOK'
  <2> HIDE DEF EndTurn, AppendTurnEnd, RelayTo
  <2>0. cur[a].id \in Messages /\ RelayTo(a) \in Agents /\ "relayFailed" \in Reasons
    BY DeliveryFields, RelayedType DEF IInv, InHand, Reasons
  <2>1. EndTurn(cur[a].id, RelayTo(a), "relayFailed")
    BY DEF RelayEnd
  <2>2. /\ ends' \in [Messages -> [Agents -> Reasons \cup {"none"}]] /\ faults' \in Nat
        /\ unwritten' \subseteq Messages \X Agents
    BY <2>0, <2>1, EndTurnEnds DEF IInv
  <2>3. pc' \in [Agents -> Points]
    BY DEF IInv, TypeOK, Points
  <2> QED BY <2>2, <2>3 DEF IInv, TypeOK
<1>2. InHand'
  BY <1>1 DEF IInv, TypeOK, InHand
<1>3. StopsRightful'
  BY DEF IInv, TypeOK, StopsRightful, Rightful, MayStop
<1>4. HaltedRightly'
  BY DEF IInv, TypeOK, InHand, Delivery, StopsRightful, Rightful, MayStop, HaltedRightly, Stop
<1>5. RunsOnce' /\ AnsweredOnce'
  <2> HIDE DEF EndTurn, AppendTurnEnd, RelayTo
  <2>0. cur[a].id \in Messages /\ RelayTo(a) \in Agents /\ "relayFailed" \in Reasons
    BY DeliveryFields, RelayedType DEF IInv, InHand, Reasons
  <2>1. EndTurn(cur[a].id, RelayTo(a), "relayFailed")
    BY DEF RelayEnd
  <2>2. /\ unwritten \subseteq unwritten'
        /\ \A m \in Messages, b \in Agents : Ended(m, b) => Ended(m, b)'
    BY <2>0, <2>1, EndTurnEnds DEF IInv
  <2>3. /\ UNCHANGED <<runs, sessionGone, cur, check>>
        /\ \A b \in Agents \ {a} : pc'[b] = pc[b]
        /\ pc[a] = "relayEnd" /\ pc'[a] = "done"
    BY DEF IInv, TypeOK
  <2>9. KeepsTurns(a)
    BY <2>2, <2>3 DEF KeepsTurns
  <2> QED BY <2>9, RunsKeep
<1> QED BY <1>1, <1>2, <1>3, <1>4, <1>5 DEF IInv


\* Every step keeps it.
LEMMA NextIInv == IInv /\ [Next]_vars => IInv'
<1> SUFFICES ASSUME IInv, [Next]_vars PROVE IInv'
  OBVIOUS
<1>1. ASSUME NEW a \in Agents, Workflow(a) PROVE IInv'
  BY <1>1, LoopCloseKeeps, LoopClearKeeps, ContinueAsNewKeeps, AnswerKeeps, CheckTurnKeeps,
     SkipTurnKeeps, RefuseTurnKeeps, BeginTurnKeeps, StartTurnKeeps, TakeStopKeeps,
     TakeClearKeeps, TakeMessageKeeps, FinishTurnKeeps, FinishEndKeeps, FinishMessageKeeps,
     DropMessageKeeps, SweptCloseKeeps, RelaySendKeeps, RelayDoneKeeps, RelayGiveUpKeeps,
     RelayEndKeeps
  DEF Workflow
<1>2. CASE Server
  BY <1>2, DeliverKeeps, AskStopKeeps, SendClearKeeps, DeleteAgentKeeps, SendStopKeeps,
     DeleteSessionKeeps
  DEF Server
<1>3. CASE \E r \in late : LateRelay(r)
  BY <1>3, LateRelayKeeps
<1>4. CASE UNCHANGED vars
  <2> USE <1>4 DEF vars
  <2>1. TypeOK' /\ InHand'
    BY DEF IInv, TypeOK, InHand
  <2>2. StopsRightful' /\ HaltedRightly'
    BY DEF IInv, StopsRightful, Rightful, HaltedRightly, MayStop
  <2>3. RunsOnce' /\ AnsweredOnce'
    BY DEF IInv, RunsOnce, AnsweredOnce, Ended
  <2> QED BY <2>1, <2>2, <2>3 DEF IInv
<1> QED BY <1>1, <1>2, <1>3, <1>4 DEF Next

----------------------------------------------------------------------------
\* Every value a participant, its channels and the store hold has its type,
\* for any agents, messages and routes.
THEOREM TypeCorrect == Spec => []TypeOK
<1>1. IInv => TypeOK
  BY DEF IInv
<1> QED
  BY InitIInv, NextIInv, <1>1, PTL DEF Spec

\* A stop, however late it arrives, stops only a turn its sender may stop
\* (StopTurn, runTurn's selector, stopsFor).
THEOREM StopsRight == Spec => []StoppedRightly
<1>1. IInv => StoppedRightly
  BY DEF IInv, HaltedRightly, StoppedRightly
<1> QED
  BY InitIInv, NextIInv, <1>1, PTL DEF Spec

\* A message delivered any number of times is answered once, unless the end of
\* its first turn could not be written (CheckTurn, endTurn).
THEOREM Answers == Spec => []AnsweredOnce
<1>1. IInv => AnsweredOnce
  BY DEF IInv
<1> QED
  BY InitIInv, NextIInv, <1>1, PTL DEF Spec

----------------------------------------------------------------------------
(* The order of a message's turns, and what their ends say.  Every delivery  *)
(* on its way, waiting or in hand is in line: its agent's place in the route *)
(* is known, what is left of the route goes with it, and the turns before    *)
(* are over, relayed or given up.                                            *)

\* The ends of a turn that relays nothing.
Unrelayed == {"stopped", "stoppedBefore", "failed", "cleared"}

Passed(m, e) ==
  /\ Ended(m, e) \/ sessionGone
  /\ ends[m][e] \in Unrelayed => <<m, e>> \in unwritten

InLine(d, a) ==
  \E i \in 1 .. Len(Route[d.id]) :
    /\ Route[d.id][i] = a
    /\ Len(d.next) = Len(Route[d.id]) - i
    /\ \A k \in 1 .. Len(d.next) : d.next[k] = Route[d.id][i + k]
    /\ \A j \in 1 .. (i - 1) : Passed(d.id, Route[d.id][j])

In(d, s) == \E k \in 1 .. Len(s) : s[k] = d

Holds(a, d) == In(d, chan[a]) \/ In(d, inbox[a]) \/ cur[a] = d

Lines ==
  /\ \A a \in Agents, d \in Delivery : Holds(a, d) => InLine(d, a)
  /\ \A r \in late : InLine(r.d, r.to)

\* A turn that may still be relayed has no end that says otherwise: the check
\* read none, and until then only the turn before may write one.
Relayable(a) ==
  \/ pc[a] \in {"checked", "starting"} /\ check[a] = "ok"
  \/ pc[a] = "turn"
  \/ pc[a] = "end" /\ reason[a] \in {"ok", "notOpen"}

Ending(a) ==
  /\ Relayable(a) => ends[cur[a].id][a] \notin Unrelayed
  /\ reason[a] \notin {"cleared", "relayFailed"}
  /\ pc[a] = "end" /\ reason[a] = "stoppedBefore" => runs[cur[a].id][a] = 0 \/ <<cur[a].id, a>> \in unwritten
  /\ pc[a] \in {"relay", "relayEnd"} => Passed(cur[a].id, a)

OInv == /\ IInv /\ Lines /\ (\A a \in Agents : Ending(a))
        /\ EndTellsTheTruth /\ RelayedInOrder

LEMMA InEmpty == \A d : ~In(d, <<>>)
  BY DEF In

LEMMA InConcat ==
  ASSUME NEW s \in Seq(Delivery), NEW t \in Seq(Delivery), NEW d, In(d, s \o t)
  PROVE  In(d, s) \/ In(d, t)
<1> PICK k \in 1 .. Len(s \o t) : (s \o t)[k] = d
  BY DEF In
<1>1. CASE k <= Len(s)
  BY <1>1 DEF In
<1>2. CASE k > Len(s)
  <2>1. k - Len(s) \in 1 .. Len(t) /\ t[k - Len(s)] = d
    BY <1>2
  <2> QED BY <2>1 DEF In
<1> QED BY <1>1, <1>2

LEMMA InTail ==
  ASSUME NEW s \in Seq(Delivery), s # <<>>
  PROVE  Head(s) \in Delivery /\ In(Head(s), s) /\ \A d : In(d, Tail(s)) => In(d, s)
<1>1. Len(s) > 0 /\ Head(s) = s[1] /\ Head(s) \in Delivery
  OBVIOUS
<1>2. ASSUME NEW d, In(d, Tail(s)) PROVE In(d, s)
  <2> PICK k \in 1 .. Len(Tail(s)) : Tail(s)[k] = d
    BY <1>2 DEF In
  <2>1. k + 1 \in 1 .. Len(s) /\ s[k + 1] = d
    BY <1>1
  <2> QED BY <2>1 DEF In
<1> QED BY <1>1, <1>2 DEF In

LEMMA InAppend ==
  ASSUME NEW s \in Seq(Delivery), NEW e \in Delivery, NEW d, In(d, Append(s, e))
  PROVE  In(d, s) \/ d = e
<1> PICK k \in 1 .. Len(Append(s, e)) : Append(s, e)[k] = d
  BY DEF In
<1>1. Len(Append(s, e)) = Len(s) + 1
  OBVIOUS
<1>2. CASE k <= Len(s)
  BY <1>2 DEF In
<1>3. CASE k = Len(s) + 1
  BY <1>3
<1> QED BY <1>1, <1>2, <1>3

\* A turn that is over stays so, and is not taken for one that relays nothing.
LEMMA EndTurnWrites ==
  ASSUME TypeOK, NEW m \in Messages, NEW b \in Agents, NEW why \in Reasons, EndTurn(m, b, why)
  PROVE  /\ sessionGone => ends' = ends
         /\ \A n \in Messages, c \in Agents :
              \/ ends'[n][c] = ends[n][c]
              \/ n = m /\ c = b /\ ends[n][c] = "none" /\ ends'[n][c] = why
  BY DEF EndTurn, AppendTurnEnd, TypeOK

LEMMA PassedAfterEnd ==
  ASSUME TypeOK, NEW m \in Messages, NEW b \in Agents, NEW why \in Reasons, EndTurn(m, b, why),
         sessionGone' = sessionGone
  PROVE  \A n \in Messages, c \in Agents : Passed(n, c) => Passed(n, c)'
<1>1. /\ unwritten \subseteq unwritten'
      /\ \A n \in Messages, c \in Agents : Ended(n, c) => Ended(n, c)'
  BY EndTurnEnds
<1>2. /\ sessionGone => ends' = ends
      /\ \A n \in Messages, c \in Agents :
           ends'[n][c] = ends[n][c] \/ ends[n][c] = "none"
  BY EndTurnWrites
<1>3. ASSUME NEW n \in Messages, NEW c \in Agents, Passed(n, c) PROVE Passed(n, c)'
  <2>1. Ended(n, c)' \/ sessionGone'
    BY <1>1, <1>3 DEF Passed
  <2>2. CASE sessionGone
    BY <1>1, <1>2, <1>3, <2>1, <2>2 DEF Passed
  <2>3. CASE <<n, c>> \in unwritten
    BY <1>1, <2>1, <2>3 DEF Passed
  <2>4. CASE ends[n][c] # "none" /\ <<n, c>> \notin unwritten
    BY <1>2, <1>3, <2>1, <2>4 DEF Passed
  <2> QED BY <1>3, <2>2, <2>3, <2>4 DEF Passed, Ended
<1> QED BY <1>3

LEMMA InLineStays ==
  ASSUME NEW d \in Delivery, NEW a, InLine(d, a),
         \A n \in Messages, c \in Agents : Passed(n, c) => Passed(n, c)'
  PROVE  InLine(d, a)'
<1>1. d.id \in Messages
  BY DeliveryFields
<1>2. PICK i \in 1 .. Len(Route[d.id]) :
         /\ Route[d.id][i] = a
         /\ Len(d.next) = Len(Route[d.id]) - i
         /\ \A k \in 1 .. Len(d.next) : d.next[k] = Route[d.id][i + k]
         /\ \A j \in 1 .. (i - 1) : Passed(d.id, Route[d.id][j])
  BY DEF InLine
<1>3. \A j \in 1 .. (i - 1) : Route[d.id][j] \in Agents
  BY <1>1, ParticipantAssumption
<1>4. \A j \in 1 .. (i - 1) : Passed(d.id, Route[d.id][j])'
  BY <1>1, <1>2, <1>3
<1> QED BY <1>2, <1>4 DEF InLine

\* The message as it is delivered first, and as it is relayed, is in line.
LEMMA FirstInLine ==
  ASSUME NEW m \in Messages
  PROVE  /\ Head(Route[m]) \in Agents
         /\ [id |-> m, next |-> Tail(Route[m]), earlier |-> <<>>] \in Delivery
         /\ InLine([id |-> m, next |-> Tail(Route[m]), earlier |-> <<>>], Head(Route[m]))
<1> DEFINE d == [id |-> m, next |-> Tail(Route[m]), earlier |-> <<>>]
<1>1. Route[m] \in Seq(Agents) /\ Len(Route[m]) > 0
  BY ParticipantAssumption
<1>2. Tail(Route[m]) \in Seq(Agents) /\ <<>> \in Seq(Agents) /\ Head(Route[m]) \in Agents
  BY <1>1
<1>3. d \in Delivery /\ d.id = m /\ d.next = Tail(Route[m])
  BY <1>2, DeliveryMade
<1>4. Len(Tail(Route[m])) = Len(Route[m]) - 1 /\ Head(Route[m]) = Route[m][1]
  BY <1>1
<1>5. \A k \in 1 .. Len(Tail(Route[m])) : Tail(Route[m])[k] = Route[m][1 + k]
  BY <1>1, <1>4
<1>6. 1 \in 1 .. Len(Route[m]) /\ ~ \E j \in 1 .. (1 - 1) : TRUE
  BY <1>1
<1> HIDE DEF d
<1>7. InLine(d, Head(Route[m]))
  BY <1>3, <1>4, <1>5, <1>6 DEF InLine
<1> QED BY <1>2, <1>3, <1>7 DEF d

LEMMA RelayedInLine ==
  ASSUME TypeOK, NEW a \in Agents, cur[a] \in Delivery, cur[a].next # <<>>,
         InLine(cur[a], a), Passed(cur[a].id, a)
  PROVE  InLine(Relayed(a), RelayTo(a))
<1> DEFINE m == cur[a].id
           n == cur[a].next
<1>1. m \in Messages /\ n \in Seq(Agents) /\ Len(n) > 0 /\ Route[m] \in Seq(Agents)
  BY DeliveryFields, ParticipantAssumption
<1>2. PICK i \in 1 .. Len(Route[m]) :
         /\ Route[m][i] = a
         /\ Len(n) = Len(Route[m]) - i
         /\ \A k \in 1 .. Len(n) : n[k] = Route[m][i + k]
         /\ \A j \in 1 .. (i - 1) : Passed(m, Route[m][j])
  BY DEF InLine
<1>3. PICK c \in 1 .. Len(Route[m]) : c = i + 1
  BY <1>1, <1>2
<1>4. Relayed(a).id = m /\ Relayed(a).next = Tail(n) /\ RelayTo(a) = n[1] /\ Len(Tail(n)) = Len(n) - 1
  BY <1>1 DEF Relayed, RelayTo
<1>5. Route[m][c] = n[1] /\ Len(Tail(n)) = Len(Route[m]) - c
  BY <1>1, <1>2, <1>3, <1>4
<1>6. \A k \in 1 .. Len(Tail(n)) : Tail(n)[k] = Route[m][c + k]
  <2> TAKE k \in 1 .. Len(Tail(n))
  <2>1. PICK l \in 1 .. Len(n) : l = k + 1
    BY <1>1, <1>4
  <2>2. Tail(n)[k] = n[l] /\ i + l = c + k
    BY <1>1, <1>3, <2>1
  <2> QED BY <1>2, <2>1, <2>2
<1>7. \A j \in 1 .. (c - 1) : Passed(m, Route[m][j])
  BY <1>2, <1>3
<1> HIDE DEF m, n
<1> QED BY <1>4, <1>5, <1>6, <1>7 DEF InLine

\* A step keeps the line of every delivery it leaves on its way.
LEMMA LinesKeep ==
  ASSUME Lines, TypeOK,
         TypeOK',
         \A n \in Messages, c \in Agents : Passed(n, c) => Passed(n, c)',
         \A b \in Agents, d \in Delivery : Holds(b, d)' => Holds(b, d) \/ InLine(d, b),
         \A r \in late' : InLine(r.d, r.to)
  PROVE  Lines'
<1>1. ASSUME NEW b \in Agents, NEW d \in Delivery, Holds(b, d)' PROVE InLine(d, b)'
  <2>1. InLine(d, b)
    BY <1>1 DEF Lines
  <2> QED BY <2>1, InLineStays
<1>2. ASSUME NEW r \in late' PROVE InLine(r.d, r.to)'
  <2>1. r.d \in Delivery
    BY <1>2 DEF TypeOK
  <2> QED BY <1>2, <2>1, InLineStays
<1> QED BY <1>1, <1>2 DEF Lines

LEMMA OrderKeeps ==
  ASSUME RelayedInOrder, UNCHANGED runs,
         \A n \in Messages, c \in Agents : Passed(n, c) => Passed(n, c)'
  PROVE  RelayedInOrder'
<1> SUFFICES ASSUME NEW m \in Messages, NEW e \in Agents, NEW a \in Agents, Before(m, e, a), runs'[m][a] > 0
             PROVE  Passed(m, e)'
  BY DEF RelayedInOrder, Passed, Unrelayed, Before, Ended
<1>1. Passed(m, e)
  BY DEF RelayedInOrder, Passed, Unrelayed
<1> QED BY <1>1

\* Steps that write no end and start no turn: what the others hold of their
\* turns stays, and a participant a delivery starts is at its loop's top.
Quiet(S) ==
  /\ UNCHANGED <<ends, unwritten, sessionGone, runs>>
  /\ \A b \in Agents \ S : /\ cur'[b] = cur[b] /\ check'[b] = check[b] /\ reason'[b] = reason[b]
                           /\ pc'[b] \in {pc[b], "top"}

LEMMA QuietKeeps ==
  ASSUME NEW S \in SUBSET Agents, OInv,
         IInv', Quiet(S), \A a \in S : Ending(a)',
         \A b \in Agents, d \in Delivery : Holds(b, d)' => Holds(b, d) \/ InLine(d, b),
         \A r \in late' : InLine(r.d, r.to)
  PROVE  OInv'
<1>1. UNCHANGED <<ends, unwritten, sessionGone, runs>>
  BY DEF Quiet
<1>2. \A n \in Messages, c \in Agents : Passed(n, c) => Passed(n, c)'
  BY <1>1 DEF Passed, Ended
<1>3. Lines'
  BY <1>2, LinesKeep DEF OInv, IInv
<1>4. RelayedInOrder'
  BY <1>1, <1>2, OrderKeeps DEF OInv
<1>5. EndTellsTheTruth'
  BY <1>1 DEF OInv, EndTellsTheTruth
<1>6. ASSUME NEW b \in Agents \ S PROVE Ending(b)'
  <2>1. cur'[b] = cur[b] /\ check'[b] = check[b] /\ reason'[b] = reason[b] /\ pc'[b] \in {pc[b], "top"}
    BY DEF Quiet
  <2>2. Ending(b)
    BY DEF OInv
  <2> QED BY <1>1, <2>1, <2>2 DEF Ending, Relayable, Passed, Ended
<1> QED BY <1>3, <1>4, <1>5, <1>6 DEF OInv

\* The deliveries stay where they are.
LEMMA HoldsSame ==
  ASSUME OInv, UNCHANGED <<chan, inbox, cur, late>>
  PROVE  /\ \A b \in Agents, d \in Delivery : Holds(b, d)' => Holds(b, d) \/ InLine(d, b)
         /\ \A r \in late' : InLine(r.d, r.to)
  BY DEF OInv, Lines, Holds, In

\* A delivery joins a participant's channel.
LEMMA SignalHolds ==
  ASSUME OInv, NEW c \in Agents, NEW e \in Delivery, SignalWithStart(c, e), InLine(e, c), UNCHANGED <<inbox, cur>>
  PROVE  /\ \A b \in Agents, d \in Delivery : Holds(b, d)' => Holds(b, d) \/ InLine(d, b)
         /\ \A b \in Agents : pc'[b] \in {pc[b], "top"} /\ (pc[b] # "closed" => pc'[b] = pc[b])
<1>1. chan \in [Agents -> Seq(Delivery)] /\ pc \in [Agents -> Points]
  BY DEF OInv, IInv, TypeOK
<1>2. \A b \in Agents : chan'[b] = IF b = c THEN Append(chan[b], e) ELSE chan[b]
  BY <1>1 DEF SignalWithStart
<1>3. ASSUME NEW b \in Agents, NEW d \in Delivery, Holds(b, d)' PROVE Holds(b, d) \/ InLine(d, b)
  <2>1. In(d, chan'[b]) => In(d, chan[b]) \/ (b = c /\ d = e)
    BY <1>1, <1>2, InAppend
  <2> QED BY <1>3, <2>1 DEF Holds
<1>4. \A b \in Agents : pc'[b] \in {pc[b], "top"} /\ (pc[b] # "closed" => pc'[b] = pc[b])
  BY <1>1 DEF SignalWithStart
<1> QED BY <1>3, <1>4

\* A participant's channel and inbox are emptied.
LEMMA EmptiedHolds ==
  ASSUME OInv, NEW S \in SUBSET Agents, UNCHANGED late,
         \A b \in Agents : \/ b \in S /\ chan'[b] = <<>> /\ inbox'[b] = <<>>
                           \/ chan'[b] = chan[b] /\ inbox'[b] = inbox[b],
         \A b \in Agents : cur'[b] \in {cur[b], NoTurn}
  PROVE  /\ \A b \in Agents, d \in Delivery : Holds(b, d)' => Holds(b, d) \/ InLine(d, b)
         /\ \A r \in late' : InLine(r.d, r.to)
<1>1. ASSUME NEW b \in Agents, NEW d \in Delivery, Holds(b, d)' PROVE Holds(b, d)
  <2>1. cur'[b] = d => cur[b] = d
    BY NoTurnAssumption
  <2> QED BY <1>1, <2>1, InEmpty DEF Holds
<1> QED BY <1>1 DEF OInv, Lines

LEMMA StutterOrders ==
  ASSUME OInv, IInv', UNCHANGED <<pc, chan, inbox, cur, check, reason, late, ends, unwritten, sessionGone, runs>>
  PROVE  OInv'
<1>1. Quiet({})
  BY DEF Quiet
<1> QED BY <1>1, HoldsSame, QuietKeeps

LEMMA AskStopOrders ==
  ASSUME NEW a \in Agents, NEW u \in Users, OInv, AskStop(a, u)
  PROVE  OInv'
<1>1. UNCHANGED <<pc, chan, inbox, cur, check, reason, late, ends, unwritten, sessionGone, runs>>
  BY DEF AskStop, signals, turn, store, history
<1>2. IInv'
  BY AskStopKeeps DEF OInv
<1> QED BY <1>1, <1>2, StutterOrders

LEMMA SendStopOrders ==
  ASSUME NEW r \in asked, OInv, SendStop(r)
  PROVE  OInv'
<1>1. UNCHANGED <<pc, chan, inbox, cur, check, reason, late, ends, unwritten, sessionGone, runs>>
  BY DEF SendStop, signals, turn, store, history
<1>2. IInv'
  BY SendStopKeeps DEF OInv
<1> QED BY <1>1, <1>2, StutterOrders

LEMMA SendClearOrders ==
  ASSUME NEW a \in Agents, OInv, SendClear(a)
  PROVE  OInv'
<1>1. UNCHANGED <<pc, chan, inbox, cur, check, reason, late, ends, unwritten, sessionGone, runs>>
  BY DEF SendClear, signals, turn, store, history
<1>2. IInv'
  BY SendClearKeeps DEF OInv
<1> QED BY <1>1, <1>2, StutterOrders

LEMMA DeleteAgentOrders ==
  ASSUME NEW a \in Agents, OInv, DeleteAgent(a)
  PROVE  OInv'
<1>1. UNCHANGED <<pc, chan, inbox, cur, check, reason, late, ends, unwritten, sessionGone, runs>>
  BY DEF DeleteAgent, signals, turn, store, history
<1>2. IInv'
  BY DeleteAgentKeeps DEF OInv
<1> QED BY <1>1, <1>2, StutterOrders

LEMMA DeliverOrders ==
  ASSUME NEW m \in Messages, OInv, Deliver(m)
  PROVE  OInv'
<1> DEFINE d == [id |-> m, next |-> Tail(Route[m]), earlier |-> <<>>]
<1>1. /\ SignalWithStart(Head(Route[m]), d)
      /\ UNCHANGED <<inbox, cur, check, reason, late, ends, unwritten, sessionGone, runs>>
  BY DEF Deliver, turn, store, history
<1>2. Head(Route[m]) \in Agents /\ d \in Delivery /\ InLine(d, Head(Route[m]))
  BY FirstInLine
<1>3. IInv'
  BY DeliverKeeps DEF OInv
<1> HIDE DEF d
<1>4. /\ \A b \in Agents, e \in Delivery : Holds(b, e)' => Holds(b, e) \/ InLine(e, b)
      /\ \A b \in Agents : pc'[b] \in {pc[b], "top"}
  BY <1>1, <1>2, SignalHolds
<1>5. Quiet({}) /\ \A r \in late' : InLine(r.d, r.to)
  BY <1>1, <1>4 DEF Quiet, OInv, Lines
<1> QED BY <1>3, <1>4, <1>5, QuietKeeps

LEMMA LateRelayOrders ==
  ASSUME NEW r \in late, OInv, LateRelay(r)
  PROVE  OInv'
<1>1. /\ SignalWithStart(r.to, r.d) /\ late' = late \ {r}
      /\ UNCHANGED <<inbox, cur, check, reason, ends, unwritten, sessionGone, runs>>
  BY DEF LateRelay, turn, store, history
<1>2. r.to \in Agents /\ r.d \in Delivery /\ InLine(r.d, r.to)
  BY DEF OInv, IInv, TypeOK, Lines
<1>3. IInv'
  BY LateRelayKeeps DEF OInv
<1>4. /\ \A b \in Agents, e \in Delivery : Holds(b, e)' => Holds(b, e) \/ InLine(e, b)
      /\ \A b \in Agents : pc'[b] \in {pc[b], "top"}
  BY <1>1, <1>2, SignalHolds
<1>5. Quiet({}) /\ \A q \in late' : InLine(q.d, q.to)
  BY <1>1, <1>4 DEF Quiet, OInv, Lines
<1> QED BY <1>3, <1>4, <1>5, QuietKeeps

LEMMA DeleteSessionOrders ==
  ASSUME OInv, DeleteSession
  PROVE  OInv'
<1>1. PICK S \in SUBSET Agents :
         /\ pc' = [a \in Agents |-> IF a \in S THEN "closed" ELSE pc[a]]
         /\ chan' = [a \in Agents |-> IF a \in S THEN <<>> ELSE chan[a]]
         /\ inbox' = [a \in Agents |-> IF a \in S THEN <<>> ELSE inbox[a]]
         /\ Forget(S)
  BY DEF DeleteSession
<1>2. /\ sessionGone' /\ UNCHANGED <<unwritten, runs, late>>
      /\ \A n \in Messages, c \in Agents : ends'[n][c] = "none"
  BY DEF DeleteSession, history
<1>3. IInv'
  BY DeleteSessionKeeps DEF OInv
<1>4. \A n \in Messages, c \in Agents : Passed(n, c)'
  BY <1>2 DEF Passed, Unrelayed
<1>5. /\ \A b \in Agents, d \in Delivery : Holds(b, d)' => Holds(b, d) \/ InLine(d, b)
      /\ \A r \in late' : InLine(r.d, r.to)
  <2>1. \A b \in Agents : /\ \/ b \in S /\ chan'[b] = <<>> /\ inbox'[b] = <<>>
                             \/ chan'[b] = chan[b] /\ inbox'[b] = inbox[b]
                          /\ cur'[b] \in {cur[b], NoTurn}
    BY <1>1 DEF Forget
  <2> QED BY <1>2, <2>1, EmptiedHolds
<1>6. Lines'
  BY <1>3, <1>4, <1>5, LinesKeep DEF OInv, IInv
<1>7. ASSUME NEW b \in Agents PROVE Ending(b)'
  <2>1. pc'[b] \in {"checked", "starting", "turn", "end", "relay", "relayEnd"} =>
           cur'[b] \in Delivery /\ cur'[b].id \in Messages
    BY <1>3, DeliveryFields DEF IInv, InHand
  <2>2. \/ pc'[b] = "closed" /\ reason'[b] = "ok"
        \/ pc'[b] = pc[b] /\ reason'[b] = reason[b] /\ cur'[b] = cur[b]
    BY <1>1 DEF Forget
  <2>3. Ending(b)
    BY DEF OInv
  <2>4. Relayable(b)' => ends'[cur'[b].id][b] \notin Unrelayed
    BY <1>2, <2>1 DEF Relayable, Unrelayed
  <2>5. pc'[b] \in {"relay", "relayEnd"} => Passed(cur[b].id, b)'
    BY <1>4, <2>1, <2>2
  <2> QED BY <1>2, <2>2, <2>3, <2>4, <2>5 DEF Ending
<1>8. EndTellsTheTruth'
  BY <1>2 DEF EndTellsTheTruth
<1>9. RelayedInOrder'
  BY <1>4 DEF RelayedInOrder, Passed, Unrelayed
<1> QED BY <1>3, <1>6, <1>7, <1>8, <1>9 DEF OInv

LEMMA LoopCloseOrders ==
  ASSUME NEW a \in Agents, OInv, LoopClose(a)
  PROVE  OInv'
<1>1. IInv' /\ Ending(a)
  BY LoopCloseKeeps DEF OInv
<1>2. Quiet({a})
  BY DEF OInv, IInv, TypeOK, Quiet, LoopClose, Close, Go, signals, turn, store, history
<1>3. pc'[a] = "closed" /\ reason'[a] = reason[a]
  BY DEF OInv, IInv, TypeOK, LoopClose, Close, Go, signals, turn, store, history
<1>4. Ending(a)'
  BY <1>1, <1>3 DEF Ending, Relayable
<1>5. /\ \A b \in Agents, d \in Delivery : Holds(b, d)' => Holds(b, d) \/ InLine(d, b)
      /\ \A r \in late' : InLine(r.d, r.to)
  <2>1. \A b \in Agents : /\ \/ b \in {a} /\ chan'[b] = <<>> /\ inbox'[b] = <<>>
                             \/ chan'[b] = chan[b] /\ inbox'[b] = inbox[b]
                          /\ cur'[b] \in {cur[b], NoTurn}
    BY DEF OInv, IInv, TypeOK, LoopClose, Close, Go, turn
  <2>2. UNCHANGED late
    BY DEF LoopClose, Close, Go, turn
  <2> QED BY <2>1, <2>2, EmptiedHolds
<1> QED BY <1>1, <1>2, <1>4, <1>5, QuietKeeps

LEMMA LoopClearOrders ==
  ASSUME NEW a \in Agents, OInv, LoopClear(a)
  PROVE  OInv'
<1>1. IInv' /\ Ending(a)
  BY LoopClearKeeps DEF OInv
<1>2. Quiet({a})
  BY DEF OInv, IInv, TypeOK, Quiet, LoopClear, Go, signals, turn, store, history
<1>3. pc'[a] = "sweeping" /\ reason'[a] = reason[a]
  BY DEF OInv, IInv, TypeOK, LoopClear, Go, signals, turn, store, history
<1>4. Ending(a)'
  BY <1>1, <1>3 DEF Ending, Relayable
<1>5. /\ \A b \in Agents, d \in Delivery : Holds(b, d)' => Holds(b, d) \/ InLine(d, b)
      /\ \A r \in late' : InLine(r.d, r.to)
  <2>1. \A b \in Agents : /\ \/ b \in {a} /\ chan'[b] = <<>> /\ inbox'[b] = <<>>
                             \/ chan'[b] = chan[b] /\ inbox'[b] = inbox[b]
                          /\ cur'[b] \in {cur[b], NoTurn}
    BY DEF OInv, IInv, TypeOK, LoopClear, Go, turn
  <2>2. UNCHANGED late
    BY DEF LoopClear, Go, turn
  <2> QED BY <2>1, <2>2, EmptiedHolds
<1> QED BY <1>1, <1>2, <1>4, <1>5, QuietKeeps

LEMMA ContinueAsNewOrders ==
  ASSUME NEW a \in Agents, OInv, ContinueAsNew(a)
  PROVE  OInv'
<1>1. IInv' /\ Ending(a)
  BY ContinueAsNewKeeps DEF OInv
<1>2. Quiet({a})
  BY DEF OInv, IInv, TypeOK, Quiet, ContinueAsNew, signals, turn, store, history
<1>3. pc'[a] = "top" /\ reason'[a] = reason[a]
  BY DEF OInv, IInv, TypeOK, ContinueAsNew, signals, turn, store, history
<1>4. Ending(a)'
  BY <1>1, <1>3 DEF Ending, Relayable
<1>5. /\ \A b \in Agents, d \in Delivery : Holds(b, d)' => Holds(b, d) \/ InLine(d, b)
      /\ \A r \in late' : InLine(r.d, r.to)
  <2>1. chan \in [Agents -> Seq(Delivery)] /\ inbox \in [Agents -> Seq(Delivery)]
    BY DEF OInv, IInv, TypeOK
  <2>2. \A b \in Agents : \/ chan'[b] = chan[b] /\ inbox'[b] = inbox[b]
                          \/ chan'[b] = <<>> /\ inbox'[b] = inbox[b] \o chan[b]
    BY <2>1 DEF ContinueAsNew, Received
  <2>3. UNCHANGED <<cur, late>>
    BY DEF ContinueAsNew, turn
  <2>4. ASSUME NEW b \in Agents, NEW d \in Delivery, Holds(b, d)' PROVE Holds(b, d)
    BY <2>1, <2>2, <2>3, <2>4, InConcat, InEmpty DEF Holds
  <2> QED BY <2>3, <2>4 DEF OInv, Lines
<1> QED BY <1>1, <1>2, <1>4, <1>5, QuietKeeps

LEMMA AnswerOrders ==
  ASSUME NEW a \in Agents, OInv, Answer(a)
  PROVE  OInv'
<1>1. IInv' /\ Ending(a)
  BY AnswerKeeps DEF OInv
<1>2. Quiet({a})
  BY DEF OInv, IInv, TypeOK, Quiet, Answer, Go, signals, turn, store, history
<1>3. pc'[a] = "check" /\ reason'[a] = reason[a]
  BY DEF OInv, IInv, TypeOK, Answer, Go, signals, turn, store, history
<1>4. Ending(a)'
  BY <1>1, <1>3 DEF Ending, Relayable
<1>5. /\ \A b \in Agents, d \in Delivery : Holds(b, d)' => Holds(b, d) \/ InLine(d, b)
      /\ \A r \in late' : InLine(r.d, r.to)
  <2>1. chan \in [Agents -> Seq(Delivery)] /\ inbox \in [Agents -> Seq(Delivery)]
    BY DEF OInv, IInv, TypeOK
  <2>2. inbox[a] \o chan[a] \in Seq(Delivery) /\ inbox[a] \o chan[a] # <<>>
    BY <2>1 DEF Answer, LoopOver, Received
  <2>3. /\ cur'[a] = Head(inbox[a] \o chan[a]) /\ inbox'[a] = Tail(inbox[a] \o chan[a]) /\ chan'[a] = <<>>
        /\ \A b \in Agents \ {a} : cur'[b] = cur[b] /\ inbox'[b] = inbox[b] /\ chan'[b] = chan[b]
        /\ UNCHANGED late
    BY DEF OInv, IInv, TypeOK, Answer, Received
  <2>4. ASSUME NEW d \in Delivery, Holds(a, d)' PROVE Holds(a, d)
    <3>1. \/ d = Head(inbox[a] \o chan[a]) \/ In(d, Tail(inbox[a] \o chan[a]))
      BY <2>3, <2>4, InEmpty DEF Holds
    <3>2. In(d, inbox[a] \o chan[a])
      BY <2>2, <3>1, InTail
    <3> QED BY <2>1, <3>2, InConcat DEF Holds
  <2>5. ASSUME NEW b \in Agents \ {a}, NEW d \in Delivery, Holds(b, d)' PROVE Holds(b, d)
    BY <2>3, <2>5 DEF Holds
  <2> QED BY <2>3, <2>4, <2>5 DEF OInv, Lines
<1> QED BY <1>1, <1>2, <1>4, <1>5, QuietKeeps

LEMMA CheckTurnOrders ==
  ASSUME NEW a \in Agents, OInv, CheckTurn(a)
  PROVE  OInv'
<1>1. IInv' /\ Ending(a)
  BY CheckTurnKeeps DEF OInv
<1>2. Quiet({a})
  BY DEF OInv, IInv, TypeOK, Quiet, CheckTurn, TurnCheck, Go, signals, turn, store, history
<1>3. /\ pc'[a] = "checked" /\ reason'[a] = reason[a] /\ cur'[a] = cur[a]
      /\ check'[a] = "ok" => ends'[cur[a].id][a] = "none"
  BY DEF OInv, IInv, TypeOK, CheckTurn, TurnCheck, Go, signals, turn, store, history
<1>4. Ending(a)'
  BY <1>1, <1>3 DEF Ending, Relayable, Unrelayed
<1>5. UNCHANGED <<chan, inbox, cur, late>>
  BY DEF CheckTurn, TurnCheck, Go, signals, turn, store, history
<1> QED BY <1>1, <1>2, <1>4, <1>5, HoldsSame, QuietKeeps

LEMMA SkipTurnOrders ==
  ASSUME NEW a \in Agents, OInv, SkipTurn(a)
  PROVE  OInv'
<1>1. IInv' /\ Ending(a)
  BY SkipTurnKeeps DEF OInv
<1>2. Quiet({a})
  BY DEF OInv, IInv, TypeOK, Quiet, SkipTurn, Go, signals, turn, store, history
<1>3. pc'[a] = "done" /\ reason'[a] = reason[a]
  BY DEF OInv, IInv, TypeOK, SkipTurn, Go, signals, turn, store, history
<1>4. Ending(a)'
  BY <1>1, <1>3 DEF Ending, Relayable
<1>5. UNCHANGED <<chan, inbox, cur, late>>
  BY DEF SkipTurn, Go, signals, turn, store, history
<1> QED BY <1>1, <1>2, <1>4, <1>5, HoldsSame, QuietKeeps

LEMMA RefuseTurnOrders ==
  ASSUME NEW a \in Agents, OInv, RefuseTurn(a)
  PROVE  OInv'
<1>1. IInv' /\ Ending(a)
  BY RefuseTurnKeeps DEF OInv
<1>2. Quiet({a})
  BY DEF OInv, IInv, TypeOK, Quiet, RefuseTurn, Go, signals, turn, store, history
<1>3. pc'[a] = "end" /\ reason'[a] = "failed"
  BY DEF OInv, IInv, TypeOK, RefuseTurn, Go, signals, turn, store, history
<1>4. Ending(a)'
  BY <1>1, <1>3 DEF Ending, Relayable
<1>5. UNCHANGED <<chan, inbox, cur, late>>
  BY DEF RefuseTurn, Go, signals, turn, store, history
<1> QED BY <1>1, <1>2, <1>4, <1>5, HoldsSame, QuietKeeps

LEMMA BeginTurnOrders ==
  ASSUME NEW a \in Agents, OInv, BeginTurn(a)
  PROVE  OInv'
<1>1. IInv' /\ Ending(a)
  BY BeginTurnKeeps DEF OInv
<1>2. Quiet({a})
  BY DEF OInv, IInv, TypeOK, Quiet, BeginTurn, Go, signals, turn, store, history
<1>3. /\ pc[a] = "checked" /\ check[a] = "ok" /\ cur'[a] = cur[a] /\ check'[a] = "ok"
      /\ \/ pc'[a] = "end" /\ reason'[a] = "stoppedBefore"
         \/ pc'[a] = "starting" /\ reason'[a] = reason[a]
  BY DEF OInv, IInv, TypeOK, BeginTurn, Go, signals, turn, store, history
<1>4. Ending(a)'
  <2>1. runs[cur[a].id][a] = 0 \/ <<cur[a].id, a>> \in unwritten
    BY <1>3 DEF OInv, IInv, RunsOnce
  <2> QED BY <1>1, <1>2, <1>3, <2>1 DEF Ending, Relayable, Quiet
<1>5. UNCHANGED <<chan, inbox, cur, late>>
  BY DEF BeginTurn, Go, signals, turn, store, history
<1> QED BY <1>1, <1>2, <1>4, <1>5, HoldsSame, QuietKeeps

LEMMA TakeStopOrders ==
  ASSUME NEW a \in Agents, OInv, TakeStop(a)
  PROVE  OInv'
<1>1. IInv' /\ Ending(a)
  BY TakeStopKeeps DEF OInv
<1>2. Quiet({a})
  BY DEF OInv, IInv, TypeOK, Quiet, TakeStop, signals, turn, store, history
<1>3. pc'[a] = "turn" /\ pc[a] = "turn" /\ reason'[a] = reason[a] /\ cur'[a] = cur[a]
  BY DEF OInv, IInv, TypeOK, TakeStop, signals, turn, store, history
<1>4. Ending(a)'
  BY <1>1, <1>2, <1>3 DEF Ending, Relayable, Quiet
<1>5. UNCHANGED <<chan, inbox, cur, late>>
  BY DEF TakeStop, signals, turn, store, history
<1> QED BY <1>1, <1>2, <1>4, <1>5, HoldsSame, QuietKeeps

LEMMA TakeClearOrders ==
  ASSUME NEW a \in Agents, OInv, TakeClear(a)
  PROVE  OInv'
<1>1. IInv' /\ Ending(a)
  BY TakeClearKeeps DEF OInv
<1>2. Quiet({a})
  BY DEF OInv, IInv, TypeOK, Quiet, TakeClear, signals, turn, store, history
<1>3. pc'[a] = "turn" /\ pc[a] = "turn" /\ reason'[a] = reason[a] /\ cur'[a] = cur[a]
  BY DEF OInv, IInv, TypeOK, TakeClear, signals, turn, store, history
<1>4. Ending(a)'
  BY <1>1, <1>2, <1>3 DEF Ending, Relayable, Quiet
<1>5. UNCHANGED <<chan, inbox, cur, late>>
  BY DEF TakeClear, signals, turn, store, history
<1> QED BY <1>1, <1>2, <1>4, <1>5, HoldsSame, QuietKeeps

LEMMA TakeMessageOrders ==
  ASSUME NEW a \in Agents, OInv, TakeMessage(a)
  PROVE  OInv'
<1>1. IInv' /\ Ending(a)
  BY TakeMessageKeeps DEF OInv
<1>2. Quiet({a})
  BY DEF OInv, IInv, TypeOK, Quiet, TakeMessage, signals, turn, store, history
<1>3. pc'[a] = "turn" /\ pc[a] = "turn" /\ reason'[a] = reason[a] /\ cur'[a] = cur[a]
  BY DEF OInv, IInv, TypeOK, TakeMessage, signals, turn, store, history
<1>4. Ending(a)'
  BY <1>1, <1>2, <1>3 DEF Ending, Relayable, Quiet
<1>5. /\ \A b \in Agents, d \in Delivery : Holds(b, d)' => Holds(b, d) \/ InLine(d, b)
      /\ \A r \in late' : InLine(r.d, r.to)
  <2>1. chan \in [Agents -> Seq(Delivery)] /\ inbox \in [Agents -> Seq(Delivery)] /\ chan[a] # <<>>
    BY DEF OInv, IInv, TypeOK, TakeMessage
  <2>2. Head(chan[a]) \in Delivery /\ In(Head(chan[a]), chan[a]) /\ \A d : In(d, Tail(chan[a])) => In(d, chan[a])
    BY <2>1, InTail
  <2>3. /\ inbox'[a] = Append(inbox[a], Head(chan[a])) /\ chan'[a] = Tail(chan[a])
        /\ \A b \in Agents \ {a} : inbox'[b] = inbox[b] /\ chan'[b] = chan[b]
        /\ UNCHANGED <<cur, late>>
    BY <2>1 DEF TakeMessage, turn
  <2>4. ASSUME NEW d \in Delivery, Holds(a, d)' PROVE Holds(a, d)
    BY <2>1, <2>2, <2>3, <2>4, InAppend DEF Holds
  <2>5. ASSUME NEW b \in Agents \ {a}, NEW d \in Delivery, Holds(b, d)' PROVE Holds(b, d)
    BY <2>3, <2>5 DEF Holds
  <2> QED BY <2>3, <2>4, <2>5 DEF OInv, Lines
<1> QED BY <1>1, <1>2, <1>4, <1>5, QuietKeeps

LEMMA FinishTurnOrders ==
  ASSUME NEW a \in Agents, OInv, FinishTurn(a)
  PROVE  OInv'
<1>1. IInv' /\ Ending(a)
  BY FinishTurnKeeps DEF OInv
<1>2. Quiet({a})
  BY DEF OInv, IInv, TypeOK, Quiet, FinishTurn, Go, signals, turn, store, history
<1>3. pc'[a] = "end" /\ pc[a] = "turn" /\ reason'[a] \in {"ok", "failed", "notOpen", "stopped"} /\ cur'[a] = cur[a]
  BY DEF OInv, IInv, TypeOK, FinishTurn, Go, signals, turn, store, history
<1>4. Ending(a)'
  BY <1>1, <1>2, <1>3 DEF Ending, Relayable, Quiet
<1>5. UNCHANGED <<chan, inbox, cur, late>>
  BY DEF FinishTurn, Go, signals, turn, store, history
<1> QED BY <1>1, <1>2, <1>4, <1>5, HoldsSame, QuietKeeps

LEMMA FinishMessageOrders ==
  ASSUME NEW a \in Agents, OInv, FinishMessage(a)
  PROVE  OInv'
<1>1. IInv' /\ Ending(a)
  BY FinishMessageKeeps DEF OInv
<1>2. Quiet({a})
  BY DEF OInv, IInv, TypeOK, Quiet, FinishMessage, Forget, Go, signals, turn, store, history
<1>3. pc'[a] = "top" /\ reason'[a] = "ok"
  BY DEF OInv, IInv, TypeOK, FinishMessage, Forget, Go, signals, turn, store, history
<1>4. Ending(a)'
  BY <1>1, <1>3 DEF Ending, Relayable
<1>5. /\ \A b \in Agents, d \in Delivery : Holds(b, d)' => Holds(b, d) \/ InLine(d, b)
      /\ \A r \in late' : InLine(r.d, r.to)
  <2>1. \A b \in Agents : /\ \/ b \in {a} /\ chan'[b] = <<>> /\ inbox'[b] = <<>>
                             \/ chan'[b] = chan[b] /\ inbox'[b] = inbox[b]
                          /\ cur'[b] \in {cur[b], NoTurn}
    BY DEF OInv, IInv, TypeOK, FinishMessage, Forget, signals
  <2>2. UNCHANGED late
    BY DEF FinishMessage, Forget, signals
  <2> QED BY <2>1, <2>2, EmptiedHolds
<1> QED BY <1>1, <1>2, <1>4, <1>5, QuietKeeps

LEMMA SweptCloseOrders ==
  ASSUME NEW a \in Agents, OInv, SweptClose(a)
  PROVE  OInv'
<1>1. IInv' /\ Ending(a)
  BY SweptCloseKeeps DEF OInv
<1>2. Quiet({a})
  BY DEF OInv, IInv, TypeOK, Quiet, SweptClose, Close, Go, signals, turn, store, history
<1>3. pc'[a] = "closed" /\ reason'[a] = reason[a]
  BY DEF OInv, IInv, TypeOK, SweptClose, Close, Go, signals, turn, store, history
<1>4. Ending(a)'
  BY <1>1, <1>3 DEF Ending, Relayable
<1>5. /\ \A b \in Agents, d \in Delivery : Holds(b, d)' => Holds(b, d) \/ InLine(d, b)
      /\ \A r \in late' : InLine(r.d, r.to)
  <2>1. \A b \in Agents : /\ \/ b \in {a} /\ chan'[b] = <<>> /\ inbox'[b] = <<>>
                             \/ chan'[b] = chan[b] /\ inbox'[b] = inbox[b]
                          /\ cur'[b] \in {cur[b], NoTurn}
    BY DEF OInv, IInv, TypeOK, SweptClose, Close, Go, turn
  <2>2. UNCHANGED late
    BY DEF SweptClose, Close, Go, turn
  <2> QED BY <2>1, <2>2, EmptiedHolds
<1> QED BY <1>1, <1>2, <1>4, <1>5, QuietKeeps

LEMMA RelayDoneOrders ==
  ASSUME NEW a \in Agents, OInv, RelayDone(a)
  PROVE  OInv'
<1>1. IInv' /\ Ending(a)
  BY RelayDoneKeeps DEF OInv
<1>2. Quiet({a})
  BY DEF OInv, IInv, TypeOK, Quiet, RelayDone, Go, signals, turn, store, history
<1>3. pc'[a] = "done" /\ reason'[a] = reason[a]
  BY DEF OInv, IInv, TypeOK, RelayDone, Go, signals, turn, store, history
<1>4. Ending(a)'
  BY <1>1, <1>3 DEF Ending, Relayable
<1>5. UNCHANGED <<chan, inbox, cur, late>>
  BY DEF RelayDone, Go, signals, turn, store, history
<1> QED BY <1>1, <1>2, <1>4, <1>5, HoldsSame, QuietKeeps

\* What a relay sends is in line.
LEMMA RelaysInLine ==
  ASSUME NEW a \in Agents, OInv, pc[a] \in {"relay", "relayEnd"}
  PROVE  Relayed(a) \in Delivery /\ RelayTo(a) \in Agents /\ InLine(Relayed(a), RelayTo(a))
<1>1. TypeOK /\ cur[a] \in Delivery /\ cur[a].next # <<>>
  BY DEF OInv, IInv, InHand
<1>2. InLine(cur[a], a) /\ Passed(cur[a].id, a)
  BY <1>1 DEF OInv, Lines, Holds, Ending
<1> QED BY <1>1, <1>2, RelayedType, RelayedInLine

LEMMA RelaySendOrders ==
  ASSUME NEW a \in Agents, OInv, RelaySend(a)
  PROVE  OInv'
<1>1. /\ SignalWithStart(RelayTo(a), Relayed(a)) /\ pc[a] = "relay"
      /\ UNCHANGED <<inbox, cur, check, reason, late, ends, unwritten, sessionGone, runs>>
  BY DEF RelaySend, store, history
<1>2. Relayed(a) \in Delivery /\ RelayTo(a) \in Agents /\ InLine(Relayed(a), RelayTo(a))
  BY <1>1, RelaysInLine
<1>3. IInv'
  BY RelaySendKeeps DEF OInv
<1>4. /\ \A b \in Agents, e \in Delivery : Holds(b, e)' => Holds(b, e) \/ InLine(e, b)
      /\ \A b \in Agents : pc'[b] \in {pc[b], "top"}
  BY <1>1, <1>2, SignalHolds
<1>5. Quiet({}) /\ \A r \in late' : InLine(r.d, r.to)
  BY <1>1, <1>4 DEF Quiet, OInv, Lines
<1> QED BY <1>3, <1>4, <1>5, QuietKeeps

LEMMA RelayGiveUpOrders ==
  ASSUME NEW a \in Agents, OInv, RelayGiveUp(a)
  PROVE  OInv'
<1>1. IInv' /\ Ending(a)
  BY RelayGiveUpKeeps DEF OInv
<1>2. Quiet({a})
  BY DEF OInv, IInv, TypeOK, Quiet, RelayGiveUp, Go, signals, turn, store, history
<1>3. pc'[a] = "relayEnd" /\ pc[a] = "relay" /\ reason'[a] = reason[a] /\ cur'[a] = cur[a]
  BY DEF OInv, IInv, TypeOK, RelayGiveUp, Go, signals, turn, store, history
<1>4. Ending(a)'
  BY <1>1, <1>2, <1>3 DEF Ending, Relayable, Quiet, Passed, Ended
<1>5. /\ \A b \in Agents, d \in Delivery : Holds(b, d)' => Holds(b, d) \/ InLine(d, b)
      /\ \A r \in late' : InLine(r.d, r.to)
  <2>1. UNCHANGED <<chan, inbox, cur>> /\ late' \subseteq late \cup {[to |-> RelayTo(a), d |-> Relayed(a)]}
    BY DEF RelayGiveUp, signals, turn
  <2>2. InLine(Relayed(a), RelayTo(a))
    BY <1>3, RelaysInLine
  <2>3. \A r \in late' : InLine(r.d, r.to)
    BY <2>1, <2>2 DEF OInv, Lines
  <2> QED BY <2>1, <2>3 DEF Holds
<1> QED BY <1>1, <1>2, <1>4, <1>5, QuietKeeps

\* A turn starts in its place: the turns before it are over.
LEMMA StartTurnOrders ==
  ASSUME NEW a \in Agents, OInv, StartTurn(a)
  PROVE  OInv'
<1> DEFINE m == cur[a].id
<1>1. IInv' /\ TypeOK /\ Ending(a) /\ InLine(cur[a], a) /\ m \in Messages /\ cur[a] \in Delivery
  <2>1. IInv'
    BY StartTurnKeeps DEF OInv
  <2>2. cur[a] \in Delivery
    BY DEF OInv, IInv, InHand, StartTurn
  <2> QED BY <2>1, <2>2, DeliveryFields DEF OInv, IInv, Lines, Holds
<1>2. /\ UNCHANGED <<chan, inbox, cur, check, reason, late, ends, unwritten, sessionGone>>
      /\ pc[a] = "starting" /\ check[a] = "ok" /\ pc'[a] = "turn"
      /\ \A b \in Agents \ {a} : pc'[b] = pc[b]
  BY DEF OInv, IInv, TypeOK, InHand, StartTurn, Go, signals, turn, store
<1>3. \A n \in Messages, b \in Agents : runs'[n][b] = IF n = m /\ b = a THEN runs[n][b] + 1 ELSE runs[n][b]
  BY <1>1 DEF TypeOK, StartTurn
<1>4. \A n \in Messages, c \in Agents : Passed(n, c) => Passed(n, c)'
  BY <1>2 DEF Passed, Ended
<1>5. Lines'
  BY <1>1, <1>2, <1>4, HoldsSame, LinesKeep DEF OInv, IInv
<1>6. Ending(a)'
  BY <1>1, <1>2 DEF Ending, Relayable
<1>7. ASSUME NEW b \in Agents \ {a} PROVE Ending(b)'
  <2>1. Ending(b) /\ (pc[b] = "end" => cur[b].id \in Messages)
    BY DeliveryFields DEF OInv, IInv, InHand
  <2> QED BY <1>2, <1>3, <2>1 DEF Ending, Relayable, Passed, Ended
<1>8. EndTellsTheTruth'
  <2>1. ends[m][a] \notin {"cleared", "stoppedBefore"}
    BY <1>1, <1>2 DEF Ending, Relayable, Unrelayed
  <2>2. ASSUME NEW n \in Messages, NEW c \in Agents, ends'[n][c] \in {"cleared", "stoppedBefore"}
        PROVE  runs'[n][c] = 0 \/ <<n, c>> \in unwritten'
    BY <1>2, <1>3, <2>1, <2>2 DEF OInv, EndTellsTheTruth
  <2> QED BY <2>2 DEF EndTellsTheTruth
<1>9. RelayedInOrder'
  <2> SUFFICES ASSUME NEW n \in Messages, NEW e \in Agents, NEW c \in Agents, Before(n, e, c), runs'[n][c] > 0
               PROVE  Passed(n, e)'
    BY DEF RelayedInOrder, Passed, Unrelayed, Before, Ended
  <2>1. CASE n = m /\ c = a
    <3>1. PICK i \in 1 .. Len(Route[m]) : Route[m][i] = a /\ \A j \in 1 .. (i - 1) : Passed(m, Route[m][j])
      BY <1>1 DEF InLine
    <3>2. PICK j, k \in 1 .. Len(Route[m]) : j < k /\ Route[m][j] = e /\ Route[m][k] = a
      BY <2>1 DEF Before
    <3>3. k = i
      BY <1>1, <3>1, <3>2, ParticipantAssumption
    <3>4. j \in 1 .. (i - 1)
      BY <3>2, <3>3
    <3>5. Passed(m, e)
      BY <3>1, <3>2, <3>4
    <3> QED BY <1>1, <1>4, <2>1, <3>5
  <2>2. CASE ~(n = m /\ c = a)
    <3>1. runs[n][c] > 0
      BY <1>3, <2>2
    <3>2. Passed(n, e)
      BY <3>1 DEF OInv, RelayedInOrder, Passed, Unrelayed
    <3> QED BY <1>4, <3>2
  <2> QED BY <2>1, <2>2
<1> QED BY <1>1, <1>5, <1>6, <1>7, <1>8, <1>9 DEF OInv

\* An end written keeps the order: a participant writes those of its own
\* turns, and for the next agent only that the relay failed.
LEMMA EndTurnOrders ==
  ASSUME NEW a \in Agents, NEW m \in Messages, NEW b \in Agents, NEW why \in Reasons, OInv,
         IInv', EndTurn(m, b, why), Ending(a)', UNCHANGED <<sessionGone, runs, cur, check, reason>>,
         \A c \in Agents \ {a} : pc'[c] = pc[c],
         \A c \in Agents, d \in Delivery : Holds(c, d)' => Holds(c, d) \/ InLine(d, c),
         \A r \in late' : InLine(r.d, r.to),
         b # a => why \notin Unrelayed,
         ends[m][b] = "none" /\ ~sessionGone /\ why \in {"cleared", "stoppedBefore"} =>
             runs[m][b] = 0 \/ <<m, b>> \in unwritten
  PROVE  OInv'
<1>1. TypeOK
  BY DEF OInv, IInv
<1>2. \A n \in Messages, c \in Agents : Passed(n, c) => Passed(n, c)'
  BY <1>1, PassedAfterEnd
<1>3. /\ unwritten \subseteq unwritten' /\ (sessionGone => ends' = ends)
      /\ \A n \in Messages, c \in Agents :
           \/ ends'[n][c] = ends[n][c]
           \/ n = m /\ c = b /\ ends[n][c] = "none" /\ ends'[n][c] = why
  BY <1>1, EndTurnEnds, EndTurnWrites
<1>4. Lines'
  BY <1>1, <1>2, LinesKeep DEF OInv, IInv
<1>5. RelayedInOrder'
  BY <1>2, OrderKeeps DEF OInv
<1>6. ASSUME NEW n \in Messages, NEW c \in Agents, ends'[n][c] \in {"cleared", "stoppedBefore"}
      PROVE  runs'[n][c] = 0 \/ <<n, c>> \in unwritten'
  <2>1. CASE ends'[n][c] = ends[n][c]
    BY <1>3, <1>6, <2>1 DEF OInv, EndTellsTheTruth
  <2>2. CASE n = m /\ c = b /\ ends[n][c] = "none" /\ ends'[n][c] = why
    BY <1>3, <1>6, <2>2
  <2> QED BY <1>3, <2>1, <2>2
<1>7. ASSUME NEW c \in Agents \ {a} PROVE Ending(c)'
  <2>1. Ending(c) /\ pc'[c] = pc[c]
    BY DEF OInv
  <2>2. pc[c] \in {"checked", "starting", "turn", "end", "relay", "relayEnd"} => cur[c].id \in Messages
    BY DeliveryFields DEF OInv, IInv, InHand
  <2>3. Relayable(c)' => ends'[cur[c].id][c] \notin Unrelayed
    <3>1. Relayable(c)' => Relayable(c) /\ cur[c].id \in Messages
      BY <2>1, <2>2 DEF Relayable
    <3> QED BY <1>3, <2>1, <3>1 DEF Ending
  <2>4. pc[c] \in {"relay", "relayEnd"} => Passed(cur[c].id, c)'
    BY <1>2, <2>1, <2>2 DEF Ending
  <2> QED BY <1>3, <2>1, <2>3, <2>4 DEF Ending
<1> QED BY <1>4, <1>5, <1>6, <1>7 DEF OInv, EndTellsTheTruth

LEMMA FinishEndOrders ==
  ASSUME NEW a \in Agents, OInv, FinishEnd(a)
  PROVE  OInv'
<1> DEFINE m == cur[a].id
<1>1. TypeOK /\ IInv' /\ Ending(a) /\ pc[a] = "end" /\ m \in Messages /\ reason[a] \in Reasons
  BY FinishEndKeeps, DeliveryFields DEF OInv, IInv, TypeOK, InHand, FinishEnd
<1>2. EndTurn(m, a, reason[a]) /\ UNCHANGED <<sessionGone, runs, cur, check, reason, late>>
  BY DEF FinishEnd
<1>3. /\ \A c \in Agents \ {a} : pc'[c] = pc[c]
      /\ pc'[a] \in {"relay", "done", "dropping"} /\ (pc'[a] = "relay" => reason[a] \in {"ok", "notOpen"})
  BY <1>1 DEF TypeOK, FinishEnd, Relays, Go
<1>4. Ending(a)'
  <2>1. Ended(m, a)'
    BY <1>1, <1>2, EndTurnEnds
  <2>2. reason[a] \in {"ok", "notOpen"} => ends'[m][a] \notin Unrelayed
    BY <1>1, <1>2, EndTurnWrites DEF Ending, Relayable, Unrelayed
  <2> QED BY <1>1, <1>2, <1>3, <2>1, <2>2 DEF Ending, Relayable, Passed
<1>5. /\ \A c \in Agents, d \in Delivery : Holds(c, d)' => Holds(c, d) \/ InLine(d, c)
      /\ \A r \in late' : InLine(r.d, r.to)
  <2>1. \A c \in Agents : \/ c \in {a} /\ chan'[c] = <<>> /\ inbox'[c] = <<>>
                          \/ chan'[c] = chan[c] /\ inbox'[c] = inbox[c]
    BY <1>1 DEF TypeOK, FinishEnd
  <2> QED BY <1>2, <2>1, EmptiedHolds
<1>6. reason[a] \in {"cleared", "stoppedBefore"} => runs[m][a] = 0 \/ <<m, a>> \in unwritten
  BY <1>1 DEF Ending
<1> HIDE DEF m
<1> QED BY <1>1, <1>2, <1>3, <1>4, <1>5, <1>6, EndTurnOrders

LEMMA DropMessageOrders ==
  ASSUME NEW a \in Agents, OInv, DropMessage(a)
  PROVE  OInv'
<1> DEFINE m == Head(dropped[a]).id
<1>1. TypeOK /\ IInv' /\ Ending(a) /\ pc[a] \in {"dropping", "sweeping"}
  BY DropMessageKeeps DEF OInv, IInv, DropMessage
<1>2. m \in Messages
  <2>1. dropped[a] \in Seq(Delivery) /\ dropped[a] # <<>>
    BY <1>1 DEF OInv, IInv, TypeOK, InHand
  <2>2. Head(dropped[a]) \in Delivery
    BY <2>1
  <2> QED BY <2>2, DeliveryFields
<1>3. EndTurn(m, a, "cleared") /\ UNCHANGED <<sessionGone, runs, cur, check, reason, late, chan, inbox>>
  BY DEF DropMessage, signals, turn
<1>4. /\ \A c \in Agents \ {a} : pc'[c] = pc[c]
      /\ pc'[a] \in {"dropping", "sweeping", "done", "swept"}
  BY <1>1 DEF TypeOK, DropMessage
<1>5. Ending(a)'
  BY <1>1, <1>3, <1>4 DEF Ending, Relayable
<1>6. /\ \A c \in Agents, d \in Delivery : Holds(c, d)' => Holds(c, d) \/ InLine(d, c)
      /\ \A r \in late' : InLine(r.d, r.to)
  BY <1>3, HoldsSame
<1>7. ends[m][a] = "none" /\ ~sessionGone => runs[m][a] = 0 \/ <<m, a>> \in unwritten
  <2>1. runs[m][a] \in Nat
    BY <1>1, <1>2 DEF TypeOK
  <2>2. runs[m][a] > 0 => Ended(m, a) \/ sessionGone
    BY <1>1, <1>2 DEF OInv, IInv, RunsOnce
  <2> QED BY <2>1, <2>2 DEF Ended
<1>8. "cleared" \in Reasons
  BY DEF Reasons
<1> HIDE DEF m
<1> QED BY <1>1, <1>2, <1>3, <1>4, <1>5, <1>6, <1>7, <1>8, EndTurnOrders

LEMMA RelayEndOrders ==
  ASSUME NEW a \in Agents, OInv, RelayEnd(a)
  PROVE  OInv'
<1> DEFINE m == cur[a].id
<1>1. TypeOK /\ IInv' /\ Ending(a) /\ pc[a] = "relayEnd" /\ m \in Messages
  BY RelayEndKeeps, DeliveryFields DEF OInv, IInv, InHand, RelayEnd
<1>2. RelayTo(a) \in Agents
  BY <1>1, RelaysInLine
<1>3. EndTurn(m, RelayTo(a), "relayFailed") /\ UNCHANGED <<sessionGone, runs, cur, check, reason, late, chan, inbox>>
  BY DEF RelayEnd, signals, turn
<1>4. pc'[a] = "done" /\ \A c \in Agents \ {a} : pc'[c] = pc[c]
  BY <1>1 DEF TypeOK, RelayEnd, Go
<1>5. Ending(a)'
  BY <1>1, <1>3, <1>4 DEF Ending, Relayable
<1>6. /\ \A c \in Agents, d \in Delivery : Holds(c, d)' => Holds(c, d) \/ InLine(d, c)
      /\ \A r \in late' : InLine(r.d, r.to)
  BY <1>3, HoldsSame
<1>7. "relayFailed" \in Reasons /\ "relayFailed" \notin Unrelayed /\ "relayFailed" \notin {"cleared", "stoppedBefore"}
  BY DEF Reasons, Unrelayed
<1> HIDE DEF m
<1> QED BY <1>1, <1>2, <1>3, <1>4, <1>5, <1>6, <1>7, EndTurnOrders

LEMMA InitOrders == Init => OInv
<1> SUFFICES ASSUME Init PROVE OInv
  OBVIOUS
<1>1. IInv
  BY InitIInv
<1>2. Lines
  <2>1. \A a \in Agents : chan[a] = <<>> /\ inbox[a] = <<>> /\ cur[a] = NoTurn
    BY DEF Init
  <2> QED BY <2>1, InEmpty, NoTurnAssumption DEF Init, Lines, Holds
<1>3. \A a \in Agents : Ending(a)
  BY DEF Init, Ending, Relayable
<1>4. EndTellsTheTruth /\ RelayedInOrder
  BY DEF Init, EndTellsTheTruth, RelayedInOrder
<1> QED BY <1>1, <1>2, <1>3, <1>4 DEF OInv

LEMMA NextOrders == OInv /\ [Next]_vars => OInv'
<1> SUFFICES ASSUME OInv, [Next]_vars PROVE OInv'
  OBVIOUS
<1>1. ASSUME NEW a \in Agents, Workflow(a) PROVE OInv'
  BY <1>1, LoopCloseOrders, LoopClearOrders, ContinueAsNewOrders, AnswerOrders, CheckTurnOrders,
     SkipTurnOrders, RefuseTurnOrders, BeginTurnOrders, StartTurnOrders, TakeStopOrders,
     TakeClearOrders, TakeMessageOrders, FinishTurnOrders, FinishEndOrders, FinishMessageOrders,
     DropMessageOrders, SweptCloseOrders, RelaySendOrders, RelayDoneOrders, RelayGiveUpOrders,
     RelayEndOrders
  DEF Workflow
<1>2. CASE Server
  BY <1>2, DeliverOrders, AskStopOrders, SendClearOrders, DeleteAgentOrders, SendStopOrders,
     DeleteSessionOrders
  DEF Server
<1>3. CASE \E r \in late : LateRelay(r)
  BY <1>3, LateRelayOrders
<1>4. CASE UNCHANGED vars
  <2>1. IInv'
    BY NextIInv DEF OInv
  <2> QED BY <1>4, <2>1, StutterOrders DEF vars
<1> QED BY <1>1, <1>2, <1>3, <1>4 DEF Next

\* The agents a message addresses answer it in order, each once the turns
\* before it are over, and none after a turn stopped, failed or cleared, for
\* any routes, retries, stops and clears (finish, relay).
THEOREM RelaysInOrder == Spec => []RelayedInOrder
<1>1. OInv => RelayedInOrder
  BY DEF OInv
<1> QED
  BY InitOrders, NextOrders, <1>1, PTL DEF Spec

\* A turn that ran is never shown as dropped or as stopped before it started,
\* unless its own end was given up (clear, answer).
THEOREM EndsTellTheTruth == Spec => []EndTellsTheTruth
<1>1. OInv => EndTellsTheTruth
  BY DEF OInv
<1> QED
  BY InitOrders, NextOrders, <1>1, PTL DEF Spec
=============================================================================
