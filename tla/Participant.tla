---------------------------- MODULE Participant ----------------------------
(***************************************************************************)
(* The participants of one session (workflow/participant.go): an agent     *)
(* answers its messages in order, one at a time, in a workflow that runs   *)
(* only while it has some.  Messages, stops and clears reach it as         *)
(* Temporal signals; its turns are checked and ended in the store; it      *)
(* relays a message to the next agent the message addresses.               *)
(*                                                                         *)
(* A step of a participant is what its workflow does between two blocking  *)
(* points (an activity, the turn's child workflow).  A signal may arrive   *)
(* at each of them.  Turn keys are identified by (message, agent).         *)
(***************************************************************************)
EXTENDS Integers, Sequences, FiniteSets

CONSTANTS
  Agents,      \* the agents of the session: one participant each
  Messages,    \* the human messages
  Users,       \* the members
  Creator,     \* the member who created the session
  Author,      \* Author[m]: who wrote message m
  Route,       \* Route[m]: the agents m addresses, in the order they answer
  NoKey,       \* a stop naming no turn
  NoTurn,      \* no delivery in hand
  MaxSends,    \* bound: deliveries one relay may make (its retries)
  MaxFaults,   \* bound: activities that fail past their attempts
  MaxStops,    \* bound: stops asked for
  MaxClears,   \* bound: clears asked for
  Deletable,   \* bound: the agents that may be deleted
  MayDelete    \* bound: whether the session may be deleted

\* A ParticipantMessage: the message, the agents it is relayed to next, the
\* turns that answered it before.
Delivery == [id : Messages, next : Seq(Agents), earlier : Seq(Agents)]

ASSUME ParticipantAssumption ==
  /\ Creator \in Users
  /\ Author \in [Messages -> Users]
  /\ Route \in [Messages -> Seq(Agents)]
  /\ \A m \in Messages :
       /\ Len(Route[m]) > 0
       /\ \A i, j \in 1..Len(Route[m]) : Route[m][i] = Route[m][j] => i = j
  /\ NoKey \notin Messages
  /\ MaxSends \in Nat \ {0}
  /\ MaxFaults \in Nat /\ MaxStops \in Nat /\ MaxClears \in Nat
  /\ Deletable \subseteq Agents /\ MayDelete \in BOOLEAN

ASSUME NoTurnAssumption == NoTurn \notin Delivery

\* The reason of a turn's end, by what tells them apart; "none": not written.
\* "ok" is the empty reason; "relayFailed" is written for the next agent.
Reasons == {"ok", "failed", "notOpen", "stopped", "stoppedBefore", "cleared", "relayFailed"}

\* Where a participant's workflow blocks.
Points == {"closed", "top", "check", "checked", "starting", "turn", "end", "relay",
           "relayEnd", "dropping", "done", "sweeping", "swept"}

VARIABLES
  pc,        \* pc[a]: where a's workflow blocks; "closed" when none runs
  chan,      \* chan[a]: message signals not yet received
  stops,     \* stops[a]: stop-turn signals not yet received
  clears,    \* clears[a]: a clear signal waits
  inbox,     \* inbox[a]: messages received, waiting
  cur,       \* cur[a]: the delivery answered, or NoTurn
  check,     \* check[a]: what CheckTurn read for it
  halted,    \* halted[a]: whose stops its turn took
  cleared,   \* cleared[a]: one of them was a clear
  reason,    \* reason[a]: the end its turn gets
  sent,      \* sent[a]: deliveries its relay made
  dropped,   \* dropped[a]: messages its clear still has to end
  goneSeen,  \* goneSeen[a]: its check found the session deleted
  fresh,     \* fresh[a]: its run has answered nothing yet
  ends,      \* ends[m][a]: the reason of the turn's end in the store
  sessionGone, agentsGone,   \* deleted from the store
  posted,    \* messages the server delivered
  late,      \* deliveries of relays given up, still on their way
  asked,     \* stops whose sender read the turn, the signal not yet sent
  faults, stopsAsked, clearsAsked,   \* what was used of the bounds
  runs,      \* history: runs[m][a], the turns started
  unwritten, \* history: turns whose end was given up
  lost       \* history: messages whose signal a closing run left unread

signals == <<chan, stops, clears>>
turn == <<cur, check, halted, cleared, reason, sent>>
store == <<ends, sessionGone, agentsGone>>
history == <<runs, unwritten, lost>>
vars == <<pc, chan, stops, clears, inbox, cur, check, halted, cleared, reason, sent,
          dropped, goneSeen, fresh, ends, sessionGone, agentsGone, posted, late, asked,
          faults, stopsAsked, clearsAsked, runs, unwritten, lost>>

Stop == [key : Messages \cup {NoKey}, by : Users]

TypeOK ==
  /\ pc \in [Agents -> Points]
  /\ chan \in [Agents -> Seq(Delivery)]
  /\ stops \in [Agents -> SUBSET Stop]
  /\ clears \in [Agents -> BOOLEAN]
  /\ inbox \in [Agents -> Seq(Delivery)]
  /\ cur \in [Agents -> Delivery \cup {NoTurn}]
  /\ check \in [Agents -> {"gone", "answered", "error", "ok"}]
  /\ halted \in [Agents -> SUBSET Users]
  /\ cleared \in [Agents -> BOOLEAN]
  /\ reason \in [Agents -> Reasons]
  /\ sent \in [Agents -> Nat]
  /\ dropped \in [Agents -> Seq(Delivery)]
  /\ goneSeen \in [Agents -> BOOLEAN]
  /\ fresh \in [Agents -> BOOLEAN]
  /\ ends \in [Messages -> [Agents -> Reasons \cup {"none"}]]
  /\ sessionGone \in BOOLEAN
  /\ agentsGone \subseteq Agents
  /\ posted \subseteq Messages
  /\ late \subseteq [to : Agents, d : Delivery]
  /\ asked \subseteq [to : Agents, stop : Stop]
  /\ faults \in Nat /\ stopsAsked \in Nat /\ clearsAsked \in Nat
  /\ runs \in [Messages -> [Agents -> Nat]]
  /\ unwritten \subseteq Messages \X Agents
  /\ lost \subseteq Messages \X Agents

Init ==
  /\ pc = [a \in Agents |-> "closed"]
  /\ chan = [a \in Agents |-> <<>>]
  /\ stops = [a \in Agents |-> {}]
  /\ clears = [a \in Agents |-> FALSE]
  /\ inbox = [a \in Agents |-> <<>>]
  /\ cur = [a \in Agents |-> NoTurn]
  /\ check = [a \in Agents |-> "ok"]
  /\ halted = [a \in Agents |-> {}]
  /\ cleared = [a \in Agents |-> FALSE]
  /\ reason = [a \in Agents |-> "ok"]
  /\ sent = [a \in Agents |-> 0]
  /\ dropped = [a \in Agents |-> <<>>]
  /\ goneSeen = [a \in Agents |-> FALSE]
  /\ fresh = [a \in Agents |-> TRUE]
  /\ ends = [m \in Messages |-> [a \in Agents |-> "none"]]
  /\ sessionGone = FALSE
  /\ agentsGone = {}
  /\ posted = {}
  /\ late = {}
  /\ asked = {}
  /\ faults = 0 /\ stopsAsked = 0 /\ clearsAsked = 0
  /\ runs = [m \in Messages |-> [a \in Agents |-> 0]]
  /\ unwritten = {}
  /\ lost = {}

----------------------------------------------------------------------------
(* The store and Temporal, as the participants use them. *)

Go(a, point) == pc' = [pc EXCEPT ![a] = point]

\* SignalWithStart: the signal joins the workflow's channel; a workflow that
\* does not run starts.
SignalWithStart(a, d) ==
  /\ chan' = [chan EXCEPT ![a] = Append(@, d)]
  /\ pc' = [pc EXCEPT ![a] = IF @ = "closed" THEN "top" ELSE @]

\* Mutant: the last end written stays.
AppendTurnEndLast(m, a, why) == ends' = [ends EXCEPT ![m][a] = why]

\* AppendTurnEnd: written under the turn's own key, the first one stays.
AppendTurnEnd(m, a, why) ==
  ends' = [ends EXCEPT ![m][a] = IF @ = "none" THEN why ELSE @]

\* Mutant: a turn that went well gets no end.
EndTurnOnFailure(m, a, why) ==
  IF why = "ok" THEN UNCHANGED <<ends, faults, unwritten>>
  ELSE AppendTurnEnd(m, a, why) /\ UNCHANGED <<faults, unwritten>>

\* endTurn: the end is written, or given up past its attempts (always, once
\* the session is gone: its messages go with it) and the participant goes on.
EndTurn(m, a, why) ==
  \/ /\ ~sessionGone
     /\ AppendTurnEnd(m, a, why)
     /\ UNCHANGED <<faults, unwritten>>
  \/ /\ sessionGone \/ faults < MaxFaults
     /\ faults' = IF sessionGone THEN faults ELSE faults + 1
     /\ unwritten' = IF ends[m][a] = "none" THEN unwritten \cup {<<m, a>>} ELSE unwritten
     /\ UNCHANGED ends

\* The run closes: its channels go with it.
Close(a) ==
  /\ Go(a, "closed")
  /\ chan' = [chan EXCEPT ![a] = <<>>]
  /\ stops' = [stops EXCEPT ![a] = {}]
  /\ clears' = [clears EXCEPT ![a] = FALSE]
  /\ inbox' = [inbox EXCEPT ![a] = <<>>]
  /\ goneSeen' = [goneSeen EXCEPT ![a] = FALSE]
  /\ fresh' = [fresh EXCEPT ![a] = TRUE]

\* What a participant holds of a turn goes when the turn does.
Forget(S) ==
  /\ cur' = [a \in Agents |-> IF a \in S THEN NoTurn ELSE cur[a]]
  /\ check' = [a \in Agents |-> IF a \in S THEN "ok" ELSE check[a]]
  /\ halted' = [a \in Agents |-> IF a \in S THEN {} ELSE halted[a]]
  /\ cleared' = [a \in Agents |-> IF a \in S THEN FALSE ELSE cleared[a]]
  /\ reason' = [a \in Agents |-> IF a \in S THEN "ok" ELSE reason[a]]
  /\ sent' = [a \in Agents |-> IF a \in S THEN 0 ELSE sent[a]]

----------------------------------------------------------------------------
(* The server: deliveries, stops, clears, deletions. *)

\* Deliver: the message, stored, goes to the first agent it addresses.
Deliver(m) ==
  /\ m \notin posted /\ ~sessionGone
  /\ posted' = posted \cup {m}
  /\ SignalWithStart(Head(Route[m]), [id |-> m, next |-> Tail(Route[m]), earlier |-> <<>>])
  /\ UNCHANGED <<stops, clears, inbox, turn, dropped, goneSeen, fresh, store, late, asked,
                 faults, stopsAsked, clearsAsked, history>>

MayStop(m, u) == u \in {Creator, Author[m]}

\* StopTurn, Cancel: the turn is read from the participant, and the stop names
\* it; the creator may also stop whichever turn runs, unread.
AskStop(a, u) ==
  /\ stopsAsked < MaxStops
  /\ stopsAsked' = stopsAsked + 1
  /\ \/ /\ cur[a] # NoTurn
        /\ MayStop(cur[a].id, u)
        /\ asked' = asked \cup {[to |-> a, stop |-> [key |-> cur[a].id, by |-> u]]}
     \/ /\ u = Creator
        /\ asked' = asked \cup {[to |-> a, stop |-> [key |-> NoKey, by |-> u]]}
  /\ UNCHANGED <<pc, signals, inbox, turn, dropped, goneSeen, fresh, store, posted, late,
                 faults, clearsAsked, history>>

\* signalParticipant: a participant that does not run is not started.
SendStop(r) ==
  /\ r \in asked
  /\ asked' = asked \ {r}
  /\ stops' = IF pc[r.to] = "closed" THEN stops ELSE [stops EXCEPT ![r.to] = @ \cup {r.stop}]
  /\ UNCHANGED <<pc, chan, clears, inbox, turn, dropped, goneSeen, fresh, store, posted, late,
                 faults, stopsAsked, clearsAsked, history>>

\* Clear: the creator's alone.
SendClear(a) ==
  /\ clearsAsked < MaxClears /\ pc[a] # "closed"
  /\ clearsAsked' = clearsAsked + 1
  /\ clears' = [clears EXCEPT ![a] = TRUE]
  /\ UNCHANGED <<pc, chan, stops, inbox, turn, dropped, goneSeen, fresh, store, posted, late,
                 asked, faults, stopsAsked, history>>

DeleteAgent(a) ==
  /\ a \in Deletable \ agentsGone
  /\ agentsGone' = agentsGone \cup {a}
  /\ UNCHANGED <<pc, signals, inbox, turn, dropped, goneSeen, fresh, ends, sessionGone, posted,
                 late, asked, faults, stopsAsked, clearsAsked, history>>

\* Delete: the participants the visibility queries list are terminated (one
\* started a moment ago may not be), then the session's rows go.
DeleteSession ==
  /\ MayDelete /\ ~sessionGone
  /\ sessionGone' = TRUE
  /\ ends' = [m \in Messages |-> [a \in Agents |-> "none"]]
  /\ \E S \in SUBSET {a \in Agents : pc[a] # "closed"} :
       /\ pc' = [a \in Agents |-> IF a \in S THEN "closed" ELSE pc[a]]
       /\ chan' = [a \in Agents |-> IF a \in S THEN <<>> ELSE chan[a]]
       /\ stops' = [a \in Agents |-> IF a \in S THEN {} ELSE stops[a]]
       /\ clears' = [a \in Agents |-> IF a \in S THEN FALSE ELSE clears[a]]
       /\ inbox' = [a \in Agents |-> IF a \in S THEN <<>> ELSE inbox[a]]
       /\ Forget(S)
       /\ dropped' = [a \in Agents |-> IF a \in S THEN <<>> ELSE dropped[a]]
       /\ goneSeen' = [a \in Agents |-> IF a \in S THEN FALSE ELSE goneSeen[a]]
       /\ fresh' = [a \in Agents |-> IF a \in S THEN TRUE ELSE fresh[a]]
  /\ UNCHANGED <<agentsGone, posted, late, asked, faults, stopsAsked, clearsAsked, history>>

----------------------------------------------------------------------------
(* ParticipantWorkflow's loop. *)

\* receive: the messages delivered so far join the inbox.
Received(a) == inbox[a] \o chan[a]

\* Nothing left, or the session gone: the run ends.
LoopOver(a) == Received(a) = <<>> \/ goneSeen[a]

LoopClose(a) ==
  /\ pc[a] = "top"
  /\ ~clears[a] \/ Received(a) = <<>>
  /\ LoopOver(a)
  /\ Close(a)
  /\ UNCHANGED <<turn, dropped, store, posted, late, asked, faults, stopsAsked, clearsAsked,
                 history>>

\* A clear received between two turns: the inbox is dropped.
LoopClear(a) ==
  /\ pc[a] = "top" /\ clears[a] /\ Received(a) # <<>>
  /\ Go(a, "sweeping")
  /\ dropped' = [dropped EXCEPT ![a] = Received(a)]
  /\ inbox' = [inbox EXCEPT ![a] = <<>>]
  /\ chan' = [chan EXCEPT ![a] = <<>>]
  /\ clears' = [clears EXCEPT ![a] = FALSE]
  /\ UNCHANGED <<stops, turn, goneSeen, fresh, store, posted, late, asked, faults, stopsAsked,
                 clearsAsked, history>>

\* A history grown large: a new run goes on with the inbox.
ContinueAsNew(a) ==
  /\ pc[a] = "top" /\ ~clears[a] /\ ~LoopOver(a) /\ ~fresh[a]
  /\ inbox' = [inbox EXCEPT ![a] = Received(a)]
  /\ chan' = [chan EXCEPT ![a] = <<>>]
  /\ stops' = [stops EXCEPT ![a] = {}]
  /\ fresh' = [fresh EXCEPT ![a] = TRUE]
  /\ UNCHANGED <<pc, clears, turn, dropped, goneSeen, store, posted, late, asked, faults,
                 stopsAsked, clearsAsked, history>>

\* The first message of the inbox is answered.
Answer(a) ==
  /\ pc[a] = "top" /\ ~clears[a] /\ ~LoopOver(a)
  /\ cur' = [cur EXCEPT ![a] = Head(Received(a))]
  /\ inbox' = [inbox EXCEPT ![a] = Tail(Received(a))]
  /\ chan' = [chan EXCEPT ![a] = <<>>]
  /\ fresh' = [fresh EXCEPT ![a] = FALSE]
  /\ Go(a, "check")
  /\ UNCHANGED <<stops, clears, check, halted, cleared, reason, sent, dropped, goneSeen, store, posted, late,
                 asked, faults, stopsAsked, clearsAsked, history>>

\* Mutant: the turn's own end is not read.
TurnCheckBlind(a) ==
  IF sessionGone THEN "gone" ELSE IF a \in agentsGone THEN "error" ELSE "ok"

\* CheckTurn reads the store: the session, the turn's end, the agent.
TurnCheck(a) ==
  IF sessionGone THEN "gone"
  ELSE IF ends[cur[a].id][a] # "none" THEN "answered"
  ELSE IF a \in agentsGone THEN "error" ELSE "ok"

\* Its answer reaches the workflow later.
CheckTurn(a) ==
  /\ pc[a] = "check"
  /\ \/ /\ check' = [check EXCEPT ![a] = TurnCheck(a)]
        /\ UNCHANGED faults
     \/ /\ faults < MaxFaults
        /\ faults' = faults + 1
        /\ check' = [check EXCEPT ![a] = "error"]
  /\ Go(a, "checked")
  /\ UNCHANGED <<signals, inbox, cur, halted, cleared, reason, sent, dropped, goneSeen, fresh,
                 store, posted, late, asked, stopsAsked, clearsAsked, history>>

\* Not answered: the session is gone, or the message has its end already.
SkipTurn(a) ==
  /\ pc[a] = "checked" /\ check[a] \in {"gone", "answered"}
  /\ goneSeen' = [goneSeen EXCEPT ![a] = check[a] = "gone"]
  /\ Go(a, "done")
  /\ UNCHANGED <<signals, inbox, turn, dropped, fresh, store, posted, late, asked, faults,
                 stopsAsked, clearsAsked, history>>

\* The check failed, or the agent is gone: ended without a turn.
RefuseTurn(a) ==
  /\ pc[a] = "checked" /\ check[a] = "error"
  /\ reason' = [reason EXCEPT ![a] = "failed"]
  /\ Go(a, "end")
  /\ UNCHANGED <<signals, inbox, cur, check, halted, cleared, sent, dropped, goneSeen, fresh,
                 store, posted, late, asked, faults, stopsAsked, clearsAsked, history>>

\* stopsFor: the stops naming this turn.
StopsFor(a) == {s \in stops[a] : s.key = cur[a].id}

\* A stop came during the check: every stop is read, one naming the turn
\* ends it before it starts.
BeginTurn(a) ==
  /\ pc[a] = "checked" /\ check[a] = "ok"
  /\ stops' = [stops EXCEPT ![a] = {}]
  /\ \/ /\ StopsFor(a) # {}
        /\ halted' = [halted EXCEPT ![a] = {s.by : s \in StopsFor(a)}]
        /\ reason' = [reason EXCEPT ![a] = "stoppedBefore"]
        /\ Go(a, "end")
     \/ /\ StopsFor(a) = {}
        /\ Go(a, "starting")
        /\ UNCHANGED <<halted, reason>>
  /\ UNCHANGED <<chan, clears, inbox, cur, check, cleared, sent, dropped, goneSeen, fresh, store,
                 posted, late, asked, faults, stopsAsked, clearsAsked, history>>

\* turn_started told, the turn's child workflow starts.
StartTurn(a) ==
  /\ pc[a] = "starting"
  /\ Go(a, "turn")
  /\ runs' = [runs EXCEPT ![cur[a].id][a] = @ + 1]
  /\ UNCHANGED <<signals, inbox, turn, dropped, goneSeen, fresh, store, posted, late, asked,
                 faults, stopsAsked, clearsAsked, unwritten, lost>>

\* Mutant: any stop stops the turn that runs.
StopsAnyTurn(s, a) == TRUE

\* The stop is of the turn that runs.
StopsThis(s, a) == s.key \in {NoKey, cur[a].id}

\* runTurn's selector: a stop of another turn is ignored.
TakeStop(a) ==
  /\ pc[a] = "turn"
  /\ \E s \in stops[a] :
       /\ stops' = [stops EXCEPT ![a] = @ \ {s}]
       /\ halted' = [halted EXCEPT ![a] =
                       IF StopsThis(s, a) THEN @ \cup {s.by} ELSE @]
  /\ UNCHANGED <<pc, chan, clears, inbox, cur, check, cleared, reason, sent, dropped, goneSeen,
                 fresh, store, posted, late, asked, faults, stopsAsked, clearsAsked, history>>

TakeClear(a) ==
  /\ pc[a] = "turn" /\ clears[a]
  /\ clears' = [clears EXCEPT ![a] = FALSE]
  /\ halted' = [halted EXCEPT ![a] = @ \cup {Creator}]
  /\ cleared' = [cleared EXCEPT ![a] = TRUE]
  /\ UNCHANGED <<pc, chan, stops, inbox, cur, check, reason, sent, dropped, goneSeen, fresh,
                 store, posted, late, asked, faults, stopsAsked, clearsAsked, history>>

TakeMessage(a) ==
  /\ pc[a] = "turn" /\ chan[a] # <<>>
  /\ inbox' = [inbox EXCEPT ![a] = Append(@, Head(chan[a]))]
  /\ chan' = [chan EXCEPT ![a] = Tail(@)]
  /\ UNCHANGED <<pc, stops, clears, turn, dropped, goneSeen, fresh, store, posted, late, asked,
                 faults, stopsAsked, clearsAsked, history>>

\* The child workflow ends: well, in failure, or refused (the agent is not
\* open to the author any more).
FinishTurn(a) ==
  /\ pc[a] = "turn"
  /\ \E r \in {"ok", "failed", "notOpen"} :
       reason' = [reason EXCEPT ![a] = IF halted[a] # {} THEN "stopped" ELSE r]
  /\ Go(a, "end")
  /\ UNCHANGED <<signals, inbox, cur, check, halted, cleared, sent, dropped, goneSeen, fresh,
                 store, posted, late, asked, faults, stopsAsked, clearsAsked, history>>

\* A turn that went well, or was refused, is relayed; a stopped or failed one
\* is not.
Relays(a) == reason[a] \in {"ok", "notOpen"} /\ cur[a].next # <<>>

\* The turn's end, in every case, and what follows: the relay, a clear, or
\* the next message.
FinishEnd(a) ==
  /\ pc[a] = "end"
  /\ EndTurn(cur[a].id, a, reason[a])
  /\ \/ /\ Relays(a)
        /\ Go(a, "relay")
        /\ sent' = [sent EXCEPT ![a] = 0]
        /\ UNCHANGED <<chan, inbox, dropped>>
     \/ /\ ~Relays(a) /\ cleared[a]
        /\ dropped' = [dropped EXCEPT ![a] = Received(a)]
        /\ inbox' = [inbox EXCEPT ![a] = <<>>]
        /\ chan' = [chan EXCEPT ![a] = <<>>]
        /\ Go(a, IF Received(a) = <<>> THEN "done" ELSE "dropping")
        /\ UNCHANGED sent
     \/ /\ ~Relays(a) /\ ~cleared[a]
        /\ Go(a, "done")
        /\ UNCHANGED <<chan, inbox, sent, dropped>>
  /\ UNCHANGED <<stops, clears, cur, check, halted, cleared, reason, goneSeen, fresh, sessionGone,
                 agentsGone, posted, late, asked, stopsAsked, clearsAsked, runs, lost>>

\* turn_done told: the participant is done with the message.
FinishMessage(a) ==
  /\ pc[a] = "done"
  /\ Forget({a})
  /\ Go(a, "top")
  /\ UNCHANGED <<signals, inbox, dropped, goneSeen, fresh, store, posted, late, asked, faults, stopsAsked, clearsAsked, history>>

----------------------------------------------------------------------------
(* clear: each message dropped gets an end saying so. *)

\* Mutant: one end stands for all the messages dropped.
LeftToDropNone(a) == <<>>

\* The messages dropped whose end is still to write, after the first's.
LeftToDrop(a) == Tail(dropped[a])

DropMessage(a) ==
  /\ pc[a] \in {"dropping", "sweeping"}
  /\ EndTurn(Head(dropped[a]).id, a, "cleared")
  /\ dropped' = [dropped EXCEPT ![a] = LeftToDrop(a)]
  /\ pc' = [pc EXCEPT ![a] = IF LeftToDrop(a) # <<>> THEN @
                             ELSE IF @ = "dropping" THEN "done" ELSE "swept"]
  /\ UNCHANGED <<signals, inbox, turn, goneSeen, fresh, sessionGone, agentsGone, posted, late,
                 asked, stopsAsked, clearsAsked, runs, lost>>

\* After the clear of a loop's start, the inbox is empty and the run closes.
\* It does not receive again first: a signal that came during the clear is
\* left unread.
SweptClose(a) ==
  /\ pc[a] = "swept"
  /\ lost' = lost \cup {<<chan[a][i].id, a>> : i \in 1..Len(chan[a])}
  /\ Close(a)
  /\ UNCHANGED <<turn, dropped, store, posted, late, asked, faults, stopsAsked, clearsAsked,
                 runs, unwritten>>

----------------------------------------------------------------------------
(* relay: the Relay activity delivers to the next agent, as the server does. *)

\* The message as the next agent gets it: this turn among those it reads,
\* unless it was refused.
Relayed(a) ==
  [id |-> cur[a].id,
   next |-> Tail(cur[a].next),
   earlier |-> IF reason[a] = "ok" THEN Append(cur[a].earlier, a) ELSE cur[a].earlier]

RelayTo(a) == Head(cur[a].next)

\* One attempt; a retry delivers again.
RelaySend(a) ==
  /\ pc[a] = "relay" /\ sent[a] < MaxSends
  /\ SignalWithStart(RelayTo(a), Relayed(a))
  /\ sent' = [sent EXCEPT ![a] = @ + 1]
  /\ UNCHANGED <<stops, clears, inbox, cur, check, halted, cleared, reason, dropped, goneSeen,
                 fresh, store, posted, late, asked, faults, stopsAsked, clearsAsked, history>>

RelayDone(a) ==
  /\ pc[a] = "relay" /\ sent[a] > 0
  /\ Go(a, "done")
  /\ UNCHANGED <<signals, inbox, turn, dropped, goneSeen, fresh, store, posted, late, asked,
                 faults, stopsAsked, clearsAsked, history>>

\* Past its attempts; the last one may still be on its way.
RelayGiveUp(a) ==
  /\ pc[a] = "relay" /\ faults < MaxFaults
  /\ faults' = faults + 1
  /\ late' \in {late, late \cup {[to |-> RelayTo(a), d |-> Relayed(a)]}}
  /\ Go(a, "relayEnd")
  /\ UNCHANGED <<signals, inbox, turn, dropped, goneSeen, fresh, store, posted, asked,
                 stopsAsked, clearsAsked, history>>

LateRelay(r) ==
  /\ r \in late
  /\ late' = late \ {r}
  /\ SignalWithStart(r.to, r.d)
  /\ UNCHANGED <<stops, clears, inbox, turn, dropped, goneSeen, fresh, store, posted, asked,
                 faults, stopsAsked, clearsAsked, history>>

\* The next participant's turn gets an end saying that the relay failed.
RelayEnd(a) ==
  /\ pc[a] = "relayEnd"
  /\ EndTurn(cur[a].id, RelayTo(a), "relayFailed")
  /\ Go(a, "done")
  /\ UNCHANGED <<signals, inbox, turn, dropped, goneSeen, fresh, sessionGone, agentsGone, posted,
                 late, asked, stopsAsked, clearsAsked, runs, lost>>

----------------------------------------------------------------------------
Workflow(a) ==
  \/ LoopClose(a) \/ LoopClear(a) \/ ContinueAsNew(a) \/ Answer(a)
  \/ CheckTurn(a) \/ SkipTurn(a) \/ RefuseTurn(a) \/ BeginTurn(a) \/ StartTurn(a)
  \/ TakeStop(a) \/ TakeClear(a) \/ TakeMessage(a) \/ FinishTurn(a) \/ FinishEnd(a)
  \/ FinishMessage(a) \/ DropMessage(a) \/ SweptClose(a)
  \/ RelaySend(a) \/ RelayDone(a) \/ RelayGiveUp(a) \/ RelayEnd(a)

Server ==
  \/ \E m \in Messages : Deliver(m)
  \/ \E a \in Agents : (\E u \in Users : AskStop(a, u)) \/ SendClear(a) \/ DeleteAgent(a)
  \/ \E r \in asked : SendStop(r)
  \/ DeleteSession

Next ==
  \/ \E a \in Agents : Workflow(a)
  \/ \E r \in late : LateRelay(r)
  \/ Server

\* A worker runs: a workflow that can take a step takes one, and a turn ends
\* (its iterations and its activities are bounded).
Fairness ==
  /\ \A a \in Agents : WF_vars(Workflow(a))
  /\ \A a \in Agents : WF_vars(FinishTurn(a))

Spec == Init /\ [][Next]_vars /\ Fairness

----------------------------------------------------------------------------
(* Properties. *)

\* The turn has its end in the store, or its end was given up (logged).
Ended(m, a) == ends[m][a] # "none" \/ <<m, a>> \in unwritten

\* A message delivered twice (a relay retried, a late one) is answered once:
\* a second turn on it runs only when the first one's end was given up.
AnsweredOnce ==
  \A m \in Messages, a \in Agents : runs[m][a] > 1 => <<m, a>> \in unwritten

\* A member stops only their own message's turn, and the creator any, however
\* stale the turn they read was when their stop arrives (StopTurn's comment).
StoppedRightly ==
  \A a \in Agents : cur[a] # NoTurn => \A u \in halted[a] : MayStop(cur[a].id, u)

\* Place of an agent in a message's route.
Before(m, e, a) ==
  \E i, j \in 1..Len(Route[m]) : i < j /\ Route[m][i] = e /\ Route[m][j] = a

\* An agent answers a relayed message only once the agents before it have
\* ended theirs: it reads their whole turns (TurnReads).  And a turn stopped,
\* failed or cleared relays nothing: no agent after it runs.
RelayedInOrder ==
  \A m \in Messages, e, a \in Agents :
    Before(m, e, a) /\ runs[m][a] > 0 =>
      /\ Ended(m, e) \/ sessionGone
      /\ ends[m][e] \in {"stopped", "stoppedBefore", "failed", "cleared"} => <<m, e>> \in unwritten

\* The end in the store tells what became of the turn: a turn that ran is not
\* shown as dropped or stopped before it started.
EndTellsTheTruth ==
  \A m \in Messages, a \in Agents :
    ends[m][a] \in {"cleared", "stoppedBefore"} => runs[m][a] = 0 \/ <<m, a>> \in unwritten

\* Close's comment: a run ends "once every signal is handled: none is left
\* unread".
NoSignalLost == lost = {}

\* What becomes of a turn that a message's route comes to.
Settled(m, a) == Ended(m, a) \/ sessionGone \/ <<m, a>> \in lost

\* Every participant closes in the end, after a deletion too: it runs only while
\* it has messages.  By then every message it was given, by its author or by the
\* agent before it, has its end, unless the end was given up, the session went,
\* or a closing run lost the message.
EveryMessageEnds ==
  <>[](/\ \A a \in Agents : pc[a] = "closed"
       /\ \A m \in posted : \A i \in DOMAIN Route[m] :
            (i = 1 \/ ends[m][Route[m][i - 1]] \in {"ok", "notOpen"}) => Settled(m, Route[m][i]))

=============================================================================
