---------------------------- MODULE ServerTurns ----------------------------
(***************************************************************************)
(* What the server shows of a participant: whether it works, and how many  *)
(* messages wait for it (session/turns.go, status.go, participants.go).    *)
(* The server is told by the participant's turn events as they come        *)
(* through its hub (Observe) and by the messages it delivers (Deliver);    *)
(* past the trust of an event it asks Temporal which participants run, a   *)
(* listing it caches, and the participant itself, by its state query.      *)
(*                                                                         *)
(* The participant is its queue, its current message and how far it is     *)
(* with it (Participant.tla has the rest): it takes a message, checks it   *)
(* and drops what a clear drops before it tells anyone, so its events and  *)
(* its state query are two pictures, which differ until the next event.    *)
(* Temporal's listing lags behind both.  Time is what may                  *)
(* have grown old: an event (30 s, turnTrust), a cached listing or answer  *)
(* (3 s, statusesTTL); the lag and the caches' life are far below the      *)
(* trust.  What is kept 24 hours (turnForget) does not go here.            *)
(***************************************************************************)
EXTENDS Naturals, Sequences, FiniteSets

CONSTANTS Messages,   \* messages, numbers
          MaxQueued,  \* messages that may wait (session.MaxQueued)
          MaxFaults,  \* bound: events lost, calls failed, restarts
          MaxLoads    \* bound: loads of the listing at once

Relayed == 0          \* a message another participant relays here, and fails to
NoMsg == Relayed

\* What tells a message from none.
ConstantsOK == Relayed \notin Messages

VARIABLES
    wf,        \* the participant: run, inbox, cur and at, how far it is with it
               \* ("check", "turn", "done"), and the messages a clear is dropping
    listed,    \* what Temporal lists: it runs
    events,    \* turn events on their way, in order
    observing, \* Observe recorded an event, the cache not yet invalidated
    view,      \* what the server knows (participantTurns)
    cache,     \* the listing kept: value, age, the load waited for
    loads,     \* loads of the listing under way; same: the generation is the one they began at
    states,    \* the participant's answer kept
    dlv,       \* dlv[m]: where Deliver of m is (dlv[Relayed]: its relay failed)
    reader,    \* a request that shows the participants
    faults,    \* what went wrong so far: a set of kinds
    nfaults

vars == <<wf, listed, events, observing, view, cache, loads, states, dlv, reader, faults, nfaults>>

NoTurns == [known |-> FALSE, working |-> FALSE, turn |-> NoMsg, told |-> FALSE, trusted |-> FALSE,
            young |-> FALSE, pending |-> {}]
NoValue == [st |-> "nil", run |-> FALSE, behind |-> FALSE]
NoState == [st |-> "nil", works |-> FALSE, queued |-> 0, behind |-> FALSE]
NoRequest == [st |-> "none", quiet |-> FALSE, waits |-> 0, working |-> FALSE, queued |-> 0,
              same |-> FALSE, read |-> NoState]

Init ==
    /\ wf = [run |-> FALSE, inbox |-> <<>>, cur |-> NoMsg, at |-> "none", dropping |-> <<>>] /\ listed = FALSE
    /\ events = <<>> /\ observing = FALSE
    /\ view = NoTurns
    /\ cache = [value |-> NoValue, loading |-> 0]
    /\ loads = {} /\ states = NoState
    /\ dlv = [m \in Messages \cup {Relayed} |-> "none"]
    /\ reader = NoRequest
    /\ faults = {} /\ nfaults = 0

\* Something a request could show has changed since it began.
Disturb(r) == IF r.st = "done" THEN NoRequest ELSE [r EXCEPT !.quiet = FALSE]

Disturbed == reader' = Disturb(reader)

Fault(kind) ==
    /\ nfaults < MaxFaults
    /\ nfaults' = nfaults + 1 /\ faults' = faults \cup {kind}

NoFault == UNCHANGED <<faults, nfaults>>

-----------------------------------------------------------------------------
(* The participant, and Temporal's listing of it. *)

\* What the state query answers, and what the events tell once they have all
\* come: a message taken waits still while it is checked, one a clear drops
\* until its own end is told, and a turn is over before its message is.
Answers == [works |-> wf.cur # NoMsg, queued |-> Len(wf.inbox)]

Tells == [works |-> wf.at = "turn",
          queued |-> Len(wf.inbox) + Len(wf.dropping) + (IF wf.at = "check" THEN 1 ELSE 0)]

\* An answer is behind once the participant went on without telling.
Behind(q) == [q EXCEPT !.behind = q.st # "nil"]

Quietly(next) ==
    /\ wf' = next
    /\ states' = Behind(states)
    /\ reader' = [Disturb(reader) EXCEPT !.read = Behind(@)]
    /\ NoFault
    /\ UNCHANGED <<listed, events, observing, view, cache, loads, dlv>>

Telling(next, started, m) ==
    /\ wf' = next
    /\ events' = Append(events, [started |-> started, msg |-> m])
    /\ Disturbed
    /\ NoFault
    /\ UNCHANGED <<listed, observing, view, cache, loads, states, dlv>>

\* The workflow's loop, the message before it over: the next message is taken,
\* and its check begins; or there is none.
Takes ==
    /\ wf.run /\ wf.at \in {"none", "done"} /\ wf.dropping = <<>> /\ wf.inbox # <<>>
    /\ Quietly([wf EXCEPT !.cur = Head(wf.inbox), !.inbox = Tail(wf.inbox), !.at = "check"])

TurnOver ==
    /\ wf.at = "done" /\ wf.inbox = <<>>
    /\ Quietly([wf EXCEPT !.cur = NoMsg, !.at = "none"])

TurnStarted ==
    /\ wf.at = "check"
    /\ Telling([wf EXCEPT !.at = "turn"], TRUE, wf.cur)

\* A turn's end; or of a message checked and not answered, which has no start.
TurnDone ==
    /\ wf.at \in {"check", "turn"} /\ wf.dropping = <<>>
    /\ Telling([wf EXCEPT !.at = "done"], FALSE, wf.cur)

\* clear, in the loop or at the end of a turn: the inbox is empty at once, then
\* each message dropped gets its end, and its event.
Clear ==
    /\ wf.run /\ wf.at # "check" /\ wf.dropping = <<>> /\ wf.inbox # <<>>
    /\ Quietly([wf EXCEPT !.inbox = <<>>, !.dropping = wf.inbox,
                          !.cur = IF wf.at = "turn" THEN @ ELSE NoMsg,
                          !.at = IF @ = "turn" THEN @ ELSE "none"])

Dropped ==
    /\ wf.dropping # <<>>
    /\ Telling([wf EXCEPT !.dropping = Tail(@)], FALSE, Head(wf.dropping))

\* The end, written by the participant before it, of a message whose relay
\* here failed.
RelayFailed ==
    /\ dlv[Relayed] = "none"
    /\ wf' = wf
    /\ events' = Append(events, [started |-> FALSE, msg |-> Relayed])
    /\ dlv' = [dlv EXCEPT ![Relayed] = "done"]
    /\ Disturbed /\ NoFault
    /\ UNCHANGED <<listed, observing, view, cache, loads, states>>

Close ==
    /\ wf.run /\ wf.at = "none" /\ wf.dropping = <<>> /\ wf.inbox = <<>>
    /\ Quietly([wf EXCEPT !.run = FALSE])

Listed ==
    /\ listed # wf.run
    /\ listed' = wf.run
    /\ Disturbed /\ NoFault
    /\ UNCHANGED <<wf, events, observing, view, cache, loads, states, dlv>>

-----------------------------------------------------------------------------
(* The turns the server knows (turns.go). *)

\* set.  Mutant: any end ends the turn shown.
SetAnyDone(e) ==
    LET p == [view EXCEPT !.known = TRUE, !.pending = @ \ {e.msg}] IN
    IF e.started THEN [p EXCEPT !.working = TRUE, !.turn = e.msg, !.told = TRUE, !.trusted = TRUE]
    ELSE [p EXCEPT !.working = FALSE, !.turn = e.msg, !.told = TRUE, !.trusted = TRUE]

Set(e) ==
    LET p == [view EXCEPT !.known = TRUE, !.pending = @ \ {e.msg}] IN
    IF e.started
    THEN [p EXCEPT !.working = TRUE, !.turn = e.msg, !.told = TRUE, !.trusted = TRUE]
    ELSE IF ~p.working \/ p.turn = e.msg
    THEN [p EXCEPT !.working = FALSE, !.turn = e.msg, !.told = TRUE, !.trusted = TRUE]
    ELSE p

\* invalidate: what is kept goes, and what is being read is of the generation
\* before.
Invalidate ==
    /\ cache' = [value |-> NoValue, loading |-> 0]
    /\ states' = NoState
    /\ loads' = {[l EXCEPT !.same = FALSE, !.read.behind = l.read.st # "nil"] : l \in loads}
    /\ reader' = [Disturb(reader) EXCEPT !.same = FALSE]

\* Observe: the turn, then the caches; before the hub has the event.
Observe ==
    /\ events # <<>> /\ ~observing
    /\ view' = Set(Head(events))
    /\ events' = Tail(events)
    /\ observing' = TRUE
    /\ Disturbed /\ NoFault
    /\ UNCHANGED <<wf, listed, cache, loads, states, dlv>>

Observed ==
    /\ observing /\ observing' = FALSE
    /\ Invalidate /\ NoFault
    /\ UNCHANGED <<wf, listed, events, view, dlv>>

EventLost ==
    /\ events # <<>>
    /\ events' = Tail(events)
    /\ Fault("event")
    /\ UNCHANGED <<wf, listed, observing, view, cache, loads, states, dlv, reader>>

\* snapshot: where the participant stands for who read that it runs, or not.
Snapshot(run) ==
    LET works == IF view.trusted THEN view.working
                 ELSE run /\ (view.working \/ view.pending # {})
        queued == IF view.trusted \/ run \/ view.young THEN Cardinality(view.pending) ELSE 0 IN
    IF view.known THEN [working |-> works, turn |-> works /\ view.working, queued |-> queued]
    ELSE [working |-> run, turn |-> FALSE, queued |-> 0]

\* Thirty seconds after the last event, and after the last delivery: longer
\* than a delivery, the listing's lag, a load and a value's life.
TrustEnds ==
    /\ view.trusted \/ view.young
    /\ listed = wf.run /\ loads = {} /\ \A m \in Messages : dlv[m] \notin {"expected", "sent"}
    /\ cache.value.st # "nil" => cache.value.st = "old" \/ cache.value.run = wf.run
    /\ view' = [view EXCEPT !.trusted = FALSE, !.young = FALSE]
    /\ Disturbed /\ NoFault
    /\ UNCHANGED <<wf, listed, events, observing, cache, loads, states, dlv>>

-----------------------------------------------------------------------------
(* Deliver. *)

\* answered: whether a message calls an agent.
Answered(mode, members, mentioned) ==
    mentioned \/ mode = "always" \/ (mode = "auto" /\ members <= 1)

At(m, st) == dlv' = [dlv EXCEPT ![m] = st]

\* The agents called and open to the author; a full queue refuses the message
\* before it is stored.
Resolve(m) ==
    /\ dlv[m] = "none"
    /\ \E mode \in {"auto", "always", "mention"}, members \in 1 .. 2, mentioned, open \in BOOLEAN :
          At(m, IF ~(Answered(mode, members, mentioned) /\ open) THEN "stored"
                ELSE IF Cardinality(view.pending) >= MaxQueued THEN "refused" ELSE "calls")
    /\ NoFault
    /\ UNCHANGED <<wf, listed, events, observing, view, cache, loads, states, reader>>

Expect(m) ==
    /\ dlv[m] = "calls" /\ At(m, "expected")
    /\ view' = [view EXCEPT !.known = TRUE, !.young = TRUE, !.pending = @ \cup {m}]
    /\ Disturbed /\ NoFault
    /\ UNCHANGED <<wf, listed, events, observing, cache, loads, states>>

\* SignalWithStart made, or failed: the message is expected no more, though
\* the signal may have been taken.
SignalWithStart(m) ==
    /\ dlv[m] = "expected" /\ At(m, "sent")
    /\ Disturbed
    /\ \/ /\ wf' = [wf EXCEPT !.run = TRUE, !.inbox = Append(@, m)]
          /\ NoFault /\ UNCHANGED view
       \/ /\ Fault("signal")
          /\ view' = [view EXCEPT !.pending = @ \ {m}]
          /\ wf' \in {wf, [wf EXCEPT !.run = TRUE, !.inbox = Append(@, m)]}
    /\ UNCHANGED <<listed, events, observing, cache, loads, states>>

Delivered(m) ==
    /\ dlv[m] = "sent" /\ At(m, "done")
    /\ Invalidate /\ NoFault
    /\ UNCHANGED <<wf, listed, events, observing, view>>

-----------------------------------------------------------------------------
(* A request: the listing, the snapshot, the state query. *)

Quiet ==
    /\ events = <<>> /\ ~observing /\ listed = wf.run
    /\ \A m \in Messages : dlv[m] \notin {"expected", "sent"}

Request ==
    /\ reader.st \in {"none", "done"}
    /\ reader' = [NoRequest EXCEPT !.st = "gets", !.quiet = Quiet]
    /\ NoFault
    /\ UNCHANGED <<wf, listed, events, observing, view, cache, loads, states, dlv>>

\* A request that something disturbed shows a mixture, of no interest.
Ended(r) == IF r.quiet THEN [NoRequest EXCEPT !.st = "done", !.quiet = TRUE, !.working = r.working, !.queued = r.queued]
            ELSE NoRequest

\* The participants, from a listing: those it leaves unclear are asked.
Shows(v, old) ==
    LET s == Snapshot(v.run)
        r == [reader EXCEPT !.working = s.working, !.queued = s.queued, !.quiet = @ /\ ~old] IN
    reader' = IF s.working /\ ~s.turn THEN [r EXCEPT !.st = "asks", !.waits = 0] ELSE Ended(r)

\* get: the value, young or not, or a wait for the load under way; a load is
\* started when none is.
StartLoad ==
    /\ Cardinality(loads) < MaxLoads
    /\ LET id == CHOOSE i \in 1 .. Cardinality(loads) + 1 : \A l \in loads : l.id # i IN
       /\ cache' = [cache EXCEPT !.loading = id]
       /\ loads' = loads \cup {[id |-> id, same |-> TRUE, read |-> NoValue]}

Get ==
    /\ reader.st = "gets"
    /\ IF cache.value.st = "young"
       THEN Shows(cache.value, FALSE) /\ UNCHANGED <<cache, loads>>
       ELSE /\ IF cache.loading = 0 THEN StartLoad ELSE UNCHANGED <<cache, loads>>
            /\ IF cache.value.st = "old" THEN Shows(cache.value, TRUE)
               ELSE reader' = [reader EXCEPT !.st = "waits", !.waits = cache'.loading]
    /\ NoFault
    /\ UNCHANGED <<wf, listed, events, observing, view, states, dlv>>

\* loadVisible: the listing is read; a listing that fails shows nothing.
LoadVisible(l) ==
    /\ l.read.st = "nil"
    /\ \/ loads' = (loads \ {l}) \cup {[l EXCEPT !.read = [st |-> "young", run |-> listed, behind |-> FALSE]]}
          /\ NoFault
       \/ loads' = (loads \ {l}) \cup {[l EXCEPT !.read = [st |-> "young", run |-> FALSE, behind |-> FALSE]]}
          /\ Fault("list")
    /\ UNCHANGED <<wf, listed, events, observing, view, cache, states, dlv, reader>>

\* refresh: kept unless the caches were invalidated since the load began.
\* Mutant: kept anyway.
KeptAnyway(l) == TRUE

Kept(l) == l.same

Refresh(l) ==
    /\ l.read.st # "nil"
    /\ loads' = loads \ {l}
    /\ cache' = [cache EXCEPT !.value = IF Kept(l) THEN l.read ELSE @,
                              !.loading = IF @ = l.id THEN 0 ELSE @]
    /\ reader' = IF reader.st = "waits" /\ reader.waits = l.id THEN [reader EXCEPT !.st = "gets", !.waits = 0] ELSE reader
    /\ NoFault
    /\ UNCHANGED <<wf, listed, events, observing, view, states, dlv>>

\* participantState: the answer kept, or the query, whose answer is kept
\* unless the caches were invalidated meanwhile.
Answer(q) == reader' = Ended([reader EXCEPT !.working = q.works, !.queued = q.queued,
                                            !.quiet = @ /\ ~q.behind])

AsksKept ==
    /\ reader.st = "asks" /\ states.st # "nil"
    /\ Answer(states)
    /\ NoFault
    /\ UNCHANGED <<wf, listed, events, observing, view, cache, loads, states, dlv>>

QueryState ==
    /\ reader.st = "asks" /\ states.st = "nil"
    /\ reader' = [reader EXCEPT !.st = "asked", !.same = TRUE,
                                !.read = [st |-> "young", works |-> Answers.works,
                                          queued |-> Answers.queued, behind |-> FALSE]]
    /\ NoFault
    /\ UNCHANGED <<wf, listed, events, observing, view, cache, loads, states, dlv>>

\* A participant Temporal knows no more answers not found: idle, nothing
\* queued, as its state says; one that does not answer works, as far as
\* anyone knows.
StateAnswered ==
    /\ reader.st = "asked"
    /\ \/ /\ Answer(reader.read)
          /\ states' = IF reader.same THEN reader.read ELSE states
          /\ NoFault
       \/ /\ reader' = NoRequest /\ Fault("query")
          /\ UNCHANGED states
    /\ UNCHANGED <<wf, listed, events, observing, view, cache, loads, dlv>>

\* The request goes away; its load goes on for the others.
RequestEnds ==
    /\ reader.st \in {"waits", "asked"}
    /\ reader' = NoRequest
    /\ NoFault
    /\ UNCHANGED <<wf, listed, events, observing, view, cache, loads, states, dlv>>

\* Three seconds (statusesTTL).
ValuesAge ==
    /\ cache.value.st = "young" \/ states.st # "nil"
    /\ cache' = [cache EXCEPT !.value.st = IF @ = "young" THEN "old" ELSE @]
    /\ states' = NoState
    /\ Disturbed /\ NoFault
    /\ UNCHANGED <<wf, listed, events, observing, view, loads, dlv>>

\* A new process knows nothing.
Restart ==
    /\ Fault("restart")
    /\ ~observing /\ \A m \in Messages : dlv[m] \notin {"calls", "expected", "sent"}
    /\ view' = NoTurns
    /\ cache' = [value |-> NoValue, loading |-> 0]
    /\ loads' = {} /\ states' = NoState
    /\ reader' = NoRequest
    /\ UNCHANGED <<wf, listed, events, observing, dlv>>

Server ==
    \/ Observe \/ Observed \/ EventLost \/ TrustEnds \/ ValuesAge \/ Restart
    \/ \E m \in Messages : Resolve(m) \/ Expect(m) \/ SignalWithStart(m) \/ Delivered(m)

Reading ==
    \/ Request \/ Get \/ AsksKept \/ QueryState \/ StateAnswered \/ RequestEnds
    \/ \E l \in loads : LoadVisible(l) \/ Refresh(l)

Next ==
    \/ Takes \/ TurnOver \/ TurnStarted \/ TurnDone \/ Clear \/ Dropped \/ RelayFailed \/ Close \/ Listed
    \/ Server
    \/ Reading

\* Bound: a second message, a relay that failed, a fault or a second load; the
\* messages, which nothing tells apart, are sent in their order.
Small ==
    /\ Cardinality({x \in {"message", "relay", "fault", "load"} :
                       \/ x = "message" /\ dlv[2] # "none"
                       \/ x = "relay" /\ dlv[Relayed] # "none"
                       \/ x = "fault" /\ faults # {}
                       \/ x = "load" /\ Cardinality(loads) > 1}) <= 1
    /\ dlv[2] # "none" => dlv[1] # "none"

Spec == Init /\ [][Next]_vars

-----------------------------------------------------------------------------
\* With every event come and nothing changing while it runs, a request shows
\* the participant as its events tell it or as it answers itself, never a
\* mixture: on a turn or not, and how many messages wait for it, whatever the
\* trust, the listing's lag, the caches and their loads.  (A listing served past
\* its three seconds, while a new one loads, may be from the moment the listing
\* lagged; an answer kept three seconds, from before the participant took its
\* next message.)
ShownRight ==
    reader.st = "done" /\ faults = {} =>
        [works |-> reader.working, queued |-> reader.queued] \in {Tells, Answers}

\* A listing read before an action that invalidated it is never kept after
\* the action, though the loads begun before and after it end in any order.
NoStaleListing == ~cache.value.behind

=============================================================================
