---------------------------- MODULE EventStream ----------------------------
(***************************************************************************)
(* The live page of a member: the server's event hub (sse/hub.go), the     *)
(* stream that relays a session's events and the user's tree's to a        *)
(* browser (cmd/agent/api.go relaySSE, ui.go sessionStream), and the page, *)
(* built from the store after it noted the hub's position (buildPage).     *)
(*                                                                         *)
(* What the store holds of a topic is the number of its changes.  A        *)
(* handler makes a change, then publishes its event: in the server, or     *)
(* from a worker over HTTP, whose post may fail, or be made twice.  An     *)
(* event has the browser fetch again what it is about.                     *)
(*                                                                         *)
(* A topic idle for ten minutes may be swept by any call that sweeps: time *)
(* is not kept, so any topic with no subscriber may be idle.               *)
(***************************************************************************)
EXTENDS Naturals, Sequences, FiniteSets, SequencesExt

CONSTANTS Keep,       \* events a topic keeps (DefaultKeep)
          Buffer,     \* events a subscriber may be late by (subscriberBuffer)
          MaxChanges, \* bound: changes of both topics
          MaxDrops,   \* bound: connections, answers and membership checks lost
          MaxRestarts \* bound: restarts of the server

\* What the proofs assume: a topic keeps its last event.
ConstantsOK == Keep \in Nat \ {0}

Topics == {"session", "tree"}

VARIABLES
    epoch, seq,  \* the hub's identifiers: a start of the server, its last event
    topics,      \* topics[t]: the hub's topic, or none (there = FALSE)
    dropped,     \* the last event of the topics swept
    log,         \* log[n]: the event of identifier n, its topic, its kind
    sub,         \* the stream's subscription: its topics, its channel
    missed,      \* events the stream has yet to replay
    stream,      \* the stream's handler: "off", "checks", "live", or "unsure": a check that
                 \* would have ended it failed, and it goes on until the next one
    stored,      \* stored[t]: changes made
    owed,        \* owed[t]: changes whose handler has not published yet
    unsaid,      \* unsaid[t]: changes whose post failed
    leaving,     \* the user left: "no", "left" (the row), "told" (the event)
    client,      \* the browser: its state, its last identifier, what it fetches and shows
    leaked,      \* history: an event of the session reached the user after their leaving was told,
                 \* no check having failed
    drops        \* connections, answers and checks lost

hub == <<epoch, seq, topics, dropped, log>>
vars == <<epoch, seq, topics, dropped, log, sub, missed, stream, stored, owed, unsaid, leaving,
          client, leaked, drops>>

NoTopic == [there |-> FALSE, floor |-> 0, seqs |-> <<>>]
NoSub == [on |-> {}, ch |-> <<>>, closed |-> FALSE]
Event(n) == [id |-> n, topic |-> log[n].topic, kind |-> log[n].kind, late |-> log[n].late]

Init ==
    /\ epoch = 1 /\ seq = 0 /\ dropped = 0 /\ log = <<>>
    /\ topics = [t \in Topics |-> NoTopic]
    /\ sub = NoSub /\ missed = <<>> /\ stream = "off"
    /\ stored = [t \in Topics |-> 0]
    /\ owed = [t \in Topics |-> {}] /\ unsaid = owed
    /\ leaving = "no"
    /\ client = [st |-> "none", epoch |-> 0, id |-> 0, fetch |-> {}, shown |-> [t \in Topics |-> 0]]
    /\ leaked = FALSE /\ drops = 0

Member == leaving = "no"

-----------------------------------------------------------------------------
(* The hub. *)

\* sweep: the topics it may drop, and what it remembers of them.
Idle == {t \in Topics : topics[t].there /\ t \notin sub.on}

Max0(S) == IF S = {} THEN 0 ELSE CHOOSE n \in S : \A m \in S : m <= n

Swept(S) == [t \in Topics |-> IF t \in S THEN NoTopic ELSE topics[t]]

DroppedTo(S) ==
    Max0({dropped} \cup {topics[t].floor : t \in S}
          \cup UNION {ToSet(topics[t].seqs) : t \in S})

\* topic: the topics after a sweep of S, those of T created if need be.
\* Mutant: a topic made again knows nothing of what was dropped.
OpenedAtZero(S, T) ==
    [t \in Topics |-> IF t \in T /\ ~Swept(S)[t].there THEN [NoTopic EXCEPT !.there = TRUE]
                      ELSE Swept(S)[t]]

Opened(S, T) ==
    [t \in Topics |-> IF t \in T /\ ~Swept(S)[t].there
                      THEN [there |-> TRUE, floor |-> DroppedTo(S), seqs |-> <<>>]
                      ELSE Swept(S)[t]]

\* The ring of a topic past its limit loses its first events.
Pushed(top, n) ==
    LET over == Len(top.seqs) + 1 - Keep IN
    IF over <= 0 THEN [top EXCEPT !.seqs = Append(@, n)]
    ELSE [top EXCEPT !.seqs = Append(SubSeq(@, over + 1, Len(@)), n), !.floor = top.seqs[over]]

\* A subscriber too late for one more event is dropped: its channel closes.
Sent(s, t, n) ==
    IF t \notin s.on THEN s
    ELSE IF s.closed THEN [s EXCEPT !.on = @ \ {t}]
    ELSE IF Len(s.ch) < Buffer THEN [s EXCEPT !.ch = Append(@, n)]
    ELSE [s EXCEPT !.closed = TRUE, !.on = @ \ {t}]

Publish(t, kind) ==
    \E S \in SUBSET Idle :
        /\ seq' = seq + 1
        /\ log' = Append(log, [topic |-> t, kind |-> kind, late |-> leaving = "told"])
        /\ dropped' = DroppedTo(S)
        /\ topics' = [Opened(S, {t}) EXCEPT ![t] = Pushed(@, seq + 1)]
        /\ sub' = Sent(sub, t, seq + 1)
        /\ UNCHANGED epoch

\* Subscribe's answer to an identifier: stale, or the events after it.
Known == client.epoch = epoch /\ client.id <= seq

Stale(tops) == ~Known \/ \E t \in Topics : client.id < tops[t].floor

\* All of S, oldest first.
InOrder(S) ==
    CHOOSE s \in [1 .. Cardinality(S) -> S] :
        /\ \A n \in S : \E i \in 1 .. Cardinality(S) : s[i] = n
        /\ \A i, j \in 1 .. Cardinality(S) : i < j => s[i] < s[j]

Missed(tops) ==
    InOrder({n \in UNION {ToSet(tops[t].seqs) : t \in Topics} : n > client.id})

-----------------------------------------------------------------------------
(* The changes, by the server's handlers and the workers' activities. *)

Change(t) ==
    /\ stored["session"] + stored["tree"] < MaxChanges
    /\ stored' = [stored EXCEPT ![t] = @ + 1]
    /\ owed' = [owed EXCEPT ![t] = @ \cup {stored[t] + 1}]
    /\ UNCHANGED <<hub, sub, missed, stream, unsaid, leaving, client, leaked, drops>>

\* NotifyStep made, its answer lost, is made again: the event is owed still.
NotifyStep(t, n) ==
    /\ n \in owed[t]
    /\ Publish(t, "change")
    /\ \/ owed' = [owed EXCEPT ![t] = @ \ {n}] /\ UNCHANGED drops
       \/ drops < MaxDrops /\ drops' = drops + 1 /\ UNCHANGED owed
    /\ UNCHANGED <<missed, stream, stored, unsaid, leaving, client, leaked>>

\* The post fails for good: nobody is told of this change.
NotifyLost(t, n) ==
    /\ n \in owed[t]
    /\ drops < MaxDrops /\ drops' = drops + 1
    /\ owed' = [owed EXCEPT ![t] = @ \ {n}]
    /\ unsaid' = [unsaid EXCEPT ![t] = @ \cup {n}]
    /\ UNCHANGED <<hub, sub, missed, stream, stored, leaving, client, leaked>>

\* Leave: the row, then the event.
Leave ==
    /\ leaving = "no" /\ leaving' = "left"
    /\ UNCHANGED <<hub, sub, missed, stream, stored, owed, unsaid, client, leaked, drops>>

MembersLeft ==
    /\ leaving = "left" /\ leaving' = "told"
    /\ Publish("session", "left")
    /\ UNCHANGED <<missed, stream, stored, owed, unsaid, client, leaked, drops>>

-----------------------------------------------------------------------------
(* The page and its stream. *)

Position ==
    /\ client.st = "none" /\ Member
    /\ \E S \in SUBSET Idle :
          /\ topics' = Opened(S, Topics)
          /\ dropped' = DroppedTo(S)
    /\ client' = [client EXCEPT !.st = "builds", !.epoch = epoch, !.id = seq, !.fetch = Topics]
    /\ UNCHANGED <<epoch, seq, log, sub, missed, stream, stored, owed, unsaid, leaving, leaked, drops>>

\* A read of the store, for the page or for a part of it fetched again; the
\* session's parts are refused to who is not a member.
Fetch(t) ==
    /\ t \in client.fetch
    /\ client' = [client EXCEPT !.fetch = @ \ {t},
                                !.shown[t] = IF t = "tree" \/ Member THEN stored[t] ELSE @,
                                !.st = IF @ = "builds" /\ client.fetch = {t} THEN "off" ELSE @]
    /\ UNCHANGED <<hub, sub, missed, stream, stored, owed, unsaid, leaving, leaked, drops>>

\* The browser connects: sessionStream's check, then relaySSE's subscription.
\* A stale one is told to reload, and is at the hub's position from then on.
SessionStream ==
    /\ client.st = "off" /\ stream = "off"
    /\ IF ~Member
       THEN /\ client' = [client EXCEPT !.st = "gone"]
            /\ UNCHANGED <<topics, dropped, sub, missed, stream>>
       ELSE \E S \in SUBSET Idle :
            /\ topics' = Opened(S, Topics) /\ dropped' = DroppedTo(S)
            /\ sub' = [NoSub EXCEPT !.on = Topics]
            /\ stream' = "checks"
            /\ IF Stale(Opened(S, Topics))
               THEN /\ missed' = <<>>
                    /\ client' = [client EXCEPT !.st = "on", !.epoch = epoch, !.id = seq, !.fetch = Topics]
               ELSE /\ missed' = Missed(Opened(S, Topics))
                    /\ client' = [client EXCEPT !.st = "on"]
    /\ UNCHANGED <<epoch, seq, log, stored, owed, unsaid, leaving, leaked, drops>>

\* The handler returns, and unsubscribes.
Closes(st) ==
    /\ stream' = "off" /\ sub' = NoSub /\ missed' = <<>>
    /\ client' = [client EXCEPT !.st = st]
    /\ UNCHANGED leaked

\* stillMember's read of the store fails: the stream goes on, as it does for a
\* member; for a user who left, until the next check.
CheckFails ==
    /\ drops < MaxDrops /\ drops' = drops + 1
    /\ stream' = IF Member THEN "live" ELSE "unsure"

\* gone: at the stream's start, and at each ping.
Gone ==
    /\ stream # "off"
    /\ \/ ~Member /\ Closes("gone") /\ UNCHANGED drops
       \/ /\ stream = "checks"
          /\ \/ Member /\ stream' = "live" /\ UNCHANGED drops
             \/ CheckFails
          /\ UNCHANGED <<sub, missed, client, leaked>>
    /\ UNCHANGED <<hub, stored, owed, unsaid, leaving>>

\* One event is relayed: the missed ones first, then the channel's.
Sends(n) ==
    /\ client' = [client EXCEPT !.id = n, !.fetch = @ \cup {Event(n).topic}]
    /\ leaked' = (leaked \/ (stream = "live" /\ Event(n).topic = "session" /\ Event(n).late))
    /\ IF missed # <<>> THEN missed' = Tail(missed) /\ UNCHANGED sub
       ELSE sub' = [sub EXCEPT !.ch = Tail(@)] /\ UNCHANGED missed

\* One that tells of a member's leaving has the stream check.
Relay(n) ==
    \/ Event(n).kind = "left" /\ ~Member /\ Closes("gone") /\ UNCHANGED drops
    \/ Event(n).kind = "left" /\ CheckFails /\ Sends(n)
    \/ (Event(n).kind # "left" \/ Member) /\ Sends(n) /\ UNCHANGED <<stream, drops>>

Pending == missed \o sub.ch

WriteSSE ==
    /\ stream \in {"live", "unsure"} /\ Pending # <<>>
    /\ Relay(Head(Pending))
    /\ UNCHANGED <<hub, stored, owed, unsaid, leaving>>

\* The channel closed, and drained: the browser connects again.
TooSlow ==
    /\ stream \in {"live", "unsure"} /\ Pending = <<>> /\ sub.closed
    /\ Closes("off")
    /\ UNCHANGED <<hub, stored, owed, unsaid, leaving, drops>>

\* The connection is lost, with what was written and not received.
ConnectionLost ==
    /\ stream # "off"
    /\ drops < MaxDrops /\ drops' = drops + 1
    /\ Closes("off")
    /\ UNCHANGED <<hub, stored, owed, unsaid, leaving>>

\* A new process, a new hub; the handlers' publications under way are lost.
Restart ==
    /\ epoch <= MaxRestarts
    /\ epoch' = epoch + 1
    /\ seq' = 0 /\ dropped' = 0 /\ log' = <<>>
    /\ topics' = [t \in Topics |-> NoTopic]
    /\ owed' = [t \in Topics |-> {}]
    /\ leaving' = IF leaving = "left" THEN "told" ELSE leaving
    /\ IF stream = "off" THEN UNCHANGED <<sub, missed, stream, client, leaked>> ELSE Closes("off")
    /\ UNCHANGED <<stored, unsaid, drops>>

Next ==
    \/ \E t \in Topics : Change(t) \/ Fetch(t)
    \/ \E t \in Topics : \E n \in owed[t] : NotifyStep(t, n) \/ NotifyLost(t, n)
    \/ Leave \/ MembersLeft
    \/ Position \/ SessionStream \/ Gone \/ WriteSSE \/ TooSlow \/ ConnectionLost \/ Restart

Spec == Init /\ [][Next]_vars

-----------------------------------------------------------------------------
\* A page whose stream is up, with nothing left to relay or to fetch, shows
\* every change published, and every one whose publication a restart lost: the
\* position noted before the page was read, the ring, the sweeps and the
\* reloads leave no event out, whatever was lost or closed on the way.
PageCatchesUp ==
    client.st = "on" /\ stream = "live" /\ Pending = <<>> /\ ~sub.closed /\ client.fetch = {} /\ Member =>
        \A t \in Topics : \A n \in (1 .. stored[t]) \ (owed[t] \cup unsaid[t]) : n <= client.shown[t]

\* Once the members were told that a user left, no event of the session
\* published after reaches that user, by a stream open, catching up or opened
\* again, unless that stream's check of it failed ("the stream goes on: the
\* next check will").
NothingAfterLeaving == ~leaked

=============================================================================
