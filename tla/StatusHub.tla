------------------------------- MODULE StatusHub -------------------------------
(***************************************************************************)
(* The status a service publishes (servicehost.statusHub) and the streams  *)
(* that follow it (WatchStatus): a hub update either reaches a watcher's   *)
(* one-place channel or ends the watch, and a client that comes back with  *)
(* its cursor learns whether it missed something, also after the service   *)
(* was restarted under a new epoch.                                        *)
(***************************************************************************)
EXTENDS Naturals, FiniteSets

CONSTANTS Clients,      \* clients, each with at most one watch
          MaxWatchers,  \* ServerConfig.MaxWatchers
          MaxEpoch,     \* bound: service processes, one epoch each
          MaxRevision   \* bound: revisions of one epoch; later updates are disabled

ASSUME WatchersAssumption == MaxWatchers \in Nat
ASSUME BoundsAssumption == MaxEpoch \in Nat \ {0} /\ MaxRevision \in Nat \ {0}

VARIABLES
    hub,     \* the published status
    closed,  \* statusHub.closed
    watch,   \* per client: the server's side of its watch
    view     \* per client: the last status it received, its cursor

hubVars == <<hub, closed, watch, view>>

Health == {"starting", "ready", "draining", "degraded", "stopping"}
Statuses == [epoch : 1..MaxEpoch, rev : 1..MaxRevision,
             state : Health, accepting : BOOLEAN]

\* A client that never received a status: the zero Cursor.
NoStatus == [epoch |-> 0, rev |-> 0, state |-> "starting", accepting |-> FALSE]

NoUpdate == [status |-> NoStatus, reset |-> FALSE]
Update(s, reset) == [status |-> s, reset |-> reset]

\* open: the handler runs.  subscribed: the hub knows it.  sending: the update
\* in stream.Send.  buffer: the channel.
NoWatch == [open |-> FALSE, subscribed |-> FALSE,
            sending |-> NoUpdate, buffer |-> NoUpdate]

Subscribed == {c \in Clients : watch[c].subscribed}

HubTypeOK ==
    LET Updates == [status : Statuses, reset : BOOLEAN] \cup {NoUpdate} IN
    /\ hub \in Statuses
    /\ closed \in BOOLEAN
    /\ watch \in [Clients -> [open : BOOLEAN, subscribed : BOOLEAN,
                              sending : Updates, buffer : Updates]]
    /\ view \in [Clients -> Statuses \cup {NoStatus}]

FirstStatus(epoch) ==
    [epoch |-> epoch, rev |-> 1, state |-> "starting", accepting |-> FALSE]

HubInit ==
    /\ hub = FirstStatus(1)
    /\ closed = FALSE
    /\ watch = [c \in Clients |-> NoWatch]
    /\ view = [c \in Clients |-> NoStatus]

(***************************************************************************)
(* The hub.                                                                *)
(***************************************************************************)
\* A mistake: an update that does not fit is dropped and the watch goes on.
OfferOrDrop(w, s) ==
    IF w.buffer = NoUpdate THEN [w EXCEPT !.buffer = Update(s, FALSE)] ELSE w

\* A full channel ends the watch: its handler finds the channel closed once
\* it has sent what is in it.
Offer(w, s) ==
    IF w.buffer = NoUpdate THEN [w EXCEPT !.buffer = Update(s, FALSE)]
                           ELSE [w EXCEPT !.subscribed = FALSE]

\* update, on an open hub.  Nothing is sent when nothing changes.
HubUpdate(state, accepting) ==
    LET next == [hub EXCEPT !.rev = @ + 1, !.state = state, !.accepting = accepting] IN
    /\ ~closed
    /\ UNCHANGED <<closed, view>>
    /\ \/ /\ hub.state = state /\ hub.accepting = accepting
          /\ UNCHANGED <<hub, watch>>
       \/ /\ ~(hub.state = state /\ hub.accepting = accepting)
          /\ hub.rev < MaxRevision
          /\ hub' = next
          /\ watch' = [c \in Clients |->
                IF watch[c].subscribed THEN Offer(watch[c], next) ELSE watch[c]]

\* close ends every watch.
HubClose ==
    /\ closed' = TRUE
    /\ watch' = [c \in Clients |-> [watch[c] EXCEPT !.subscribed = FALSE]]
    /\ UNCHANGED <<hub, view>>

(***************************************************************************)
(* The watch handler and its client.                                       *)
(***************************************************************************)
\* A mistake: a cursor of this epoch counts as current.
SubscribeByEpoch(c) ==
    /\ ~watch[c].open
    /\ ~closed
    /\ Cardinality(Subscribed) < MaxWatchers
    /\ watch' = [watch EXCEPT ![c] =
           [NoWatch EXCEPT !.open = TRUE, !.subscribed = TRUE,
                !.sending = IF view[c].epoch = hub.epoch THEN @ ELSE Update(hub, TRUE)]]
    /\ UNCHANGED <<hub, closed, view>>

\* A mistake: a cursor of this revision counts as current, whatever its epoch.
SubscribeByRevision(c) ==
    /\ ~watch[c].open
    /\ ~closed
    /\ Cardinality(Subscribed) < MaxWatchers
    /\ watch' = [watch EXCEPT ![c] =
           [NoWatch EXCEPT !.open = TRUE, !.subscribed = TRUE,
                !.sending = IF view[c].rev = hub.rev THEN @ ELSE Update(hub, TRUE)]]
    /\ UNCHANGED <<hub, closed, view>>

\* WatchStatus with the client's cursor: a Reset when it is not current.
Subscribe(c) ==
    /\ ~watch[c].open
    /\ ~closed
    /\ Cardinality(Subscribed) < MaxWatchers
    /\ LET current == view[c].epoch = hub.epoch /\ view[c].rev = hub.rev IN
       watch' = [watch EXCEPT ![c] =
           [NoWatch EXCEPT !.open = TRUE, !.subscribed = TRUE,
                           !.sending = IF current THEN @ ELSE Update(hub, TRUE)]]
    /\ UNCHANGED <<hub, closed, view>>

TakeUpdate(c) ==
    /\ watch[c].open
    /\ watch[c].sending = NoUpdate /\ watch[c].buffer # NoUpdate
    /\ watch' = [watch EXCEPT ![c].sending = watch[c].buffer, ![c].buffer = NoUpdate]
    /\ UNCHANGED <<hub, closed, view>>

\* The client's Recv returns what Send accepted.
Deliver(c) ==
    /\ watch[c].open
    /\ watch[c].sending # NoUpdate
    /\ view' = [view EXCEPT ![c] = watch[c].sending.status]
    /\ watch' = [watch EXCEPT ![c].sending = NoUpdate]
    /\ UNCHANGED <<hub, closed>>

\* The client did not keep up, or the hub was closed.
EndDropped(c) ==
    /\ watch[c].open /\ ~watch[c].subscribed
    /\ watch[c].sending = NoUpdate /\ watch[c].buffer = NoUpdate
    /\ watch' = [watch EXCEPT ![c] = NoWatch]
    /\ UNCHANGED <<hub, closed, view>>

\* The stream's context ended or Send failed: what was under way is lost.
EndBroken(c) ==
    /\ watch[c].open
    /\ watch' = [watch EXCEPT ![c] = NoWatch]
    /\ UNCHANGED <<hub, closed, view>>

\* GetStatus and Health; a client reads between two watches.
ReadStatus(c) ==
    /\ ~watch[c].open
    /\ view[c] # hub
    /\ view' = [view EXCEPT ![c] = hub]
    /\ UNCHANGED <<hub, closed, watch>>

(***************************************************************************)
(* Properties.                                                             *)
(***************************************************************************)
\* What the client of a watch will have received once the handler has caught up.
Latest(c) ==
    IF watch[c].buffer # NoUpdate THEN watch[c].buffer.status
    ELSE IF watch[c].sending # NoUpdate THEN watch[c].sending.status
    ELSE view[c]

\* A subscribed watcher is owed exactly the current status: nothing was
\* dropped silently between its cursor and the hub (statusHub.update).
WatchersAreOwedTheCurrentStatus ==
    \A c \in Subscribed : Latest(c) = hub

\* A cursor stands for one status, across reconnections and restarts: who
\* holds the hub's cursor holds its state, and subscribe may skip the Reset.
CursorIdentifiesStatus ==
    \A c \in Clients :
        view[c].epoch = hub.epoch /\ view[c].rev = hub.rev => view[c] = hub

\* A cursor and the updates under way lead to the current status, for a client
\* on a watch as for one that comes back (statusHub.subscribe, update).
WatchersAreServed == WatchersAreOwedTheCurrentStatus /\ CursorIdentifiesStatus

\* What a client receives on a watch follows what it had, without a gap, or
\* is marked as a Reset.
NoSilentGap ==
    [][\A c \in Clients :
          Deliver(c) =>
             \/ watch[c].sending.reset
             \/ view'[c].epoch = view[c].epoch /\ view'[c].rev = view[c].rev + 1]_hubVars
=============================================================================
