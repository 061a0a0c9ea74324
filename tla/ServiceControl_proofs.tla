------------------------- MODULE ServiceControl_proofs -------------------------
(***************************************************************************)
(* The control server's promises about status, watches and maintenance,    *)
(* for any number of clients, callers, watches, epochs and revisions, and  *)
(* those of its private socket.                                            *)
(***************************************************************************)
EXTENDS ServiceControl, PrivateSocket, TLAPS

-----------------------------------------------------------------------------
(***************************************************************************)
(* The hub and the watches.                                                *)
(***************************************************************************)
\* A status of this epoch or of an earlier one; under the hub's cursor, the hub's.
Reaches(s, h) ==
    \/ s.epoch < h.epoch
    \/ s.epoch = h.epoch /\ s.rev < h.rev
    \/ s = h
Known(s) == Reaches(s, hub)

Follows(s, t) == s.epoch = t.epoch /\ s.rev = t.rev + 1

\* What the client of a watch has when the handler takes the next update.
Ahead(c) == IF watch[c].sending # NoUpdate THEN watch[c].sending.status ELSE view[c]

\* The updates under way form a chain from the client's cursor, which reaches the
\* hub as long as the watch is subscribed.
WatchInv(c) ==
    /\ ~watch[c].open =>
          ~watch[c].subscribed /\ watch[c].sending = NoUpdate /\ watch[c].buffer = NoUpdate
    /\ Known(view[c]) /\ Known(watch[c].sending.status) /\ Known(watch[c].buffer.status)
    /\ watch[c].sending # NoUpdate =>
          watch[c].sending.reset \/ Follows(watch[c].sending.status, view[c])
    /\ watch[c].buffer # NoUpdate =>
          ~watch[c].buffer.reset /\ Follows(watch[c].buffer.status, Ahead(c))
    /\ watch[c].subscribed => Latest(c) = hub

HubInv == HubTypeOK /\ \A c \in Clients : WatchInv(c)

-----------------------------------------------------------------------------
(***************************************************************************)
(* Maintenance.                                                            *)
(***************************************************************************)
ControlTypeOK ==
    /\ rpc \in [Callers -> [at : Handlers \cup {"none"}, expired : BOOLEAN,
                            snapshot : Statuses \cup {NoStatus}, answer : Answers]]
    /\ before \in Statuses \cup {NoStatus}
    /\ completed \in BOOLEAN
    /\ serve \in {"serving", "stopping", "forced", "stopped"}
    /\ admitting \in BOOLEAN
    /\ said \in [state : Health, accepting : BOOLEAN]
    /\ spoke \in BOOLEAN /\ doubtful \in BOOLEAN

\* c is in a maintenance handler, past TryLock.
Outside == {"none", "drain", "resume"}
Inside(c) == rpc[c].at \notin Outside

OneMaintainer == \A c, d \in Callers : Inside(c) /\ Inside(d) => c = d

\* What a handler may count on where it stands.
CallInv(c) ==
    /\ rpc[c].at # "none" => rpc[c].answer = "none"
    /\ Inside(c) /\ rpc[c].at # "resume.handler" =>
          before = NoStatus /\ rpc[c].snapshot \in Statuses
    /\ rpc[c].at \in {"drain.publish", "drain.handler", "drain.restore", "resume.restore"} =>
          admitting
    /\ rpc[c].at = "resume.handler" => before # NoStatus

\* What the server's records say between two maintenance calls.
RecordInv ==
    /\ closed => serve = "stopped"
    /\ DrainedIsRecorded
    /\ completed /\ before # NoStatus => ~admitting \/ doubtful

Quieted == hub.state \in {"draining", "degraded"} /\ ~hub.accepting

\* Where the published status comes from, as long as the application says nothing.
ExplainedIn(c) ==
    /\ rpc[c].at = "drain.publish" => Content(hub) = said /\ Content(rpc[c].snapshot) = said
    /\ rpc[c].at \in {"drain.handler", "drain.undo", "drain.restore", "drain.degraded"} =>
          Content(rpc[c].snapshot) = said /\ Quieted
    /\ rpc[c].at = "resume.restore" => Content(rpc[c].snapshot) = said

StatusInv ==
    ~spoke /\ serve = "serving" =>
        /\ before # NoStatus => Content(before) = said /\ Quieted
        /\ MaintenanceFree /\ before = NoStatus => Content(hub) = said
        /\ \A c \in Callers : ExplainedIn(c)

ControlInv == /\ ControlTypeOK /\ OneMaintainer /\ RecordInv /\ StatusInv
              /\ \A c \in Callers : CallInv(c)

Inv == HubInv /\ ControlInv

-----------------------------------------------------------------------------
(***************************************************************************)
(* Every step is one of the hub's, or leaves it alone.                     *)
(***************************************************************************)
HubStarts ==
    /\ hub.epoch < MaxEpoch /\ hub' = FirstStatus(hub.epoch + 1) /\ closed' = FALSE
    /\ watch' = [c \in Clients |-> NoWatch] /\ UNCHANGED view

HubNext ==
    \/ \E state \in Health, accepting \in BOOLEAN : HubUpdate(state, accepting)
    \/ HubClose \/ HubStarts
    \/ \E c \in Clients : \/ Subscribe(c) \/ ReadStatus(c) \/ TakeUpdate(c) \/ Deliver(c)
                          \/ EndDropped(c) \/ EndBroken(c)

\* A handler restores a status that has been published.
LEMMA HandlersMoveHub ==
    ASSUME ControlInv, NEW c \in Callers, HandlerNext(c)
    PROVE  HubNext \/ UNCHANGED hubVars
<1> USE DEF HandlerNext
<1>1. CASE DrainPublishes(c) \/ DrainDegrades(c)
  <2>1. "draining" \in Health /\ "degraded" \in Health /\ FALSE \in BOOLEAN
    BY DEF Health
  <2> QED BY <1>1, <2>1 DEF DrainPublishes, DrainDegrades, HubNext
<1>2. CASE DrainRestores(c) \/ ResumeRestores(c)
  <2>1. rpc[c].snapshot \in Statuses
    BY <1>2 DEF DrainRestores, ResumeRestores, ControlInv, CallInv, Inside, Outside
  <2>2. rpc[c].snapshot.state \in Health /\ rpc[c].snapshot.accepting \in BOOLEAN
    BY <2>1 DEF Statuses
  <2> QED BY <1>2, <2>2 DEF DrainRestores, ResumeRestores, HubNext
<1> QED
  BY <1>1, <1>2 DEF DrainBegins, DrainHandler, DrainUndo, ResumeBegins, ResumeHandler

LEMMA StepsMoveHub ==
    ASSUME ControlInv, [Next]_vars
    PROVE  [HubNext]_hubVars
<1>1. CASE \E c \in Callers : HandlerNext(c)
  BY <1>1, HandlersMoveHub
<1>2. CASE \E s \in AppStatuses : UpdateStatus(s)
  <2>1. PICK s \in AppStatuses : UpdateStatus(s)
    BY <1>2
  <2>2. s.state \in Health /\ s.accepting \in BOOLEAN
    BY AppAssumption
  <2> QED BY <2>1, <2>2 DEF UpdateStatus, HubNext
<1>3. CASE ShutdownBegins
  <2>1. "stopping" \in Health /\ FALSE \in BOOLEAN
    BY DEF Health
  <2> QED BY <1>3, <2>1 DEF ShutdownBegins, HubNext
<1>4. CASE Restart BY <1>4 DEF Restart, HubNext, HubStarts
<1>5. CASE \E c \in Clients : WatchNext(c)
  BY <1>5 DEF WatchNext, HubNext
<1>6. CASE \E c \in Callers : Call(c, "drain") \/ Call(c, "resume") \/ Expire(c)
  BY <1>6 DEF Call, Expire
<1>7. CASE ShutdownIsGraceful \/ ShutdownIsForced \/ ShutdownCloses
  BY <1>7 DEF ShutdownIsGraceful, ShutdownIsForced, ShutdownCloses, HubNext
<1>8. CASE UNCHANGED vars
  BY <1>8 DEF vars
<1> QED BY <1>1, <1>2, <1>3, <1>4, <1>5, <1>6, <1>7, <1>8 DEF Next

-----------------------------------------------------------------------------
(***************************************************************************)
(* The hub's steps keep what is known of it.                               *)
(***************************************************************************)
Updates == [status : Statuses, reset : BOOLEAN] \cup {NoUpdate}
Watches == [open : BOOLEAN, subscribed : BOOLEAN, sending : Updates, buffer : Updates]

LEMMA NoStatusIsNone ==
    NoStatus \notin Statuses /\ NoUpdate \notin [status : Statuses, reset : BOOLEAN]
BY DEF NoStatus, NoUpdate, Statuses

LEMMA HubType ==
    HubTypeOK <=> /\ hub \in Statuses /\ closed \in BOOLEAN
                  /\ watch \in [Clients -> Watches]
                  /\ view \in [Clients -> Statuses \cup {NoStatus}]
BY DEF HubTypeOK, Updates, Watches

\* A step that leaves hub and the other watches alone has one watch to look at.
LEMMA OneWatchMoves ==
    ASSUME HubInv, NEW c \in Clients, UNCHANGED <<hub, closed>>, HubTypeOK',
           \A d \in Clients \ {c} : watch'[d] = watch[d] /\ view'[d] = view[d],
           WatchInv(c)'
    PROVE  HubInv'
<1>1. ASSUME NEW d \in Clients \ {c} PROVE WatchInv(d)'
  BY <1>1 DEF HubInv, WatchInv, Known, Ahead, Latest
<1> QED BY <1>1 DEF HubInv

\* What a hub publishes next, in this process or a new one.
Successors(h) ==
    {g \in Statuses : (g.epoch = h.epoch /\ g.rev = h.rev + 1) \/ g.epoch = h.epoch + 1}

LEMMA ReachesLater ==
    ASSUME NEW h \in Statuses, NEW g \in Successors(h),
           NEW s \in Statuses \cup {NoStatus}, Reaches(s, h)
    PROVE  Reaches(s, g) /\ s # g
BY DEF Successors, Statuses, NoStatus, Reaches

LEMMA UpdateStatuses ==
    ASSUME NEW u \in Updates
    PROVE  u.status \in Statuses \cup {NoStatus} /\ u.reset \in BOOLEAN
<1>1. CASE u \in [status : Statuses, reset : BOOLEAN] BY <1>1
<1>2. CASE u = NoUpdate BY <1>2 DEF NoUpdate
<1> QED BY <1>1, <1>2 DEF Updates

\* Before a step of the hub, and after it, everything a watch holds is a status.
LEMMA WatchTypes ==
    ASSUME HubTypeOK, NEW c \in Clients
    PROVE  /\ watch[c] \in Watches /\ watch[c].sending \in Updates /\ watch[c].buffer \in Updates
           /\ watch[c].sending.status \in Statuses \cup {NoStatus}
           /\ watch[c].buffer.status \in Statuses \cup {NoStatus}
           /\ view[c] \in Statuses \cup {NoStatus}
<1>1. watch[c] \in Watches /\ view[c] \in Statuses \cup {NoStatus}
  BY HubType
<1>2. watch[c].sending \in Updates /\ watch[c].buffer \in Updates
  BY <1>1 DEF Watches
<1> QED BY <1>1, <1>2, UpdateStatuses

\* An offered update continues the chain, or ends the subscription.
LEMMA OfferKeeps ==
    ASSUME HubInv, HubTypeOK', NEW c \in Clients, UNCHANGED view,
           hub'.epoch = hub.epoch, hub'.rev = hub.rev + 1,
           watch'[c] = IF watch[c].subscribed THEN Offer(watch[c], hub') ELSE watch[c]
    PROVE  WatchInv(c)'
<1> DEFINE w == watch[c]
           v == watch'[c]
<1>1. hub \in Statuses /\ hub' \in Successors(hub)
  BY HubType DEF HubInv, HubTypeOK, Successors
<1>2. WatchInv(c) /\ w \in Watches /\ w.sending \in Updates /\ w.buffer \in Updates
  BY WatchTypes DEF HubInv
<1>3. \A s \in Statuses \cup {NoStatus} : Known(s) => Reaches(s, hub')
  BY <1>1, ReachesLater DEF Known
<1>4. Reaches(view[c], hub') /\ Reaches(w.sending.status, hub') /\ Reaches(w.buffer.status, hub')
  <2>1. Known(view[c]) /\ Known(w.sending.status) /\ Known(w.buffer.status)
    BY <1>2 DEF WatchInv
  <2> QED BY <2>1, <1>3, WatchTypes DEF HubInv
<1>5. CASE w.subscribed /\ w.buffer = NoUpdate
  <2>1. v = [w EXCEPT !.buffer = Update(hub', FALSE)]
    BY <1>5 DEF Offer
  <2>2. v.open = w.open /\ v.sending = w.sending /\ v.subscribed /\ v.buffer = Update(hub', FALSE)
    BY <2>1, <1>2, <1>5 DEF Watches
  <2>3. Latest(c) = Ahead(c) /\ Latest(c) = hub
    BY <1>2, <1>5 DEF Latest, Ahead, WatchInv
  <2>4. v.buffer # NoUpdate /\ v.buffer.status = hub' /\ ~v.buffer.reset
    BY <2>2, <1>1, NoStatusIsNone DEF Update, NoUpdate, Successors
  <2>5. Ahead(c)' = Ahead(c)
    BY <2>2 DEF Ahead
  <2>6. Latest(c)' = hub'
    BY <2>4 DEF Latest
  <2>7. w.open
    BY <1>2, <1>5 DEF WatchInv, NoWatch
  <2> QED
    BY <1>2, <1>4, <2>2, <2>3, <2>4, <2>5, <2>6, <2>7 DEF WatchInv, Follows, Known, Reaches
<1>6. CASE ~(w.subscribed /\ w.buffer = NoUpdate)
  <2>1. v = IF w.subscribed THEN [w EXCEPT !.subscribed = FALSE] ELSE w
    BY <1>6 DEF Offer
  <2>2. v.open = w.open /\ v.sending = w.sending /\ v.buffer = w.buffer /\ ~v.subscribed
    BY <2>1, <1>2 DEF Watches
  <2>3. Ahead(c)' = Ahead(c)
    BY <2>2 DEF Ahead
  <2> QED
    BY <1>2, <1>4, <2>2, <2>3 DEF WatchInv, Known
<1> QED BY <1>5, <1>6

LEMMA HubUpdateKeeps ==
    ASSUME HubInv, NEW state \in Health, NEW accepting \in BOOLEAN, HubUpdate(state, accepting)
    PROVE  HubInv'
<1>1. CASE UNCHANGED <<hub, watch>>
  BY <1>1 DEF HubUpdate, HubInv, HubTypeOK, WatchInv, Known, Ahead, Latest
<1>2. CASE ~UNCHANGED <<hub, watch>>
  <2> DEFINE next == [hub EXCEPT !.rev = @ + 1, !.state = state, !.accepting = accepting]
  <2>1. /\ UNCHANGED <<closed, view>> /\ hub' = next /\ hub.rev < MaxRevision
        /\ watch' = [c \in Clients |-> IF watch[c].subscribed THEN Offer(watch[c], next) ELSE watch[c]]
    BY <1>2 DEF HubUpdate
  <2>2. hub \in Statuses
    BY DEF HubInv, HubTypeOK
  <2>3. hub' \in Statuses /\ hub'.epoch = hub.epoch /\ hub'.rev = hub.rev + 1
    <3>1. hub.rev + 1 \in 1..MaxRevision
      BY <2>1, <2>2, BoundsAssumption DEF Statuses
    <3>2. next \in Statuses
      BY <2>2, <3>1 DEF Statuses
    <3>3. next.epoch = hub.epoch /\ next.rev = hub.rev + 1
      BY <2>2 DEF Statuses
    <3> QED BY <2>1, <3>2, <3>3
  <2>4. ASSUME NEW c \in Clients PROVE watch'[c] \in Watches
    <3>1. watch[c] \in Watches /\ Update(hub', FALSE) \in Updates
      BY <2>3, WatchTypes DEF HubInv, Update, Updates
    <3>2. watch'[c] = IF watch[c].subscribed THEN Offer(watch[c], hub') ELSE watch[c]
      BY <2>1
    <3> QED BY <3>1, <3>2 DEF Offer, Watches
  <2>5. HubTypeOK'
    <3>1. watch' \in [Clients -> Watches]
      BY <2>1, <2>4
    <3> QED BY <2>1, <2>3, <3>1, HubType DEF HubInv, HubTypeOK, Updates, Watches
  <2>6. ASSUME NEW c \in Clients PROVE WatchInv(c)'
    BY <2>1, <2>3, <2>5, OfferKeeps
  <2> QED BY <2>5, <2>6 DEF HubInv
<1> QED BY <1>1, <1>2

LEMMA HubCloseKeeps ==
    ASSUME HubInv, HubClose
    PROVE  HubInv'
<1>1. ASSUME NEW c \in Clients
      PROVE  watch'[c] \in Watches /\ WatchInv(c)'
  <2>1. watch'[c] = [watch[c] EXCEPT !.subscribed = FALSE] /\ UNCHANGED <<hub, view>>
    BY DEF HubClose
  <2>2. watch[c] \in Watches /\ WatchInv(c)
    BY WatchTypes DEF HubInv
  <2>3. /\ watch'[c] \in Watches /\ ~watch'[c].subscribed
        /\ watch'[c].open = watch[c].open
        /\ watch'[c].sending = watch[c].sending /\ watch'[c].buffer = watch[c].buffer
    BY <2>1, <2>2 DEF Watches
  <2> QED BY <2>1, <2>2, <2>3 DEF WatchInv, Known, Ahead
<1>2. watch' \in [Clients -> Watches]
  BY <1>1 DEF HubClose
<1>3. HubTypeOK'
  BY <1>2, HubType DEF HubClose, HubInv, HubTypeOK, Updates, Watches
<1> QED BY <1>1, <1>3 DEF HubInv

LEMMA HubStartKeeps ==
    ASSUME HubInv, HubStarts
    PROVE  HubInv'
<1>1. hub \in Statuses /\ hub' \in Successors(hub)
  BY BoundsAssumption DEF HubInv, HubTypeOK, HubStarts, Successors, FirstStatus, Statuses, Health
<1>2. NoWatch \in Watches
  BY DEF NoWatch, Watches, Updates
<1>3. HubTypeOK'
  BY <1>1, <1>2, HubType DEF HubStarts, HubInv, HubTypeOK, Successors, Updates, Watches
<1>4. ASSUME NEW c \in Clients PROVE WatchInv(c)'
  <2>1. watch'[c] = NoWatch /\ view'[c] = view[c]
    BY DEF HubStarts
  <2>2. Reaches(view[c], hub')
    BY <1>1, ReachesLater, WatchTypes DEF HubInv, WatchInv, Known
  <2>3. Reaches(NoStatus, hub')
    BY <1>1 DEF Successors, Statuses, NoStatus, Reaches
  <2> QED BY <2>1, <2>2, <2>3 DEF WatchInv, NoWatch, NoUpdate, Known
<1> QED BY <1>3, <1>4 DEF HubInv

\* A new watch starts with a Reset, or from a cursor that is the hub's.
LEMMA SubscribeKeeps ==
    ASSUME HubInv, NEW c \in Clients, Subscribe(c)
    PROVE  HubInv'
<1> DEFINE current == view[c].epoch = hub.epoch /\ view[c].rev = hub.rev
           w == [NoWatch EXCEPT !.open = TRUE, !.subscribed = TRUE,
                                !.sending = IF current THEN @ ELSE Update(hub, TRUE)]
<1>1. watch' = [watch EXCEPT ![c] = w] /\ UNCHANGED <<hub, closed, view>>
  BY DEF Subscribe
<1>2. hub \in Statuses /\ watch \in [Clients -> Watches] /\ WatchInv(c)
  BY HubType DEF HubInv
<1>3. /\ w.open /\ w.subscribed /\ w.buffer = NoUpdate
      /\ w.sending = IF current THEN NoUpdate ELSE Update(hub, TRUE)
  BY DEF NoWatch
<1>4. w \in Watches
  BY <1>2 DEF NoWatch, Watches, Updates, Update
<1>5. watch'[c] = w /\ HubTypeOK'
  BY <1>1, <1>2, <1>4, HubType DEF HubInv, HubTypeOK, Updates, Watches
<1>6. Reaches(NoStatus, hub) /\ Reaches(hub, hub)
  BY <1>2 DEF Statuses, NoStatus, Reaches
<1>7. WatchInv(c)'
  <2>1. CASE current
    <3>1. view[c] = hub
      BY <1>2, <2>1, WatchTypes DEF HubInv, WatchInv, Known, Reaches, Statuses, NoStatus
    <3>2. /\ watch'[c].open /\ watch'[c].sending = NoUpdate /\ watch'[c].buffer = NoUpdate
          /\ view'[c] = hub /\ hub' = hub /\ NoUpdate.status = NoStatus
      BY <1>1, <1>3, <1>5, <2>1, <3>1 DEF NoUpdate
    <3>3. Latest(c)' = hub'
      BY <3>2 DEF Latest
    <3> QED BY <1>6, <3>2, <3>3 DEF WatchInv, Known
  <2>2. CASE ~current
    <3>1. Update(hub, TRUE) # NoUpdate /\ Update(hub, TRUE).status = hub /\ Update(hub, TRUE).reset
      BY <1>2, NoStatusIsNone DEF Update, NoUpdate
    <3>2. /\ watch'[c].open /\ watch'[c].sending = Update(hub, TRUE) /\ watch'[c].buffer = NoUpdate
          /\ UNCHANGED <<view, hub>> /\ NoUpdate.status = NoStatus
      BY <1>1, <1>3, <1>5, <2>2 DEF NoUpdate
    <3>3. Latest(c)' = hub'
      BY <3>1, <3>2 DEF Latest
    <3> QED BY <1>2, <1>6, <3>1, <3>2, <3>3 DEF WatchInv, Known
  <2> QED BY <2>1, <2>2
<1> QED BY <1>1, <1>5, <1>7, OneWatchMoves, <1>2

\* The client of a watch takes what is next in the chain.
LEMMA WatchersKeep ==
    ASSUME HubInv, NEW c \in Clients,
           ReadStatus(c) \/ TakeUpdate(c) \/ Deliver(c) \/ EndDropped(c) \/ EndBroken(c)
    PROVE  HubInv'
<1> DEFINE w == watch[c]
<1>1. /\ hub \in Statuses /\ watch \in [Clients -> Watches] /\ WatchInv(c)
      /\ view \in [Clients -> Statuses \cup {NoStatus}]
      /\ w \in Watches /\ w.sending \in Updates /\ w.buffer \in Updates
      /\ w.sending.status \in Statuses \cup {NoStatus} /\ NoUpdate \in Updates
  BY HubType, WatchTypes DEF HubInv, Updates
<1>2. UNCHANGED <<hub, closed>>
  BY DEF ReadStatus, TakeUpdate, Deliver, EndDropped, EndBroken
<1>3. NoWatch \in Watches /\ Reaches(NoStatus, hub) /\ Reaches(hub, hub)
  BY <1>1 DEF NoWatch, Watches, Updates, Statuses, NoStatus, Reaches
<1>4. CASE ReadStatus(c)
  <2>1. view' = [view EXCEPT ![c] = hub] /\ UNCHANGED watch /\ ~w.open
    BY <1>4 DEF ReadStatus
  <2>2. WatchInv(c)'
    <3>1. /\ ~watch'[c].subscribed /\ view'[c] = hub' /\ hub' = hub
          /\ watch'[c].sending = NoUpdate /\ watch'[c].buffer = NoUpdate
          /\ NoUpdate.status = NoStatus
      BY <1>1, <1>2, <2>1 DEF WatchInv, NoUpdate
    <3> QED BY <1>3, <3>1 DEF WatchInv, Known
  <2>3. HubTypeOK'
    BY <1>1, <1>2, <2>1, HubType DEF HubInv, HubTypeOK
  <2> QED BY <1>1, <1>2, <2>1, <2>2, <2>3, OneWatchMoves
<1>5. CASE TakeUpdate(c)
  <2>1. /\ w.open /\ w.sending = NoUpdate /\ w.buffer # NoUpdate /\ UNCHANGED view
        /\ watch' = [watch EXCEPT ![c] = [w EXCEPT !.sending = w.buffer, !.buffer = NoUpdate]]
    BY <1>1, <1>5 DEF TakeUpdate, Watches
  <2>2. /\ watch'[c].open = w.open /\ watch'[c].subscribed = w.subscribed
        /\ watch'[c].sending = w.buffer /\ watch'[c].buffer = NoUpdate /\ watch'[c] \in Watches
    BY <1>1, <2>1 DEF Watches
  <2>3. WatchInv(c)'
    BY <1>1, <1>2, <1>3, <2>1, <2>2 DEF WatchInv, Known, NoUpdate, Ahead, Latest
  <2>4. HubTypeOK'
    BY <1>1, <1>2, <2>1, <2>2, HubType DEF HubInv, HubTypeOK, Updates, Watches
  <2> QED BY <1>1, <1>2, <2>1, <2>3, <2>4, OneWatchMoves
<1>6. CASE Deliver(c)
  <2>1. /\ w.open /\ w.sending # NoUpdate /\ view' = [view EXCEPT ![c] = w.sending.status]
        /\ watch' = [watch EXCEPT ![c] = [w EXCEPT !.sending = NoUpdate]]
    BY <1>1, <1>6 DEF Deliver, Watches
  <2>2. /\ watch'[c].open = w.open /\ watch'[c].subscribed = w.subscribed
        /\ watch'[c].sending = NoUpdate /\ watch'[c].buffer = w.buffer /\ watch'[c] \in Watches
        /\ view'[c] = w.sending.status
    BY <1>1, <2>1 DEF Watches
  <2>3. WatchInv(c)'
    BY <1>1, <1>2, <1>3, <2>1, <2>2 DEF WatchInv, Known, NoUpdate, Ahead, Latest
  <2>4. HubTypeOK'
    BY <1>1, <1>2, <2>1, <2>2, HubType DEF HubInv, HubTypeOK, Updates, Watches
  <2> QED BY <1>1, <1>2, <2>1, <2>3, <2>4, OneWatchMoves
<1>7. CASE EndDropped(c) \/ EndBroken(c)
  <2>1. watch' = [watch EXCEPT ![c] = NoWatch] /\ UNCHANGED view
    BY <1>7 DEF EndDropped, EndBroken
  <2>2. watch'[c] = NoWatch
    BY <1>1, <2>1
  <2>3. WatchInv(c)'
    BY <1>1, <1>2, <1>3, <2>1, <2>2 DEF WatchInv, Known, NoWatch, NoUpdate
  <2>4. HubTypeOK'
    BY <1>1, <1>2, <1>3, <2>1, HubType DEF HubInv, HubTypeOK, Updates, Watches
  <2> QED BY <1>1, <1>2, <2>1, <2>3, <2>4, OneWatchMoves
<1> QED BY <1>4, <1>5, <1>6, <1>7

LEMMA HubKeeps ==
    ASSUME HubInv, [HubNext]_hubVars
    PROVE  HubInv'
<1>1. CASE UNCHANGED hubVars
  BY <1>1 DEF hubVars, HubInv, HubTypeOK, WatchInv, Known, Ahead, Latest
<1> QED
  BY <1>1, HubUpdateKeeps, HubCloseKeeps, HubStartKeeps, SubscribeKeeps, WatchersKeep DEF HubNext

-----------------------------------------------------------------------------
(***************************************************************************)
(* The maintenance handlers keep the server's records.                     *)
(***************************************************************************)
Calls == [at : Handlers \cup {"none"}, expired : BOOLEAN,
          snapshot : Statuses \cup {NoStatus}, answer : Answers]

LEMMA CallType ==
    ASSUME Inv, NEW c \in Callers
    PROVE  rpc[c] \in Calls /\ rpc \in [Callers -> Calls] /\ hub \in Statuses /\ CallInv(c)
BY DEF Inv, HubInv, HubTypeOK, ControlInv, ControlTypeOK, Calls

\* Where a caller's handler goes, nobody else is in one.
LEMMA Moved ==
    ASSUME Inv, NEW c \in Callers, NEW r \in Calls, rpc' = [rpc EXCEPT ![c] = r]
    PROVE  /\ rpc' \in [Callers -> Calls] /\ rpc'[c] = r
           /\ \A d \in Callers \ {c} : rpc'[d] = rpc[d]
BY CallType

\* What is left to show of a step in which c alone moves.
LEMMA OneCallMoves ==
    ASSUME Inv, NEW c \in Callers, MaintenanceFree \/ Inside(c),
           \A d \in Callers \ {c} : rpc'[d] = rpc[d],
           ControlTypeOK', CallInv(c)',
           (closed => serve = "stopped")',
           (~Inside(c) /\ ~admitting => before # NoStatus)',
           (completed /\ before # NoStatus => ~admitting \/ doubtful)',
           (~spoke /\ serve = "serving" =>
               /\ before # NoStatus => Content(before) = said /\ Quieted
               /\ ~Inside(c) /\ before = NoStatus => Content(hub) = said
               /\ ExplainedIn(c))'
    PROVE  ControlInv'
<1>1. ASSUME NEW d \in Callers \ {c} PROVE ~Inside(d) /\ rpc'[d] = rpc[d] /\ ~Inside(d)'
  <2>1. ~Inside(d)
    BY <1>1 DEF Inv, ControlInv, OneMaintainer, Inside, MaintenanceFree, Outside
  <2> QED BY <1>1, <2>1 DEF Inside
<1>2. OneMaintainer'
  BY <1>1 DEF OneMaintainer
<1>3. ASSUME NEW d \in Callers PROVE CallInv(d)'
  <2>1. CASE d = c BY <2>1
  <2>2. CASE d # c
    <3>1. rpc'[d] = rpc[d] /\ rpc[d].at \in Outside /\ CallInv(d)
      BY <1>1, <2>2, CallType DEF Inside
    <3> QED BY <3>1 DEF CallInv, Inside, Outside
  <2> QED BY <2>1, <2>2
<1>4. ASSUME NEW d \in Callers, d # c PROVE ExplainedIn(d)'
  BY <1>1, <1>4 DEF ExplainedIn, Inside, Outside
<1>5. MaintenanceFree' <=> ~Inside(c)'
  BY <1>1 DEF MaintenanceFree, Inside, Outside
<1>6. RecordInv'
  BY <1>5 DEF RecordInv, DrainedIsRecorded
<1>7. StatusInv'
  BY <1>4, <1>5 DEF StatusInv
<1> QED BY <1>2, <1>3, <1>6, <1>7 DEF ControlInv

\* A handler that has not taken maintenanceMu, nor takes it, disturbs nothing.
LEMMA OutsiderMoves ==
    ASSUME Inv, NEW c \in Callers, ~Inside(c), ~Inside(c)',
           \A d \in Callers \ {c} : rpc'[d] = rpc[d], rpc' \in [Callers -> Calls],
           rpc'[c].at # "none" => rpc'[c].answer = "none",
           UNCHANGED <<hub, closed, before, completed, serve, admitting, said, spoke, doubtful>>
    PROVE  ControlInv'
<1>1. ControlTypeOK'
  BY DEF Inv, ControlInv, ControlTypeOK, Calls
<1>2. OneMaintainer'
  BY DEF Inv, ControlInv, OneMaintainer, Inside
<1>3. MaintenanceFree' <=> MaintenanceFree
  BY DEF MaintenanceFree, Inside, Outside
<1>4. RecordInv'
  BY <1>3 DEF Inv, ControlInv, RecordInv, DrainedIsRecorded
<1>5. ASSUME NEW d \in Callers PROVE CallInv(d)' /\ (ExplainedIn(d) => ExplainedIn(d)')
  <2>1. CASE d = c
    BY <2>1 DEF CallInv, ExplainedIn, Inside, Outside
  <2>2. CASE d # c
    <3>1. rpc'[d] = rpc[d] /\ CallInv(d)
      BY <2>2, CallType
    <3> QED BY <3>1 DEF CallInv, ExplainedIn, Inside, Quieted
  <2> QED BY <2>1, <2>2
<1>6. StatusInv'
  BY <1>3, <1>5 DEF Inv, ControlInv, StatusInv, Quieted
<1> QED BY <1>1, <1>2, <1>4, <1>5, <1>6 DEF ControlInv

LEMMA CallKeeps ==
    ASSUME Inv, NEW c \in Callers, Call(c, "drain") \/ Call(c, "resume")
    PROVE  ControlInv'
<1>1. PICK at \in {"drain", "resume"} : Call(c, at)
  OBVIOUS
<1> DEFINE r == [NoCall EXCEPT !.at = at]
<1>2. r \in Calls /\ r.at = at /\ r.answer = "none"
  BY DEF NoCall, Calls, Handlers, Answers
<1>3. /\ rpc' \in [Callers -> Calls] /\ rpc'[c] = r
      /\ \A d \in Callers \ {c} : rpc'[d] = rpc[d]
  BY <1>1, <1>2, Moved DEF Call
<1>4. ~Inside(c) /\ ~Inside(c)'
  BY <1>1, <1>2, <1>3 DEF Call, Inside, Outside
<1> QED BY <1>1, <1>2, <1>3, <1>4, OutsiderMoves DEF Call, hubVars

\* An expired call goes on where it was.
LEMMA CallsExpire ==
    ASSUME Inv, rpc' \in [Callers -> Calls],
           \A c \in Callers : /\ rpc'[c].at = rpc[c].at /\ rpc'[c].answer = rpc[c].answer
                              /\ rpc'[c].snapshot = rpc[c].snapshot,
           UNCHANGED <<hub, closed, before, completed, admitting, said, spoke, doubtful>>,
           serve' = serve \/ (serve' = "forced" /\ serve # "stopped")
    PROVE  ControlInv'
<1>1. ControlTypeOK'
  BY DEF Inv, ControlInv, ControlTypeOK, Calls
<1>2. OneMaintainer' /\ (MaintenanceFree' <=> MaintenanceFree)
  BY DEF Inv, ControlInv, OneMaintainer, Inside, MaintenanceFree
<1>3. RecordInv'
  BY <1>2 DEF Inv, ControlInv, RecordInv, DrainedIsRecorded
<1>4. ASSUME NEW d \in Callers PROVE CallInv(d)' /\ (ExplainedIn(d) => ExplainedIn(d)')
  BY CallType DEF CallInv, ExplainedIn, Inside, Quieted
<1>5. StatusInv'
  BY <1>2, <1>4 DEF Inv, ControlInv, StatusInv, Quieted
<1> QED BY <1>1, <1>2, <1>3, <1>4, <1>5 DEF ControlInv

LEMMA ExpireKeeps ==
    ASSUME Inv, NEW c \in Callers, Expire(c)
    PROVE  ControlInv'
<1> DEFINE r == [rpc[c] EXCEPT !.expired = TRUE]
<1>1. r \in Calls /\ r.at = rpc[c].at /\ r.answer = rpc[c].answer /\ r.snapshot = rpc[c].snapshot
  BY CallType DEF Calls
<1>2. rpc' = [rpc EXCEPT ![c] = r]
  BY DEF Expire
<1>3. /\ rpc' \in [Callers -> Calls] /\ rpc'[c] = r
      /\ \A d \in Callers \ {c} : rpc'[d] = rpc[d]
  BY <1>1, <1>2, Moved
<1> QED BY <1>1, <1>3, CallsExpire DEF Expire, hubVars

LEMMA Returned ==
    ASSUME Inv, NEW c \in Callers, NEW answer \in Answers, Return(c, answer)
    PROVE  /\ rpc' \in [Callers -> Calls] /\ \A d \in Callers \ {c} : rpc'[d] = rpc[d]
           /\ rpc'[c].at = "none" /\ rpc'[c].answer = answer
           /\ ~Inside(c)' /\ CallInv(c)' /\ ExplainedIn(c)'
<1> DEFINE r == [NoCall EXCEPT !.answer = answer]
<1>1. r \in Calls /\ r.at = "none" /\ r.answer = answer
  BY DEF NoCall, Calls
<1>2. /\ rpc' \in [Callers -> Calls] /\ rpc'[c] = r
      /\ \A d \in Callers \ {c} : rpc'[d] = rpc[d]
  BY <1>1, Moved DEF Return
<1> QED BY <1>1, <1>2 DEF CallInv, ExplainedIn, Inside, Outside

LEMMA Went ==
    ASSUME Inv, NEW c \in Callers, rpc[c].at # "none", NEW at \in Handlers, Goto(c, at)
    PROVE  /\ rpc' \in [Callers -> Calls] /\ \A d \in Callers \ {c} : rpc'[d] = rpc[d]
           /\ rpc'[c].at = at /\ rpc'[c].answer = "none"
           /\ rpc'[c].snapshot = rpc[c].snapshot
<1> DEFINE r == [rpc[c] EXCEPT !.at = at]
<1>1. /\ r \in Calls /\ r.at = at /\ r.answer = rpc[c].answer /\ r.snapshot = rpc[c].snapshot
      /\ rpc[c].answer = "none"
  BY CallType DEF Calls, CallInv
<1>2. rpc' = [rpc EXCEPT ![c] = r]
  BY DEF Goto
<1> QED BY <1>1, <1>2, Moved

\* What HubUpdate publishes.
LEMMA HubSays ==
    ASSUME HubInv, NEW state \in Health, NEW accepting \in BOOLEAN, HubUpdate(state, accepting)
    PROVE  hub'.state = state /\ hub'.accepting = accepting /\ ~closed /\ closed' = closed
BY DEF HubUpdate, HubInv, HubTypeOK, Statuses

LEMMA DrainBeginsKeeps ==
    ASSUME Inv, NEW c \in Callers, DrainBegins(c)
    PROVE  ControlInv'
<1>1. /\ rpc[c].at = "drain" /\ ~Inside(c) /\ UNCHANGED <<hub, closed>>
      /\ UNCHANGED <<before, completed, serve, admitting, said, spoke, doubtful>>
  BY DEF DrainBegins, Inside, Outside, hubVars
<1>2. CASE DrainRefused(c) \/ DrainAgain(c)
  <2>1. PICK answer \in Answers : Return(c, answer)
    BY <1>2 DEF DrainRefused, DrainAgain, Answers
  <2> QED BY <1>1, <2>1, Returned, OutsiderMoves
<1>3. CASE DrainReadsStatus(c)
  <2> DEFINE r == [rpc[c] EXCEPT !.at = "drain.publish", !.snapshot = hub]
  <2>1. /\ r \in Calls /\ r.at = "drain.publish" /\ r.snapshot = hub /\ r.answer = "none"
        /\ MaintenanceFree /\ before = NoStatus /\ hub \in Statuses
    BY <1>1, <1>3, CallType DEF Calls, CallInv, Handlers, DrainReadsStatus
  <2>2. rpc' = [rpc EXCEPT ![c] = r]
    BY <1>3 DEF DrainReadsStatus
  <2>3. /\ rpc' \in [Callers -> Calls] /\ rpc'[c] = r
        /\ \A d \in Callers \ {c} : rpc'[d] = rpc[d]
    BY <2>1, <2>2, Moved
  <2>4. admitting /\ (closed => serve = "stopped")
    BY <2>1 DEF Inv, ControlInv, RecordInv, DrainedIsRecorded
  <2>5. ~spoke /\ serve = "serving" => Content(hub) = said
    BY <2>1 DEF Inv, ControlInv, StatusInv
  <2>6. ControlTypeOK'
    BY <1>1, <2>3 DEF Inv, ControlInv, ControlTypeOK, Calls
  <2>7. CallInv(c)' /\ Inside(c)'
    BY <1>1, <2>1, <2>3, <2>4 DEF CallInv, Inside, Outside
  <2>8. ~spoke' /\ serve' = "serving" => ExplainedIn(c)'
    BY <1>1, <2>1, <2>3, <2>5 DEF ExplainedIn, Content
  <2> QED BY <1>1, <2>1, <2>3, <2>4, <2>6, <2>7, <2>8, OneCallMoves
<1> QED BY <1>2, <1>3 DEF DrainBegins

LEMMA DrainPublishesKeeps ==
    ASSUME Inv, NEW c \in Callers, DrainPublishes(c)
    PROVE  ControlInv'
<1>1. /\ rpc[c].at = "drain.publish" /\ Inside(c) /\ admitting /\ before = NoStatus
      /\ rpc[c].snapshot \in Statuses /\ (closed => serve = "stopped")
      /\ UNCHANGED <<before, completed, serve, admitting, said, spoke, doubtful>>
  BY CallType DEF DrainPublishes, Inside, Outside, CallInv, Inv, ControlInv, RecordInv
<1>2. ~spoke /\ serve = "serving" => Content(rpc[c].snapshot) = said
  BY <1>1 DEF Inv, ControlInv, StatusInv, ExplainedIn
<1>3. CASE HubUpdate("draining", FALSE) /\ Goto(c, "drain.handler")
  <2>1. /\ rpc' \in [Callers -> Calls] /\ \A d \in Callers \ {c} : rpc'[d] = rpc[d]
        /\ rpc'[c].at = "drain.handler" /\ rpc'[c].answer = "none"
        /\ rpc'[c].snapshot = rpc[c].snapshot
    BY <1>1, <1>3, Went DEF Handlers
  <2>2. hub'.state = "draining" /\ hub'.accepting = FALSE /\ closed' = closed
    BY <1>3, HubSays DEF Inv, Health
  <2>3. ControlTypeOK'
    BY <1>1, <2>1 DEF Inv, ControlInv, ControlTypeOK, Calls
  <2>4. CallInv(c)' /\ Inside(c)'
    BY <1>1, <2>1 DEF CallInv, Inside, Outside
  <2>5. ~spoke' /\ serve' = "serving" => ExplainedIn(c)'
    BY <1>1, <1>2, <2>1, <2>2 DEF ExplainedIn, Content, Quieted
  <2> QED BY <1>1, <2>1, <2>2, <2>3, <2>4, <2>5, OneCallMoves
<1>4. CASE closed /\ UNCHANGED hubVars /\ Return(c, "failed")
  <2>1. /\ rpc' \in [Callers -> Calls] /\ \A d \in Callers \ {c} : rpc'[d] = rpc[d]
        /\ ~Inside(c)' /\ CallInv(c)' /\ ExplainedIn(c)'
    BY <1>4, Returned DEF Answers
  <2>2. ControlTypeOK'
    BY <1>1, <2>1 DEF Inv, ControlInv, ControlTypeOK, Calls
  <2> QED BY <1>1, <1>4, <2>1, <2>2, OneCallMoves DEF hubVars
<1> QED BY <1>3, <1>4 DEF DrainPublishes

LEMMA DrainHandlerKeeps ==
    ASSUME Inv, NEW c \in Callers, DrainHandler(c)
    PROVE  ControlInv'
<1>1. /\ rpc[c].at = "drain.handler" /\ Inside(c) /\ admitting /\ before = NoStatus
      /\ rpc[c].snapshot \in Statuses /\ (closed => serve = "stopped")
      /\ UNCHANGED <<hub, closed, serve, said, spoke>> /\ admitting' \in BOOLEAN
  BY CallType
  DEF DrainHandler, Inside, Outside, CallInv, Inv, ControlInv, RecordInv, hubVars
<1>2. ~spoke /\ serve = "serving" => Content(rpc[c].snapshot) = said /\ Quieted
  BY <1>1 DEF Inv, ControlInv, StatusInv, ExplainedIn
<1>3. CASE Return(c, "drained")
  <2>1. /\ rpc' \in [Callers -> Calls] /\ \A d \in Callers \ {c} : rpc'[d] = rpc[d]
        /\ rpc'[c].at = "none" /\ ~Inside(c)' /\ CallInv(c)' /\ ExplainedIn(c)'
    BY <1>3, Returned DEF Answers
  <2>2. ~admitting' /\ before' = rpc[c].snapshot /\ completed' = TRUE /\ doubtful' = FALSE
    <3>1. CASE Goto(c, "drain.undo")
      BY <1>1, <2>1, <3>1, Went DEF Handlers
    <3> QED BY <3>1, <1>3 DEF DrainHandler
  <2>3. ControlTypeOK'
    BY <1>1, <2>1, <2>2 DEF Inv, ControlInv, ControlTypeOK, Calls
  <2>4. before' # NoStatus
    BY <1>1, <2>2, NoStatusIsNone
  <2>5. ~spoke' /\ serve' = "serving" => Content(before') = said' /\ Quieted'
    BY <1>1, <1>2, <2>2 DEF Quieted, Content
  <2> QED BY <1>1, <2>1, <2>2, <2>3, <2>4, <2>5, OneCallMoves
<1>4. CASE Goto(c, "drain.undo") /\ UNCHANGED <<before, completed, doubtful>>
  <2>1. /\ rpc' \in [Callers -> Calls] /\ \A d \in Callers \ {c} : rpc'[d] = rpc[d]
        /\ rpc'[c].at = "drain.undo" /\ rpc'[c].answer = "none"
        /\ rpc'[c].snapshot = rpc[c].snapshot
    BY <1>1, <1>4, Went DEF Handlers
  <2>2. ControlTypeOK'
    BY <1>1, <1>4, <2>1 DEF Inv, ControlInv, ControlTypeOK, Calls
  <2>3. CallInv(c)' /\ Inside(c)'
    BY <1>1, <1>4, <2>1 DEF CallInv, Inside, Outside
  <2>4. ~spoke' /\ serve' = "serving" => ExplainedIn(c)'
    BY <1>1, <1>2, <2>1 DEF ExplainedIn, Content, Quieted
  <2> QED BY <1>1, <1>4, <2>1, <2>2, <2>3, <2>4, OneCallMoves
<1> QED BY <1>3, <1>4 DEF DrainHandler

LEMMA DrainUndoKeeps ==
    ASSUME Inv, NEW c \in Callers, DrainUndo(c)
    PROVE  ControlInv'
<1>1. /\ rpc[c].at = "drain.undo" /\ Inside(c) /\ before = NoStatus
      /\ rpc[c].snapshot \in Statuses /\ (closed => serve = "stopped")
      /\ UNCHANGED <<hub, closed, before, completed, serve, said, spoke, doubtful>>
      /\ admitting' \in BOOLEAN
  BY CallType
  DEF DrainUndo, Inside, Outside, CallInv, Inv, ControlInv, RecordInv, hubVars
<1>2. ~spoke /\ serve = "serving" => Content(rpc[c].snapshot) = said /\ Quieted
  BY <1>1 DEF Inv, ControlInv, StatusInv, ExplainedIn
<1>3. PICK at \in {"drain.restore", "drain.degraded"} :
         Goto(c, at) /\ (at = "drain.restore" => admitting')
  BY DEF DrainUndo
<1>4. /\ rpc' \in [Callers -> Calls] /\ \A d \in Callers \ {c} : rpc'[d] = rpc[d]
      /\ rpc'[c].at = at /\ rpc'[c].answer = "none"
      /\ rpc'[c].snapshot = rpc[c].snapshot
  BY <1>1, <1>3, Went DEF Handlers
<1>5. ControlTypeOK'
  BY <1>1, <1>4 DEF Inv, ControlInv, ControlTypeOK, Calls
<1>6. CallInv(c)' /\ Inside(c)'
  BY <1>1, <1>3, <1>4 DEF CallInv, Inside, Outside
<1>7. ~spoke' /\ serve' = "serving" => ExplainedIn(c)'
  BY <1>1, <1>2, <1>4 DEF ExplainedIn, Content, Quieted
<1> QED BY <1>1, <1>4, <1>5, <1>6, <1>7, OneCallMoves

\* What the last step of a Drain or a Resume publishes is what it remembered.
LEMMA Restored ==
    ASSUME Inv, NEW c \in Callers, rpc[c].at \in {"drain.restore", "resume.restore"},
           HubUpdate(rpc[c].snapshot.state, rpc[c].snapshot.accepting),
           NEW answer \in Answers, Return(c, answer),
           UNCHANGED <<before, completed, serve, admitting, said, spoke, doubtful>>
    PROVE  ControlInv'
<1>1. /\ Inside(c) /\ before = NoStatus /\ admitting
      /\ rpc[c].snapshot \in Statuses /\ (closed => serve = "stopped")
  BY CallType DEF Inside, Outside, CallInv, Inv, ControlInv, RecordInv
<1>2. ~spoke /\ serve = "serving" => Content(rpc[c].snapshot) = said
  BY <1>1 DEF Inv, ControlInv, StatusInv, ExplainedIn
<1>3. /\ rpc' \in [Callers -> Calls] /\ \A d \in Callers \ {c} : rpc'[d] = rpc[d]
      /\ ~Inside(c)' /\ CallInv(c)' /\ ExplainedIn(c)'
  BY Returned
<1>4. rpc[c].snapshot.state \in Health /\ rpc[c].snapshot.accepting \in BOOLEAN
  BY <1>1 DEF Statuses
<1>5. /\ hub'.state = rpc[c].snapshot.state /\ hub'.accepting = rpc[c].snapshot.accepting
      /\ closed' = closed
  BY <1>4, HubSays DEF Inv
<1>6. Content(hub') = Content(rpc[c].snapshot)
  BY <1>5 DEF Content
<1>7. ControlTypeOK'
  BY <1>1, <1>3 DEF Inv, ControlInv, ControlTypeOK, Calls
<1>8. ~spoke' /\ serve' = "serving" => Content(hub)' = said'
  BY <1>2, <1>6 DEF Content
<1> QED BY <1>1, <1>3, <1>5, <1>7, <1>8, OneCallMoves

LEMMA DrainRestoresKeeps ==
    ASSUME Inv, NEW c \in Callers, DrainRestores(c)
    PROVE  ControlInv'
<1>1. /\ rpc[c].at = "drain.restore" /\ Inside(c) /\ before = NoStatus
      /\ rpc[c].snapshot \in Statuses /\ (closed => serve = "stopped")
      /\ UNCHANGED <<before, completed, serve, admitting, said, spoke, doubtful>>
  BY CallType DEF DrainRestores, Inside, Outside, CallInv, Inv, ControlInv, RecordInv
<1>2. CASE /\ HubUpdate(rpc[c].snapshot.state, rpc[c].snapshot.accepting)
           /\ Return(c, "failed")
  BY <1>1, <1>2, Restored DEF Answers
<1>3. CASE closed /\ UNCHANGED hubVars /\ Goto(c, "drain.degraded")
  <2>1. /\ rpc' \in [Callers -> Calls] /\ \A d \in Callers \ {c} : rpc'[d] = rpc[d]
        /\ rpc'[c].at = "drain.degraded" /\ rpc'[c].answer = "none"
        /\ rpc'[c].snapshot = rpc[c].snapshot
    BY <1>1, <1>3, Went DEF Handlers
  <2>2. ControlTypeOK'
    BY <1>1, <2>1 DEF Inv, ControlInv, ControlTypeOK, Calls
  <2>3. CallInv(c)' /\ Inside(c)'
    BY <1>1, <2>1 DEF CallInv, Inside, Outside
  <2> QED BY <1>1, <1>3, <2>1, <2>2, <2>3, OneCallMoves DEF hubVars
<1> QED BY <1>2, <1>3 DEF DrainRestores

LEMMA DrainDegradesKeeps ==
    ASSUME Inv, NEW c \in Callers, DrainDegrades(c)
    PROVE  ControlInv'
<1>1. /\ rpc[c].at = "drain.degraded" /\ Inside(c)
      /\ rpc[c].snapshot \in Statuses /\ (closed => serve = "stopped")
      /\ before' = rpc[c].snapshot /\ completed' = FALSE
      /\ UNCHANGED <<serve, admitting, said, spoke, doubtful>>
  BY CallType DEF DrainDegrades, Inside, Outside, CallInv, Inv, ControlInv, RecordInv
<1>2. ~spoke /\ serve = "serving" => Content(rpc[c].snapshot) = said
  BY <1>1 DEF Inv, ControlInv, StatusInv, ExplainedIn
<1>3. /\ rpc' \in [Callers -> Calls] /\ \A d \in Callers \ {c} : rpc'[d] = rpc[d]
      /\ ~Inside(c)' /\ CallInv(c)' /\ ExplainedIn(c)'
  BY Returned DEF DrainDegrades, Answers
<1>4. /\ closed' = closed
      /\ ~closed => hub'.state = "degraded" /\ hub'.accepting = FALSE
  BY HubSays DEF DrainDegrades, hubVars, Inv, Health
<1>5. ControlTypeOK'
  BY <1>1, <1>3 DEF Inv, ControlInv, ControlTypeOK, Calls
<1>6. before' # NoStatus
  BY <1>1, NoStatusIsNone
<1>7. ~spoke' /\ serve' = "serving" => Content(before') = said' /\ Quieted'
  BY <1>1, <1>2, <1>4 DEF Quieted, Content
<1> QED BY <1>1, <1>3, <1>4, <1>5, <1>6, <1>7, OneCallMoves

LEMMA ResumeBeginsKeeps ==
    ASSUME Inv, NEW c \in Callers, ResumeBegins(c)
    PROVE  ControlInv'
<1>1. /\ rpc[c].at = "resume" /\ ~Inside(c) /\ UNCHANGED <<hub, closed>>
      /\ UNCHANGED <<before, completed, serve, admitting, said, spoke, doubtful>>
      /\ (closed => serve = "stopped") /\ (completed /\ before # NoStatus => ~admitting \/ doubtful)
  BY DEF ResumeBegins, Inside, Outside, hubVars, Inv, ControlInv, RecordInv
<1>2. CASE Return(c, "failed") \/ Return(c, "resumed")
  <2>1. PICK answer \in Answers : Return(c, answer)
    BY <1>2 DEF Answers
  <2> QED BY <1>1, <2>1, Returned, OutsiderMoves
<1>3. CASE MaintenanceFree /\ before # NoStatus /\ Goto(c, "resume.handler")
  <2>1. /\ rpc' \in [Callers -> Calls] /\ \A d \in Callers \ {c} : rpc'[d] = rpc[d]
        /\ rpc'[c].at = "resume.handler" /\ rpc'[c].answer = "none"
    BY <1>1, <1>3, Went DEF Handlers
  <2>2. ControlTypeOK'
    BY <1>1, <2>1 DEF Inv, ControlInv, ControlTypeOK, Calls
  <2>3. CallInv(c)' /\ Inside(c)'
    BY <1>1, <1>3, <2>1 DEF CallInv, Inside, Outside
  <2>4. ~spoke' /\ serve' = "serving" => Content(before') = said' /\ Quieted'
    BY <1>1, <1>3 DEF Inv, ControlInv, StatusInv, Quieted, Content
  <2>5. ExplainedIn(c)'
    BY <2>1 DEF ExplainedIn
  <2> QED BY <1>1, <1>3, <2>1, <2>2, <2>3, <2>4, <2>5, OneCallMoves
<1> QED BY <1>2, <1>3 DEF ResumeBegins

LEMMA ResumeHandlerKeeps ==
    ASSUME Inv, NEW c \in Callers, ResumeHandler(c)
    PROVE  ControlInv'
<1>1. /\ rpc[c].at = "resume.handler" /\ Inside(c) /\ before # NoStatus /\ before \in Statuses
      /\ (closed => serve = "stopped") /\ rpc[c].answer = "none"
      /\ UNCHANGED <<hub, closed, serve, said, spoke>> /\ admitting' \in BOOLEAN
  BY CallType
  DEF ResumeHandler, Inside, Outside, CallInv, Inv, ControlInv, ControlTypeOK, RecordInv, hubVars
<1>2. ~spoke /\ serve = "serving" => Content(before) = said /\ Quieted
  BY <1>1 DEF Inv, ControlInv, StatusInv
<1> DEFINE r == [rpc[c] EXCEPT !.at = "resume.restore", !.snapshot = before]
<1>3. CASE /\ rpc' = [rpc EXCEPT ![c].at = "resume.restore", ![c].snapshot = before]
           /\ admitting' = TRUE /\ before' = NoStatus /\ completed' = FALSE /\ UNCHANGED doubtful
  <2>1. r \in Calls /\ r.at = "resume.restore" /\ r.snapshot = before /\ r.answer = "none"
    BY <1>1, CallType DEF Calls, Handlers
  <2>2. rpc' = [rpc EXCEPT ![c] = r]
    BY <1>3
  <2>3. /\ rpc' \in [Callers -> Calls] /\ rpc'[c] = r
        /\ \A d \in Callers \ {c} : rpc'[d] = rpc[d]
    BY <2>1, <2>2, Moved
  <2>4. ControlTypeOK'
    BY <1>1, <1>3, <2>3 DEF Inv, ControlInv, ControlTypeOK, Calls
  <2>5. CallInv(c)' /\ Inside(c)'
    BY <1>1, <1>3, <2>1, <2>3 DEF CallInv, Inside, Outside
  <2>6. ~spoke' /\ serve' = "serving" => ExplainedIn(c)'
    BY <1>1, <1>2, <2>1, <2>3 DEF ExplainedIn, Content
  <2> QED BY <1>1, <1>3, <2>3, <2>4, <2>5, <2>6, OneCallMoves
<1>4. CASE doubtful' = TRUE /\ Return(c, "failed") /\ UNCHANGED <<before, completed>>
  <2>1. /\ rpc' \in [Callers -> Calls] /\ \A d \in Callers \ {c} : rpc'[d] = rpc[d]
        /\ ~Inside(c)' /\ CallInv(c)' /\ ExplainedIn(c)'
    BY <1>4, Returned DEF Answers
  <2>2. ControlTypeOK'
    BY <1>1, <1>4, <2>1 DEF Inv, ControlInv, ControlTypeOK, Calls
  <2>3. ~spoke' /\ serve' = "serving" => Content(before') = said' /\ Quieted'
    BY <1>1, <1>2, <1>4 DEF Quieted, Content
  <2> QED BY <1>1, <1>4, <2>1, <2>2, <2>3, OneCallMoves
<1> QED BY <1>3, <1>4 DEF ResumeHandler

LEMMA ResumeRestoresKeeps ==
    ASSUME Inv, NEW c \in Callers, ResumeRestores(c)
    PROVE  ControlInv'
<1>1. /\ rpc[c].at = "resume.restore" /\ Inside(c) /\ before = NoStatus /\ admitting
      /\ (closed => serve = "stopped")
      /\ UNCHANGED <<before, completed, serve, admitting, said, spoke, doubtful>>
  BY CallType DEF ResumeRestores, Inside, Outside, CallInv, Inv, ControlInv, RecordInv
<1>2. CASE /\ HubUpdate(rpc[c].snapshot.state, rpc[c].snapshot.accepting)
           /\ Return(c, "resumed")
  BY <1>1, <1>2, Restored DEF Answers
<1>3. CASE closed /\ UNCHANGED hubVars /\ Return(c, "failed")
  <2>1. /\ rpc' \in [Callers -> Calls] /\ \A d \in Callers \ {c} : rpc'[d] = rpc[d]
        /\ ~Inside(c)' /\ CallInv(c)' /\ ExplainedIn(c)'
    BY <1>3, Returned DEF Answers
  <2>2. ControlTypeOK'
    BY <1>1, <2>1 DEF Inv, ControlInv, ControlTypeOK, Calls
  <2> QED BY <1>1, <1>3, <2>1, <2>2, OneCallMoves DEF hubVars
<1> QED BY <1>2, <1>3 DEF ResumeRestores

-----------------------------------------------------------------------------
(***************************************************************************)
(* The application, shutdown, restart and the watches keep them too.       *)
(***************************************************************************)
\* A step of the hub that no handler takes.
LEMMA HubAloneMoves ==
    ASSUME Inv, UNCHANGED <<rpc, before, completed, admitting, said, spoke, doubtful>>,
           serve' \in {"serving", "stopping", "forced", "stopped"},
           (closed => serve = "stopped")',
           serve' = "serving" => serve = "serving" /\ UNCHANGED hub
    PROVE  ControlInv'
<1>1. ControlTypeOK'
  BY DEF Inv, ControlInv, ControlTypeOK
<1>2. OneMaintainer' /\ (MaintenanceFree' <=> MaintenanceFree)
  BY DEF Inv, ControlInv, OneMaintainer, Inside, MaintenanceFree
<1>3. RecordInv'
  BY <1>2 DEF Inv, ControlInv, RecordInv, DrainedIsRecorded
<1>4. ASSUME NEW d \in Callers PROVE CallInv(d)'
  BY CallType DEF CallInv, Inside
<1>5. StatusInv'
  BY <1>2 DEF Inv, ControlInv, StatusInv, ExplainedIn, Quieted, Content
<1> QED BY <1>1, <1>2, <1>3, <1>4, <1>5 DEF ControlInv

LEMMA UpdateStatusKeeps ==
    ASSUME Inv, NEW s \in AppStatuses, UpdateStatus(s)
    PROVE  ControlInv'
<1>1. /\ UNCHANGED <<rpc, before, completed, serve, admitting, doubtful>>
      /\ said' = s /\ spoke' \in BOOLEAN
      /\ ~spoke' => MaintenanceFree /\ before = NoStatus
  BY DEF UpdateStatus
<1>2. s \in [state : Health, accepting : BOOLEAN]
  BY AppAssumption
<1>3. hub'.state = s.state /\ hub'.accepting = s.accepting /\ closed' = closed /\ ~closed
  BY <1>2, HubSays DEF UpdateStatus, Inv
<1>4. Content(hub)' = s
  <2>1. s = [state |-> s.state, accepting |-> s.accepting]
    BY <1>2
  <2> QED BY <1>3, <2>1 DEF Content
<1>5. ControlTypeOK'
  BY <1>1, <1>2 DEF Inv, ControlInv, ControlTypeOK
<1>6. OneMaintainer' /\ (MaintenanceFree' <=> MaintenanceFree)
  BY <1>1 DEF Inv, ControlInv, OneMaintainer, Inside, MaintenanceFree
<1>7. RecordInv'
  BY <1>1, <1>3, <1>6 DEF Inv, ControlInv, RecordInv, DrainedIsRecorded
<1>8. ASSUME NEW d \in Callers PROVE CallInv(d)' /\ (MaintenanceFree => ExplainedIn(d)')
  BY <1>1, CallType DEF CallInv, Inside, ExplainedIn, MaintenanceFree
<1>9. StatusInv'
  BY <1>1, <1>4, <1>8 DEF StatusInv
<1> QED BY <1>5, <1>6, <1>7, <1>8, <1>9 DEF ControlInv

\* A new process knows of no call and no maintenance.
LEMMA FreshIsSafe ==
    ASSUME hub.state = "starting", hub.accepting = FALSE, said = Content(hub), closed = FALSE,
           rpc = [c \in Callers |-> NoCall], before = NoStatus, completed = FALSE,
           serve = "serving", admitting = TRUE, spoke = FALSE, doubtful = FALSE
    PROVE  ControlInv
<1>1. NoCall \in Calls /\ NoCall.at = "none" /\ "starting" \in Health
  BY DEF NoCall, Calls, Answers, Health
<1>2. \A c \in Callers : rpc[c].at = "none" /\ rpc[c].answer = "none"
  BY DEF NoCall
<1>3. ControlTypeOK
  BY <1>1 DEF ControlTypeOK, Calls, Content
<1>4. OneMaintainer /\ \A c \in Callers : CallInv(c) /\ ExplainedIn(c)
  BY <1>2 DEF OneMaintainer, Inside, Outside, CallInv, ExplainedIn
<1>5. RecordInv /\ StatusInv
  BY <1>4 DEF RecordInv, DrainedIsRecorded, StatusInv
<1> QED BY <1>3, <1>4, <1>5 DEF ControlInv

LEMMA RestartKeeps ==
    ASSUME Restart
    PROVE  ControlInv'
<1>1. /\ hub'.state = "starting" /\ hub'.accepting = FALSE /\ closed' = FALSE
      /\ rpc' = [c \in Callers |-> NoCall] /\ before' = NoStatus /\ completed' = FALSE
      /\ serve' = "serving" /\ admitting' = TRUE /\ spoke' = FALSE /\ doubtful' = FALSE
      /\ said' = Content(hub')
  BY DEF Restart, FirstStatus, Content
<1>2. (/\ hub.state = "starting" /\ hub.accepting = FALSE /\ said = Content(hub)
       /\ closed = FALSE /\ rpc = [c \in Callers |-> NoCall] /\ before = NoStatus
       /\ completed = FALSE /\ serve = "serving" /\ admitting = TRUE /\ spoke = FALSE
       /\ doubtful = FALSE)'
  BY <1>1 DEF Content
<1>3. (/\ hub.state = "starting" /\ hub.accepting = FALSE /\ said = Content(hub)
       /\ closed = FALSE /\ rpc = [c \in Callers |-> NoCall] /\ before = NoStatus
       /\ completed = FALSE /\ serve = "serving" /\ admitting = TRUE /\ spoke = FALSE
       /\ doubtful = FALSE)' => ControlInv'
  BY FreshIsSafe, PTL
<1> QED BY <1>2, <1>3

LEMMA ServeKeeps ==
    ASSUME Inv, ShutdownBegins \/ ShutdownIsGraceful \/ ShutdownIsForced \/ ShutdownCloses
    PROVE  ControlInv'
<1>1. closed => serve = "stopped"
  BY DEF Inv, ControlInv, RecordInv
<1>2. CASE ShutdownBegins
  <2>1. closed' = closed /\ ~closed
    BY <1>2, HubSays DEF ShutdownBegins, Inv, Health
  <2> QED BY <1>2, <2>1, HubAloneMoves DEF ShutdownBegins
<1>3. CASE ShutdownIsGraceful \/ ShutdownCloses
  BY <1>3, HubAloneMoves DEF ShutdownIsGraceful, ShutdownCloses, HubClose
<1>4. CASE ShutdownIsForced
  <2>1. ASSUME NEW c \in Callers
        PROVE  /\ rpc'[c] \in Calls /\ rpc'[c].at = rpc[c].at
               /\ rpc'[c].answer = rpc[c].answer /\ rpc'[c].snapshot = rpc[c].snapshot
    <3>1. rpc'[c] = rpc[c] \/ rpc'[c] = [rpc[c] EXCEPT !.expired = TRUE]
      BY <1>4 DEF ShutdownIsForced
    <3> QED BY <3>1, CallType DEF Calls
  <2>2. rpc' \in [Callers -> Calls]
    BY <1>4, <2>1 DEF ShutdownIsForced
  <2> QED BY <1>4, <2>1, <2>2, CallsExpire DEF ShutdownIsForced, hubVars
<1> QED BY <1>2, <1>3, <1>4

LEMMA WatchNextKeepsControl ==
    ASSUME Inv, NEW c \in Clients, WatchNext(c)
    PROVE  ControlInv'
<1>1. UNCHANGED <<hub, closed>> /\ UNCHANGED controlVars
  BY DEF WatchNext, Subscribe, ReadStatus, TakeUpdate, Deliver, EndDropped, EndBroken
<1>2. serve \in {"serving", "stopping", "forced", "stopped"} /\ (closed => serve = "stopped")
  BY DEF Inv, ControlInv, ControlTypeOK, RecordInv
<1> QED BY <1>1, <1>2, HubAloneMoves DEF controlVars

LEMMA ControlKeeps ==
    ASSUME Inv, [Next]_vars
    PROVE  ControlInv'
<1>1. CASE \E c \in Callers : HandlerNext(c)
  BY <1>1, DrainBeginsKeeps, DrainPublishesKeeps, DrainHandlerKeeps, DrainUndoKeeps,
     DrainRestoresKeeps, DrainDegradesKeeps, ResumeBeginsKeeps, ResumeHandlerKeeps,
     ResumeRestoresKeeps
  DEF HandlerNext
<1>2. CASE UNCHANGED vars
  <2>1. serve \in {"serving", "stopping", "forced", "stopped"} /\ (closed => serve = "stopped")
    BY DEF Inv, ControlInv, ControlTypeOK, RecordInv
  <2> QED BY <1>2, <2>1, HubAloneMoves DEF vars, hubVars, controlVars
<1> QED
  BY <1>1, <1>2, CallKeeps, ExpireKeeps, WatchNextKeepsControl, UpdateStatusKeeps, ServeKeeps,
     RestartKeeps DEF Next

-----------------------------------------------------------------------------
(***************************************************************************)
(* The invariant, and what follows from it.                                *)
(***************************************************************************)
LEMMA InvStarts == Init => Inv
<1> SUFFICES ASSUME Init PROVE Inv
  OBVIOUS
<1>1. hub = FirstStatus(1) /\ hub \in Statuses /\ closed = FALSE
  BY BoundsAssumption DEF Init, HubInit, FirstStatus, Statuses, Health
<1>2. NoWatch \in Watches
  BY DEF NoWatch, Watches, Updates
<1>3. HubTypeOK
  BY <1>1, <1>2, HubType DEF Init, HubInit
<1>4. ASSUME NEW c \in Clients PROVE WatchInv(c)
  <2>1. watch[c] = NoWatch /\ view[c] = NoStatus
    BY DEF Init, HubInit
  <2>2. Reaches(NoStatus, hub)
    BY <1>1 DEF Statuses, NoStatus, Reaches
  <2> QED BY <2>1, <2>2 DEF WatchInv, NoWatch, NoUpdate, Known
<1>5. ControlInv
  BY <1>1, FreshIsSafe DEF Init, Fresh, FirstStatus
<1> QED BY <1>3, <1>4, <1>5 DEF Inv, HubInv

LEMMA InvKeeps == Inv /\ [Next]_vars => Inv'
BY ControlKeeps, HubKeeps, StepsMoveHub DEF Inv

LEMMA InvHolds == Spec => []Inv
BY InvStarts, InvKeeps, PTL DEF Spec

\* A cursor and the updates under way lead to the current status, for a client on a
\* watch as for one that comes back (statusHub.subscribe, update).
THEOREM WatchesServe == Spec => []WatchersAreServed
<1>1. Inv => WatchersAreServed
  <2> SUFFICES ASSUME Inv PROVE WatchersAreServed
    OBVIOUS
  <2>1. WatchersAreOwedTheCurrentStatus
    BY DEF Inv, HubInv, WatchInv, WatchersAreOwedTheCurrentStatus, Subscribed
  <2>2. ASSUME NEW c \in Clients, view[c].epoch = hub.epoch, view[c].rev = hub.rev
        PROVE  view[c] = hub
    <3>1. Known(view[c]) /\ hub \in Statuses
      BY HubType DEF Inv, HubInv, WatchInv
    <3> QED BY <2>2, <3>1 DEF Known, Reaches, Statuses
  <2> QED BY <2>1, <2>2 DEF WatchersAreServed, CursorIdentifiesStatus
<1> QED BY <1>1, InvHolds, PTL

\* What a client receives on a watch follows what it had, or is marked as a Reset
\* (statusHub.update, WatchStatus).
THEOREM WatchesHaveNoGap == Spec => NoSilentGap
<1>1. ASSUME Inv, NEW c \in Clients, Deliver(c)
      PROVE  \/ watch[c].sending.reset
             \/ view'[c].epoch = view[c].epoch /\ view'[c].rev = view[c].rev + 1
  <2>1. WatchInv(c) /\ view'[c] = watch[c].sending.status /\ watch[c].sending # NoUpdate
    BY <1>1, HubType DEF Inv, HubInv, Deliver
  <2> QED BY <2>1 DEF WatchInv, Follows
<1>2. Inv => [\A c \in Clients :
                 Deliver(c) =>
                    \/ watch[c].sending.reset
                    \/ view'[c].epoch = view[c].epoch /\ view'[c].rev = view[c].rev + 1]_hubVars
  BY <1>1
<1> QED BY <1>2, InvHolds, PTL DEF NoSilentGap

\* Between maintenance calls the server's records are true: what Resume has to bring
\* back, and why the published status is what it is (maintenanceMu).
THEOREM MaintenanceRecords == Spec => []MaintenanceIsRecorded
<1>1. Inv => MaintenanceIsRecorded
  <2> SUFFICES ASSUME Inv PROVE MaintenanceIsRecorded
    OBVIOUS
  <2>1. TypeOK
    BY DEF Inv, HubInv, ControlInv, ControlTypeOK, TypeOK
  <2>2. DrainedIsRecorded
    BY DEF Inv, ControlInv, RecordInv
  <2>3. StatusIsExplained
    BY DEF Inv, ControlInv, StatusInv, StatusIsExplained, Quieted
  <2> QED BY <2>1, <2>2, <2>3 DEF MaintenanceIsRecorded
<1> QED BY <1>1, InvHolds, PTL

-----------------------------------------------------------------------------
(***************************************************************************)
(* The answers of Drain, and the contract the lifecycle commands rely on.  *)
(***************************************************************************)
\* Only the handler's own success, or an earlier one on record, answers a Drain.
AnswerOf(c) == rpc[c].at # "none" /\ rpc'[c].answer = "drained" => ~admitting' \/ doubtful

LEMMA HandlersAnswer ==
    ASSUME Inv, NEW c \in Callers, HandlerNext(c)
    PROVE  AnswerOf(c) /\ \A d \in Callers \ {c} : rpc'[d] = rpc[d]
<1>1. rpc[c].at # "none" /\ CallInv(c)
  BY CallType
  DEF HandlerNext, DrainBegins, DrainPublishes, DrainHandler, DrainUndo, DrainRestores,
      DrainDegrades, ResumeBegins, ResumeHandler, ResumeRestores
<1>2. ASSUME NEW at \in Handlers, Goto(c, at)
      PROVE  AnswerOf(c) /\ \A d \in Callers \ {c} : rpc'[d] = rpc[d]
  BY <1>1, <1>2, Went DEF AnswerOf
<1>3. ASSUME Return(c, "failed") \/ Return(c, "resumed")
      PROVE  AnswerOf(c) /\ \A d \in Callers \ {c} : rpc'[d] = rpc[d]
  <2>1. PICK answer \in {"failed", "resumed"} : Return(c, answer)
    BY <1>3
  <2>2. answer \in Answers
    BY DEF Answers
  <2> QED BY <2>1, <2>2, Returned DEF AnswerOf
<1>4. ASSUME Return(c, "drained"), ~admitting' \/ doubtful
      PROVE  AnswerOf(c) /\ \A d \in Callers \ {c} : rpc'[d] = rpc[d]
  BY <1>4, Returned DEF AnswerOf, Answers
<1>5. CASE DrainBegins(c)
  <2>1. CASE DrainRefused(c)
    BY <1>3, <2>1 DEF DrainRefused
  <2>2. CASE DrainAgain(c)
    <3>1. before # NoStatus /\ completed /\ Return(c, "drained")
      BY <2>2 DEF DrainAgain
    <3>2. (~admitting \/ doubtful) /\ UNCHANGED admitting
      BY <1>5, <3>1 DEF DrainBegins, Inv, ControlInv, RecordInv
    <3> QED BY <1>4, <3>1, <3>2
  <2>3. CASE DrainReadsStatus(c)
    <3> DEFINE r == [rpc[c] EXCEPT !.at = "drain.publish", !.snapshot = hub]
    <3>1. r \in Calls /\ r.answer = "none" /\ rpc' = [rpc EXCEPT ![c] = r]
      BY <1>1, <2>3, CallType DEF DrainReadsStatus, Calls, Handlers, CallInv
    <3>2. rpc'[c] = r /\ \A d \in Callers \ {c} : rpc'[d] = rpc[d]
      BY <3>1, Moved
    <3> QED BY <3>1, <3>2 DEF AnswerOf
  <2> QED BY <1>5, <2>1, <2>2, <2>3 DEF DrainBegins
<1>6. CASE DrainHandler(c)
  BY <1>2, <1>4, <1>6 DEF DrainHandler, Handlers
<1>7. CASE DrainPublishes(c) \/ DrainUndo(c) \/ DrainRestores(c) \/ DrainDegrades(c)
  BY <1>2, <1>3, <1>7 DEF DrainPublishes, DrainUndo, DrainRestores, DrainDegrades, Handlers
<1>8. CASE ResumeBegins(c) \/ ResumeRestores(c)
  BY <1>2, <1>3, <1>8 DEF ResumeBegins, ResumeRestores, Handlers
<1>9. CASE ResumeHandler(c)
  <2>1. CASE Return(c, "failed")
    BY <1>3, <2>1
  <2>2. CASE rpc' = [rpc EXCEPT ![c].at = "resume.restore", ![c].snapshot = before]
    <3> DEFINE r == [rpc[c] EXCEPT !.at = "resume.restore", !.snapshot = before]
    <3>1. r \in Calls /\ r.answer = "none" /\ rpc' = [rpc EXCEPT ![c] = r]
      BY <1>1, <2>2, CallType DEF Calls, Handlers, CallInv, Inv, ControlInv, ControlTypeOK
    <3>2. rpc'[c] = r /\ \A d \in Callers \ {c} : rpc'[d] = rpc[d]
      BY <3>1, Moved
    <3> QED BY <3>1, <3>2 DEF AnswerOf
  <2> QED BY <1>9, <2>1, <2>2 DEF ResumeHandler
<1> QED BY <1>5, <1>6, <1>7, <1>8, <1>9 DEF HandlerNext

LEMMA AnswersStay ==
    ASSUME Inv, NEW d \in Callers, rpc'[d].answer = rpc[d].answer
    PROVE  AnswerOf(d)
BY CallType DEF AnswerOf, CallInv

\* A Drain is answered with success only when the application has stopped admitting
\* work, unless an earlier Resume of it failed half way (Server.Drain, drainCompleted).
THEOREM DrainAnswers == Spec => DrainAnswerIsTrue
<1>1. ASSUME Inv, Next PROVE \A d \in Callers : AnswerOf(d)
  <2>1. CASE \E c \in Callers : HandlerNext(c)
    <3>1. PICK c \in Callers : HandlerNext(c)
      BY <2>1
    <3> QED BY <1>1, <3>1, HandlersAnswer, AnswersStay
  <2>2. CASE \E c \in Callers : Call(c, "drain") \/ Call(c, "resume")
    <3>1. PICK c \in Callers, at \in {"drain", "resume"} : Call(c, at)
      BY <2>2
    <3>2. \A d \in Callers \ {c} : rpc'[d] = rpc[d]
      BY <1>1, <3>1, CallType DEF Call
    <3>3. rpc[c].at = "none"
      BY <3>1 DEF Call
    <3> QED BY <1>1, <3>2, <3>3, AnswersStay DEF AnswerOf
  <2>3. CASE \E c \in Callers : Expire(c)
    <3>1. \A d \in Callers : rpc'[d].answer = rpc[d].answer
      BY <1>1, <2>3, CallType DEF Expire, Calls
    <3> QED BY <1>1, <3>1, AnswersStay
  <2>4. CASE ShutdownIsForced
    <3>1. \A d \in Callers : rpc'[d].answer = rpc[d].answer
      BY <1>1, <2>4, CallType DEF ShutdownIsForced, Calls
    <3> QED BY <1>1, <3>1, AnswersStay
  <2>5. CASE Restart
    BY <2>5 DEF Restart, AnswerOf, NoCall
  <2>6. CASE UNCHANGED rpc
    BY <1>1, <2>6, AnswersStay
  <2> QED
    BY <1>1, <2>1, <2>2, <2>3, <2>4, <2>5, <2>6
    DEF Next, WatchNext, controlVars, UpdateStatus, ShutdownBegins, ShutdownIsGraceful,
        ShutdownCloses
<1>2. Inv /\ [Next]_vars =>
         [\A c \in Callers :
             rpc[c].at # "none" /\ rpc'[c].answer = "drained" => ~admitting' \/ doubtful]_vars
  BY <1>1 DEF AnswerOf
<1> QED BY <1>2, InvHolds, PTL DEF Spec, DrainAnswerIsTrue

Drains == {"drain.publish", "drain.handler", "drain.undo", "drain.restore", "drain.degraded"}

\* The mode, as the only handler that can be in maintenance sees it.
ModeAt(c) ==
    IF rpc[c].at \in Drains THEN "draining"
    ELSE IF before = NoStatus THEN "open" ELSE IF completed THEN "drained" ELSE "stuck"

Answered == Contract!Next \/ (DrainMode' = DrainMode /\ admitting' = admitting)

\* The mode changes where one handler does, or stays where they all stay.
LEMMA ModeOfOne ==
    ASSUME Inv, NEW c \in Callers, MaintenanceFree \/ Inside(c),
           \A d \in Callers \ {c} : rpc'[d] = rpc[d]
    PROVE  DrainMode = ModeAt(c) /\ DrainMode' = ModeAt(c)'
<1>1. ASSUME NEW d \in Callers \ {c} PROVE rpc[d].at \notin Drains /\ rpc'[d].at \notin Drains
  BY <1>1 DEF Inv, ControlInv, OneMaintainer, Inside, MaintenanceFree, Outside, Drains
<1>2. /\ (\E d \in Callers : rpc[d].at \in Drains) <=> rpc[c].at \in Drains
      /\ (\E d \in Callers : rpc'[d].at \in Drains) <=> rpc'[c].at \in Drains
  BY <1>1
<1>3. DrainMode = ModeAt(c)
  BY <1>2 DEF DrainMode, ModeAt, Drains
<1>4. DrainMode' = ModeAt(c)'
  BY <1>2 DEF DrainMode, ModeAt, Drains
<1> QED BY <1>3, <1>4

LEMMA ModeStays ==
    ASSUME UNCHANGED <<before, completed, admitting>>,
           \A d \in Callers : rpc'[d].at \in Drains <=> rpc[d].at \in Drains
    PROVE  Answered
BY DEF Answered, DrainMode, Drains

LEMMA DrainImplements ==
    ASSUME Inv, NEW c \in Callers,
           \/ DrainBegins(c) \/ DrainPublishes(c) \/ DrainHandler(c) \/ DrainUndo(c)
           \/ DrainRestores(c) \/ DrainDegrades(c)
    PROVE  Answered
<1>1. CallInv(c) /\ (DrainBegins(c) \/ Inside(c)) /\ \A d \in Callers \ {c} : rpc'[d] = rpc[d]
  BY CallType, HandlersAnswer
  DEF HandlerNext, DrainPublishes, DrainHandler, DrainUndo, DrainRestores, DrainDegrades,
      Inside, Outside
<1>2. CASE DrainBegins(c)
  <2>1. CASE DrainRefused(c) \/ DrainAgain(c)
    <3>1. PICK answer \in Answers : Return(c, answer)
      BY <2>1 DEF DrainRefused, DrainAgain, Answers
    <3> QED BY <1>1, <1>2, <3>1, Returned, ModeStays DEF DrainBegins, Drains
  <2>2. CASE DrainReadsStatus(c)
    <3> DEFINE r == [rpc[c] EXCEPT !.at = "drain.publish", !.snapshot = hub]
    <3>1. r \in Calls /\ r.at = "drain.publish" /\ rpc' = [rpc EXCEPT ![c] = r]
      BY <2>2, CallType DEF DrainReadsStatus, Calls, Handlers
    <3>2. rpc'[c] = r
      BY <3>1, Moved
    <3>3. ModeAt(c) = "open" /\ ModeAt(c)' = "draining" /\ UNCHANGED admitting
      BY <1>2, <2>2, <3>1, <3>2 DEF DrainBegins, DrainReadsStatus, ModeAt, Drains
    <3>4. DrainMode = "open" /\ DrainMode' = "draining"
      BY <1>1, <2>2, <3>3, ModeOfOne DEF DrainReadsStatus
    <3> QED BY <3>3, <3>4 DEF Answered, Contract!Next, Contract!BeginDrain
  <2> QED BY <1>2, <2>1, <2>2 DEF DrainBegins
<1>3. CASE ~DrainBegins(c)
  <2>1. DrainMode = ModeAt(c) /\ DrainMode' = ModeAt(c)'
    BY <1>1, <1>3, ModeOfOne
  <2>2. rpc[c].at \in Drains /\ DrainMode = "draining" /\ before = NoStatus
        /\ rpc[c].snapshot # NoStatus
    BY <1>1, <1>3, <2>1, NoStatusIsNone
    DEF DrainPublishes, DrainHandler, DrainUndo, DrainRestores, DrainDegrades, Drains, ModeAt,
        CallInv
  <2>3. ASSUME NEW at \in Drains, Goto(c, at) PROVE DrainMode' = "draining"
    BY <2>1, <2>2, <2>3, Went DEF Drains, Handlers, ModeAt
  <2>4. ASSUME NEW answer \in Answers, Return(c, answer) PROVE rpc'[c].at \notin Drains
    BY <2>4, Returned DEF Drains
  <2>5. CASE DrainPublishes(c)
    <3>1. CASE Goto(c, "drain.handler")
      BY <2>2, <2>3, <2>5, <3>1 DEF Answered, DrainPublishes, Drains
    <3>2. CASE Return(c, "failed")
      <4>1. DrainMode' = "open" /\ admitting /\ admitting' = TRUE
        BY <1>1, <2>1, <2>2, <2>4, <2>5, <3>2
        DEF DrainPublishes, ModeAt, Answers, CallInv, Inv, ControlInv, ControlTypeOK
      <4> QED BY <2>2, <4>1 DEF Answered, Contract!Next, Contract!DrainUndone
    <3> QED BY <2>5, <3>1, <3>2 DEF DrainPublishes
  <2>6. CASE DrainHandler(c)
    <3>1. CASE Goto(c, "drain.undo")
      <4>1. DrainMode' = "draining" /\ admitting' \in BOOLEAN
        BY <2>3, <2>6, <3>1 DEF DrainHandler, Drains
      <4> QED BY <2>2, <4>1 DEF Answered, Contract!Next, Contract!Quiesce
    <3>2. CASE ~Goto(c, "drain.undo")
      <4>1. /\ Return(c, "drained") /\ before' = rpc[c].snapshot /\ completed' = TRUE
            /\ admitting' = FALSE
        BY <2>6, <3>2 DEF DrainHandler
      <4>2. DrainMode' = "drained"
        BY <2>1, <2>2, <2>4, <4>1 DEF ModeAt, Answers
      <4> QED BY <2>2, <4>1, <4>2 DEF Answered, Contract!Next, Contract!Drained
    <3> QED BY <3>1, <3>2
  <2>7. CASE DrainUndo(c)
    <3>1. DrainMode' = "draining" /\ admitting' \in BOOLEAN
      BY <2>3, <2>7 DEF DrainUndo, Drains
    <3> QED BY <2>2, <3>1 DEF Answered, Contract!Next, Contract!Quiesce
  <2>8. CASE DrainRestores(c)
    <3>1. CASE Goto(c, "drain.degraded")
      BY <2>2, <2>3, <2>8, <3>1 DEF Answered, DrainRestores, Drains
    <3>2. CASE Return(c, "failed")
      <4>1. DrainMode' = "open" /\ admitting /\ admitting' = TRUE
        BY <1>1, <2>1, <2>2, <2>4, <2>8, <3>2
        DEF DrainRestores, ModeAt, Answers, CallInv, Inv, ControlInv, ControlTypeOK
      <4> QED BY <2>2, <4>1 DEF Answered, Contract!Next, Contract!DrainUndone
    <3> QED BY <2>8, <3>1, <3>2 DEF DrainRestores
  <2>9. CASE DrainDegrades(c)
    <3>1. /\ Return(c, "failed") /\ before' = rpc[c].snapshot /\ completed' = FALSE
          /\ UNCHANGED admitting
      BY <2>9 DEF DrainDegrades
    <3>2. DrainMode' = "stuck"
      BY <2>1, <2>2, <2>4, <3>1 DEF ModeAt, Answers
    <3> QED BY <2>2, <3>1, <3>2 DEF Answered, Contract!Next, Contract!DrainStuck
  <2> QED BY <1>3, <2>5, <2>6, <2>7, <2>8, <2>9
<1> QED BY <1>2, <1>3

LEMMA ResumeImplements ==
    ASSUME Inv, NEW c \in Callers, ResumeBegins(c) \/ ResumeHandler(c) \/ ResumeRestores(c)
    PROVE  Answered
<1>1. CallInv(c) /\ rpc[c].at \notin Drains /\ \A d \in Callers \ {c} : rpc'[d] = rpc[d]
  BY CallType, HandlersAnswer
  DEF HandlerNext, ResumeBegins, ResumeHandler, ResumeRestores, Drains
<1>2. ASSUME NEW answer \in Answers, Return(c, answer) PROVE rpc'[c].at \notin Drains
  BY <1>2, Returned DEF Drains
<1>3. CASE ResumeBegins(c)
  <2>1. rpc'[c].at \notin Drains
    <3>1. CASE Goto(c, "resume.handler")
      BY <1>3, <3>1, Went DEF ResumeBegins, Handlers, Drains
    <3>2. CASE ~Goto(c, "resume.handler")
      BY <1>2, <1>3, <3>2 DEF ResumeBegins, Answers
    <3> QED BY <3>1, <3>2
  <2> QED BY <1>1, <1>3, <2>1, ModeStays DEF ResumeBegins
<1>4. CASE ResumeRestores(c)
  <2>1. rpc'[c].at \notin Drains
    BY <1>2, <1>4 DEF ResumeRestores, Answers
  <2> QED BY <1>1, <1>4, <2>1, ModeStays DEF ResumeRestores
<1>5. CASE ResumeHandler(c)
  <2>1. Inside(c) /\ before # NoStatus
    BY <1>1, <1>5 DEF ResumeHandler, CallInv, Inside, Outside
  <2>2. DrainMode = ModeAt(c) /\ DrainMode' = ModeAt(c)' /\ DrainMode \in {"drained", "stuck"}
    BY <1>1, <2>1, ModeOfOne DEF ModeAt
  <2>3. CASE Return(c, "failed") /\ UNCHANGED <<before, completed>>
    <3>1. DrainMode' = DrainMode /\ admitting' \in BOOLEAN
      BY <1>1, <1>2, <1>5, <2>2, <2>3 DEF ResumeHandler, ModeAt, Answers
    <3> QED BY <2>2, <3>1 DEF Answered, Contract!Next, Contract!ResumeFails
  <2>4. CASE ~(Return(c, "failed") /\ UNCHANGED <<before, completed>>)
    <3>1. /\ rpc' = [rpc EXCEPT ![c].at = "resume.restore", ![c].snapshot = before]
          /\ before' = NoStatus /\ admitting' = TRUE
      BY <1>5, <2>4 DEF ResumeHandler
    <3> DEFINE r == [rpc[c] EXCEPT !.at = "resume.restore", !.snapshot = before]
    <3>2. r \in Calls /\ r.at = "resume.restore" /\ rpc' = [rpc EXCEPT ![c] = r]
      BY <3>1, CallType DEF Calls, Handlers, Inv, ControlInv, ControlTypeOK
    <3>3. rpc'[c] = r
      BY <3>2, Moved
    <3>4. DrainMode' = "open"
      BY <2>2, <3>1, <3>2, <3>3 DEF ModeAt, Drains
    <3> QED BY <2>2, <3>1, <3>4 DEF Answered, Contract!Next, Contract!Resume
  <2> QED BY <2>3, <2>4
<1> QED BY <1>3, <1>4, <1>5

\* A service is open, drained or stuck, and which one is never in doubt (beforeDrain and
\* drainCompleted under maintenanceMu): the RPCs implement the contract that the
\* lifecycle commands rely on.
THEOREM ControlImplementsContract == Spec => ImplementsDrainContract
<1>1. Init => Contract!Init
  BY DEF Init, Fresh, Contract!Init, DrainMode, NoCall
<1>2. ASSUME Inv, [Next]_vars PROVE Answered
  <2>1. CASE \E c \in Callers : HandlerNext(c)
    BY <1>2, <2>1, DrainImplements, ResumeImplements DEF HandlerNext
  <2>2. CASE \E c \in Callers : Call(c, "drain") \/ Call(c, "resume")
    <3>1. PICK c \in Callers, at \in {"drain", "resume"} : Call(c, at)
      BY <2>2
    <3>2. \A d \in Callers \ {c} : rpc'[d] = rpc[d]
      BY <1>2, <3>1, CallType DEF Call
    <3>3. rpc[c].at = "none" /\ rpc'[c].at = at
      BY <1>2, <3>1, CallType DEF Call, NoCall
    <3> QED BY <3>1, <3>2, <3>3, ModeStays DEF Call, Drains
  <2>3. CASE (\E c \in Callers : Expire(c)) \/ ShutdownIsForced
    <3>1. \A d \in Callers : rpc'[d].at = rpc[d].at
      BY <1>2, <2>3, CallType DEF Expire, ShutdownIsForced, Calls
    <3> QED BY <2>3, <3>1, ModeStays DEF Expire, ShutdownIsForced
  <2>4. CASE Restart
    <3>1. DrainMode' = "open" /\ admitting' = TRUE
      BY <2>4 DEF Restart, DrainMode, NoCall
    <3> QED BY <3>1 DEF Answered, Contract!Next, Contract!Restart
  <2>5. CASE UNCHANGED <<rpc, before, completed, admitting>>
    BY <2>5, ModeStays
  <2> QED
    BY <1>2, <2>1, <2>2, <2>3, <2>4, <2>5
    DEF Next, WatchNext, controlVars, vars, UpdateStatus, ShutdownBegins, ShutdownIsGraceful,
        ShutdownCloses
<1>3. Inv /\ [Next]_vars => [Contract!Next]_<<DrainMode, admitting>>
  BY <1>2 DEF Answered
<1> QED BY <1>1, <1>3, InvHolds, PTL DEF Spec, ImplementsDrainContract, Contract!Spec

-----------------------------------------------------------------------------
(***************************************************************************)
(* The socket it listens on (PrivateSocket): that a serving socket stays   *)
(* reachable, that nobody removes a socket somebody listens on, and that   *)
(* nothing is left that refuses the next start, for any number of          *)
(* processes and sockets.                                                  *)
(***************************************************************************)
\* Where a process has bound no socket.
Unbound == {"idle", "captured", "locked", "stale", "bind",
            "remover.probe", "remover.compare", "remover.unlink"}

\* What holds of a process at each place: it has the lock; the socket it bound
\* is at the path until a server that ignores the lock may act, is listened on
\* until Close, and is the one it will remove; and what it is about to remove
\* has no listener.
StandsRight(p) ==
    /\ where[p] \notin Elsewhere => lock = p
    /\ where[p] \in Unbound => bound[p] = 0
    /\ where[p] \notin Unbound => bound[p] # 0
    /\ where[p] \in {"listen", "inspect"} => path = bound[p]
    /\ where[p] \in {"protect", "serving", "close", "compare", "unlink"} => stat[p] = bound[p]
    /\ where[p] \in {"inspect", "protect", "serving", "close"} => bound[p] \in live
    /\ where[p] \in {"listen", "compare", "unlink", "unlock"} => bound[p] \notin live
    /\ where[p] = "unlink" => path = stat[p]
    /\ where[p] = "unlock" => path # bound[p]
    /\ where[p] \in {"stale", "remover.compare", "remover.unlink"} => path \notin live
    /\ where[p] \in {"protect", "serving", "close"} => path = bound[p] \/ path \in foreign

\* The inductive invariant.
SocketInv == SocketTypeOK /\ \A p \in Procs : StandsRight(p)

\* A step of a process that leaves the others where they are is right for
\* them when it changes nothing they rely on: a process outside the protocol
\* relies on nothing.
LEMMA OthersStandRight ==
    ASSUME SocketInv, NEW p \in Procs, NEW q \in Procs \ {p},
           where'[q] = where[q], bound'[q] = bound[q],
           where[p] \notin Elsewhere \/ lock = NoProc
    PROVE  StandsRight(q)'
  <1>1. where[q] \in Elsewhere
    BY ProcsAssumption DEF SocketInv, StandsRight
  <1>2. bound[q] = 0
    BY <1>1 DEF SocketInv, StandsRight, Elsewhere, Unbound
  <1> QED
    BY <1>1, <1>2 DEF StandsRight, Elsewhere, Unbound

LEMMA SocketInvInit == SocketInit => SocketInv
  <1> SUFFICES ASSUME SocketInit
               PROVE  SocketInv
    OBVIOUS
  <1>1. "idle" \in Places /\ 0 \in 0..MaxInode /\ 0 \in 0..0
    BY InodeAssumption DEF Places
  <1>2. SocketTypeOK
    BY <1>1 DEF SocketInit, SocketTypeOK
  <1>3. ASSUME NEW p \in Procs
        PROVE  StandsRight(p)
    <2>1. where[p] = "idle" /\ bound[p] = 0
      BY DEF SocketInit
    <2> QED
      BY <2>1 DEF StandsRight, Elsewhere, Unbound
  <1> QED
    BY <1>2, <1>3 DEF SocketInv

LEMMA LeaveFacts ==
    ASSUME SocketTypeOK, NEW p \in Procs, Leave(p)
    PROVE  /\ where' \in [Procs -> Places] /\ where'[p] = "idle"
           /\ lock' \in Procs \cup {NoProc}
           /\ bound' \in [Procs -> 0..made] /\ stat' \in [Procs -> 0..made]
           /\ bound'[p] = 0
           /\ \A q \in Procs \ {p} : where'[q] = where[q] /\ bound'[q] = bound[q]
           /\ lock = NoProc => lock' = NoProc
  <1>1. made \in Nat
    BY InodeAssumption DEF SocketTypeOK
  <1> QED
    BY <1>1, ProcsAssumption DEF SocketTypeOK, Leave, MovesTo, Places

LEMMA AcquireLockStep ==
    ASSUME SocketInv, NEW p \in Procs, AcquireLock(p)
    PROVE  SocketInv'
  <1>1. where[p] \notin Elsewhere \/ lock = NoProc
    BY DEF AcquireLock, Elsewhere
  <1>2. SocketTypeOK /\ StandsRight(p) /\ made \in Nat
    BY InodeAssumption DEF SocketInv, SocketTypeOK
  <1>3. SocketTypeOK' /\ (\A q \in Procs \ {p} : where'[q] = where[q] /\ bound'[q] = bound[q])
    BY <1>2, InodeAssumption DEF AcquireLock, SocketTypeOK, MovesTo, Places
  <1>4. StandsRight(p)'
    BY <1>2, InodeAssumption DEF AcquireLock, SocketTypeOK, MovesTo, StandsRight, Elsewhere, Unbound, Places
  <1> QED
    BY <1>1, <1>3, <1>4, OthersStandRight DEF SocketInv

LEMMA ProbeStaleStep ==
    ASSUME SocketInv, NEW p \in Procs, ProbeStale(p)
    PROVE  SocketInv'
  <1>1. where[p] \notin Elsewhere \/ lock = NoProc
    BY DEF ProbeStale, Elsewhere
  <1>2. SocketTypeOK /\ StandsRight(p) /\ made \in Nat
    BY InodeAssumption DEF SocketInv, SocketTypeOK
  <1>3. SocketTypeOK' /\ (\A q \in Procs \ {p} : where'[q] = where[q] /\ bound'[q] = bound[q])
    BY <1>2, InodeAssumption, LeaveFacts
       DEF ProbeStale, SocketTypeOK, MovesTo, Places
  <1>4. StandsRight(p)'
    BY <1>2, InodeAssumption, LeaveFacts
       DEF ProbeStale, SocketTypeOK, MovesTo, StandsRight, Elsewhere, Unbound, Places
  <1> QED
    BY <1>1, <1>3, <1>4, OthersStandRight DEF SocketInv

LEMMA RemoveStaleStep ==
    ASSUME SocketInv, NEW p \in Procs, RemoveStale(p)
    PROVE  SocketInv'
  <1>1. where[p] \notin Elsewhere \/ lock = NoProc
    BY DEF RemoveStale, Elsewhere
  <1>2. SocketTypeOK /\ StandsRight(p) /\ made \in Nat
    BY InodeAssumption DEF SocketInv, SocketTypeOK
  <1>3. SocketTypeOK' /\ (\A q \in Procs \ {p} : where'[q] = where[q] /\ bound'[q] = bound[q])
    BY <1>2, InodeAssumption, LeaveFacts
       DEF RemoveStale, SocketTypeOK, MovesTo, Places
  <1>4. StandsRight(p)'
    BY <1>2, InodeAssumption, LeaveFacts
       DEF RemoveStale, SocketTypeOK, MovesTo, StandsRight, Elsewhere, Unbound, Places
  <1> QED
    BY <1>1, <1>3, <1>4, OthersStandRight DEF SocketInv

LEMMA BindStep ==
    ASSUME SocketInv, NEW p \in Procs, Bind(p)
    PROVE  SocketInv'
  <1>1. where[p] \notin Elsewhere \/ lock = NoProc
    BY DEF Bind, Elsewhere
  <1>2. SocketTypeOK /\ StandsRight(p) /\ made \in Nat
    BY InodeAssumption DEF SocketInv, SocketTypeOK
  <1>3. CASE made' = made + 1
    <2>1. /\ path' = made + 1 /\ made + 1 \in 1..MaxInode
          /\ bound' = [bound EXCEPT ![p] = made + 1]
          /\ where' = [where EXCEPT ![p] = "listen"]
          /\ lock' = lock /\ stat' = stat /\ live' = live /\ foreign' = foreign
      BY <1>2, <1>3, InodeAssumption DEF Bind, MovesTo, SocketTypeOK
    <2>2. "listen" \in Places
      BY DEF Places
    <2>3. \A n \in 0..made : n \in 0..made'
      BY <1>2, <1>3
    <2>4. live' \subseteq 1..made' /\ foreign' \subseteq 1..made'
      BY <1>2, <1>3, <2>1 DEF SocketTypeOK
    <2>5. bound' \in [Procs -> 0..made'] /\ stat' \in [Procs -> 0..made']
      BY <1>2, <1>3, <2>1, <2>3 DEF SocketTypeOK
    <2>6. SocketTypeOK'
      BY <1>2, <1>3, <2>1, <2>2, <2>4, <2>5, InodeAssumption DEF SocketTypeOK
    <2>7. lock = p
      BY <1>2 DEF Bind, StandsRight, Elsewhere
    <2>8. /\ where'[p] = "listen" /\ bound'[p] = path' /\ bound'[p] # 0
          /\ bound'[p] \notin live'
      BY <1>2, <2>1 DEF SocketTypeOK
    <2>9. StandsRight(p)'
      BY <2>1, <2>7, <2>8 DEF StandsRight, Elsewhere, Unbound
    <2> QED
      BY <1>1, <2>1, <2>6, <2>9, <1>2, OthersStandRight DEF SocketInv, SocketTypeOK
  <1>4. CASE made' = made /\ Leave(p) /\ UNCHANGED <<path, live, foreign>>
    <2>1. SocketTypeOK'
      BY <1>2, <1>4, LeaveFacts DEF SocketTypeOK
    <2>2. StandsRight(p)'
      BY <1>2, <1>4, LeaveFacts DEF StandsRight, Elsewhere, Unbound
    <2> QED
      BY <1>1, <1>2, <1>4, <2>1, <2>2, LeaveFacts, OthersStandRight DEF SocketInv
  <1> QED
    BY <1>3, <1>4 DEF Bind

LEMMA ListenStep ==
    ASSUME SocketInv, NEW p \in Procs, Listen(p)
    PROVE  SocketInv'
  <1>1. where[p] \notin Elsewhere \/ lock = NoProc
    BY DEF Listen, Elsewhere
  <1>2. SocketTypeOK /\ StandsRight(p) /\ made \in Nat
    BY InodeAssumption DEF SocketInv, SocketTypeOK
  <1>3. SocketTypeOK' /\ (\A q \in Procs \ {p} : where'[q] = where[q] /\ bound'[q] = bound[q])
    <2>1. bound[p] # 0
      BY <1>2 DEF Listen, StandsRight, Unbound
    <2>2. live' \subseteq 1..made'
      <3>1. bound[p] \in 0..made
        BY <1>2 DEF SocketTypeOK
      <3>2. bound[p] \in 1..made
        BY <1>2, <2>1, <3>1
      <3> QED
        BY <1>2, <3>2 DEF Listen, SocketTypeOK
    <2> QED
      BY <1>2, <2>2 DEF Listen, SocketTypeOK, MovesTo, Places
  <1>4. StandsRight(p)'
    BY <1>2, InodeAssumption DEF Listen, SocketTypeOK, MovesTo, StandsRight, Elsewhere, Unbound, Places
  <1> QED
    BY <1>1, <1>3, <1>4, OthersStandRight DEF SocketInv

LEMMA InspectCreatedStep ==
    ASSUME SocketInv, NEW p \in Procs, InspectCreated(p)
    PROVE  SocketInv'
  <1>1. where[p] \notin Elsewhere \/ lock = NoProc
    BY DEF InspectCreated, Elsewhere
  <1>2. SocketTypeOK /\ StandsRight(p) /\ made \in Nat
    BY InodeAssumption DEF SocketInv, SocketTypeOK
  <1>3. SocketTypeOK' /\ (\A q \in Procs \ {p} : where'[q] = where[q] /\ bound'[q] = bound[q])
    BY <1>2, InodeAssumption, LeaveFacts
       DEF InspectCreated, SocketTypeOK, MovesTo, Places
  <1>4. StandsRight(p)'
    BY <1>2, InodeAssumption, LeaveFacts
       DEF InspectCreated, SocketTypeOK, MovesTo, StandsRight, Elsewhere, Unbound, Places
  <1> QED
    BY <1>1, <1>3, <1>4, OthersStandRight DEF SocketInv

LEMMA ProtectStep ==
    ASSUME SocketInv, NEW p \in Procs, Protect(p)
    PROVE  SocketInv'
  <1>1. where[p] \notin Elsewhere \/ lock = NoProc
    BY DEF Protect, Elsewhere
  <1>2. SocketTypeOK /\ StandsRight(p) /\ made \in Nat
    BY InodeAssumption DEF SocketInv, SocketTypeOK
  <1>3. SocketTypeOK' /\ (\A q \in Procs \ {p} : where'[q] = where[q] /\ bound'[q] = bound[q])
    BY <1>2, InodeAssumption DEF Protect, SocketTypeOK, MovesTo, Places
  <1>4. StandsRight(p)'
    BY <1>2, InodeAssumption DEF Protect, SocketTypeOK, MovesTo, StandsRight, Elsewhere, Unbound, Places
  <1> QED
    BY <1>1, <1>3, <1>4, OthersStandRight DEF SocketInv

LEMMA CloseListenerStep ==
    ASSUME SocketInv, NEW p \in Procs, CloseListener(p)
    PROVE  SocketInv'
  <1>1. where[p] \notin Elsewhere \/ lock = NoProc
    BY DEF CloseListener, Elsewhere
  <1>2. SocketTypeOK /\ StandsRight(p) /\ made \in Nat
    BY InodeAssumption DEF SocketInv, SocketTypeOK
  <1>3. SocketTypeOK' /\ (\A q \in Procs \ {p} : where'[q] = where[q] /\ bound'[q] = bound[q])
    BY <1>2, InodeAssumption DEF CloseListener, SocketTypeOK, MovesTo, Places
  <1>4. StandsRight(p)'
    BY <1>2, InodeAssumption DEF CloseListener, SocketTypeOK, MovesTo, StandsRight, Elsewhere, Unbound, Places
  <1> QED
    BY <1>1, <1>3, <1>4, OthersStandRight DEF SocketInv

LEMMA ComparePathStep ==
    ASSUME SocketInv, NEW p \in Procs, ComparePath(p)
    PROVE  SocketInv'
  <1>1. where[p] \notin Elsewhere \/ lock = NoProc
    BY DEF ComparePath, Elsewhere
  <1>2. SocketTypeOK /\ StandsRight(p) /\ made \in Nat
    BY InodeAssumption DEF SocketInv, SocketTypeOK
  <1>3. SocketTypeOK' /\ (\A q \in Procs \ {p} : where'[q] = where[q] /\ bound'[q] = bound[q])
    BY <1>2, InodeAssumption DEF ComparePath, SocketTypeOK, MovesTo, Places
  <1>4. StandsRight(p)'
    BY <1>2, InodeAssumption DEF ComparePath, SocketTypeOK, MovesTo, StandsRight, Elsewhere, Unbound, Places
  <1> QED
    BY <1>1, <1>3, <1>4, OthersStandRight DEF SocketInv

LEMMA UnlinkOwnStep ==
    ASSUME SocketInv, NEW p \in Procs, UnlinkOwn(p)
    PROVE  SocketInv'
  <1>1. where[p] \notin Elsewhere \/ lock = NoProc
    BY DEF UnlinkOwn, Elsewhere
  <1>2. SocketTypeOK /\ StandsRight(p) /\ made \in Nat
    BY InodeAssumption DEF SocketInv, SocketTypeOK
  <1>3. SocketTypeOK' /\ (\A q \in Procs \ {p} : where'[q] = where[q] /\ bound'[q] = bound[q])
    BY <1>2, InodeAssumption DEF UnlinkOwn, SocketTypeOK, MovesTo, Places
  <1>4. StandsRight(p)'
    BY <1>2, InodeAssumption DEF UnlinkOwn, SocketTypeOK, MovesTo, StandsRight, Elsewhere, Unbound, Places
  <1> QED
    BY <1>1, <1>3, <1>4, OthersStandRight DEF SocketInv

LEMMA UnlockStep ==
    ASSUME SocketInv, NEW p \in Procs, Unlock(p)
    PROVE  SocketInv'
  <1>1. where[p] \notin Elsewhere \/ lock = NoProc
    BY DEF Unlock, Elsewhere
  <1>2. SocketTypeOK /\ StandsRight(p) /\ made \in Nat
    BY InodeAssumption DEF SocketInv, SocketTypeOK
  <1>3. SocketTypeOK' /\ (\A q \in Procs \ {p} : where'[q] = where[q] /\ bound'[q] = bound[q])
    BY <1>2, InodeAssumption, LeaveFacts
       DEF Unlock, SocketTypeOK, MovesTo, Places
  <1>4. StandsRight(p)'
    BY <1>2, InodeAssumption, LeaveFacts
       DEF Unlock, SocketTypeOK, MovesTo, StandsRight, Elsewhere, Unbound, Places
  <1> QED
    BY <1>1, <1>3, <1>4, OthersStandRight DEF SocketInv

LEMMA RemoverProbesStep ==
    ASSUME SocketInv, NEW p \in Procs, RemoverProbes(p)
    PROVE  SocketInv'
  <1>1. where[p] \notin Elsewhere \/ lock = NoProc
    BY DEF RemoverProbes, Elsewhere
  <1>2. SocketTypeOK /\ StandsRight(p) /\ made \in Nat
    BY InodeAssumption DEF SocketInv, SocketTypeOK
  <1>3. SocketTypeOK' /\ (\A q \in Procs \ {p} : where'[q] = where[q] /\ bound'[q] = bound[q])
    BY <1>2, InodeAssumption, LeaveFacts
       DEF RemoverProbes, SocketTypeOK, MovesTo, Places
  <1>4. StandsRight(p)'
    BY <1>2, InodeAssumption, LeaveFacts
       DEF RemoverProbes, SocketTypeOK, MovesTo, StandsRight, Elsewhere, Unbound, Places
  <1> QED
    BY <1>1, <1>3, <1>4, OthersStandRight DEF SocketInv

LEMMA RemoverRemovesStep ==
    ASSUME SocketInv, NEW p \in Procs, RemoverRemoves(p)
    PROVE  SocketInv'
  <1>1. where[p] \notin Elsewhere \/ lock = NoProc
    BY DEF RemoverRemoves, Elsewhere
  <1>2. SocketTypeOK /\ StandsRight(p) /\ made \in Nat
    BY InodeAssumption DEF SocketInv, SocketTypeOK
  <1>3. SocketTypeOK' /\ (\A q \in Procs \ {p} : where'[q] = where[q] /\ bound'[q] = bound[q])
    BY <1>2, InodeAssumption, LeaveFacts
       DEF RemoverRemoves, SocketTypeOK, MovesTo, Places
  <1>4. StandsRight(p)'
    BY <1>2, InodeAssumption, LeaveFacts
       DEF RemoverRemoves, SocketTypeOK, MovesTo, StandsRight, Elsewhere, Unbound, Places
  <1> QED
    BY <1>1, <1>3, <1>4, OthersStandRight DEF SocketInv

\* Neither does a step of a process that leaves everything alone but the lock
\* it may take or drop.
LEMMA OthersUntouched ==
    ASSUME SocketInv, NEW p \in Procs, NEW q \in Procs \ {p},
           where'[q] = where[q], bound'[q] = bound[q], stat'[q] = stat[q],
           UNCHANGED <<path, live, foreign>>, lock = q => lock' = q
    PROVE  StandsRight(q)'
  BY DEF SocketInv, StandsRight

LEMMA CaptureSocketStep ==
    ASSUME SocketInv, NEW p \in Procs, CaptureSocket(p)
    PROVE  SocketInv'
  <1>1. SocketTypeOK /\ StandsRight(p) /\ made \in Nat
    BY InodeAssumption DEF SocketInv, SocketTypeOK
  <1>2. SocketTypeOK' /\ (\A q \in Procs \ {p} : where'[q] = where[q] /\ bound'[q] = bound[q] /\ stat'[q] = stat[q])
    BY <1>1, InodeAssumption DEF CaptureSocket, SocketTypeOK, MovesTo, Places
  <1>3. StandsRight(p)'
    BY <1>1, InodeAssumption DEF CaptureSocket, SocketTypeOK, MovesTo, StandsRight, Elsewhere, Unbound, Places
  <1>4. lock' = lock /\ UNCHANGED <<path, live, foreign>>
    BY DEF CaptureSocket
  <1> QED
    BY <1>2, <1>3, <1>4, OthersUntouched DEF SocketInv

LEMMA RemoverLocksStep ==
    ASSUME SocketInv, NEW p \in Procs, RemoverLocks(p)
    PROVE  SocketInv'
  <1>1. SocketTypeOK /\ StandsRight(p) /\ made \in Nat
    BY InodeAssumption DEF SocketInv, SocketTypeOK
  <1>2. UNCHANGED <<path, made, live, foreign>>
    BY DEF RemoverLocks
  <1>3. CASE lock = NoProc /\ lock' = p /\ MovesTo(p, "remover.probe") /\ UNCHANGED <<bound, stat>>
    <2>1. /\ SocketTypeOK'
          /\ \A q \in Procs \ {p} : where'[q] = where[q] /\ bound'[q] = bound[q] /\ stat'[q] = stat[q]
      BY <1>1, <1>2, <1>3 DEF SocketTypeOK, MovesTo, Places
    <2>2. StandsRight(p)'
      BY <1>1, <1>2, <1>3 DEF RemoverLocks, SocketTypeOK, MovesTo, StandsRight, Elsewhere, Unbound, Places
    <2>3. \A q \in Procs : lock # q
      BY <1>3, ProcsAssumption
    <2> QED
      BY <1>2, <2>1, <2>2, <2>3, OthersUntouched DEF SocketInv
  <1>4. CASE Leave(p)
    <2>1. SocketTypeOK'
      BY <1>1, <1>2, <1>4, LeaveFacts DEF SocketTypeOK
    <2>2. StandsRight(p)'
      BY <1>1, <1>2, <1>4, LeaveFacts DEF StandsRight, Elsewhere, Unbound
    <2>3. \A q \in Procs \ {p} : stat'[q] = stat[q] /\ (lock = q => lock' = q)
      BY <1>1, <1>4 DEF Leave, SocketTypeOK
    <2> QED
      BY <1>1, <1>2, <1>4, <2>1, <2>2, <2>3, LeaveFacts, OthersUntouched DEF SocketInv
  <1> QED
    BY <1>3, <1>4 DEF RemoverLocks

LEMMA CrashStep ==
    ASSUME SocketInv, NEW p \in Procs, Crash(p)
    PROVE  SocketInv'
  <1>1. SocketTypeOK /\ StandsRight(p) /\ made \in Nat
    BY InodeAssumption DEF SocketInv, SocketTypeOK
  <1>2. Leave(p) /\ UNCHANGED <<path, made, foreign>> /\ live' = live \ {bound[p]}
    BY DEF Crash
  <1>3. SocketTypeOK'
    BY <1>1, <1>2, LeaveFacts
       DEF SocketTypeOK
  <1>4. StandsRight(p)'
    BY <1>1, <1>2, LeaveFacts
       DEF StandsRight, Elsewhere, Unbound
  <1>5. CASE where[p] \notin Elsewhere
    BY <1>1, <1>2, <1>3, <1>4, <1>5, LeaveFacts, OthersStandRight DEF SocketInv
  <1>6. CASE where[p] \in Elsewhere
    <2>1. bound[p] = 0
      BY <1>1, <1>6 DEF StandsRight, Elsewhere, Unbound
    <2>2. live' = live
      BY <1>1, <1>2, <2>1 DEF SocketTypeOK
    <2>3. \A q \in Procs \ {p} : stat'[q] = stat[q] /\ (lock = q => lock' = q)
      BY <1>1, <1>2 DEF Leave, SocketTypeOK
    <2> QED
      BY <1>1, <1>2, <1>3, <1>4, <2>2, <2>3, LeaveFacts, OthersUntouched DEF SocketInv
  <1> QED
    BY <1>5, <1>6

\* A program that ignores the lock takes no listener away: it disturbs what the
\* servers say of the path only, which they say no more.
LEMMA ReplaceStep == SocketInv /\ Replace => SocketInv'
  <1> SUFFICES ASSUME SocketInv, Replace
               PROVE  SocketInv'
    OBVIOUS
  <1>1. SocketTypeOK /\ made \in Nat /\ made' = made + 1 /\ made' \in 1..MaxInode
    BY InodeAssumption DEF SocketInv, SocketTypeOK, Replace
  <1>2. path' = made' /\ live' = live \cup {made'} /\ foreign' = foreign \cup {made'}
        /\ UNCHANGED <<lock, where, bound, stat>>
    BY DEF Replace
  <1>3. live' \subseteq 1..made' /\ foreign' \subseteq 1..made'
    BY <1>1, <1>2 DEF SocketTypeOK
  <1>4. bound' \in [Procs -> 0..made'] /\ stat' \in [Procs -> 0..made']
    <2>1. \A n \in 0..made : n \in 0..made'
      BY <1>1
    <2> QED
      BY <1>1, <1>2, <2>1 DEF SocketTypeOK
  <1>5. SocketTypeOK'
    BY <1>1, <1>2, <1>3, <1>4, InodeAssumption DEF SocketTypeOK
  <1>6. ASSUME NEW p \in Procs
        PROVE  StandsRight(p)'
    <2>1. StandsRight(p) /\ where[p] \in {"idle", "serving", "close", "captured"}
      BY DEF SocketInv, Replace
    <2> QED
      BY <1>2, <2>1 DEF StandsRight, Elsewhere, Unbound
  <1> QED
    BY <1>5, <1>6 DEF SocketInv

LEMMA SocketInvStep == SocketInv /\ [SocketNext]_socketVars => SocketInv'
  <1> SUFFICES ASSUME SocketInv, [SocketNext]_socketVars
               PROVE  SocketInv'
    OBVIOUS
  <1>1. ASSUME NEW p \in Procs, ProcNext(p)
        PROVE  SocketInv'
    BY <1>1, AcquireLockStep, ProbeStaleStep, RemoveStaleStep, BindStep, ListenStep,
       InspectCreatedStep, ProtectStep, CloseListenerStep, ComparePathStep,
       UnlinkOwnStep, UnlockStep, CaptureSocketStep, RemoverLocksStep,
       RemoverProbesStep, RemoverRemovesStep, CrashStep DEF ProcNext
  <1>2. CASE UNCHANGED socketVars
    BY <1>2 DEF socketVars, SocketInv, SocketTypeOK, StandsRight
  <1> QED
    BY <1>1, <1>2, ReplaceStep DEF SocketNext

LEMMA SocketInvHolds == SocketSpec => []SocketInv
  BY SocketInvInit, SocketInvStep, PTL DEF SocketSpec

\* A step changes the path away from a socket only after a probe under the lock
\* found it dead, after its own listener was closed, or by replacing it.
LEMMA PathStep ==
    SocketInv /\ [SocketNext]_socketVars /\ path' # path /\ path \in live =>
        path' \in foreign' \ foreign
  <1> SUFFICES ASSUME SocketInv, SocketNext, path' # path, path \in live
               PROVE  path' \in foreign' \ foreign
    BY DEF socketVars
  <1>1. live \subseteq 1..made /\ foreign \subseteq 1..made /\ made \in Nat
    BY InodeAssumption DEF SocketInv, SocketTypeOK
  <1>2. ASSUME NEW p \in Procs, ProcNext(p)
        PROVE  FALSE
    <2>1. StandsRight(p)
      BY DEF SocketInv
    <2>2. \/ RemoveStale(p) \/ Bind(p) \/ UnlinkOwn(p) \/ RemoverRemoves(p)
      BY <1>2 DEF ProcNext, AcquireLock, ProbeStale, Listen, InspectCreated, Protect,
                  CloseListener, ComparePath, Unlock, CaptureSocket, RemoverLocks,
                  RemoverProbes, Crash
    <2>3. CASE RemoveStale(p)
      BY <2>1, <2>3 DEF RemoveStale, StandsRight
    <2>4. CASE Bind(p)
      BY <1>1, <2>4 DEF Bind
    <2>5. CASE UnlinkOwn(p)
      BY <2>1, <2>5 DEF UnlinkOwn, StandsRight
    <2>6. CASE RemoverRemoves(p)
      BY <2>1, <2>6 DEF RemoverRemoves, StandsRight
    <2> QED
      BY <2>2, <2>3, <2>4, <2>5, <2>6
  <1> QED
    BY <1>1, <1>2 DEF SocketNext, Replace

\* Whoever has the lock is not done yet, and whoever listens on a socket of the
\* protocol is the process that bound it.
Owned ==
    /\ \A p \in Procs : lock = p => where[p] \notin Elsewhere
    /\ \A i \in live \ foreign : \E p \in Procs : bound[p] = i

\* What a step of one process does to the lock and to the listeners: it gives the lock
\* to itself or drops it, and forgets a socket only when nobody listens on it.
StepOwns(p) ==
    /\ lock' \in {lock, p, NoProc}
    /\ lock' = p => where'[p] \notin Elsewhere
    /\ \A q \in Procs \ {p} : where'[q] = where[q] /\ bound'[q] = bound[q]
    /\ foreign' = foreign
    /\ bound'[p] = bound[p] \/ bound[p] \notin live'
    /\ live' \subseteq live \cup {bound'[p]}

LEMMA LeaveOwns ==
    ASSUME SocketTypeOK, NEW p \in Procs, Leave(p), foreign' = foreign,
           live' \subseteq live, bound[p] \notin live'
    PROVE  StepOwns(p)
  <1>1. lock' \in {lock, NoProc} /\ lock' # p
    BY ProcsAssumption DEF Leave
  <1> QED
    BY <1>1, LeaveFacts DEF StepOwns

LEMMA MoveOwns ==
    ASSUME SocketTypeOK, NEW p \in Procs, NEW place \in Places \ Elsewhere, MovesTo(p, place),
           lock' \in {lock, p}, foreign' = foreign,
           bound' = bound \/ (bound' = [bound EXCEPT ![p] = made + 1] /\ bound[p] \notin live'),
           live' \subseteq live \cup {bound'[p]}
    PROVE  StepOwns(p)
  <1>1. where'[p] = place /\ \A q \in Procs \ {p} : where'[q] = where[q]
    BY DEF MovesTo, SocketTypeOK
  <1>2. \A q \in Procs \ {p} : bound'[q] = bound[q]
    BY DEF SocketTypeOK
  <1> QED
    BY <1>1, <1>2 DEF StepOwns

LEMMA ProcOwns ==
    ASSUME SocketInv, Owned, NEW p \in Procs, ProcNext(p)
    PROVE  StepOwns(p)
  <1>1. SocketTypeOK /\ StandsRight(p) /\ 0 \notin live
    BY InodeAssumption DEF SocketInv, SocketTypeOK
  <1>2. CASE \/ AcquireLock(p) \/ Protect(p) \/ CloseListener(p) \/ ComparePath(p)
             \/ UnlinkOwn(p) \/ Listen(p)
    <2>1. \E place \in Places \ Elsewhere : MovesTo(p, place)
      <3>1. \/ MovesTo(p, "locked") \/ MovesTo(p, "serving") \/ MovesTo(p, "close")
            \/ MovesTo(p, "compare") \/ MovesTo(p, "unlink") \/ MovesTo(p, "unlock")
            \/ MovesTo(p, "inspect")
        BY <1>2 DEF AcquireLock, Protect, CloseListener, ComparePath, UnlinkOwn, Listen
      <3>2. {"locked", "serving", "close", "compare", "unlink", "unlock", "inspect"}
                \subseteq Places \ Elsewhere
        BY DEF Places, Elsewhere
      <3> QED
        BY <3>1, <3>2
    <2>2. lock' \in {lock, p} /\ foreign' = foreign /\ bound' = bound
      BY <1>2 DEF AcquireLock, Protect, CloseListener, ComparePath, UnlinkOwn, Listen
    <2>3. live' \subseteq live \cup {bound'[p]}
      BY <1>2, <2>2 DEF AcquireLock, Protect, CloseListener, ComparePath, UnlinkOwn, Listen
    <2> QED
      BY <1>1, <2>1, <2>2, <2>3, MoveOwns
  <1>3. CASE ProbeStale(p) \/ RemoveStale(p) \/ RemoverProbes(p) \/ RemoverRemoves(p)
    <2>1. bound[p] \notin live /\ live' = live /\ foreign' = foreign
      BY <1>1, <1>3 DEF ProbeStale, RemoveStale, RemoverProbes, RemoverRemoves,
                        StandsRight, Unbound
    <2>2. CASE Leave(p)
      BY <1>1, <2>1, <2>2, LeaveOwns
    <2>3. CASE ~Leave(p)
      BY <1>1, <1>3, <2>1, <2>3, MoveOwns
      DEF ProbeStale, RemoveStale, RemoverProbes, RemoverRemoves, Places, Elsewhere
    <2> QED
      BY <2>2, <2>3
  <1>4. CASE Bind(p)
    <2>1. bound[p] \notin live /\ live' = live /\ foreign' = foreign
      BY <1>1, <1>4 DEF Bind, StandsRight, Unbound
    <2>2. CASE Leave(p)
      BY <1>1, <2>1, <2>2, LeaveOwns
    <2>3. CASE ~Leave(p)
      <3>1. /\ MovesTo(p, "listen") /\ lock' = lock
            /\ bound' = [bound EXCEPT ![p] = made + 1]
        BY <1>4, <2>3 DEF Bind
      <3>2. "listen" \in Places \ Elsewhere
        BY DEF Places, Elsewhere
      <3>3. live' \subseteq live \cup {bound'[p]} /\ bound[p] \notin live'
        BY <2>1
      <3> QED
        BY <1>1, <2>1, <3>1, <3>2, <3>3, MoveOwns
    <2> QED
      BY <2>2, <2>3
  <1>5. CASE InspectCreated(p)
    <2>1. CASE Leave(p) /\ live' = live \ {bound[p]}
      BY <1>1, <1>5, <2>1, LeaveOwns DEF InspectCreated
    <2>2. CASE MovesTo(p, "protect") /\ UNCHANGED <<lock, bound, live>>
      BY <1>1, <1>5, <2>2, MoveOwns DEF InspectCreated, Places, Elsewhere
    <2> QED
      BY <1>5, <2>1, <2>2 DEF InspectCreated
  <1>6. CASE Unlock(p) \/ Crash(p)
    <2>1. Leave(p) /\ foreign' = foreign /\ live' \subseteq live /\ bound[p] \notin live'
      BY <1>1, <1>6 DEF Unlock, Crash, StandsRight
    <2> QED
      BY <1>1, <2>1, LeaveOwns
  <1>7. CASE CaptureSocket(p)
    <2>1. lock # p /\ where[p] = "idle"
      BY <1>7 DEF CaptureSocket, Owned, Elsewhere
    <2>2. \A q \in Procs \ {p} : where'[q] = where[q]
      BY <1>1, <1>7 DEF CaptureSocket, MovesTo, SocketTypeOK
    <2> QED
      BY <1>7, <2>1, <2>2 DEF CaptureSocket, StepOwns
  <1>8. CASE RemoverLocks(p)
    <2>1. bound[p] \notin live /\ live' = live /\ foreign' = foreign
      BY <1>1, <1>8 DEF RemoverLocks, StandsRight, Unbound
    <2>2. CASE Leave(p)
      BY <1>1, <2>1, <2>2, LeaveOwns
    <2>3. CASE ~Leave(p)
      BY <1>1, <1>8, <2>1, <2>3, MoveOwns DEF RemoverLocks, Places, Elsewhere
    <2> QED
      BY <2>2, <2>3
  <1> QED
    BY <1>2, <1>3, <1>4, <1>5, <1>6, <1>7, <1>8 DEF ProcNext

LEMMA OwnedStep == SocketInv /\ Owned /\ [SocketNext]_socketVars => Owned'
  <1> SUFFICES ASSUME SocketInv, Owned, [SocketNext]_socketVars
               PROVE  Owned'
    OBVIOUS
  <1>1. ASSUME NEW p \in Procs, ProcNext(p)
        PROVE  Owned'
    <2>1. StepOwns(p)
      BY <1>1, ProcOwns
    <2>2. ASSUME NEW q \in Procs, lock' = q
          PROVE  where'[q] \notin Elsewhere
      BY <2>1, <2>2, ProcsAssumption DEF StepOwns, Owned
    <2>3. ASSUME NEW i \in live' \ foreign'
          PROVE  \E q \in Procs : bound'[q] = i
      <3>1. CASE i = bound'[p]
        BY <3>1
      <3>2. CASE i # bound'[p]
        <4>1. i \in live \ foreign
          BY <2>1, <3>2 DEF StepOwns
        <4>2. PICK q \in Procs : bound[q] = i
          BY <4>1 DEF Owned
        <4>3. q # p
          BY <2>1, <3>2, <4>2 DEF StepOwns
        <4> QED
          BY <2>1, <4>2, <4>3 DEF StepOwns
      <3> QED
        BY <3>1, <3>2
    <2> QED
      BY <2>2, <2>3 DEF Owned
  <1>2. CASE UNCHANGED socketVars
    BY <1>2 DEF socketVars, Owned
  <1>3. CASE Replace
    BY <1>3 DEF Replace, Owned
  <1> QED
    BY <1>1, <1>2, <1>3 DEF SocketNext

\* A start that fails at any of its calls, a Close and an Uninstall leave no lock, no
\* listener and no socket of their own that would refuse the next start.
THEOREM NothingIsEverLeft == SocketSpec => []NothingIsLeft
  <1>1. SocketInit => Owned
    BY ProcsAssumption DEF SocketInit, Owned
  <1>2. SocketInv /\ Owned => NothingIsLeft
    <2> SUFFICES ASSUME SocketInv, Owned
                 PROVE  NothingIsLeft
      OBVIOUS
    <2>1. ASSUME NEW i \in live \ foreign
          PROVE  \E p \in Procs : bound[p] = i /\ where[p] \in Listening
      <3>1. PICK p \in Procs : bound[p] = i
        BY DEF Owned
      <3>2. i # 0 /\ where[p] \in Places /\ StandsRight(p)
        BY InodeAssumption DEF SocketInv, SocketTypeOK
      <3>3. where[p] \in Listening
        BY <3>1, <3>2 DEF StandsRight, Unbound, Places, Listening
      <3> QED
        BY <3>1, <3>3
    <2>2. \A p \in Procs : where[p] = "unlock" => path # bound[p]
      BY DEF SocketInv, StandsRight
    <2> QED
      BY <2>1, <2>2 DEF SocketInv, Owned, NothingIsLeft
  <1> QED
    BY <1>1, <1>2, OwnedStep, SocketInvHolds, PTL DEF SocketSpec

\* While a server serves, the path leads to its listener.
THEOREM ServerStaysReachable == SocketSpec => []ServerIsReachable
  <1>1. SocketInv => ServerIsReachable
    BY DEF SocketInv, StandsRight, ServerIsReachable
  <1> QED
    BY <1>1, SocketInvHolds, PTL

\* No start, close or uninstall removes a socket somebody listens on.
THEOREM LiveSocketsAreKept == SocketSpec => LiveSocketsStay
  <1>1. SocketInv /\ [SocketNext]_socketVars => [path' # path /\ path \in live => path' \in foreign' \ foreign]_socketVars
    BY PathStep DEF socketVars
  <1> QED
    BY <1>1, SocketInvHolds, PTL DEF SocketSpec, LiveSocketsStay
=============================================================================
