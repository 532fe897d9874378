------------------------- MODULE NotificationClient -------------------------
(***************************************************************************)
(* internal/client/notifications.go: the client of the committer's         *)
(* notification stream.  Calls of Subscribe and WaitForEvent run in their  *)
(* callers' goroutines; listen() runs a receiver, a sender and a           *)
(* dispatcher in an errgroup; all of them meet in the map "subscribers",   *)
(* two unbuffered channels and the error cell streamErr.                   *)
(*                                                                         *)
(* A step of the model is what one goroutine does between two points where *)
(* another can be seen: a critical section of subscribersMu, one channel   *)
(* operation, or one call on the stream.                                   *)
(***************************************************************************)
EXTENDS Naturals, Sequences, FiniteSets

CONSTANTS
    Callers,      \* calls of Subscribe followed by WaitForEvent
    TxIds,        \* transaction identifiers
    TxOf,         \* TxOf[c]: the txID that call c subscribes to
    Status,       \* the final statuses of a transaction (committed, aborted..)
    Unspecified,  \* STATUS_UNSPECIFIED: the sidecar gave up waiting
    NoStatus,     \* nothing: an empty channel, no entry of a message
    NoTx,         \* the sender holds no request
    NoResponse    \* a goroutine holds no response

Values == Status \cup {Unspecified}

Goroutines == {"receiver", "sender", "dispatcher"}

\* A message of the stream: the txIDs that timed out, and the status events
\* (NoStatus: the message has no event about that txID).
Responses == [timeouts : SUBSET TxIds, events : [TxIds -> Status \cup {NoStatus}]]

ASSUME NotificationAssumption ==
    /\ TxOf \in [Callers -> TxIds]
    /\ NoStatus \notin Values
    /\ Unspecified \notin Status
    /\ NoTx \notin TxIds
    /\ NoResponse \notin Responses

VARIABLES
    pc,             \* where each call stands
    subscribers,    \* n.subscribers: the calls registered under each txID
    chan,           \* receiverCh of each call, a channel of capacity 1
    got,            \* the status WaitForEvent returned
    streamErr,      \* n.streamErr is set
    closed,         \* Close was called: the context of listen() is cancelled
    listener,       \* how far listen() is
    running,        \* the goroutines of the errgroup that have not returned
    groupErr,       \* the first error returned to the errgroup
    sending,        \* the request the sender has taken from requestQueue
    received,       \* the response the receiver offers on responseQueue
    inHand,         \* the response the dispatcher has taken
    notifications,  \* the dispatcher's list of sends still to make
    streamUp,       \* the stream carries messages
    upstream,       \* per txID, the requests the sidecar has yet to answer
    wire            \* responses on their way to the receiver

callVars     == <<pc, subscribers, chan, got>>
listenerVars == <<streamErr, closed, listener, running, groupErr>>
pipeVars     == <<sending, received, inHand, notifications>>
streamVars   == <<streamUp, upstream, wire>>

vars == <<callVars, listenerVars, pipeVars, streamVars>>

Init ==
    /\ pc = [c \in Callers |-> "idle"]
    /\ subscribers = [t \in TxIds |-> {}]
    /\ chan = [c \in Callers |-> NoStatus]
    /\ got = [c \in Callers |-> NoStatus]
    /\ streamErr = FALSE
    /\ closed = FALSE
    /\ listener = "opening"
    /\ running = {}
    /\ groupErr = "none"
    /\ sending = NoTx
    /\ received = NoResponse
    /\ inHand = NoResponse
    /\ notifications = [c \in Callers |-> NoStatus]
    /\ streamUp = FALSE
    /\ upstream = [t \in TxIds |-> 0]
    /\ wire = <<>>

-----------------------------------------------------------------------------
(* Subscribe                                                               *)

\* Call c goes from one point of its code to another.
Goto(c, from, to) ==
    /\ pc[c] = from
    /\ pc' = [pc EXCEPT ![c] = to]

\* The stream has failed before: Subscribe returns its error at once.
FailFast(c) ==
    /\ Goto(c, "idle", "failed")
    /\ streamErr
    /\ UNCHANGED <<subscribers, chan, got, listenerVars, pipeVars, streamVars>>

\* The check of streamErr; nothing holds the answer still afterwards.
PassCheck(c) ==
    /\ Goto(c, "idle", "checked")
    /\ ~streamErr
    /\ UNCHANGED <<subscribers, chan, got, listenerVars, pipeVars, streamVars>>

\* Variant with a fault: every call pushes a request, not only the first one.
RegisterAlwaysRequests(c) ==
    /\ Goto(c, "checked", "pushing")
    /\ subscribers' = [subscribers EXCEPT ![TxOf[c]] = @ \cup {c}]
    /\ UNCHANGED <<chan, got, listenerVars, pipeVars, streamVars>>

\* Under subscribersMu: append the call's channel.  Only the first call of a
\* txID goes on to push a request; the others return successfully here.
Register(c) ==
    /\ Goto(c, "checked", IF subscribers[TxOf[c]] = {} THEN "pushing" ELSE "subscribed")
    /\ subscribers' = [subscribers EXCEPT ![TxOf[c]] = @ \cup {c}]
    /\ UNCHANGED <<chan, got, listenerVars, pipeVars, streamVars>>

\* Variant with a fault: the context is looked at again after the push.
GiveUpAfterPush(c) ==
    /\ pc[c] \in {"pushing", "subscribed"}
    /\ pc' = [pc EXCEPT ![c] = "leaving"]
    /\ UNCHANGED <<subscribers, chan, got, listenerVars, pipeVars, streamVars>>

\* The push of the request loses against the call's context: WaitingTimeout
\* has passed or the caller cancelled.
GiveUp(c) ==
    /\ Goto(c, "pushing", "leaving")
    /\ UNCHANGED <<subscribers, chan, got, listenerVars, pipeVars, streamVars>>

\* Variant with a fault: rollback deletes the whole entry of the txID.
RollBackEntry(c) ==
    /\ Goto(c, "leaving", "failed")
    /\ subscribers' = [subscribers EXCEPT ![TxOf[c]] = {}]
    /\ UNCHANGED <<chan, got, listenerVars, pipeVars, streamVars>>

\* Variant with a fault: a call that was rolled back tries again.
RollBackAndRetry(c) ==
    /\ Goto(c, "leaving", "checked")
    /\ subscribers' = [subscribers EXCEPT ![TxOf[c]] = @ \ {c}]
    /\ UNCHANGED <<chan, got, listenerVars, pipeVars, streamVars>>

\* rollback(), under subscribersMu: remove the own channel if it is there.
RollBack(c) ==
    /\ Goto(c, "leaving", "failed")
    /\ subscribers' = [subscribers EXCEPT ![TxOf[c]] = @ \ {c}]
    /\ UNCHANGED <<chan, got, listenerVars, pipeVars, streamVars>>

-----------------------------------------------------------------------------
(* WaitForEvent                                                            *)

\* The select of wait() picks the subscription.
ReceiveStatus(c) ==
    /\ Goto(c, "subscribed", "notified")
    /\ chan[c] # NoStatus
    /\ got' = [got EXCEPT ![c] = chan[c]]
    /\ chan' = [chan EXCEPT ![c] = NoStatus]
    /\ UNCHANGED <<subscribers, listenerVars, pipeVars, streamVars>>

\* The context is done first; the call stays registered.
Expire(c) ==
    /\ Goto(c, "subscribed", "expired")
    /\ UNCHANGED <<subscribers, chan, got, listenerVars, pipeVars, streamVars>>

-----------------------------------------------------------------------------
(* listen(): the errgroup                                                  *)

\* gCtx is done: Close was called or a goroutine returned an error.
GroupDone == closed \/ groupErr # "none"

\* Goroutine g returns err; the errgroup keeps the first one only.
Return(g, err) ==
    /\ running' = running \ {g}
    /\ groupErr' = IF groupErr = "none" THEN err ELSE groupErr

\* OpenNotificationStream succeeds and the three goroutines start.
OpenStream ==
    /\ listener = "opening"
    /\ ~closed
    /\ listener' = "running"
    /\ running' = Goroutines
    /\ streamUp' = TRUE
    /\ UNCHANGED <<callVars, streamErr, closed, groupErr, pipeVars, upstream, wire>>

\* It fails: the error is stored and listen() returns, leaving the map alone.
OpenFails ==
    /\ listener = "opening"
    /\ listener' = "exited"
    /\ streamErr' = TRUE
    /\ UNCHANGED <<callVars, closed, running, groupErr, pipeVars, streamVars>>

\* Sender: rendezvous with a call that pushes its request.
TakeRequest(c) ==
    /\ Goto(c, "pushing", "subscribed")
    /\ "sender" \in running
    /\ sending = NoTx
    /\ sending' = TxOf[c]
    /\ UNCHANGED <<subscribers, chan, got, listenerVars, received, inHand, notifications,
                   streamVars>>

\* Send on a live stream: the sidecar has the request.
Send ==
    /\ sending # NoTx
    /\ streamUp
    /\ upstream' = [upstream EXCEPT ![sending] = @ + 1]
    /\ sending' = NoTx
    /\ UNCHANGED <<callVars, listenerVars, received, inHand, notifications, streamUp, wire>>

\* Send on a dead stream may still report success: the request is lost.
SendLost ==
    /\ sending # NoTx
    /\ ~streamUp
    /\ sending' = NoTx
    /\ UNCHANGED <<callVars, listenerVars, received, inHand, notifications, streamVars>>

\* Or it reports the error and the sender returns it.
SendFails ==
    /\ sending # NoTx
    /\ ~streamUp
    /\ sending' = NoTx
    /\ Return("sender", "failed")
    /\ UNCHANGED <<callVars, streamErr, closed, listener, received, inHand, notifications,
                   streamVars>>

\* Variant with a fault: the sender watches the client's context, not the group's.
SenderStopsOnClose ==
    /\ "sender" \in running
    /\ sending = NoTx
    /\ closed
    /\ Return("sender", "canceled")
    /\ UNCHANGED <<callVars, streamErr, closed, listener, pipeVars, streamVars>>

\* The select of the sender sees that gCtx is done.
SenderStops ==
    /\ "sender" \in running
    /\ sending = NoTx
    /\ GroupDone
    /\ Return("sender", "canceled")
    /\ UNCHANGED <<callVars, streamErr, closed, listener, pipeVars, streamVars>>

\* Receiver: Recv returns the next message.
Receive ==
    /\ "receiver" \in running
    /\ received = NoResponse
    /\ wire # <<>>
    /\ received' = Head(wire)
    /\ wire' = Tail(wire)
    /\ UNCHANGED <<callVars, listenerVars, sending, inHand, notifications, streamUp,
                   upstream>>

\* Recv returns an error.  One that is context.Canceled ends the receiver with
\* nil; any other, a gRPC status with code Canceled among them, with itself.
ReceiveFails ==
    /\ "receiver" \in running
    /\ received = NoResponse
    /\ ~streamUp
    /\ \E err \in {"failed"} \cup (IF closed THEN {"none"} ELSE {}) :
           Return("receiver", err)
    /\ UNCHANGED <<callVars, streamErr, closed, listener, pipeVars, streamVars>>

\* The receiver gives up its push on responseQueue; the message is lost.
ReceiverStops ==
    /\ received # NoResponse
    /\ GroupDone
    /\ received' = NoResponse
    /\ Return("receiver", "canceled")
    /\ UNCHANGED <<callVars, streamErr, closed, listener, sending, inHand, notifications,
                   streamVars>>

\* The dispatcher is at its select.
DispatcherIdle ==
    /\ "dispatcher" \in running
    /\ inHand = NoResponse
    /\ \A c \in Callers : notifications[c] = NoStatus

\* Rendezvous of receiver and dispatcher on responseQueue.
HandOver ==
    /\ received # NoResponse
    /\ DispatcherIdle
    /\ inHand' = received
    /\ received' = NoResponse
    /\ UNCHANGED <<callVars, listenerVars, sending, notifications, streamVars>>

\* Variant with a fault: the reports of timeouts are ignored.
ParseEventsOnly(resp) == resp.events

\* Variant with a fault: the timeouts come last.
ParseTimeoutsLast(resp) ==
    [t \in TxIds |-> IF t \in resp.timeouts THEN Unspecified ELSE resp.events[t]]

\* parseResponse: timeouts first, then the events overwrite them.
ParseResponse(resp) ==
    [t \in TxIds |-> CASE resp.events[t] # NoStatus -> resp.events[t]
                       [] resp.events[t] = NoStatus /\ t \in resp.timeouts -> Unspecified
                       [] OTHER -> NoStatus]

\* Variant with a fault: the entries stay in the map.
CollectKeepingEntries ==
    LET res == ParseResponse(inHand) IN
    /\ inHand # NoResponse
    /\ notifications' = [c \in Callers |-> IF c \in subscribers[TxOf[c]]
                                           THEN res[TxOf[c]] ELSE NoStatus]
    /\ inHand' = NoResponse
    /\ UNCHANGED <<callVars, listenerVars, sending, received, streamVars>>

\* Under subscribersMu: take the receivers of every txID of the message out of
\* the map and remember what each is to be sent.
Collect ==
    LET res == ParseResponse(inHand) IN
    /\ inHand # NoResponse
    /\ notifications' = [c \in Callers |-> IF c \in subscribers[TxOf[c]]
                                           THEN res[TxOf[c]] ELSE NoStatus]
    /\ subscribers' = [t \in TxIds |-> IF res[t] # NoStatus THEN {} ELSE subscribers[t]]
    /\ inHand' = NoResponse
    /\ UNCHANGED <<pc, chan, got, listenerVars, sending, received, streamVars>>

\* Variant with a fault: the channel has no buffer, the send needs a receiver.
NotifyUnbuffered(c) ==
    /\ notifications[c] # NoStatus
    /\ chan' = [chan EXCEPT ![c] = IF pc[c] = "subscribed" THEN notifications[c] ELSE @]
    /\ notifications' = [notifications EXCEPT ![c] = NoStatus]
    /\ UNCHANGED <<pc, subscribers, got, listenerVars, sending, received, inHand,
                   streamVars>>

\* Outside the lock: the non-blocking send; on a full channel it is dropped.
Notify(c) ==
    /\ notifications[c] # NoStatus
    /\ chan' = [chan EXCEPT ![c] = IF @ = NoStatus THEN notifications[c] ELSE @]
    /\ notifications' = [notifications EXCEPT ![c] = NoStatus]
    /\ UNCHANGED <<pc, subscribers, got, listenerVars, sending, received, inHand,
                   streamVars>>

DispatcherStops ==
    /\ DispatcherIdle
    /\ GroupDone
    /\ Return("dispatcher", "canceled")
    /\ UNCHANGED <<callVars, streamErr, closed, listener, pipeVars, streamVars>>

\* Variant with a fault: listen() does not wait for the group.
WaitFirstError ==
    /\ listener = "running"
    /\ GroupDone
    /\ listener' = "cleaning"
    /\ streamErr' = (streamErr \/ groupErr = "failed")
    /\ UNCHANGED <<callVars, closed, running, groupErr, pipeVars, streamVars>>

\* g.Wait returns: an error other than context.Canceled is stored...
WaitGroup ==
    /\ listener = "running"
    /\ running = {}
    /\ listener' = "cleaning"
    /\ streamErr' = (streamErr \/ groupErr = "failed")
    /\ UNCHANGED <<callVars, closed, running, groupErr, pipeVars, streamVars>>

\* ... and then, under subscribersMu, the map is cleared.
Clear ==
    /\ listener = "cleaning"
    /\ listener' = "exited"
    /\ subscribers' = [t \in TxIds |-> {}]
    /\ UNCHANGED <<pc, chan, got, streamErr, closed, running, groupErr, pipeVars,
                   streamVars>>

\* Close: cancel the listener's context and close the connection.
Close ==
    /\ ~closed
    /\ closed' = TRUE
    /\ streamUp' = FALSE
    /\ UNCHANGED <<callVars, streamErr, listener, running, groupErr, pipeVars, upstream,
                   wire>>

-----------------------------------------------------------------------------
(* The sidecar, at the other end of the stream                             *)

\* The txIDs a message is about.
About(resp) == {t \in TxIds : t \in resp.timeouts \/ resp.events[t] # NoStatus}

\* It answers each request once, several in one message if it likes, each with
\* a status event, a timeout, or both.
Answer(resp) ==
    /\ streamUp
    /\ About(resp) # {}
    /\ \A t \in About(resp) : upstream[t] > 0
    /\ upstream' = [t \in TxIds |-> IF t \in About(resp) THEN upstream[t] - 1
                                                      ELSE upstream[t]]
    /\ wire' = Append(wire, resp)
    /\ UNCHANGED <<callVars, listenerVars, pipeVars, streamUp>>

\* The server or the network ends the stream.
StreamBreaks ==
    /\ streamUp
    /\ streamUp' = FALSE
    /\ UNCHANGED <<callVars, listenerVars, pipeVars, upstream, wire>>

-----------------------------------------------------------------------------
Returned(c) == pc[c] \in {"failed", "notified", "expired"}

\* Nothing is left to do.
Terminated ==
    /\ listener = "exited"
    /\ closed
    /\ \A c \in Callers : Returned(c)
    /\ UNCHANGED vars

CallStep(c) ==
    \/ FailFast(c) \/ PassCheck(c) \/ Register(c) \/ GiveUp(c) \/ RollBack(c)
    \/ ReceiveStatus(c) \/ Expire(c)

ListenerStep ==
    \/ OpenStream \/ OpenFails \/ WaitGroup \/ Clear

SenderStep ==
    \/ \E c \in Callers : TakeRequest(c)
    \/ Send \/ SendLost \/ SendFails \/ SenderStops

ReceiverStep == Receive \/ ReceiveFails \/ ReceiverStops

DispatcherStep ==
    \/ HandOver \/ Collect \/ DispatcherStops
    \/ \E c \in Callers : Notify(c)

SidecarStep == \E resp \in Responses : Answer(resp)

Next ==
    \/ \E c \in Callers : CallStep(c)
    \/ ListenerStep
    \/ SenderStep
    \/ ReceiverStep
    \/ DispatcherStep
    \/ SidecarStep
    \/ Close
    \/ StreamBreaks
    \/ Terminated

Spec == Init /\ [][Next]_vars

\* The scheduler runs every goroutine of listen(), and the sidecar answers each
\* request or reports its timeout.  Callers, Close and the network owe nothing.
Fairness ==
    /\ WF_vars(ListenerStep)
    /\ WF_vars(SenderStep)
    /\ WF_vars(ReceiverStep)
    /\ WF_vars(DispatcherStep)
    /\ \A t \in TxIds : WF_vars(\E resp \in Responses :
                                  Answer(resp) /\ t \in About(resp))

FairSpec == Spec /\ Fairness

\* A call that has begun goes on, and its contexts end: WaitingTimeout passes.  Only
\* EveryCallReturns assumes it.
GoesOn(c) == WF_vars(pc[c] # "idle" /\ CallStep(c))

-----------------------------------------------------------------------------
(* Properties                                                              *)

\* Type invariant; what a goroutine holds, only a running goroutine holds.
TypeOK ==
    /\ pc \in [Callers -> {"idle", "checked", "pushing", "leaving", "subscribed",
                            "failed", "notified", "expired"}]
    /\ subscribers \in [TxIds -> SUBSET Callers]
    /\ chan \in [Callers -> Values \cup {NoStatus}]
    /\ got \in [Callers -> Values \cup {NoStatus}]
    /\ streamErr \in BOOLEAN
    /\ closed \in BOOLEAN
    /\ listener \in {"opening", "running", "cleaning", "exited"}
    /\ running \in SUBSET Goroutines
    /\ groupErr \in {"none", "canceled", "failed"}
    /\ sending \in TxIds \cup {NoTx}
    /\ received \in Responses \cup {NoResponse}
    /\ inHand \in Responses \cup {NoResponse}
    /\ notifications \in [Callers -> Values \cup {NoStatus}]
    /\ streamUp \in BOOLEAN
    /\ upstream \in [TxIds -> Nat]
    /\ wire \in Seq(Responses)
    /\ sending # NoTx => "sender" \in running
    /\ received # NoResponse => "receiver" \in running
    /\ inHand # NoResponse => "dispatcher" \in running
    /\ running # {} => listener = "running"

\* A call is told at most once (notifications.go:259-278): it is registered under
\* its own txID only, and it is in one place: not yet registered, registered, on
\* the dispatcher's list, in its channel, or told.  The dispatcher takes the next
\* message only when its list is empty.
ToldOnce ==
    /\ \A c \in Callers :
          /\ pc[c] \in {"idle", "checked"} => /\ c \notin subscribers[TxOf[c]]
                                             /\ notifications[c] = NoStatus
                                             /\ chan[c] = NoStatus
                                             /\ got[c] = NoStatus
          /\ \A t \in TxIds : c \in subscribers[t] => t = TxOf[c]
          /\ c \in subscribers[TxOf[c]] => notifications[c] = NoStatus /\ chan[c] = NoStatus
          /\ notifications[c] # NoStatus => chan[c] = NoStatus
          /\ (c \in subscribers[TxOf[c]] \/ notifications[c] # NoStatus \/ chan[c] # NoStatus)
                => got[c] = NoStatus
    /\ inHand # NoResponse => \A c \in Callers : notifications[c] = NoStatus

\* The dispatcher's non-blocking send (notifications.go:272-278) has a default
\* branch, "message dropped".  It is never taken: whenever a send is made, the
\* caller's channel receives exactly that status.
NothingDropped ==
    [][\A c \in Callers :
          notifications[c] # NoStatus /\ notifications'[c] # notifications[c]
              => chan'[c] = notifications[c]]_vars

\* The number of things under way, between the push of a request for t and the
\* moment its answer is taken out of the map.
Mentions(resp, t) == resp # NoResponse /\ t \in About(resp)

UnderWay(t) ==
      Cardinality({c \in Callers : TxOf[c] = t /\ pc[c] = "pushing"})
    + (IF sending = t THEN 1 ELSE 0)
    + upstream[t]
    + Cardinality({i \in DOMAIN wire : Mentions(wire[i], t)})
    + (IF Mentions(received, t) THEN 1 ELSE 0)
    + (IF Mentions(inHand, t) THEN 1 ELSE 0)

\* "Multiple subscribers to the same txID share a single upstream subscription"
\* (notifications.go:82): there is never a second request for a txID while one
\* is pushed, sent or answered, whatever calls join, time out and roll back.
SingleUpstreamRequest ==
    listener # "exited" => \A t \in TxIds : UnderWay(t) <= 1

\* A call of Subscribe that returned an error is told nothing, and while it
\* pushes or rolls back nothing is under way to it: rollback and the cleanup of
\* the dispatcher never meet (the race the comment at 110-113 prepares for).
FailedCallNotNotified ==
    \A c \in Callers : pc[c] \in {"checked", "pushing", "leaving", "failed"} =>
        notifications[c] = NoStatus /\ chan[c] = NoStatus

\* While the group works, a txID with registered calls has a request under way,
\* unless the one call that was to push it timed out or was cancelled.
RegisteredIsRequested ==
    listener \in {"opening", "running"} =>
        \A t \in TxIds :
            subscribers[t] # {} =>
                \/ UnderWay(t) = 1
                \/ ~streamUp
                \/ \E c \in Callers : TxOf[c] = t /\ pc[c] \in {"leaving", "failed"}

\* What 82 promises to the second subscriber: as long as the stream works and
\* no rollback is in progress, a call that Subscribe accepted is covered by a
\* request that is under way.
AcceptedIsRequested ==
    streamUp => \A c \in Callers :
        \/ pc[c] # "subscribed"
        \/ c \notin subscribers[TxOf[c]]
        \/ \E d \in Callers : TxOf[d] = TxOf[c] /\ pc[d] = "leaving"
        \/ UnderWay(TxOf[c]) >= 1

\* Once Close was called or the stream broke, listen() gets to its end: none of
\* its goroutines stays blocked on a channel or on the group.
ListenerEnds ==
    (closed \/ (listener = "running" /\ ~streamUp)) ~> (listener = "exited")

\* Every call registered when the sidecar has the request is handed its status
\* (or the report of the timeout), unless the stream ends first, also when
\* WaitForEvent has stopped waiting.
RequestedIsNotified ==
    \A c \in Callers :
        (upstream[TxOf[c]] > 0 /\ c \in subscribers[TxOf[c]])
            ~> (~streamUp \/ chan[c] # NoStatus \/ got[c] # NoStatus)

\* Every call of Subscribe and WaitForEvent returns, even one that passed the check of
\* streamErr and registered after the map was cleared, whose request was lost on a dead
\* stream, or whose listener never came to run (notifications.go:89-108, 194-196,
\* 231): wherever it blocks, its own context ends the wait (143-157, 166-185).
EveryCallReturns ==
    \A c \in Callers : GoesOn(c) => ((pc[c] # "idle") ~> Returned(c))

\* What each call has been told, wherever the status is by now.
Told(c) ==
    CASE notifications[c] # NoStatus -> notifications[c]
      [] notifications[c] = NoStatus /\ chan[c] # NoStatus -> chan[c]
      [] OTHER -> got[c]

\* The client implements TxStatusNotification: an answer resolves all calls
\* registered for its txIDs at once, exactly one value each, for good, and where it
\* has a status and a timeout of one transaction the status counts (303-315).
Abs == INSTANCE TxStatusNotification WITH
           interest <- UNION {subscribers[t] : t \in TxIds},
           outcome  <- [c \in Callers |-> Told(c)],
           answer   <- inHand,
           Answers  <- Responses,
           NoAnswer <- NoResponse

ImplementsNotification == Abs!AbsSpec

=============================================================================
