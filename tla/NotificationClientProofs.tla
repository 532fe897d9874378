---------------------- MODULE NotificationClientProofs ----------------------
(***************************************************************************)
(* Theorems of NotificationClient, for any calls, transactions and         *)
(* statuses.                                                               *)
(***************************************************************************)
EXTENDS NotificationClient, FiniteSetTheorems, TLAPS

(***************************************************************************)
(* Type correctness.                                                       *)
(***************************************************************************)

\* parseResponse gives every txID a status, a timeout or nothing.
LEMMA ParseType ==
    ASSUME NEW resp \in Responses
    PROVE  ParseResponse(resp) \in [TxIds -> Values \cup {NoStatus}]
BY DEF ParseResponse, Responses, Values

\* Every variable keeps its type, and only a goroutine of the errgroup that has
\* not returned holds a request or a response.
THEOREM TypeCorrect == Spec => []TypeOK
<1> USE NotificationAssumption
<1>1. Init => TypeOK
  <2> SUFFICES ASSUME Init PROVE TypeOK
    OBVIOUS
  <2> USE DEF Init
  <2>1. /\ pc \in [Callers -> {"idle", "checked", "pushing", "leaving", "subscribed",
                                "failed", "notified", "expired"}]
        /\ subscribers \in [TxIds -> SUBSET Callers]
    OBVIOUS
  <2>2. /\ chan \in [Callers -> Values \cup {NoStatus}]
        /\ got \in [Callers -> Values \cup {NoStatus}]
        /\ notifications \in [Callers -> Values \cup {NoStatus}]
    OBVIOUS
  <2>3. /\ streamErr \in BOOLEAN
        /\ closed \in BOOLEAN
        /\ streamUp \in BOOLEAN
    OBVIOUS
  <2>4. /\ upstream \in [TxIds -> Nat]
        /\ wire \in Seq(Responses)
    OBVIOUS
  <2>5. running \in SUBSET Goroutines
   OBVIOUS
  <2> QED BY <2>1, <2>2, <2>3, <2>4, <2>5 DEF TypeOK
<1>2. TypeOK /\ [Next]_vars => TypeOK'
  <2> SUFFICES ASSUME TypeOK, [Next]_vars PROVE TypeOK'
    OBVIOUS
  <2> USE DEF TypeOK, callVars, listenerVars, pipeVars, streamVars
  <2>1. ASSUME NEW c \in Callers, CallStep(c) PROVE TypeOK'
    <3>1. CASE FailFast(c) BY <3>1 DEF FailFast, Goto
    <3>2. CASE PassCheck(c) BY <3>2 DEF PassCheck, Goto
    <3>3. CASE Register(c) BY <3>3 DEF Register, Goto
    <3>4. CASE GiveUp(c) BY <3>4 DEF GiveUp, Goto
    <3>5. CASE RollBack(c) BY <3>5 DEF RollBack, Goto
    <3>6. CASE ReceiveStatus(c) BY <3>6 DEF ReceiveStatus, Goto
    <3>7. CASE Expire(c) BY <3>7 DEF Expire, Goto
    <3> QED BY <2>1, <3>1, <3>2, <3>3, <3>4, <3>5, <3>6, <3>7 DEF CallStep
  <2>2. CASE ListenerStep
    <3>1. CASE OpenStream BY <3>1 DEF OpenStream, Goroutines
    <3>2. CASE OpenFails BY <3>2 DEF OpenFails
    <3>3. CASE WaitGroup BY <3>3 DEF WaitGroup
    <3>4. CASE Clear BY <3>4 DEF Clear
    <3> QED BY <2>2, <3>1, <3>2, <3>3, <3>4 DEF ListenerStep
  <2>3. CASE SenderStep
    <3>1. ASSUME NEW c \in Callers, TakeRequest(c) PROVE TypeOK'
      BY <3>1 DEF TakeRequest, Goto
    <3>2. CASE Send BY <3>2 DEF Send
    <3>3. CASE SendLost BY <3>3 DEF SendLost
    <3>4. CASE SendFails BY <3>4 DEF SendFails, Return
    <3>5. CASE SenderStops BY <3>5 DEF SenderStops, Return
    <3> QED BY <2>3, <3>1, <3>2, <3>3, <3>4, <3>5 DEF SenderStep
  <2>4. CASE ReceiverStep
    <3>1. CASE Receive BY <3>1 DEF Receive
    <3>2. CASE ReceiveFails BY <3>2 DEF ReceiveFails, Return
    <3>3. CASE ReceiverStops BY <3>3 DEF ReceiverStops, Return
    <3> QED BY <2>4, <3>1, <3>2, <3>3 DEF ReceiverStep
  <2>5. CASE DispatcherStep
    <3>1. CASE HandOver BY <3>1 DEF HandOver, DispatcherIdle
    <3>2. CASE Collect
      <4>1. inHand \in Responses
        BY <3>2 DEF Collect
      <4>2. ParseResponse(inHand) \in [TxIds -> Values \cup {NoStatus}]
        BY <4>1, ParseType
      <4> QED BY <3>2, <4>2 DEF Collect
    <3>3. ASSUME NEW c \in Callers, Notify(c) PROVE TypeOK'
      BY <3>3 DEF Notify
    <3>4. CASE DispatcherStops BY <3>4 DEF DispatcherStops, DispatcherIdle, Return
    <3> QED BY <2>5, <3>1, <3>2, <3>3, <3>4 DEF DispatcherStep
  <2>6. CASE SidecarStep
    <3> PICK resp \in Responses : Answer(resp)
      BY <2>6 DEF SidecarStep
    <3>1. upstream' \in [TxIds -> Nat]
      BY DEF Answer, About
    <3> QED BY <3>1 DEF Answer
  <2>7. CASE Close BY <2>7 DEF Close
  <2>8. CASE StreamBreaks BY <2>8 DEF StreamBreaks
  <2>9. CASE UNCHANGED vars BY <2>9 DEF vars
  <2>10. CASE Terminated BY <2>10, <2>9 DEF Terminated
  <2> QED BY <2>1, <2>2, <2>3, <2>4, <2>5, <2>6, <2>7, <2>8, <2>9, <2>10 DEF Next
<1> QED BY <1>1, <1>2, PTL DEF Spec

(***************************************************************************)
(* Every call is told at most once, and no send of the dispatcher meets a  *)
(* full channel.  ToldOnce is inductive: the map entry of a txID and the   *)
(* dispatcher's list change hands in one critical section.                 *)
(***************************************************************************)

THEOREM ToldOnceInit == Init => ToldOnce
BY NotificationAssumption DEF Init, ToldOnce

LEMMA ToldOnceStep == TypeOK /\ ToldOnce /\ [Next]_vars => ToldOnce'
<1> SUFFICES ASSUME TypeOK, ToldOnce, [Next]_vars PROVE ToldOnce'
  OBVIOUS
<1> USE NotificationAssumption DEF callVars, listenerVars, pipeVars, streamVars
<1>1. ASSUME NEW c \in Callers, CallStep(c) PROVE ToldOnce'
  <2> USE DEF TypeOK, ToldOnce, Goto
  <2>1. CASE FailFast(c) BY <2>1 DEF FailFast
  <2>2. CASE PassCheck(c) BY <2>2 DEF PassCheck
  <2>3. CASE Register(c) BY <2>3 DEF Register
  <2>4. CASE GiveUp(c) BY <2>4 DEF GiveUp
  <2>5. CASE RollBack(c) BY <2>5 DEF RollBack
  <2>6. CASE ReceiveStatus(c) BY <2>6 DEF ReceiveStatus
  <2>7. CASE Expire(c) BY <2>7 DEF Expire
  <2> QED BY <1>1, <2>1, <2>2, <2>3, <2>4, <2>5, <2>6, <2>7 DEF CallStep
<1>2. CASE ListenerStep
  <2>1. CASE Clear BY <2>1 DEF Clear, ToldOnce, TypeOK
  <2>2. CASE OpenStream \/ OpenFails \/ WaitGroup
    BY <2>2 DEF OpenStream, OpenFails, WaitGroup, ToldOnce
  <2> QED BY <1>2, <2>1, <2>2 DEF ListenerStep
<1>3. CASE SenderStep
  <2>1. ASSUME NEW c \in Callers, TakeRequest(c) PROVE ToldOnce'
    BY <2>1 DEF TakeRequest, Goto, ToldOnce, TypeOK
  <2>2. CASE Send \/ SendLost \/ SendFails \/ SenderStops
    BY <2>2 DEF Send, SendLost, SendFails, SenderStops, ToldOnce
  <2> QED BY <1>3, <2>1, <2>2 DEF SenderStep
<1>4. CASE ReceiverStep
  BY <1>4 DEF ReceiverStep, Receive, ReceiveFails, ReceiverStops, ToldOnce
<1>5. CASE DispatcherStep
  <2>1. CASE HandOver BY <2>1 DEF HandOver, DispatcherIdle, ToldOnce
  <2>2. CASE Collect
    <3>1. inHand \in Responses
      BY <2>2 DEF Collect, TypeOK
    <3>2. ParseResponse(inHand) \in [TxIds -> Values \cup {NoStatus}]
      BY <3>1, ParseType
    <3> QED BY <2>2, <3>2 DEF Collect, ToldOnce, TypeOK
  <2>3. ASSUME NEW c \in Callers, Notify(c) PROVE ToldOnce'
    BY <2>3 DEF Notify, ToldOnce, TypeOK
  <2>4. CASE DispatcherStops
    BY <2>4 DEF DispatcherStops, ToldOnce
  <2> QED BY <1>5, <2>1, <2>2, <2>3, <2>4 DEF DispatcherStep
<1>6. CASE SidecarStep \/ Close \/ StreamBreaks
  BY <1>6 DEF SidecarStep, Answer, Close, StreamBreaks, ToldOnce
<1>7. CASE Terminated \/ UNCHANGED vars
  BY <1>7 DEF Terminated, vars, ToldOnce
<1> QED BY <1>1, <1>2, <1>3, <1>4, <1>5, <1>6, <1>7 DEF Next

THEOREM ToldOnceAlways == Spec => []ToldOnce
<1>1. TypeOK /\ ToldOnce /\ [Next]_vars => ToldOnce'
  BY ToldOnceStep
<1> QED BY ToldOnceInit, TypeCorrect, <1>1, PTL DEF Spec

\* A step that changes a caller's place on the dispatcher's list is the send.
LEMMA SendReachesChannel ==
    TypeOK /\ ToldOnce /\ [Next]_vars =>
        [\A c \in Callers :
            notifications[c] # NoStatus /\ notifications'[c] # notifications[c]
                => chan'[c] = notifications[c]]_vars
<1> SUFFICES ASSUME TypeOK, ToldOnce, Next, NEW c \in Callers,
                    notifications[c] # NoStatus, notifications'[c] # notifications[c]
             PROVE  chan'[c] = notifications[c]
  OBVIOUS
<1> USE DEF callVars, listenerVars, pipeVars, streamVars
<1>1. ASSUME NEW d \in Callers, Notify(d) PROVE chan'[c] = notifications[c]
  BY <1>1 DEF Notify, TypeOK, ToldOnce
<1>2. ~Collect
  BY DEF Collect, ToldOnce
<1>3. ASSUME NEW d \in Callers, CallStep(d) PROVE FALSE
  BY <1>3 DEF CallStep, FailFast, PassCheck, Register, GiveUp, RollBack, ReceiveStatus, Expire
<1>4. ~ListenerStep
  BY DEF ListenerStep, OpenStream, OpenFails, WaitGroup, Clear
<1>5. ~SenderStep
  BY DEF SenderStep, TakeRequest, Send, SendLost, SendFails, SenderStops
<1>6. ~ReceiverStep
  BY DEF ReceiverStep, Receive, ReceiveFails, ReceiverStops
<1>7. ~HandOver /\ ~DispatcherStops
  BY DEF HandOver, DispatcherStops
<1>8. ~SidecarStep /\ ~Close /\ ~StreamBreaks /\ ~Terminated
  BY DEF SidecarStep, Answer, Close, StreamBreaks, Terminated, vars
<1> QED BY <1>1, <1>2, <1>3, <1>4, <1>5, <1>6, <1>7, <1>8 DEF Next, DispatcherStep

THEOREM NothingDroppedEver == Spec => NothingDropped
BY TypeCorrect, ToldOnceAlways, SendReachesChannel, PTL DEF Spec, NothingDropped

(***************************************************************************)
(* The client implements TxStatusNotification.  Interest is the union of   *)
(* the map's entries; an answer is resolved at the step that takes its     *)
(* receivers out of the map.                                               *)
(***************************************************************************)

Interest == UNION {subscribers[t] : t \in TxIds}

LEMMA InterestIsOwnEntry ==
    ASSUME TypeOK, ToldOnce, NEW c \in Callers
    PROVE  c \in Interest <=> c \in subscribers[TxOf[c]]
BY NotificationAssumption DEF Interest, TypeOK, ToldOnce

\* A step that leaves the map, the response in hand and every Told alone is a
\* stuttering step.
LEMMA SameIsStutter ==
    ASSUME UNCHANGED subscribers, UNCHANGED inHand, \A c \in Callers : Told(c)' = Told(c)
    PROVE  UNCHANGED Abs!absVars
BY DEF Abs!absVars, Interest

LEMMA AbstractInit == Init => Abs!AbsInit
<1> SUFFICES ASSUME Init PROVE Abs!AbsInit
  OBVIOUS
<1>1. UNION {subscribers[t] : t \in TxIds} = {}
  BY DEF Init
<1>2. \A c \in Callers : Told(c) = NoStatus
  BY DEF Init, Told
<1>3. inHand = NoResponse
  BY DEF Init
<1> QED BY <1>1, <1>2, <1>3 DEF Abs!AbsInit

LEMMA AbstractStep ==
    TypeOK /\ TypeOK' /\ ToldOnce /\ ToldOnce' /\ [Next]_vars => [Abs!AbsNext]_(Abs!absVars)
<1> SUFFICES ASSUME TypeOK, TypeOK', ToldOnce, ToldOnce', [Next]_vars
             PROVE  Abs!AbsNext \/ UNCHANGED Abs!absVars
  OBVIOUS
<1> USE NotificationAssumption DEF callVars, listenerVars, pipeVars, streamVars
<1>1. ASSUME NEW c \in Callers, CallStep(c)
      PROVE  Abs!AbsNext \/ UNCHANGED Abs!absVars
  <2>1. CASE Register(c)
    <3>1. c \notin Interest /\ Told(c) = NoStatus
      BY <2>1, InterestIsOwnEntry DEF Register, Goto, ToldOnce, Told
    <3>2. Interest' = Interest \cup {c}
      BY <2>1 DEF Register, Interest, TypeOK
    <3>3. \A d \in Callers : Told(d)' = Told(d)
      BY <2>1 DEF Register, Told
    <3>4. UNCHANGED inHand
      BY <2>1 DEF Register
    <3> QED BY <3>1, <3>2, <3>3, <3>4 DEF Abs!AbsNext, Abs!Join, Interest
  <2>2. CASE RollBack(c)
    <3>1. Interest' = Interest \ {c}
      BY <2>2 DEF RollBack, Interest, TypeOK, ToldOnce
    <3>2. \A d \in Callers : Told(d)' = Told(d)
      BY <2>2 DEF RollBack, Told
    <3>5. UNCHANGED inHand
      BY <2>2 DEF RollBack
    <3>3. CASE c \in Interest
      BY <3>1, <3>2, <3>3, <3>5 DEF Abs!AbsNext, Abs!Withdraw, Interest
    <3>4. CASE c \notin Interest
      BY <3>1, <3>2, <3>4, <3>5 DEF Abs!absVars, Interest
    <3> QED BY <3>3, <3>4
  <2>3. CASE ReceiveStatus(c)
    <3>1. \A d \in Callers : Told(d)' = Told(d)
      BY <2>3 DEF ReceiveStatus, Told, TypeOK, ToldOnce
    <3> QED BY <2>3, <3>1, SameIsStutter DEF ReceiveStatus
  <2>4. CASE FailFast(c) \/ PassCheck(c) \/ GiveUp(c) \/ Expire(c)
    <3>1. UNCHANGED <<subscribers, inHand, notifications, chan, got>>
      BY <2>4 DEF FailFast, PassCheck, GiveUp, Expire
    <3> QED BY <3>1, SameIsStutter DEF Told
  <2> QED BY <1>1, <2>1, <2>2, <2>3, <2>4 DEF CallStep
<1>2. CASE Clear
  <2>1. Interest' = {}
    BY <1>2 DEF Clear, Interest
  <2>2. \A d \in Callers : Told(d)' = Told(d)
    BY <1>2 DEF Clear, Told
  <2>3. UNCHANGED inHand
    BY <1>2 DEF Clear
  <2> QED BY <2>1, <2>2, <2>3 DEF Abs!AbsNext, Abs!DropAll, Interest
<1>3. CASE Collect
  <2> DEFINE values == ParseResponse(inHand)
  <2>1. inHand \in Responses /\ inHand # NoResponse /\ inHand' = NoResponse
    BY <1>3 DEF Collect, TypeOK
  <2>2. \A t \in TxIds :
           /\ inHand.events[t] # NoStatus => values[t] = inHand.events[t]
           /\ inHand.events[t] = NoStatus /\ t \in inHand.timeouts => values[t] = Unspecified
           /\ inHand.events[t] = NoStatus /\ t \notin inHand.timeouts => values[t] = NoStatus
    BY DEF ParseResponse
  <2>3. Unspecified # NoStatus /\ \A c \in Callers : TxOf[c] \in TxIds
    BY DEF Values
  <2>4. Interest' = Interest \ {c \in Interest : values[TxOf[c]] # NoStatus}
    BY <1>3 DEF Collect, Interest, TypeOK, ToldOnce
  <2>5. \A c \in Callers : Told(c)' = IF c \in Interest /\ values[TxOf[c]] # NoStatus
                                      THEN values[TxOf[c]] ELSE Told(c)
    <3> TAKE c \in Callers
    <3>1. /\ notifications[c] = NoStatus
          /\ UNCHANGED <<chan, got>>
          /\ notifications'[c] = IF c \in Interest THEN values[TxOf[c]] ELSE NoStatus
      BY <1>3, InterestIsOwnEntry DEF Collect, ToldOnce
    <3> HIDE DEF values
    <3> QED BY <3>1 DEF Told
  <2> HIDE DEF values
  <2>6. Interest \subseteq Callers
    BY DEF Interest, TypeOK
  <2>7. Interest' = Interest \ (Abs!Decided \cup Abs!TimedOut)
    BY <2>2, <2>3, <2>4, <2>6 DEF Abs!Decided, Abs!TimedOut, Interest
  <2>8. \A c \in Callers : Told(c)' = CASE c \in Abs!Decided -> inHand.events[TxOf[c]]
                                        [] c \in Abs!TimedOut -> Unspecified
                                        [] OTHER -> Told(c)
    BY <2>2, <2>3, <2>5 DEF Abs!Decided, Abs!TimedOut, Interest
  <2>9. Abs!Resolve
    BY <2>1, <2>7, <2>8 DEF Abs!Resolve, Interest
  <2> QED BY <2>9 DEF Abs!AbsNext
<1>4. ASSUME NEW c \in Callers, Notify(c)
      PROVE  UNCHANGED Abs!absVars
  <2>1. \A d \in Callers : Told(d)' = Told(d)
    BY <1>4 DEF Notify, Told, TypeOK, ToldOnce
  <2> QED BY <1>4, <2>1, SameIsStutter DEF Notify
<1>5. ASSUME UNCHANGED <<subscribers, inHand, notifications, chan, got>>
      PROVE  UNCHANGED Abs!absVars
  BY <1>5, SameIsStutter DEF Told
<1>6. CASE OpenStream \/ OpenFails \/ WaitGroup
  BY <1>6, <1>5 DEF OpenStream, OpenFails, WaitGroup
<1>7. CASE SenderStep
  BY <1>7, <1>5 DEF SenderStep, TakeRequest, Send, SendLost, SendFails, SenderStops
<1>8. CASE ReceiverStep
  BY <1>8, <1>5 DEF ReceiverStep, Receive, ReceiveFails, ReceiverStops
<1>9. CASE HandOver
  <2>1. /\ inHand = NoResponse /\ inHand' \in Responses
        /\ UNCHANGED <<subscribers, notifications, chan, got>>
    BY <1>9 DEF HandOver, DispatcherIdle, TypeOK
  <2>2. Abs!Take(inHand')
    BY <2>1 DEF Abs!Take, Told
  <2> QED BY <2>1, <2>2 DEF Abs!AbsNext
<1>12. CASE DispatcherStops
  BY <1>12, <1>5 DEF DispatcherStops
<1>10. CASE SidecarStep \/ Close \/ StreamBreaks
  BY <1>10, <1>5 DEF SidecarStep, Answer, Close, StreamBreaks
<1>11. CASE Terminated \/ UNCHANGED vars
  BY <1>11, <1>5 DEF Terminated, vars
<1> QED BY <1>1, <1>2, <1>3, <1>4, <1>6, <1>7, <1>8, <1>9, <1>10, <1>11,
          <1>12
        DEF Next, ListenerStep, DispatcherStep

\* Every behaviour of the client is a behaviour of TxStatusNotification: an answer
\* resolves all registered calls in one step, by its status where it has one and else
\* by the timeout, and a call's outcome is final.
THEOREM ClientImplementsNotification == Spec => ImplementsNotification
<1>1. Init => Abs!AbsInit
  BY AbstractInit
<1>2. TypeOK /\ TypeOK' /\ ToldOnce /\ ToldOnce' /\ [Next]_vars
          => [Abs!AbsNext]_(Abs!absVars)
  BY AbstractStep
<1> QED BY <1>1, <1>2, TypeCorrect, ToldOnceAlways, PTL
        DEF Spec, ImplementsNotification, Abs!AbsSpec

(***************************************************************************)
(* One upstream request per transaction, and no status for a call whose    *)
(* Subscribe failed.  The inductive invariant follows the one request of a *)
(* txID from the call that pushes it to the dispatcher: it is in one place *)
(* only; from the moment it is sent its entry stays in the map, so nobody  *)
(* else pushes; and a call that may still roll back has sent nothing.      *)
(***************************************************************************)

OnWire(t) == \E i \in DOMAIN wire : Mentions(wire[i], t)

Answered(t) == OnWire(t) \/ Mentions(received, t) \/ Mentions(inHand, t)

Sent(t) == sending = t \/ upstream[t] > 0 \/ Answered(t)

OnePlace(t) ==
    /\ sending = t => upstream[t] = 0 /\ ~Answered(t)
    /\ upstream[t] > 0 => upstream[t] = 1 /\ ~Answered(t)
    /\ OnWire(t) => ~Mentions(received, t) /\ ~Mentions(inHand, t)
    /\ \A i, j \in DOMAIN wire : Mentions(wire[i], t) /\ Mentions(wire[j], t) => i = j
    /\ Mentions(received, t) => ~Mentions(inHand, t)

\* A call between the append to the map and the fate of its push.
Undecided(c) == pc[c] \in {"pushing", "leaving"}

Alone(c) ==
    /\ c \in subscribers[TxOf[c]]
    /\ ~Sent(TxOf[c])
    /\ \A d \in Callers : TxOf[d] = TxOf[c] /\ Undecided(d) => d = c

RequestInv ==
    /\ FailedCallNotNotified
    /\ \A c \in Callers : pc[c] = "failed" => c \notin subscribers[TxOf[c]]
    /\ listener # "exited" =>
         /\ \A t \in TxIds : OnePlace(t) /\ (Sent(t) => subscribers[t] # {})
         /\ \A c \in Callers : Undecided(c) => Alone(c)

LEMMA RequestInvInit == Init => RequestInv
BY NotificationAssumption
   DEF Init, RequestInv, FailedCallNotNotified, OnePlace, Sent, Answered, OnWire, Mentions,
       Undecided

\* A message addresses a call through the map only, at Collect.
LEMMA ParseAbout ==
    ASSUME NEW resp \in Responses, NEW t \in TxIds
    PROVE  ParseResponse(resp)[t] # NoStatus <=> Mentions(resp, t)
BY NotificationAssumption DEF ParseResponse, Mentions, About, Responses, Values

LEMMA RequestInvStep ==
    TypeOK /\ TypeOK' /\ ToldOnce /\ RequestInv /\ [Next]_vars => RequestInv'
<1> SUFFICES ASSUME TypeOK, TypeOK', ToldOnce, RequestInv, [Next]_vars
             PROVE  RequestInv'
  OBVIOUS
<1> USE NotificationAssumption DEF callVars, listenerVars, pipeVars, streamVars
<1>1. ASSUME UNCHANGED <<sending, upstream, wire, received, inHand>>
      PROVE  \A t \in TxIds : (OnePlace(t)' <=> OnePlace(t)) /\ (Sent(t)' <=> Sent(t))
  BY <1>1 DEF OnePlace, Sent, Answered, OnWire
<1>2. ASSUME NEW c \in Callers, CallStep(c) PROVE RequestInv'
  <2>1. UNCHANGED <<sending, upstream, wire, received, inHand, listener, notifications>>
    BY <1>2 DEF CallStep, FailFast, PassCheck, Register, GiveUp, RollBack, ReceiveStatus,
                Expire
  <2>2. \A t \in TxIds : (OnePlace(t)' <=> OnePlace(t)) /\ (Sent(t)' <=> Sent(t))
    BY <1>1, <2>1
  <2> USE DEF TypeOK, ToldOnce, Goto, RequestInv, FailedCallNotNotified, Undecided, Alone
  <2>3. CASE FailFast(c) BY <2>1, <2>2, <2>3 DEF FailFast
  <2>4. CASE PassCheck(c) BY <2>1, <2>2, <2>4 DEF PassCheck
  <2>5. CASE Register(c) BY <2>1, <2>2, <2>5 DEF Register
  <2>6. CASE GiveUp(c) BY <2>1, <2>2, <2>6 DEF GiveUp
  <2>7. CASE RollBack(c) BY <2>1, <2>2, <2>7 DEF RollBack
  <2>8. CASE ReceiveStatus(c) BY <2>1, <2>2, <2>8 DEF ReceiveStatus
  <2>9. CASE Expire(c) BY <2>1, <2>2, <2>9 DEF Expire
  <2> QED BY <1>2, <2>3, <2>4, <2>5, <2>6, <2>7, <2>8, <2>9 DEF CallStep
<1>3. CASE ListenerStep
  <2>1. UNCHANGED <<sending, upstream, wire, received, inHand, pc, notifications, chan>>
    BY <1>3 DEF ListenerStep, OpenStream, OpenFails, WaitGroup, Clear
  <2>2. \A t \in TxIds : (OnePlace(t)' <=> OnePlace(t)) /\ (Sent(t)' <=> Sent(t))
    BY <1>1, <2>1
  <2> USE DEF RequestInv, FailedCallNotNotified, Undecided, Alone
  <2>3. CASE OpenStream \/ OpenFails \/ WaitGroup
    BY <2>1, <2>2, <2>3 DEF OpenStream, OpenFails, WaitGroup
  <2>4. CASE Clear
    BY <2>1, <2>2, <2>4 DEF Clear
  <2> QED BY <1>3, <2>3, <2>4 DEF ListenerStep
<1>4. CASE SenderStep
  <2>1. ASSUME NEW c \in Callers, TakeRequest(c) PROVE RequestInv'
    <3>1. UNCHANGED <<subscribers, listener, upstream, wire, received, inHand, notifications,
                      chan>>
      BY <2>1 DEF TakeRequest
    <3>2. \A t \in TxIds : Answered(t)' <=> Answered(t)
      BY <3>1 DEF Answered, OnWire
    <3>3. \A t \in TxIds : Sent(t)' <=> (Sent(t) \/ t = TxOf[c])
      BY <2>1, <3>1, <3>2 DEF TakeRequest, Sent
    <3>4. listener # "exited" => \A t \in TxIds : OnePlace(t)'
      BY <2>1, <3>1, <3>2 DEF TakeRequest, Goto, RequestInv, Undecided, Alone, Sent, OnePlace,
                              OnWire, TypeOK
    <3>5. /\ Undecided(c) /\ ~Undecided(c)'
          /\ \A d \in Callers : d # c => pc'[d] = pc[d]
          /\ pc'[c] = "subscribed"
      BY <2>1 DEF TakeRequest, Goto, Undecided, TypeOK
    <3>6. ASSUME listener # "exited", NEW d \in Callers, Undecided(d)'
          PROVE  Alone(d)'
      <4>1. d # c /\ Undecided(d)
        BY <3>5, <3>6 DEF Undecided
      <4>2. Alone(c) /\ Alone(d)
        BY <3>5, <3>6, <4>1 DEF RequestInv
      <4>3. TxOf[d] # TxOf[c]
        BY <3>5, <4>1, <4>2 DEF Alone
      <4>4. \A e \in Callers : Undecided(e)' => Undecided(e)
        BY <3>5 DEF Undecided
      <4> QED BY <3>1, <3>3, <4>2, <4>3, <4>4 DEF Alone
    <3>7. listener # "exited" => \A t \in TxIds : Sent(t)' => subscribers[t] # {}
      BY <3>3, <3>5 DEF RequestInv, Alone
    <3>8. /\ FailedCallNotNotified'
          /\ \A d \in Callers : pc'[d] = "failed" => d \notin subscribers[TxOf[d]]
      BY <3>1, <3>5 DEF RequestInv, FailedCallNotNotified
    <3> QED BY <3>1, <3>4, <3>6, <3>7, <3>8 DEF RequestInv
  <2>2. CASE Send \/ SendLost \/ SendFails
    <3>1. UNCHANGED <<pc, subscribers, listener, wire, received, inHand, notifications, chan>>
      BY <2>2 DEF Send, SendLost, SendFails
    <3>2. \A t \in TxIds : Answered(t)' <=> Answered(t)
      BY <3>1 DEF Answered, OnWire
    <3>3. \A t \in TxIds : Sent(t)' => Sent(t)
      BY <2>2, <3>1, <3>2 DEF Send, SendLost, SendFails, Sent, TypeOK
    <3>4. listener # "exited" => \A t \in TxIds : OnePlace(t)'
      BY <2>2, <3>1, <3>2 DEF Send, SendLost, SendFails, RequestInv, OnePlace, OnWire, TypeOK
    <3> QED BY <3>1, <3>3, <3>4
            DEF RequestInv, FailedCallNotNotified, Undecided, Alone
  <2>3. CASE SenderStops
    <3>1. UNCHANGED <<pc, subscribers, listener, sending, upstream, wire, received, inHand,
                      notifications, chan>>
      BY <2>3 DEF SenderStops
    <3> QED BY <1>1, <3>1 DEF RequestInv, FailedCallNotNotified, Undecided, Alone
  <2> QED BY <1>4, <2>1, <2>2, <2>3 DEF SenderStep
<1>5. CASE ReceiverStep
  <2>1. UNCHANGED <<pc, subscribers, listener, sending, upstream, inHand, notifications, chan>>
    BY <1>5 DEF ReceiverStep, Receive, ReceiveFails, ReceiverStops
  <2>2. CASE Receive
    <3>1. /\ wire # <<>>
          /\ received = NoResponse
          /\ received' = wire[1]
          /\ Len(wire') = Len(wire) - 1
          /\ 1 \in DOMAIN wire
          /\ \A i \in DOMAIN wire' : /\ i \in Nat \ {0}
                                     /\ i + 1 \in DOMAIN wire
                                     /\ wire'[i] = wire[i + 1]
      BY <2>2 DEF Receive, TypeOK
    <3>2. \A t \in TxIds : ~Mentions(received, t)
      BY <3>1 DEF Mentions
    <3>3. \A t \in TxIds : (OnWire(t)' \/ Mentions(received', t)) => OnWire(t)
      BY <3>1 DEF OnWire
    <3>4. \A t \in TxIds : Sent(t)' => Sent(t)
      BY <2>1, <3>3 DEF Sent, Answered
    <3>5. ASSUME NEW t \in TxIds, OnePlace(t) PROVE OnePlace(t)'
      <4>1. \A i, j \in DOMAIN wire' :
               Mentions(wire'[i], t) /\ Mentions(wire'[j], t) => i = j
        BY <3>1, <3>5 DEF OnePlace
      <4>2. OnWire(t)' => ~Mentions(received', t)
        <5> SUFFICES ASSUME NEW i \in DOMAIN wire', Mentions(wire'[i], t), Mentions(received', t)
                     PROVE  FALSE
          BY DEF OnWire
        <5>1. Mentions(wire[i + 1], t) /\ Mentions(wire[1], t) /\ i + 1 # 1
          BY <3>1
        <5> QED BY <3>1, <3>5, <5>1 DEF OnePlace
      <4> QED BY <2>1, <3>2, <3>3, <3>5, <4>1, <4>2 DEF OnePlace, Answered
    <3> QED BY <2>1, <3>4, <3>5 DEF RequestInv, FailedCallNotNotified, Undecided, Alone
  <2>3. CASE ReceiveFails \/ ReceiverStops
    <3>1. /\ UNCHANGED wire
          /\ received' = received \/ received' = NoResponse
      BY <2>3 DEF ReceiveFails, ReceiverStops
    <3>2. \A t \in TxIds : Mentions(received', t) => Mentions(received, t)
      BY <3>1 DEF Mentions
    <3>3. \A t \in TxIds : (OnePlace(t) => OnePlace(t)') /\ (Sent(t)' => Sent(t))
      BY <2>1, <3>1, <3>2 DEF OnePlace, Sent, Answered, OnWire
    <3> QED BY <2>1, <3>3 DEF RequestInv, FailedCallNotNotified, Undecided, Alone
  <2> QED BY <1>5, <2>2, <2>3 DEF ReceiverStep
<1>6. CASE HandOver
  <2>1. /\ UNCHANGED <<pc, subscribers, listener, sending, upstream, wire, notifications, chan>>
        /\ inHand = NoResponse /\ received' = NoResponse /\ inHand' = received
    BY <1>6 DEF HandOver, DispatcherIdle
  <2>2. \A t \in TxIds : /\ ~Mentions(inHand, t) /\ ~Mentions(received', t)
                         /\ Mentions(inHand', t) <=> Mentions(received, t)
    BY <2>1 DEF Mentions
  <2>3. \A t \in TxIds : (OnePlace(t) => OnePlace(t)') /\ (Sent(t)' => Sent(t))
    BY <2>1, <2>2 DEF OnePlace, Sent, Answered, OnWire
  <2> QED BY <2>1, <2>3 DEF RequestInv, FailedCallNotNotified, Undecided, Alone
<1>7. CASE Collect
  <2>1. /\ UNCHANGED <<pc, chan, listener, sending, upstream, wire, received>>
        /\ inHand \in Responses /\ inHand' = NoResponse
        /\ listener = "running"
    BY <1>7 DEF Collect, TypeOK
  <2>2. \A t \in TxIds : ~Mentions(inHand', t)
    BY <2>1 DEF Mentions
  <2>3. \A t \in TxIds :
           subscribers'[t] = IF Mentions(inHand, t) THEN {} ELSE subscribers[t]
    BY <1>7, <2>1, ParseAbout DEF Collect
  <2>4. \A c \in Callers :
           notifications'[c] # NoStatus =>
               c \in subscribers[TxOf[c]] /\ Mentions(inHand, TxOf[c])
    BY <1>7, <2>1, ParseAbout DEF Collect
  <2>5. \A t \in TxIds : /\ OnePlace(t) => OnePlace(t)'
                         /\ Sent(t)' => Sent(t)
                         /\ OnePlace(t) /\ Mentions(inHand, t) => ~Sent(t)'
    BY <2>1, <2>2 DEF OnePlace, Sent, Answered, OnWire, TypeOK
  <2>6. \A c \in Callers : Undecided(c) => ~Mentions(inHand, TxOf[c])
    BY <2>1 DEF RequestInv, Alone, Sent, Answered
  <2>7. FailedCallNotNotified'
    <3> SUFFICES ASSUME NEW c \in Callers,
                        pc[c] \in {"checked", "pushing", "leaving", "failed"}
                 PROVE  notifications'[c] = NoStatus /\ chan[c] = NoStatus
      BY <2>1 DEF FailedCallNotNotified
    <3>1. c \notin subscribers[TxOf[c]] \/ Undecided(c)
      BY DEF RequestInv, ToldOnce, Undecided
    <3> QED BY <2>4, <2>6, <3>1 DEF RequestInv, FailedCallNotNotified
  <2>8. ASSUME NEW c \in Callers, Undecided(c) PROVE Alone(c)'
    <3>1. Alone(c) /\ TxOf[c] \in TxIds /\ ~Mentions(inHand, TxOf[c])
      BY <2>1, <2>6, <2>8 DEF RequestInv
    <3>2. c \in subscribers'[TxOf[c]]
      BY <2>3, <3>1 DEF Alone
    <3>3. ~Sent(TxOf[c])'
      <4>1. ASSUME NEW t \in TxIds, t = TxOf[c] PROVE ~Sent(t)'
        BY <2>5, <3>1, <4>1 DEF Alone, Sent, Answered, OnWire, Mentions
      <4> QED BY <3>1, <4>1
    <3> QED BY <2>1, <3>1, <3>2, <3>3 DEF Alone, Undecided
  <2>9. ASSUME NEW t \in TxIds PROVE OnePlace(t)' /\ (Sent(t)' => subscribers'[t] # {})
    <3>1. OnePlace(t) /\ (Sent(t) => subscribers[t] # {})
      BY <2>1 DEF RequestInv
    <3> QED BY <2>3, <2>5, <3>1
  <2>10. \A c \in Callers : pc'[c] = "failed" => c \notin subscribers'[TxOf[c]]
    BY <2>1, <2>3 DEF RequestInv
  <2>11. \A c \in Callers : Undecided(c)' <=> Undecided(c)
    BY <2>1 DEF Undecided
  <2> QED BY <2>7, <2>8, <2>9, <2>10, <2>11 DEF RequestInv
<1>8. ASSUME NEW c \in Callers, Notify(c) PROVE RequestInv'
  <2>1. UNCHANGED <<pc, subscribers, listener, sending, upstream, wire, received, inHand>>
    BY <1>8 DEF Notify
  <2>2. FailedCallNotNotified'
    BY <1>8 DEF Notify, RequestInv, FailedCallNotNotified, TypeOK
  <2> QED BY <1>1, <2>1, <2>2 DEF RequestInv, Undecided, Alone
<1>9. CASE SidecarStep
  <2> PICK resp \in Responses : Answer(resp)
    BY <1>9 DEF SidecarStep
  <2>1. UNCHANGED <<pc, subscribers, listener, sending, received, inHand, notifications, chan>>
    BY DEF Answer
  <2>2. /\ Len(wire') = Len(wire) + 1
        /\ \A i \in DOMAIN wire : i \in DOMAIN wire' /\ wire'[i] = wire[i]
        /\ Len(wire') \in DOMAIN wire' /\ wire'[Len(wire')] = resp
        /\ \A i \in DOMAIN wire' : i \in DOMAIN wire \/ i = Len(wire')
    BY DEF Answer, TypeOK
  <2>3. \A t \in TxIds : /\ Mentions(resp, t) =>
                               upstream[t] > 0 /\ upstream'[t] = upstream[t] - 1
                         /\ ~Mentions(resp, t) => upstream'[t] = upstream[t]
    BY DEF Answer, Mentions, TypeOK
  <2>4. \A t \in TxIds : OnWire(t)' <=> OnWire(t) \/ Mentions(resp, t)
    BY <2>2, Zenon DEF OnWire, Mentions, About
  <2>5. \A t \in TxIds : Sent(t)' => Sent(t)
    BY <2>1, <2>3, <2>4 DEF Sent, Answered, TypeOK
  <2>6. ASSUME NEW t \in TxIds, OnePlace(t) PROVE OnePlace(t)'
    <3>1. \A i, j \in DOMAIN wire' : Mentions(wire'[i], t) /\ Mentions(wire'[j], t) => i = j
      <4>1. CASE Mentions(resp, t)
        <5>1. upstream[t] > 0
          BY <2>3, <4>1 DEF Mentions
        <5>2. ~Answered(t)
          BY <2>6, <5>1 DEF OnePlace
        <5>3. ~OnWire(t)
          BY <5>2 DEF Answered
        <5> QED BY <2>2, <5>3 DEF OnWire, Mentions, About
      <4>2. CASE ~Mentions(resp, t)
        BY <2>2, <2>6, <4>2 DEF OnePlace, Mentions, About
      <4> QED BY <4>1, <4>2
    <3> QED BY <2>1, <2>3, <2>4, <2>6, <3>1 DEF OnePlace, Answered, TypeOK
  <2> QED BY <2>1, <2>5, <2>6 DEF RequestInv, FailedCallNotNotified, Undecided, Alone
<1>10. CASE DispatcherStops \/ Close \/ StreamBreaks \/ Terminated \/ UNCHANGED vars
  <2>1. UNCHANGED <<pc, subscribers, listener, sending, upstream, wire, received, inHand,
                    notifications, chan>>
    BY <1>10 DEF DispatcherStops, Close, StreamBreaks, Terminated, vars
  <2> QED BY <1>1, <2>1 DEF RequestInv, FailedCallNotNotified, Undecided, Alone
<1> QED BY <1>2, <1>3, <1>4, <1>5, <1>6, <1>7, <1>8, <1>9, <1>10 DEF Next, DispatcherStep

THEOREM RequestInvariant == Spec => []RequestInv
<1>1. TypeOK /\ TypeOK' /\ ToldOnce /\ RequestInv /\ [Next]_vars => RequestInv'
  BY RequestInvStep
<1> QED BY RequestInvInit, TypeCorrect, ToldOnceAlways, <1>1, PTL DEF Spec

\* A call of Subscribe that returned an error is never told anything.
THEOREM FailedCallStaysSilent == Spec => []FailedCallNotNotified
<1>1. RequestInv => FailedCallNotNotified
  BY DEF RequestInv
<1> QED BY RequestInvariant, <1>1, PTL

LEMMA AtMostOne ==
    ASSUME NEW S, \A x, y \in S : x = y
    PROVE  Cardinality(S) = IF S = {} THEN 0 ELSE 1
<1>1. CASE S = {} BY <1>1, FS_EmptySet
<1>2. CASE S # {}
  <2>1. PICK x : S = {x} BY <1>2
  <2> QED BY <1>2, <2>1, FS_Singleton
<1> QED BY <1>1, <1>2

\* Between the push of a request and the cleanup of its entry there is no
\* second request for the same txID: the calls share one subscription.
THEOREM SingleUpstreamRequestAlways == Spec => []SingleUpstreamRequest
<1>1. TypeOK /\ RequestInv => SingleUpstreamRequest
  <2> SUFFICES ASSUME TypeOK, RequestInv, listener # "exited", NEW t \in TxIds
               PROVE  UnderWay(t) <= 1
    BY DEF SingleUpstreamRequest
  <2> DEFINE P == {c \in Callers : TxOf[c] = t /\ pc[c] = "pushing"}
             W == {i \in DOMAIN wire : Mentions(wire[i], t)}
  <2>1. OnePlace(t) /\ \A c \in Callers : Undecided(c) => Alone(c)
    BY DEF RequestInv
  <2>2. Cardinality(P) = IF P = {} THEN 0 ELSE 1
    <3>1. \A c, d \in P : c = d
      BY <2>1 DEF Alone, Undecided
    <3> QED BY <3>1, AtMostOne
  <2>3. Cardinality(W) = IF W = {} THEN 0 ELSE 1
    <3>1. \A i, j \in W : i = j
      BY <2>1 DEF OnePlace
    <3> QED BY <3>1, AtMostOne
  <2>4. W # {} <=> OnWire(t)
    BY DEF OnWire
  <2>5. P # {} => ~Sent(t)
    <3> SUFFICES ASSUME NEW c \in Callers, TxOf[c] = t, pc[c] = "pushing"
                 PROVE  ~Sent(t)
      OBVIOUS
    <3>1. ~Sent(TxOf[c])
      BY <2>1 DEF Undecided, Alone
    <3> QED BY <3>1 DEF Sent, Answered, OnWire
  <2>6. upstream[t] \in Nat
    BY DEF TypeOK
  <2> HIDE DEF P, W
  <2>7. Cardinality(P) + (IF sending = t THEN 1 ELSE 0) + upstream[t] + Cardinality(W)
          + (IF Mentions(received, t) THEN 1 ELSE 0)
          + (IF Mentions(inHand, t) THEN 1 ELSE 0) <= 1
    BY <2>1, <2>2, <2>3, <2>4, <2>5, <2>6 DEF OnePlace, Sent, Answered
  <2> QED BY <2>7 DEF UnderWay, P, W
<1> QED BY <1>1, TypeCorrect, RequestInvariant, PTL

(***************************************************************************)
(* No registered call is forgotten while the group works.  The request of  *)
(* a txID can get lost only when the stream is down, and the goroutines    *)
(* stop only then; so the inductive invariant relates the end of the group *)
(* to the stream, and the entries of the map to the request's whereabouts. *)
(***************************************************************************)

Requested(t) == Sent(t) \/ \E c \in Callers : TxOf[c] = t /\ pc[c] = "pushing"

\* A call of t that was to push the request gives up, or some call failed.
GivenUp(t) == \E c \in Callers : TxOf[c] = t /\ pc[c] \in {"leaving", "failed"}

CoverageInv ==
    /\ listener = "opening" => groupErr = "none"
    /\ streamUp => ~GroupDone
    /\ \A t \in TxIds :
          /\ listener = "opening" /\ subscribers[t] # {} => Requested(t) \/ GivenUp(t)
          /\ listener = "running" /\ subscribers[t] # {} =>
                Requested(t) \/ GivenUp(t) \/ ~streamUp

LEMMA CoverageInvInit == Init => CoverageInv
BY DEF Init, CoverageInv

LEMMA CoverageInvStep ==
    TypeOK /\ TypeOK' /\ CoverageInv /\ [Next]_vars => CoverageInv'
<1> SUFFICES ASSUME TypeOK, TypeOK', CoverageInv, [Next]_vars
             PROVE  CoverageInv'
  OBVIOUS
<1> USE NotificationAssumption DEF callVars, listenerVars, pipeVars, streamVars
<1>1. ASSUME UNCHANGED <<sending, upstream, wire, received, inHand>>
      PROVE  \A t \in TxIds : Sent(t)' <=> Sent(t)
  BY <1>1 DEF Sent, Answered, OnWire
<1>2. ASSUME UNCHANGED pc
      PROVE  \A t \in TxIds : GivenUp(t)' <=> GivenUp(t)
  BY <1>2 DEF GivenUp
<1>3. ASSUME NEW c \in Callers, CallStep(c) PROVE CoverageInv'
  <2>1. UNCHANGED <<sending, upstream, wire, received, inHand, listener, streamUp, groupErr,
                    closed>>
    BY <1>3 DEF CallStep, FailFast, PassCheck, Register, GiveUp, RollBack, ReceiveStatus,
                Expire
  <2>2. \A t \in TxIds : Sent(t)' <=> Sent(t)
    BY <1>1, <2>1
  <2>3. \A t \in TxIds : GivenUp(t) => GivenUp(t)'
    BY <1>3 DEF CallStep, FailFast, PassCheck, Register, GiveUp, RollBack, ReceiveStatus,
                Expire, Goto, GivenUp, TypeOK
  <2>4. ASSUME NEW t \in TxIds, subscribers'[t] # {}
        PROVE  \/ subscribers[t] # {} /\ (Requested(t) => Requested(t)' \/ GivenUp(t)')
               \/ Requested(t)'
    <3>1. CASE Register(c)
      BY <2>2, <2>4, <3>1 DEF Register, Goto, Requested, TypeOK
    <3>2. CASE FailFast(c) \/ PassCheck(c) \/ ReceiveStatus(c) \/ Expire(c)
      BY <2>2, <2>4, <3>2
         DEF FailFast, PassCheck, ReceiveStatus, Expire, Goto, Requested, TypeOK
    <3>3. CASE GiveUp(c) \/ RollBack(c)
      BY <2>2, <2>4, <3>3 DEF GiveUp, RollBack, Goto, Requested, GivenUp, TypeOK
    <3> QED BY <1>3, <3>1, <3>2, <3>3 DEF CallStep
  <2> QED BY <2>1, <2>3, <2>4 DEF CoverageInv, GroupDone
<1>4. CASE ListenerStep
  <2>1. UNCHANGED <<sending, upstream, wire, received, inHand, pc>>
    BY <1>4 DEF ListenerStep, OpenStream, OpenFails, WaitGroup, Clear
  <2>2. \A t \in TxIds : (Requested(t)' <=> Requested(t)) /\ (GivenUp(t)' <=> GivenUp(t))
    BY <1>1, <1>2, <2>1 DEF Requested
  <2> QED
    BY <1>4, <2>1, <2>2
       DEF ListenerStep, OpenStream, OpenFails, WaitGroup, Clear, CoverageInv, GroupDone
<1>5. ASSUME NEW c \in Callers, TakeRequest(c) PROVE CoverageInv'
  <2>1. UNCHANGED <<subscribers, listener, streamUp, groupErr, closed, upstream, wire,
                    received, inHand>>
    BY <1>5 DEF TakeRequest
  <2>2. \A t \in TxIds : Answered(t)' <=> Answered(t)
    BY <2>1 DEF Answered, OnWire
  <2>3. \A t \in TxIds : Requested(t) => Requested(t)'
    BY <1>5, <2>1, <2>2 DEF TakeRequest, Goto, Requested, Sent, TypeOK
  <2>4. \A t \in TxIds : GivenUp(t) => GivenUp(t)'
    BY <1>5 DEF TakeRequest, Goto, GivenUp, TypeOK
  <2> QED BY <2>1, <2>3, <2>4 DEF CoverageInv, GroupDone
<1>6. CASE Send
  <2>1. UNCHANGED <<pc, subscribers, listener, streamUp, groupErr, closed, wire, received,
                    inHand>>
    BY <1>6 DEF Send
  <2>2. \A t \in TxIds : Answered(t)' <=> Answered(t)
    BY <2>1 DEF Answered, OnWire
  <2>3. \A t \in TxIds : Requested(t) => Requested(t)'
    BY <1>6, <2>1, <2>2 DEF Send, Requested, Sent, TypeOK
  <2> QED BY <1>2, <2>1, <2>3 DEF CoverageInv, GroupDone
<1>7. CASE SendLost \/ SendFails \/ ReceiveFails \/ ReceiverStops
  <2>1. ~streamUp /\ UNCHANGED <<streamUp, listener, subscribers>>
    BY <1>7 DEF SendLost, SendFails, ReceiveFails, ReceiverStops, CoverageInv
  <2>2. listener = "running"
    BY <1>7 DEF SendLost, SendFails, ReceiveFails, ReceiverStops, TypeOK
  <2> QED BY <2>1, <2>2 DEF CoverageInv
<1>8. CASE SenderStops \/ DispatcherStops
  <2>1. /\ GroupDone
        /\ listener = "running"
        /\ UNCHANGED <<streamUp, listener>>
    BY <1>8 DEF SenderStops, DispatcherStops, DispatcherIdle, TypeOK
  <2> QED BY <2>1 DEF CoverageInv
<1>9. CASE Receive \/ HandOver
  <2>1. UNCHANGED <<pc, subscribers, listener, streamUp, groupErr, closed, sending, upstream>>
    BY <1>9 DEF Receive, HandOver
  <2>2. \A t \in TxIds : Answered(t) => Answered(t)'
    <3>1. CASE HandOver
      BY <3>1 DEF HandOver, DispatcherIdle, Answered, OnWire, Mentions
    <3>2. CASE Receive
      <4> SUFFICES ASSUME NEW t \in TxIds, OnWire(t)
                   PROVE  OnWire(t)' \/ Mentions(received', t)
        BY <3>2 DEF Receive, Answered, Mentions
      <4>1. PICK i \in DOMAIN wire : Mentions(wire[i], t)
        BY DEF OnWire
      <4>2. CASE i = 1
        BY <3>2, <4>1, <4>2 DEF Receive, TypeOK
      <4>3. CASE i # 1
        <5>1. /\ i - 1 \in DOMAIN wire'
              /\ wire'[i - 1] = wire[i]
          BY <3>2, <4>3 DEF Receive, TypeOK
        <5>2. Mentions(wire'[i - 1], t)
          BY <4>1, <5>1
        <5> QED BY <5>1, <5>2 DEF OnWire
      <4> QED BY <4>2, <4>3
    <3> QED BY <1>9, <3>1, <3>2
  <2>3. \A t \in TxIds : Requested(t) => Requested(t)'
    BY <2>1, <2>2 DEF Requested, Sent
  <2> QED BY <1>2, <2>1, <2>3 DEF CoverageInv, GroupDone
<1>10. CASE Collect
  <2>1. /\ UNCHANGED <<pc, listener, streamUp, groupErr, closed, sending, upstream, wire,
                       received>>
        /\ inHand \in Responses
    BY <1>10 DEF Collect, TypeOK
  <2>2. \A t \in TxIds :
           subscribers'[t] = IF Mentions(inHand, t) THEN {} ELSE subscribers[t]
    BY <1>10, <2>1, ParseAbout DEF Collect
  <2>3. \A t \in TxIds : Requested(t) /\ ~Mentions(inHand, t) => Requested(t)'
    BY <2>1 DEF Requested, Sent, Answered, OnWire
  <2> QED BY <1>2, <2>1, <2>2, <2>3 DEF CoverageInv, GroupDone
<1>11. CASE SidecarStep
  <2> PICK resp \in Responses : Answer(resp)
    BY <1>11 DEF SidecarStep
  <2>1. UNCHANGED <<pc, subscribers, listener, streamUp, groupErr, closed, sending, received,
                    inHand>>
    BY DEF Answer
  <2>2. /\ \A i \in DOMAIN wire : i \in DOMAIN wire' /\ wire'[i] = wire[i]
        /\ Len(wire') \in DOMAIN wire' /\ wire'[Len(wire')] = resp
    BY DEF Answer, TypeOK
  <2>3. ASSUME NEW t \in TxIds, Sent(t) PROVE Sent(t)'
    <3>1. CASE OnWire(t)
      BY <2>2, <3>1, Zenon DEF OnWire, Sent, Answered, Mentions, About
    <3>2. CASE upstream[t] > 0 /\ ~Mentions(resp, t)
      BY <2>1, <3>2 DEF Answer, Mentions, Sent, TypeOK
    <3>3. CASE Mentions(resp, t)
      BY <2>2, <3>3, Zenon DEF OnWire, Sent, Answered, Mentions, About
    <3>4. CASE sending = t \/ Mentions(received, t) \/ Mentions(inHand, t)
      BY <2>1, <3>4 DEF Sent, Answered, Mentions, About
    <3> QED BY <2>3, <3>1, <3>2, <3>3, <3>4 DEF Sent, Answered
  <2>4. \A t \in TxIds : Requested(t) => Requested(t)'
    BY <2>1, <2>3 DEF Requested
  <2> QED BY <1>2, <2>1, <2>4 DEF CoverageInv, GroupDone
<1>12. CASE Close \/ StreamBreaks \/ Terminated \/ UNCHANGED vars
       \/ \E c \in Callers : Notify(c)
  <2>1. /\ UNCHANGED <<pc, subscribers, listener, groupErr, sending, upstream, wire, received,
                       inHand>>
        /\ streamUp' => streamUp /\ closed' = closed
    BY <1>12 DEF Close, StreamBreaks, Terminated, Notify, vars
  <2> QED BY <1>1, <1>2, <2>1 DEF CoverageInv, Requested, GroupDone
<1> QED BY <1>3, <1>4, <1>5, <1>6, <1>7, <1>8, <1>9, <1>10, <1>11, <1>12
        DEF Next, SenderStep, ReceiverStep, DispatcherStep

\* While the group works, the calls registered under a txID have one request under way,
\* unless the stream is down or a call of that txID has given up.
THEOREM RegisteredHaveARequest == Spec => []RegisteredIsRequested
<1>1. TypeOK /\ RequestInv /\ SingleUpstreamRequest /\ CoverageInv => RegisteredIsRequested
  <2> SUFFICES ASSUME TypeOK, RequestInv, SingleUpstreamRequest, CoverageInv,
                      listener \in {"opening", "running"}, NEW t \in TxIds, Requested(t)
               PROVE  UnderWay(t) = 1
    BY DEF RegisteredIsRequested, CoverageInv, GivenUp
  <2> DEFINE P == {c \in Callers : TxOf[c] = t /\ pc[c] = "pushing"}
             W == {i \in DOMAIN wire : Mentions(wire[i], t)}
  <2>1. OnePlace(t) /\ \A c \in Callers : Undecided(c) => Alone(c)
    BY DEF RequestInv
  <2>2. Cardinality(P) = IF P = {} THEN 0 ELSE 1
    <3>1. \A c, d \in P : c = d
      BY <2>1 DEF Alone, Undecided
    <3> QED BY <3>1, AtMostOne
  <2>3. Cardinality(W) = IF W = {} THEN 0 ELSE 1
    <3>1. \A i, j \in W : i = j
      BY <2>1 DEF OnePlace
    <3> QED BY <3>1, AtMostOne
  <2>4. (W # {} <=> OnWire(t)) /\ (P # {} \/ Sent(t))
    BY DEF OnWire, Requested
  <2>5. upstream[t] \in Nat
    BY DEF TypeOK
  <2>6. UnderWay(t) = Cardinality(P) + (IF sending = t THEN 1 ELSE 0) + upstream[t]
                        + Cardinality(W) + (IF Mentions(received, t) THEN 1 ELSE 0)
                        + (IF Mentions(inHand, t) THEN 1 ELSE 0)
    BY DEF UnderWay
  <2>7. UnderWay(t) <= 1
    BY DEF SingleUpstreamRequest
  <2> HIDE DEF P, W
  <2> QED BY <2>2, <2>3, <2>4, <2>5, <2>6, <2>7 DEF Sent, Answered
<1>2. TypeOK /\ TypeOK' /\ CoverageInv /\ [Next]_vars => CoverageInv'
  BY CoverageInvStep
<1> QED BY <1>1, <1>2, CoverageInvInit, TypeCorrect, RequestInvariant,
           SingleUpstreamRequestAlways, PTL DEF Spec

=============================================================================
