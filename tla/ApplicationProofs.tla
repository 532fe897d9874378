-------------------------- MODULE ApplicationProofs --------------------------
(***************************************************************************)
(* The operations of the application keep their order over every failure   *)
(* and every other caller, for any callers, menus and key files: no client *)
(* is left open, what a call has closed it does not use, what is to wait   *)
(* subscribes before it sends, a deployment has its policy before it asks  *)
(* for a client, and the clients implement ClientLease.                    *)
(***************************************************************************)
EXTENDS Application, TLAPS, WellFoundedInduction

(* What Close takes off and Get puts on the clients a call has deferred.   *)

LEMMA AppendHolds ==
    ASSUME NEW S, NEW q \in Seq(S), NEW e \in S
    PROVE  Append(q, e) \in Seq(S) /\ ToSet(Append(q, e)) = ToSet(q) \cup {e}
<1>1. Append(q, e) \in Seq(S) /\ Len(Append(q, e)) = Len(q) + 1
  OBVIOUS
<1>2. Append(q, e)[Len(q) + 1] = e /\ \A i \in 1..Len(q) : Append(q, e)[i] = q[i]
  OBVIOUS
<1>3. DOMAIN Append(q, e) = 1..(Len(q) + 1) /\ DOMAIN q = 1..Len(q) /\ Len(q) \in Nat
  BY <1>1
<1> QED
  BY <1>1, <1>2, <1>3 DEF ToSet

LEMMA FrontHolds ==
    ASSUME NEW S, NEW q \in Seq(S), q # <<>>
    PROVE  /\ Last(q) \in S /\ Last(q) \in ToSet(q)
           /\ Front(q) \in Seq(S) /\ ToSet(Front(q)) \subseteq ToSet(q)
           /\ \A e \in ToSet(q) : e # Last(q) => e \in ToSet(Front(q))
<1>1. Len(q) \in Nat \ {0} /\ DOMAIN q = 1..Len(q)
  OBVIOUS
<1>2. Last(q) \in S /\ Last(q) \in ToSet(q)
  BY <1>1 DEF Last, ToSet
<1>3. Front(q) \in Seq(S) /\ DOMAIN Front(q) = 1..(Len(q) - 1)
  BY <1>1 DEF Front
<1>4. \A i \in 1..(Len(q) - 1) : Front(q)[i] = q[i]
  BY <1>1 DEF Front
<1>5. ASSUME NEW e \in ToSet(q), e # Last(q) PROVE e \in ToSet(Front(q))
  <2>1. PICK i \in 1..Len(q) : e = q[i]
    BY <1>1 DEF ToSet
  <2>2. i \in 1..(Len(q) - 1)
    BY <1>1, <1>5, <2>1 DEF Last
  <2> QED
    BY <1>3, <1>4, <2>1, <2>2 DEF ToSet
<1>6. ToSet(Front(q)) \subseteq ToSet(q)
  BY <1>1, <1>3, <1>4 DEF ToSet
<1> QED
  BY <1>2, <1>3, <1>5, <1>6

-----------------------------------------------------------------------------
(* Where clients come from and where they are                              *)

\* Where clients come from and where they are: whoever is inside once.Do is a call that
\* waits for just that client, a client is there if its provider is ready and only
\* then, what is deferred was made, and nothing is deferred between two calls.
LeaseInv ==
    /\ DOMAIN op = Callers
    /\ DOMAIN rest = Callers
    /\ DOMAIN outcome = Callers
    /\ held \in [Callers -> Seq(Clients)]
    /\ provider \in [Services -> {"new", "making", "ready", "failed"}]
    /\ client \in [Services -> {"absent", "open", "closed"}]
    /\ DOMAIN maker = Services
    /\ \A c \in Callers :
          /\ ~Active(c) => held[c] = <<>>
          /\ \A s \in ToSet(held[c]) : client[s] # "absent"
    /\ \A s \in Services :
          /\ provider[s] = "making" =>
                maker[s] \in Callers /\ At(maker[s], "get") /\ Service(maker[s]) = s
          /\ client[s] # "absent" <=> provider[s] = "ready" /\ s \in Clients
    /\ NoClientLeft

LEMMA LeaseInvInit == Init => LeaseInv
BY DEF Init, LeaseInv, NoClientLeft, Active, Clients, Services, ToSet

\* A step of a call that asks for no client and closes none.
LEMMA StepAside ==
    ASSUME LeaseInv, NEW c \in Callers, Active(c), ~At(c, "get"),
           DOMAIN rest' = Callers, DOMAIN outcome' = Callers,
           \A d \in Callers : d # c => rest'[d] = rest[d] /\ outcome'[d] = outcome[d],
           UNCHANGED <<op, held, provider, maker, client>>
    PROVE  LeaseInv'
<1>1. \A d \in Callers : Active(d)' <=> Active(d)
  BY DEF Active
<1>2. \A d \in Callers \ {c} :
         (At(d, "get")' <=> At(d, "get")) /\ Service(d)' = Service(d)
  BY <1>1 DEF At, Service
<1>3. NoClientLeft'
  <2>1. SUFFICES ASSUME NEW s \in Clients, client[s] = "open"
                 PROVE  \E d \in Callers : Active(d)' /\ Owns(d, s)'
    BY DEF NoClientLeft
  <2>2. PICK d \in Callers : Active(d) /\ Owns(d, s)
    BY <2>1 DEF LeaseInv, NoClientLeft
  <2>3. CASE d = c
    BY <1>1, <2>2, <2>3 DEF Owns
  <2>4. CASE d # c
    BY <1>1, <1>2, <2>2, <2>4 DEF Owns
  <2> QED
    BY <2>3, <2>4
<1>4. ASSUME NEW s \in Services, provider[s] = "making"
      PROVE  maker[s] \in Callers /\ At(maker[s], "get")' /\ Service(maker[s])' = s
  <2>1. maker[s] \in Callers /\ At(maker[s], "get") /\ Service(maker[s]) = s
    BY <1>4 DEF LeaseInv
  <2>2. maker[s] # c
    BY <2>1
  <2> QED
    BY <1>2, <2>1, <2>2
<1> QED
  BY <1>1, <1>3, <1>4 DEF LeaseInv

\* Closing the client deferred last, with or without a step of the program.
LEMMA StepCloses ==
    ASSUME LeaseInv, NEW c \in Callers, Active(c), ~At(c, "get"), CloseLast(c),
           DOMAIN rest' = Callers, DOMAIN outcome' = Callers,
           \A d \in Callers : d # c => rest'[d] = rest[d] /\ outcome'[d] = outcome[d],
           UNCHANGED <<op, provider, maker>>
    PROVE  LeaseInv'
<1> DEFINE t == Last(held[c])
<1>1. \A d \in Callers : Active(d)' <=> Active(d)
  BY DEF Active
<1>2. \A d \in Callers \ {c} :
         (At(d, "get")' <=> At(d, "get")) /\ Service(d)' = Service(d)
  BY <1>1 DEF At, Service
<1>3. held[c] \in Seq(Clients) /\ held[c] # <<>>
  BY DEF LeaseInv, CloseLast
<1>4. /\ t \in Clients /\ t \in ToSet(held[c])
      /\ Front(held[c]) \in Seq(Clients)
      /\ ToSet(Front(held[c])) \subseteq ToSet(held[c])
      /\ \A e \in ToSet(held[c]) : e # t => e \in ToSet(Front(held[c]))
  BY <1>3, FrontHolds
<1>5. held' = [held EXCEPT ![c] = Front(@)] /\ client' = [client EXCEPT ![t] = "closed"]
  BY DEF CloseLast
<1>6. held' \in [Callers -> Seq(Clients)]
  BY <1>4, <1>5 DEF LeaseInv
<1>7. client' \in [Services -> {"absent", "open", "closed"}]
  BY <1>5 DEF LeaseInv
<1>8. client[t] # "absent"
  BY <1>4 DEF LeaseInv
<1>9. NoClientLeft'
  <2>1. SUFFICES ASSUME NEW s \in Clients, client'[s] = "open"
                 PROVE  \E d \in Callers : Active(d)' /\ Owns(d, s)'
    BY DEF NoClientLeft
  <2>2. s # t /\ client[s] = "open" /\ s \in Services
    BY <1>5, <2>1 DEF LeaseInv, Clients
  <2>3. PICK d \in Callers : Active(d) /\ Owns(d, s)
    BY <2>2 DEF LeaseInv, NoClientLeft
  <2>4. CASE d = c
    <3>1. s \in ToSet(held[c])
      BY <2>3, <2>4 DEF Owns
    <3>2. s \in ToSet(held'[c])
      BY <1>4, <1>5, <2>2, <3>1 DEF LeaseInv
    <3> QED
      BY <1>1, <2>3, <2>4, <3>2 DEF Owns
  <2>5. CASE d # c
    BY <1>1, <1>2, <1>5, <2>1, <2>2, <2>3, <2>5 DEF Owns, LeaseInv
  <2> QED
    BY <2>4, <2>5
<1>10. ASSUME NEW s \in Services, provider[s] = "making"
       PROVE  maker[s] \in Callers /\ At(maker[s], "get")' /\ Service(maker[s])' = s
  <2>1. maker[s] \in Callers /\ At(maker[s], "get") /\ Service(maker[s]) = s
    BY <1>10 DEF LeaseInv
  <2> QED
    BY <1>2, <2>1
<1>11. \A s \in Services : client'[s] # "absent" <=> provider[s] = "ready" /\ s \in Clients
  BY <1>5, <1>8 DEF LeaseInv
<1>12. \A d \in Callers : ToSet(held'[d]) \subseteq ToSet(held[d])
  BY <1>4, <1>5 DEF LeaseInv
<1>13. ASSUME NEW d \in Callers PROVE \A s \in ToSet(held'[d]) : client'[s] # "absent"
  <2>1. \A s \in ToSet(held[d]) : client[s] # "absent"
    BY DEF LeaseInv
  <2> QED
    BY <1>5, <1>12, <2>1 DEF LeaseInv
<1>14. \A d \in Callers : ~Active(d)' => held'[d] = <<>>
  BY <1>1, <1>5 DEF LeaseInv
<1> QED
  BY <1>6, <1>7, <1>9, <1>10, <1>11, <1>13, <1>14 DEF LeaseInv

\* A call that is given its client, or an error.
LEMMA StepGets ==
    ASSUME LeaseInv, NEW c \in Callers, GetReturns(c)
    PROVE  LeaseInv'
<1> DEFINE t == Service(c)
<1>1. Active(c) /\ At(c, "get") /\ provider[t] \in {"ready", "failed"}
  BY DEF GetReturns, At
<1>2. UNCHANGED <<op, provider, maker, client>>
  BY DEF GetReturns, serviceVars
<1>3. \A d \in Callers \ {c} : rest'[d] = rest[d] /\ outcome'[d] = outcome[d]
  BY DEF GetReturns, Advance, Abort, LeaseInv
<1>4. DOMAIN rest' = Callers /\ DOMAIN outcome' = Callers
  BY DEF GetReturns, Advance, Abort, LeaseInv
<1>5. held' = [held EXCEPT ![c] = IF t \in Clients /\ provider[t] = "ready"
                                  THEN Append(@, t) ELSE @]
  <2>1. CASE provider[t] = "ready"
    BY <2>1 DEF GetReturns
  <2>2. CASE provider[t] = "failed"
    BY <2>2 DEF GetReturns, LeaseInv
  <2> QED
    BY <1>1, <2>1, <2>2
<1>6. held[c] \in Seq(Clients)
  BY DEF LeaseInv
<1>7. t \in Clients => /\ Append(held[c], t) \in Seq(Clients)
                       /\ ToSet(Append(held[c], t)) = ToSet(held[c]) \cup {t}
  BY <1>6, AppendHolds
<1>8. held' \in [Callers -> Seq(Clients)]
  BY <1>5, <1>6, <1>7 DEF LeaseInv
<1>9. \A d \in Callers \ {c} : held'[d] = held[d]
  BY <1>5 DEF LeaseInv
<1>10. /\ ToSet(held[c]) \subseteq ToSet(held'[c])
       /\ t \in Clients /\ provider[t] = "ready" => t \in ToSet(held'[c])
       /\ \A s \in ToSet(held'[c]) : s \in ToSet(held[c])
                                     \/ (s = t /\ t \in Clients /\ provider[t] = "ready")
  <2>1. CASE t \in Clients /\ provider[t] = "ready"
    <3>1. held'[c] = Append(held[c], t)
      BY <1>5, <2>1 DEF LeaseInv
    <3> QED
      BY <1>7, <2>1, <3>1
  <2>2. CASE ~(t \in Clients /\ provider[t] = "ready")
    <3>1. held'[c] = held[c]
      BY <1>5, <2>2 DEF LeaseInv
    <3> QED
      BY <2>2, <3>1
  <2> QED
    BY <2>1, <2>2
<1>11. \A d \in Callers : Active(d)' <=> Active(d)
  BY <1>2 DEF Active
<1>12. \A d \in Callers \ {c} :
          (At(d, "get")' <=> At(d, "get")) /\ Service(d)' = Service(d)
  BY <1>3, <1>11 DEF At, Service
<1>13. NoClientLeft'
  <2>1. SUFFICES ASSUME NEW s \in Clients, client[s] = "open"
                 PROVE  \E d \in Callers : Active(d)' /\ Owns(d, s)'
    BY <1>2 DEF NoClientLeft
  <2>2. PICK d \in Callers : Active(d) /\ Owns(d, s)
    BY <2>1 DEF LeaseInv, NoClientLeft
  <2>3. s \in Services /\ provider[s] = "ready"
    BY <2>1 DEF LeaseInv, Clients
  <2>4. CASE d = c
    <3>1. s \in ToSet(held'[c])
      BY <1>10, <2>1, <2>2, <2>3, <2>4 DEF Owns
    <3> QED
      BY <1>11, <2>2, <2>4, <3>1 DEF Owns
  <2>5. CASE d # c
    BY <1>2, <1>9, <1>11, <1>12, <2>2, <2>5 DEF Owns
  <2> QED
    BY <2>4, <2>5
<1>14. ASSUME NEW s \in Services, provider[s] = "making"
       PROVE  maker[s] \in Callers /\ At(maker[s], "get")' /\ Service(maker[s])' = s
  <2>1. maker[s] \in Callers /\ At(maker[s], "get") /\ Service(maker[s]) = s
    BY <1>14 DEF LeaseInv
  <2>2. maker[s] # c
    BY <1>1, <1>14, <2>1
  <2> QED
    BY <1>2, <1>12, <2>1, <2>2
<1>15. ASSUME NEW d \in Callers
       PROVE  (~Active(d)' => held'[d] = <<>>) /\ \A s \in ToSet(held'[d]) : client[s] # "absent"
  <2>1. CASE d = c
    <3>1. t \in Clients /\ provider[t] = "ready" => client[t] # "absent"
      BY DEF LeaseInv, Clients
    <3> QED
      BY <1>1, <1>10, <1>11, <2>1, <3>1 DEF LeaseInv
  <2>2. CASE d # c
    BY <1>9, <1>11, <2>2 DEF LeaseInv
  <2> QED
    BY <2>1, <2>2
<1> QED
  BY <1>2, <1>4, <1>8, <1>13, <1>14, <1>15 DEF LeaseInv

\* Inside once.Do.
LEMMA StepMakes ==
    ASSUME LeaseInv, NEW s \in Services, NEW succeeds \in BOOLEAN, Make(s, succeeds)
    PROVE  LeaseInv'
<1>1. /\ UNCHANGED <<op, rest, outcome, held>>
      /\ provider[s] = "making"
      /\ provider' = [provider EXCEPT ![s] = IF succeeds THEN "ready" ELSE "failed"]
      /\ maker' = [maker EXCEPT ![s] = Nobody]
      /\ client' = [client EXCEPT ![s] = IF succeeds /\ s \in Clients THEN "open" ELSE @]
  BY DEF Make, callVars
<1>2. \A c \in Callers : (Active(c)' <=> Active(c)) /\ (At(c, "get")' <=> At(c, "get"))
                         /\ Service(c)' = Service(c)
  BY <1>1 DEF Active, At, Service
<1>3. client[s] = "absent" /\ maker[s] \in Callers /\ At(maker[s], "get") /\ Service(maker[s]) = s
  BY <1>1 DEF LeaseInv
<1>4. NoClientLeft'
  <2>1. SUFFICES ASSUME NEW t \in Clients, client'[t] = "open"
                 PROVE  \E c \in Callers : Active(c)' /\ Owns(c, t)'
    BY DEF NoClientLeft
  <2>2. CASE t = s
    BY <1>2, <1>3, <2>1, <2>2 DEF Owns, At
  <2>3. CASE t # s
    <3>1. client[t] = "open"
      BY <1>1, <2>1, <2>3 DEF LeaseInv, Clients
    <3>2. PICK c \in Callers : Active(c) /\ Owns(c, t)
      BY <3>1 DEF LeaseInv, NoClientLeft
    <3> QED
      BY <1>1, <1>2, <2>1, <3>1, <3>2 DEF Owns
  <2> QED
    BY <2>2, <2>3
<1>5. ASSUME NEW t \in Services, provider'[t] = "making"
      PROVE  (maker[t] \in Callers /\ At(maker[t], "get") /\ Service(maker[t]) = t)'
  <2>1. t # s /\ provider[t] = "making" /\ maker'[t] = maker[t]
    BY <1>1, <1>5 DEF LeaseInv
  <2>2. maker[t] \in Callers /\ At(maker[t], "get") /\ Service(maker[t]) = t
    BY <2>1 DEF LeaseInv
  <2> QED
    BY <1>2, <2>1, <2>2
<1>6. \A t \in Services : client'[t] # "absent" <=> provider'[t] = "ready" /\ t \in Clients
  BY <1>1, <1>3 DEF LeaseInv
<1>7. /\ provider' \in [Services -> {"new", "making", "ready", "failed"}]
      /\ client' \in [Services -> {"absent", "open", "closed"}]
      /\ DOMAIN maker' = Services
  BY <1>1 DEF LeaseInv
<1>8. ASSUME NEW c \in Callers, NEW t \in ToSet(held[c]) PROVE client'[t] # "absent"
  <2>1. client[t] # "absent" /\ t # s
    BY <1>3 DEF LeaseInv
  <2> QED
    BY <1>1, <2>1 DEF LeaseInv
<1> QED
  BY <1>1, <1>2, <1>4, <1>5, <1>6, <1>7, <1>8 DEF LeaseInv

\* The first to ask for a client enters once.Do.
LEMMA StepEnters ==
    ASSUME LeaseInv, NEW c \in Callers, Get(c)
    PROVE  LeaseInv'
<1> DEFINE t == Service(c)
<1>1. /\ UNCHANGED <<op, rest, outcome, held, client>>
      /\ provider[t] = "new"
      /\ provider' = [provider EXCEPT ![t] = "making"]
      /\ maker' = [maker EXCEPT ![t] = c]
      /\ At(c, "get")
  BY DEF Get, callVars
<1>2. \A d \in Callers : (Active(d)' <=> Active(d)) /\ (At(d, "get")' <=> At(d, "get"))
                         /\ Service(d)' = Service(d)
  BY <1>1 DEF Active, At, Service
<1>3. NoClientLeft'
  <2>1. SUFFICES ASSUME NEW s \in Clients, client[s] = "open"
                 PROVE  \E d \in Callers : Active(d)' /\ Owns(d, s)'
    BY <1>1 DEF NoClientLeft
  <2>2. PICK d \in Callers : Active(d) /\ Owns(d, s)
    BY <2>1 DEF LeaseInv, NoClientLeft
  <2> QED
    BY <1>1, <1>2, <2>2 DEF Owns
<1>4. ASSUME NEW s \in Services, provider'[s] = "making"
      PROVE  (maker[s] \in Callers /\ At(maker[s], "get") /\ Service(maker[s]) = s)'
  <2>1. CASE s = t
    <3>1. maker'[s] = c
      BY <1>1, <2>1 DEF LeaseInv
    <3> QED
      BY <1>1, <1>2, <2>1, <3>1
  <2>2. CASE s # t
    <3>1. provider[s] = "making" /\ maker'[s] = maker[s]
      BY <1>1, <1>4, <2>2 DEF LeaseInv
    <3>2. maker[s] \in Callers /\ At(maker[s], "get") /\ Service(maker[s]) = s
      BY <3>1 DEF LeaseInv
    <3> QED
      BY <1>2, <3>1, <3>2
  <2> QED
    BY <2>1, <2>2
<1>5. \A s \in Services : client'[s] # "absent" <=> provider'[s] = "ready" /\ s \in Clients
  BY <1>1 DEF LeaseInv
<1>6. /\ provider' \in [Services -> {"new", "making", "ready", "failed"}]
      /\ DOMAIN maker' = Services
  BY <1>1 DEF LeaseInv
<1> QED
  BY <1>1, <1>2, <1>3, <1>4, <1>5, <1>6 DEF LeaseInv

\* A call begins or is over: a caller that holds nothing.
LEMMA StepBetweenCalls ==
    ASSUME LeaseInv, NEW c \in Callers, held[c] = <<>>, ~At(c, "get"),
           DOMAIN op' = Callers, DOMAIN rest' = Callers, DOMAIN outcome' = Callers,
           \A d \in Callers : d # c => /\ op'[d] = op[d]
                                       /\ rest'[d] = rest[d]
                                       /\ outcome'[d] = outcome[d],
           UNCHANGED <<held, provider, maker, client>>
    PROVE  LeaseInv'
<1>1. \A d \in Callers \ {c} : (Active(d)' <=> Active(d))
                               /\ (At(d, "get")' <=> At(d, "get")) /\ Service(d)' = Service(d)
  BY DEF Active, At, Service
<1>2. NoClientLeft'
  <2>1. SUFFICES ASSUME NEW s \in Clients, client[s] = "open"
                 PROVE  \E d \in Callers : Active(d)' /\ Owns(d, s)'
    BY DEF NoClientLeft
  <2>2. PICK d \in Callers : Active(d) /\ Owns(d, s)
    BY <2>1 DEF LeaseInv, NoClientLeft
  <2>3. d # c
    BY <2>2 DEF Owns, ToSet
  <2> QED
    BY <1>1, <2>2, <2>3 DEF Owns
<1>3. ASSUME NEW s \in Services, provider[s] = "making"
      PROVE  maker[s] \in Callers /\ At(maker[s], "get")' /\ Service(maker[s])' = s
  <2>1. maker[s] \in Callers /\ At(maker[s], "get") /\ Service(maker[s]) = s
    BY <1>3 DEF LeaseInv
  <2> QED
    BY <1>1, <2>1
<1>4. \A d \in Callers : ~Active(d)' => held[d] = <<>>
  BY <1>1 DEF LeaseInv
<1> QED
  BY <1>2, <1>3, <1>4 DEF LeaseInv

LEMMA LeaseInvStep == LeaseInv /\ [Next]_vars => LeaseInv'
<1> SUFFICES ASSUME LeaseInv, [Next]_vars PROVE LeaseInv'
  OBVIOUS
<1>1. ASSUME NEW c \in Callers, NEW o \in Menu[c], Call(c, o) PROVE LeaseInv'
  <2>1. held[c] = <<>> /\ ~At(c, "get")
    BY <1>1 DEF Call, LeaseInv, At
  <2>2. /\ DOMAIN op' = Callers /\ DOMAIN rest' = Callers /\ DOMAIN outcome' = Callers
        /\ \A d \in Callers : d # c => /\ op'[d] = op[d]
                                       /\ rest'[d] = rest[d]
                                       /\ outcome'[d] = outcome[d]
        /\ UNCHANGED <<held, provider, maker, client>>
    BY <1>1 DEF Call, LeaseInv, serviceVars
  <2> QED
    BY <2>1, <2>2, StepBetweenCalls
<1>2. ASSUME NEW c \in Callers,
             Validate(c) \/ BuildPolicy(c) \/ StepSucceeds(c) \/ Subscribe(c) \/ Send(c)
                \/ OrdererAnswers(c) \/ ReceiveAborted(c) \/ Await(c) \/ StepFails(c)
      PROVE  LeaseInv'
  <2>1. Active(c) /\ ~At(c, "get")
    BY <1>2 DEF Validate, BuildPolicy, StepSucceeds, Subscribe, Send, OrdererAnswers,
                ReceiveAborted, Await, StepFails, At
  <2>2. Advance(c) \/ Abort(c)
    BY <1>2 DEF Validate, BuildPolicy, StepSucceeds, Subscribe, Send, OrdererAnswers,
                ReceiveAborted, Await, StepFails
  <2>3. UNCHANGED <<op, held, provider, maker, client>>
    BY <1>2 DEF Validate, BuildPolicy, StepSucceeds, Subscribe, Send, OrdererAnswers,
                ReceiveAborted, Await, StepFails, serviceVars
  <2>4. /\ DOMAIN rest' = Callers /\ DOMAIN outcome' = Callers
        /\ \A d \in Callers : d # c => rest'[d] = rest[d] /\ outcome'[d] = outcome[d]
    BY <2>2 DEF Advance, Abort, LeaseInv
  <2> QED
    BY <2>1, <2>3, <2>4, StepAside
<1>3. ASSUME NEW c \in Callers, Get(c) PROVE LeaseInv'
  BY <1>3, StepEnters
<1>4. ASSUME NEW c \in Callers, GetReturns(c) PROVE LeaseInv'
  BY <1>4, StepGets
<1>5. ASSUME NEW c \in Callers, InnerReturn(c) PROVE LeaseInv'
  <2>1. Active(c) /\ ~At(c, "get") /\ CloseLast(c)
    BY <1>5 DEF InnerReturn, At
  <2>2. /\ DOMAIN rest' = Callers /\ DOMAIN outcome' = Callers
        /\ \A d \in Callers : d # c => rest'[d] = rest[d] /\ outcome'[d] = outcome[d]
        /\ UNCHANGED <<op, provider, maker>>
    BY <1>5 DEF InnerReturn, Advance, LeaseInv
  <2> QED
    BY <2>1, <2>2, StepCloses
<1>6. ASSUME NEW c \in Callers, CloseDeferred(c) PROVE LeaseInv'
  <2>1. Active(c) /\ ~At(c, "get") /\ CloseLast(c)
    BY <1>6 DEF CloseDeferred, CloseLast, At, LeaseInv
  <2>2. UNCHANGED <<op, rest, outcome, provider, maker>>
    BY <1>6 DEF CloseDeferred
  <2>3. DOMAIN rest' = Callers /\ DOMAIN outcome' = Callers
    BY <2>2 DEF LeaseInv
  <2> QED
    BY <2>1, <2>2, <2>3, StepCloses
<1>7. ASSUME NEW c \in Callers, Return(c) PROVE LeaseInv'
  <2>1. held[c] = <<>> /\ ~At(c, "get")
    BY <1>7 DEF Return, At
  <2>2. /\ DOMAIN op' = Callers /\ DOMAIN rest' = Callers /\ DOMAIN outcome' = Callers
        /\ \A d \in Callers : d # c => /\ op'[d] = op[d]
                                       /\ rest'[d] = rest[d]
                                       /\ outcome'[d] = outcome[d]
        /\ UNCHANGED <<held, provider, maker, client>>
    BY <1>7 DEF Return, LeaseInv, serviceVars
  <2> QED
    BY <2>1, <2>2, StepBetweenCalls
<1>8. ASSUME NEW s \in Services, NEW succeeds \in BOOLEAN, Make(s, succeeds) PROVE LeaseInv'
  BY <1>8, StepMakes
<1>9. ASSUME UNCHANGED <<callVars, serviceVars>> PROVE LeaseInv'
  BY <1>9 DEF LeaseInv, NoClientLeft, Owns, At, Service, Active, callVars, serviceVars
<1>10. CASE Interrupt \/ KeyFileChanges \/ UNCHANGED vars
  BY <1>9, <1>10 DEF Interrupt, KeyFileChanges, vars
<1> QED
  BY <1>1, <1>2, <1>3, <1>4, <1>5, <1>6, <1>7, <1>8, <1>10 DEF Next, Proceed

-----------------------------------------------------------------------------
(* Orders of steps that the tails of a program inherit                     *)

\* A client is got once, closed after its last use, and no other client is asked for
\* in the same breath.
Orderly(q) ==
    /\ q \in Seq(Steps)
    /\ \A i \in DOMAIN q : q[i].do \in {"close", "call", "subscribe", "send", "receive", "await"}
                              => q[i].of \in Clients
    /\ \A i, j \in DOMAIN q : i < j /\ q[i].do = "close" => q[j].of # q[i].of
    /\ \A i, j \in DOMAIN q : i < j /\ q[i].do = "get" /\ q[j].do = "get" /\ q[i].of \in Clients
                                 => q[j].of # q[i].of
    /\ \A i, j \in DOMAIN q : j = i + 1 /\ q[i].do = "close" /\ q[j].do = "get"
                                 => q[j].of \notin Clients

\* What a step before closes is got before, by q or by who has deferred the calls h.
ClosesItsOwn(q, h) ==
    \A i \in DOMAIN q : q[i].do = "close" =>
        \/ \E j \in 1..(i - 1) :
              /\ q[j] = Do("get", q[i].of)
              /\ \A k \in (j + 1)..(i - 1) : q[k].do \notin {"get", "close"}
        \/ /\ h # <<>> /\ Last(h) = q[i].of
           /\ \A k \in 1..(i - 1) : q[k].do \notin {"get", "close"}

\* Whatever q sends, it subscribes before.
SubscribesFirst(q) ==
    \A i \in DOMAIN q : q[i].do = "send" => \E j \in 1..(i - 1) : q[j].do = "subscribe"

\* Whatever q gets, it creates a policy before.
PolicyFirst(q) ==
    \A i \in DOMAIN q : q[i].do = "get" => \E j \in 1..(i - 1) : q[j].do = "createPolicy"

\* The operation is to wait for its transaction, or sends none.
SendsOnlyToWait(o) == ~(o.name = "submit" \/ (o.name = "deploy" /\ ~o.wait))

\* The programs.

\* list.
LEMMA ListProgram ==
    ASSUME NEW q, q = <<Do("get", "query"), Do("call", "query")>>
    PROVE  /\ q # <<>> /\ Orderly(q) /\ ClosesItsOwn(q, <<>>)
           /\ SubscribesFirst(q)
<1>1. /\ q \in Seq(Steps) /\ Len(q) = 2
      /\ q[1] = Do("get", "query") /\ q[2] = Do("call", "query")
  BY DEF Clients, Do, Steps, Services
<1>2. Orderly(q)
  BY <1>1 DEF Orderly, Do, Services, Clients
<1>3. ClosesItsOwn(q, <<>>) /\ SubscribesFirst(q)
  BY <1>1 DEF ClosesItsOwn, Do, SubscribesFirst
<1> QED BY <1>1, <1>2, <1>3

\* endorse.
LEMMA EndorseProgram ==
    ASSUME NEW q, q = EndorseSteps
    PROVE  /\ q # <<>> /\ Orderly(q) /\ ClosesItsOwn(q, <<>>)
           /\ SubscribesFirst(q)
<1>1. /\ q \in Seq(Steps) /\ Len(q) = 2
      /\ q[1] = Do("get", "msp") /\ q[2] = Do("sign", "msp")
  BY DEF EndorseSteps, Do, Steps, Services
<1>2. Orderly(q)
  BY <1>1 DEF Orderly, Do, Services, Clients
<1>3. ClosesItsOwn(q, <<>>) /\ SubscribesFirst(q)
  BY <1>1 DEF ClosesItsOwn, Do, SubscribesFirst
<1> QED BY <1>1, <1>2, <1>3

\* submit.
LEMMA SubmitProgram ==
    ASSUME NEW q, q = SubmitSteps
    PROVE  /\ q # <<>> /\ Orderly(q) /\ ClosesItsOwn(q, <<>>)
<1>1. /\ q \in Seq(Steps) /\ Len(q) = 4
      /\ q[1] = Do("get", "msp") /\ q[2] = Do("get", "orderer")
      /\ q[3] = Do("send", "orderer") /\ q[4] = Do("receive", "orderer")
  BY DEF SubmitSteps, PrepareSteps, BroadcastSteps, Do, Steps, Services
<1>2. Orderly(q)
  BY <1>1 DEF Orderly, Do, Services, Clients
<1>3. ClosesItsOwn(q, <<>>)
  BY <1>1 DEF ClosesItsOwn, Do
<1> QED BY <1>1, <1>2, <1>3

\* submit and wait.
LEMMA SubmitWithWaitProgram ==
    ASSUME NEW q, q = SubmitWithWaitSteps
    PROVE  /\ q # <<>> /\ Orderly(q) /\ ClosesItsOwn(q, <<>>)
           /\ SubscribesFirst(q)
<1>1. /\ q \in Seq(Steps) /\ Len(q) = 7
      /\ q[1] = Do("get", "msp") /\ q[2] = Do("get", "orderer")
      /\ q[3] = Do("get", "notification") /\ q[4] = Do("subscribe", "notification")
      /\ q[5] = Do("send", "orderer") /\ q[6] = Do("receive", "orderer")
      /\ q[7] = Do("await", "notification")
  BY DEF SubmitWithWaitSteps, PrepareSteps, BroadcastSteps, Do, Steps, Services
<1>2. Orderly(q)
  BY <1>1 DEF Orderly, Do, Services, Clients
<1>3. ClosesItsOwn(q, <<>>) /\ SubscribesFirst(q)
  BY <1>1 DEF ClosesItsOwn, Do, SubscribesFirst
<1> QED BY <1>1, <1>2, <1>3

\* A deployment before and after it has built its transaction.
LEMMA BuildProgram ==
    ASSUME NEW q, q = <<Do("validate", "msp")>> \o CreateSteps
    PROVE  /\ q \in Seq(Steps) /\ Len(q) = 5 /\ q[2].do = "createPolicy" /\ q[5].do = "close"
           /\ Orderly(q) /\ ClosesItsOwn(q, <<>>) /\ PolicyFirst(q)
           /\ \A i \in DOMAIN q : q[i].do # "send" /\ (q[i].do = "get" => q[i].of = "query")
                                  /\ (q[i].do = "close" => i = 5 /\ q[i].of = "query")
<1>1. /\ q \in Seq(Steps) /\ Len(q) = 5 /\ DOMAIN q = 1..5
      /\ q[1] = Do("validate", "msp") /\ q[2] = Do("createPolicy", "msp")
      /\ q[3] = Do("get", "query") /\ q[4] = Do("call", "query") /\ q[5] = Do("close", "query")
  BY DEF CreateSteps, Do, Steps, Services
<1>2. /\ q[1].do = "validate" /\ q[2].do = "createPolicy" /\ q[3].do = "get" /\ q[4].do = "call"
      /\ q[5].do = "close" /\ q[3].of = "query" /\ q[4].of = "query" /\ q[5].of = "query"
  BY <1>1 DEF Do
<1>3. \A i \in 1..5 : /\ q[i].do = "close" <=> i = 5
                      /\ q[i].do = "get" <=> i = 3
                      /\ q[i].do \notin {"subscribe", "send", "receive", "await"}
                      /\ q[i].do = "call" => i = 4
  BY <1>1, <1>2
<1>4. \A i \in 1..5 : q[i].do \in {"close", "call"} => q[i].of \in Clients
  BY <1>2, <1>3 DEF Services, Clients
<1>5. Orderly(q)
  <2>1. \A i \in DOMAIN q : q[i].do \in {"close", "call", "subscribe", "send", "receive", "await"}
                               => q[i].of \in Clients
    BY <1>1, <1>3, <1>4
  <2>2. \A i, j \in DOMAIN q : ~(i < j /\ q[i].do = "close")
    BY <1>1, <1>3
  <2>3. \A i, j \in DOMAIN q : ~(i < j /\ q[i].do = "get" /\ q[j].do = "get")
    BY <1>1, <1>3
  <2>4. \A i, j \in DOMAIN q : ~(j = i + 1 /\ q[i].do = "close")
    BY <1>1, <1>3
  <2> QED BY <1>1, <2>1, <2>2, <2>3, <2>4 DEF Orderly
<1>6. ClosesItsOwn(q, <<>>)
  <2>1. ASSUME NEW i \in DOMAIN q, q[i].do = "close"
        PROVE  \E j \in 1..(i - 1) : /\ q[j] = Do("get", q[i].of)
                                     /\ \A k \in (j + 1)..(i - 1) : q[k].do \notin {"get", "close"}
    <3>1. i = 5 /\ 3 \in 1..(i - 1) /\ q[3] = Do("get", q[i].of)
      BY <1>1, <1>2, <1>3, <2>1
    <3>2. \A k \in (3 + 1)..(i - 1) : q[k].do \notin {"get", "close"}
      BY <1>3, <3>1
    <3> QED BY <3>1, <3>2
  <2> QED BY <2>1 DEF ClosesItsOwn
<1>7. PolicyFirst(q)
  <2>1. ASSUME NEW i \in DOMAIN q, q[i].do = "get" PROVE \E j \in 1..(i - 1) : q[j].do = "createPolicy"
    <3>1. i = 3 /\ 2 \in 1..(i - 1)
      BY <1>1, <1>3, <2>1
    <3> QED BY <1>2, <3>1
  <2> QED BY <2>1 DEF PolicyFirst
<1>8. \A i \in DOMAIN q : q[i].do # "send" /\ (q[i].do = "get" => q[i].of = "query")
                          /\ (q[i].do = "close" => i = 5 /\ q[i].of = "query")
  BY <1>1, <1>2, <1>3
<1> QED BY <1>1, <1>2, <1>5, <1>6, <1>7, <1>8

LEMMA DeployProgram ==
    ASSUME NEW p, p = <<Do("validate", "msp")>> \o CreateSteps,
           NEW r \in Seq(Steps), Orderly(r),
           \A i \in DOMAIN r : r[i].do # "close" /\ r[i].of # "query",
           1 \in DOMAIN r => r[1].of \notin Clients
    PROVE  /\ p \o r # <<>> /\ Orderly(p \o r) /\ ClosesItsOwn(p \o r, <<>>)
           /\ PolicyFirst(p \o r)
           /\ SubscribesFirst(r) => SubscribesFirst(p \o r)
<1>0. PICK n : n = Len(r)
  OBVIOUS
<1>1. PICK q : q = p \o r
  OBVIOUS
<1>2. /\ p \in Seq(Steps) /\ Len(p) = 5 /\ Orderly(p) /\ ClosesItsOwn(p, <<>>)
      /\ PolicyFirst(p)
      /\ \A i \in DOMAIN p : p[i].do # "send" /\ (p[i].do = "get" => p[i].of = "query")
                             /\ (p[i].do = "close" => i = 5 /\ p[i].of = "query")
      /\ p[2].do = "createPolicy"
  BY BuildProgram
<1>3. /\ q \in Seq(Steps) /\ Len(q) = 5 + n /\ n \in Nat /\ DOMAIN r = 1..n
      /\ DOMAIN p = 1..5 /\ DOMAIN q = 1..(5 + n)
      /\ \A i \in 1..5 : q[i] = p[i]
  BY <1>0, <1>1, <1>2
<1>4. \A i \in 6..(5 + n) : q[i] = r[i - 5] /\ i - 5 \in 1..n
  BY <1>0, <1>1, <1>2, <1>3
<1>5. \A i \in DOMAIN q : \/ i \in 1..5 /\ q[i] = p[i]
                          \/ i \in 6..(5 + n) /\ i - 5 \in DOMAIN r /\ q[i] = r[i - 5]
  <2>1. ASSUME NEW i \in DOMAIN q PROVE i \in 1..5 \/ i \in 6..(5 + n)
    BY <1>3
  <2>2. ASSUME NEW i \in 6..(5 + n) PROVE i - 5 \in DOMAIN r /\ q[i] = r[i - 5]
    BY <1>3, <1>4
  <2> QED BY <1>3, <2>1, <2>2
<1>6. Orderly(q)
  <2>1. \A i \in DOMAIN q : q[i].do \in {"close", "call", "subscribe", "send", "receive", "await"}
                               => q[i].of \in Clients
    BY <1>2, <1>3, <1>5 DEF Orderly
  <2>2. ASSUME NEW i \in DOMAIN q, NEW j \in DOMAIN q, i < j, q[i].do = "close"
        PROVE  q[j].of # q[i].of /\ (j = i + 1 /\ q[j].do = "get" => q[j].of \notin Clients)
    <3>1. i = 5 /\ q[i].of = "query"
      BY <1>2, <1>3, <1>5, <2>2
    <3>2. j \in 6..(5 + n) /\ j - 5 \in DOMAIN r /\ q[j] = r[j - 5]
      BY <1>5, <2>2, <3>1
    <3>3. j = i + 1 => j - 5 = 1
      BY <3>1
    <3> QED BY <3>1, <3>2, <3>3
  <2>3. ASSUME NEW i \in DOMAIN q, NEW j \in DOMAIN q, i < j, q[i].do = "get", q[j].do = "get",
               q[i].of \in Clients
        PROVE  q[j].of # q[i].of
    <3>1. CASE j \in 1..5
      <4>1. i \in DOMAIN p /\ j \in DOMAIN p /\ q[i] = p[i] /\ q[j] = p[j]
        BY <1>3, <2>3, <3>1
      <4> QED BY <1>2, <2>3, <4>1 DEF Orderly
    <3>2. CASE i \in 1..5 /\ j \in 6..(5 + n)
      <4>1. q[i].of = "query"
        BY <1>2, <1>3, <2>3, <3>2
      <4>2. j - 5 \in DOMAIN r /\ q[j] = r[j - 5]
        BY <1>3, <1>4, <3>2
      <4> QED BY <4>1, <4>2
    <3>3. CASE i \in 6..(5 + n)
      <4>1. j \in 6..(5 + n) /\ i - 5 < j - 5
        BY <1>3, <2>3, <3>3
      <4>2. /\ i - 5 \in DOMAIN r /\ q[i] = r[i - 5]
            /\ j - 5 \in DOMAIN r /\ q[j] = r[j - 5]
        BY <1>3, <1>4, <3>3, <4>1
      <4> QED BY <2>3, <4>1, <4>2 DEF Orderly
    <3> QED BY <1>5, <3>1, <3>2, <3>3
  <2> QED BY <1>3, <2>1, <2>2, <2>3 DEF Orderly
<1>7. ClosesItsOwn(q, <<>>)
  <2>1. ASSUME NEW i \in DOMAIN q, q[i].do = "close"
        PROVE  \E j \in 1..(i - 1) : /\ q[j] = Do("get", q[i].of)
                                     /\ \A k \in (j + 1)..(i - 1) : q[k].do \notin {"get", "close"}
    <3>1. i = 5 /\ i \in DOMAIN p /\ q[i] = p[i] /\ p[i].do = "close"
      BY <1>2, <1>3, <1>5, <2>1
    <3>2. PICK j \in 1..(i - 1) : /\ p[j] = Do("get", p[i].of)
                                  /\ \A k \in (j + 1)..(i - 1) : p[k].do \notin {"get", "close"}
      BY <1>2, <3>1 DEF ClosesItsOwn
    <3>3. \A k \in 1..(i - 1) : q[k] = p[k]
      BY <1>3, <3>1
    <3> QED BY <3>1, <3>2, <3>3
  <2> QED BY <2>1 DEF ClosesItsOwn
<1>8. PolicyFirst(q)
  <2>1. ASSUME NEW i \in DOMAIN q, q[i].do = "get" PROVE \E j \in 1..(i - 1) : q[j].do = "createPolicy"
    <3>1. CASE i \in 1..5
      <4>1. q[i] = p[i] /\ i \in DOMAIN p
        BY <1>3, <3>1
      <4>2. PICK j \in 1..(i - 1) : p[j].do = "createPolicy"
        BY <1>2, <2>1, <4>1 DEF PolicyFirst
      <4>3. j \in 1..5
        BY <3>1
      <4> QED BY <1>3, <4>2, <4>3
    <3>2. CASE i \in 6..(5 + n)
      <4>1. 2 \in 1..(i - 1)
        BY <1>3, <3>2
      <4>2. q[2].do = "createPolicy"
        <5>1. q[2] = p[2]
          BY <1>3
        <5> QED BY <1>2, <5>1
      <4> QED BY <4>1, <4>2
    <3> QED BY <1>5, <3>1, <3>2
  <2> QED BY <2>1 DEF PolicyFirst
<1>9. ASSUME SubscribesFirst(r) PROVE SubscribesFirst(q)
  <2>1. ASSUME NEW i \in DOMAIN q, q[i].do = "send" PROVE \E j \in 1..(i - 1) : q[j].do = "subscribe"
    <3>1. i \in 6..(5 + n) /\ i - 5 \in DOMAIN r /\ q[i] = r[i - 5]
      BY <1>2, <1>3, <1>5, <2>1
    <3>2. PICK j \in 1..(i - 5 - 1) : r[j].do = "subscribe"
      BY <1>9, <2>1, <3>1 DEF SubscribesFirst
    <3>3. PICK k : k = j + 5
      OBVIOUS
    <3>4. k \in 6..(5 + n) /\ k \in 1..(i - 1) /\ k - 5 = j
      <4>1. n \in Nat /\ i \in Int /\ i <= 5 + n
        BY <1>3
      <4>2. i - 5 - 1 \in Int /\ j \in Int /\ 1 <= j /\ j <= i - 5 - 1
        BY <4>1
      <4> QED BY <3>3, <4>1, <4>2
    <3>5. q[k] = r[k - 5]
      BY <1>4, <3>4
    <3> QED BY <3>2, <3>4, <3>5
  <2> QED BY <2>1 DEF SubscribesFirst
<1> QED BY <1>1, <1>3, <1>6, <1>7, <1>8, <1>9

\* What follows endorsement and submission.
LEMMA AfterBuilding ==
    ASSUME NEW o, o.endorse \in BOOLEAN, NEW r, r = DeploySteps(o)
    PROVE  /\ Orderly(r)
           /\ \A i \in DOMAIN r : r[i].do # "close" /\ r[i].of # "query"
           /\ 1 \in DOMAIN r => r[1].of \notin Clients
           /\ o.wait \/ ~o.submit => SubscribesFirst(r)
<1>1. CASE ~o.endorse
  <2>1. r = <<>>
    BY <1>1 DEF DeploySteps
  <2> QED BY <2>1 DEF Orderly, SubscribesFirst
<1>2. CASE o.endorse /\ o.wait
  <2>1. /\ r \in Seq(Steps) /\ Len(r) = 9 /\ DOMAIN r = 1..9
        /\ r[1] = Do("get", "msp") /\ r[2] = Do("sign", "msp") /\ r[3] = Do("get", "msp")
        /\ r[4] = Do("get", "orderer") /\ r[5] = Do("get", "notification")
        /\ r[6] = Do("subscribe", "notification") /\ r[7] = Do("send", "orderer")
        /\ r[8] = Do("receive", "orderer") /\ r[9] = Do("await", "notification")
    BY <1>2 DEF DeploySteps, EndorseSteps, SubmitWithWaitSteps, PrepareSteps, BroadcastSteps,
                Do, Steps, Services
  <2>2. \A i \in DOMAIN r : r[i].do # "close" /\ r[i].of # "query"
    BY <2>1 DEF Do
  <2>3. Orderly(r)
    BY <2>1, <2>2 DEF Orderly, Do, Services, Clients
  <2>4. SubscribesFirst(r)
    BY <2>1 DEF SubscribesFirst, Do
  <2>5. r[1].of \notin Clients
    BY <2>1 DEF Clients, Do
  <2> QED BY <2>2, <2>3, <2>4, <2>5
<1>3. CASE o.endorse /\ ~o.wait /\ o.submit
  <2>1. /\ r \in Seq(Steps) /\ Len(r) = 6 /\ DOMAIN r = 1..6
        /\ r[1] = Do("get", "msp") /\ r[2] = Do("sign", "msp") /\ r[3] = Do("get", "msp")
        /\ r[4] = Do("get", "orderer") /\ r[5] = Do("send", "orderer")
        /\ r[6] = Do("receive", "orderer")
    BY <1>3 DEF DeploySteps, EndorseSteps, SubmitSteps, PrepareSteps, BroadcastSteps,
                Do, Steps, Services
  <2>2. \A i \in DOMAIN r : r[i].do # "close" /\ r[i].of # "query"
    BY <2>1 DEF Do
  <2>3. Orderly(r)
    BY <2>1, <2>2 DEF Orderly, Do, Services, Clients
  <2>4. r[1].of \notin Clients
    BY <2>1 DEF Clients, Do
  <2> QED BY <1>3, <2>2, <2>3, <2>4
<1>4. CASE o.endorse /\ ~o.wait /\ ~o.submit
  <2>1. /\ r \in Seq(Steps) /\ Len(r) = 2 /\ DOMAIN r = 1..2
        /\ r[1] = Do("get", "msp") /\ r[2] = Do("sign", "msp")
    BY <1>4 DEF DeploySteps, EndorseSteps, Do, Steps, Services
  <2>2. Orderly(r) /\ SubscribesFirst(r)
    BY <2>1 DEF Orderly, SubscribesFirst, Do, Services, Clients
  <2> QED BY <2>1, <2>2 DEF Clients, Do
<1> QED BY <1>1, <1>2, <1>3, <1>4

LEMMA Programs ==
    ASSUME NEW o \in Operations
    PROVE  /\ Program(o) # <<>> /\ Orderly(Program(o)) /\ ClosesItsOwn(Program(o), <<>>)
           /\ SendsOnlyToWait(o) => SubscribesFirst(Program(o))
           /\ o.name = "deploy" => PolicyFirst(Program(o))
<1>1. CASE o.name = "list"
  BY <1>1, ListProgram DEF Program
<1>2. CASE o.name = "endorse"
  BY <1>2, EndorseProgram DEF Program
<1>3. CASE o.name = "submit"
  BY <1>3, SubmitProgram DEF Program, SendsOnlyToWait
<1>4. CASE o.name = "submitWithWait"
  BY <1>4, SubmitWithWaitProgram DEF Program
<1>5. CASE o.name = "deploy"
  <2>1. PICK p, r : p = <<Do("validate", "msp")>> \o CreateSteps /\ r = DeploySteps(o)
    OBVIOUS
  <2>2. Program(o) = p \o r
    BY <1>5, <2>1 DEF Program
  <2>3. o.endorse \in BOOLEAN /\ (SendsOnlyToWait(o) => o.wait)
    BY <1>5 DEF Operations, SendsOnlyToWait
  <2>4. /\ Orderly(r)
        /\ \A i \in DOMAIN r : r[i].do # "close" /\ r[i].of # "query"
        /\ 1 \in DOMAIN r => r[1].of \notin Clients
        /\ SendsOnlyToWait(o) => SubscribesFirst(r)
    BY <2>1, <2>3, AfterBuilding
  <2>5. r \in Seq(Steps)
    BY <2>4 DEF Orderly
  <2> QED BY <1>5, <2>1, <2>2, <2>4, <2>5, DeployProgram
<1> QED BY <1>1, <1>2, <1>3, <1>4, <1>5 DEF Operations

-----------------------------------------------------------------------------
(* What the rest of a program inherits                                     *)

LEMMA TailIs ==
    ASSUME NEW q \in Seq(Steps), q # <<>>
    PROVE  /\ Tail(q) \in Seq(Steps) /\ Len(q) \in Nat \ {0} /\ DOMAIN q = 1..Len(q)
           /\ DOMAIN Tail(q) = 1..(Len(q) - 1) /\ Len(Tail(q)) = Len(q) - 1
           /\ \A i \in 1..(Len(q) - 1) : Tail(q)[i] = q[i + 1]
BY DEF Steps

LEMMA OrderlyTail ==
    ASSUME NEW q, Orderly(q), q # <<>>
    PROVE  Orderly(Tail(q))
<1>1. q \in Seq(Steps)
  BY DEF Orderly
<1>2. PICK r : r = Tail(q)
  OBVIOUS
<1>3. /\ r \in Seq(Steps) /\ Len(q) \in Nat \ {0} /\ DOMAIN q = 1..Len(q)
      /\ DOMAIN r = 1..(Len(q) - 1)
      /\ \A i \in DOMAIN r : i + 1 \in DOMAIN q /\ r[i] = q[i + 1] /\ i \in Int
  BY <1>1, <1>2, TailIs
<1>4. \A i, j \in DOMAIN r : (i < j => i + 1 < j + 1) /\ (j = i + 1 => j + 1 = (i + 1) + 1)
  BY <1>3
<1>5. Orderly(r)
  BY <1>3, <1>4 DEF Orderly
<1> QED BY <1>2, <1>5

\* Subscriptions and policies that are still to come.
LEMMA FirstInTail ==
    ASSUME NEW q \in Seq(Steps), q # <<>>
    PROVE  /\ SubscribesFirst(q) /\ q[1].do # "subscribe" => SubscribesFirst(Tail(q))
           /\ PolicyFirst(q) /\ q[1].do # "createPolicy" => PolicyFirst(Tail(q))
<1>1. PICK r : r = Tail(q)
  OBVIOUS
<1>2. /\ DOMAIN r = 1..(Len(q) - 1) /\ Len(q) \in Nat \ {0} /\ DOMAIN q = 1..Len(q)
      /\ \A i \in DOMAIN r : i + 1 \in DOMAIN q /\ r[i] = q[i + 1] /\ i \in Int
  BY <1>1, TailIs
\* What comes before a step of q, other than the first, comes before it in r.
<1>3. ASSUME NEW i \in DOMAIN r, NEW j \in 1..((i + 1) - 1), j # 1
      PROVE  \E k \in 1..(i - 1) : r[k] = q[j]
  <2>1. PICK k : k = j - 1
    OBVIOUS
  <2>2. i \in Int /\ i <= Len(q) - 1 /\ j \in Int /\ 1 < j /\ j <= i
    BY <1>2, <1>3
  <2>3. k \in 1..(i - 1) /\ k \in DOMAIN r /\ k + 1 = j
    BY <1>2, <2>1, <2>2
  <2> QED BY <1>2, <2>3
<1>4. ASSUME SubscribesFirst(q), q[1].do # "subscribe" PROVE SubscribesFirst(r)
  <2>1. ASSUME NEW i \in DOMAIN r, r[i].do = "send" PROVE \E k \in 1..(i - 1) : r[k].do = "subscribe"
    <3>1. PICK j \in 1..((i + 1) - 1) : q[j].do = "subscribe"
      BY <1>2, <1>4, <2>1 DEF SubscribesFirst
    <3>2. PICK k \in 1..(i - 1) : r[k] = q[j]
      BY <1>3, <1>4, <3>1
    <3> QED BY <3>1, <3>2
  <2> QED BY <2>1 DEF SubscribesFirst
<1>5. ASSUME PolicyFirst(q), q[1].do # "createPolicy" PROVE PolicyFirst(r)
  <2>1. ASSUME NEW i \in DOMAIN r, r[i].do = "get" PROVE \E k \in 1..(i - 1) : r[k].do = "createPolicy"
    <3>1. PICK j \in 1..((i + 1) - 1) : q[j].do = "createPolicy"
      BY <1>2, <1>5, <2>1 DEF PolicyFirst
    <3>2. PICK k \in 1..(i - 1) : r[k] = q[j]
      BY <1>3, <1>5, <3>1
    <3> QED BY <3>1, <3>2
  <2> QED BY <2>1 DEF PolicyFirst
<1> QED BY <1>1, <1>4, <1>5

\* Closes keep finding the client they close deferred last.
LEMMA ClosesInTail ==
    ASSUME NEW q, Orderly(q), q # <<>>, NEW h \in Seq(Clients), ClosesItsOwn(q, h)
    PROVE  /\ q[1].do \notin {"get", "close"} => ClosesItsOwn(Tail(q), h)
           /\ q[1].do = "get" => ClosesItsOwn(Tail(q), IF q[1].of \in Clients
                                                       THEN Append(h, q[1].of) ELSE h)
           /\ q[1].do = "close" => /\ h # <<>> /\ Last(h) = q[1].of
                                   /\ \A g : ClosesItsOwn(Tail(q), g)
<1>0. q \in Seq(Steps)
  BY DEF Orderly
<1>1. PICK r : r = Tail(q)
  OBVIOUS
<1>2. /\ DOMAIN r = 1..(Len(q) - 1) /\ Len(q) \in Nat \ {0} /\ DOMAIN q = 1..Len(q)
      /\ \A i \in DOMAIN r : i + 1 \in DOMAIN q /\ r[i] = q[i + 1] /\ i \in Int
  BY <1>0, <1>1, TailIs
<1> DEFINE Silent(p, m, n) == \A k \in m..n : p[k].do \notin {"get", "close"}
\* A get of q, not the first step, before a close: it is before it in r.
<1>3. ASSUME NEW i \in DOMAIN r, NEW j \in 1..i, j # 1, Silent(q, j + 1, i)
      PROVE  \E k \in 1..(i - 1) : r[k] = q[j] /\ Silent(r, k + 1, i - 1)
  <2>1. PICK k : k = j - 1
    OBVIOUS
  <2>2. i \in Int /\ i <= Len(q) - 1 /\ j \in Int /\ 1 < j /\ j <= i
    BY <1>2, <1>3
  <2>3. k \in 1..(i - 1) /\ k \in DOMAIN r /\ k + 1 = j
    BY <1>2, <2>1, <2>2
  <2>4. ASSUME NEW l \in (k + 1)..(i - 1) PROVE r[l].do \notin {"get", "close"}
    <3>1. l \in DOMAIN r /\ l + 1 \in (j + 1)..i
      BY <1>2, <2>2, <2>3
    <3> QED BY <1>2, <1>3, <3>1
  <2>5. r[k] = q[j]
    BY <1>2, <2>3
  <2> QED BY <2>3, <2>4, <2>5
\* No get and no close in q up to a step: none in r.
<1>4. ASSUME NEW i \in DOMAIN r, Silent(q, 2, i) PROVE Silent(r, 1, i - 1)
  <2>1. ASSUME NEW l \in 1..(i - 1) PROVE r[l].do \notin {"get", "close"}
    <3>1. l \in DOMAIN r /\ l + 1 \in 2..i
      BY <1>2
    <3> QED BY <1>2, <1>4, <3>1
  <2> QED BY <2>1
<1>5. ASSUME NEW i \in DOMAIN r, r[i].do = "close"
      PROVE  \/ \E j \in 1..i : q[j] = Do("get", r[i].of) /\ Silent(q, j + 1, i)
             \/ h # <<>> /\ Last(h) = r[i].of /\ Silent(q, 1, i)
  <2>1. i + 1 \in DOMAIN q /\ q[i + 1] = r[i] /\ (i + 1) - 1 = i
    BY <1>2
  <2>2. q[i + 1].do = "close" =>
             \/ \E j \in 1..((i + 1) - 1) : /\ q[j] = Do("get", q[i + 1].of)
                                            /\ Silent(q, j + 1, (i + 1) - 1)
             \/ h # <<>> /\ Last(h) = q[i + 1].of /\ Silent(q, 1, (i + 1) - 1)
    BY <2>1 DEF ClosesItsOwn
  <2> QED BY <1>5, <2>1, <2>2
<1>6. ASSUME NEW g, NEW i \in DOMAIN r, r[i].do = "close",
             \/ \E j \in 1..i : j # 1 /\ q[j] = Do("get", r[i].of) /\ Silent(q, j + 1, i)
             \/ g # <<>> /\ Last(g) = r[i].of /\ Silent(q, 2, i)
      PROVE  \/ \E j \in 1..(i - 1) : r[j] = Do("get", r[i].of) /\ Silent(r, j + 1, i - 1)
             \/ g # <<>> /\ Last(g) = r[i].of /\ Silent(r, 1, i - 1)
  <2>1. CASE \E j \in 1..i : j # 1 /\ q[j] = Do("get", r[i].of) /\ Silent(q, j + 1, i)
    <3>1. PICK j \in 1..i : j # 1 /\ q[j] = Do("get", r[i].of) /\ Silent(q, j + 1, i)
      BY <2>1
    <3>2. PICK k \in 1..(i - 1) : r[k] = q[j] /\ Silent(r, k + 1, i - 1)
      BY <1>3, <3>1
    <3> QED BY <3>1, <3>2
  <2>2. CASE g # <<>> /\ Last(g) = r[i].of /\ Silent(q, 2, i)
    BY <1>4, <2>2
  <2> QED BY <1>6, <2>1, <2>2
<1>7. \A i \in DOMAIN r : 1 \in 1..i /\ i \in Nat
  BY <1>2
<1> HIDE DEF Silent
<1>8. ASSUME NEW g,
             \A i \in DOMAIN r : r[i].do = "close" =>
                \/ \E j \in 1..i : j # 1 /\ q[j] = Do("get", r[i].of) /\ Silent(q, j + 1, i)
                \/ g # <<>> /\ Last(g) = r[i].of /\ Silent(q, 2, i)
      PROVE  ClosesItsOwn(r, g)
  BY <1>6, <1>8 DEF ClosesItsOwn, Silent
<1>9. \A i \in DOMAIN r : Silent(q, 1, i) => Silent(q, 2, i) /\ q[1].do \notin {"get", "close"}
  BY <1>7 DEF Silent
<1>10. ASSUME q[1].do \notin {"get", "close"} PROVE ClosesItsOwn(r, h)
  <2>1. \A s : q[1] # Do("get", s)
    BY <1>10 DEF Do
  <2> QED BY <1>5, <1>8, <1>9, <2>1
<1>11. ASSUME q[1].do = "get"
       PROVE  ClosesItsOwn(r, IF q[1].of \in Clients THEN Append(h, q[1].of) ELSE h)
  <2>1. PICK g : g = IF q[1].of \in Clients THEN Append(h, q[1].of) ELSE h
    OBVIOUS
  <2>2. ASSUME NEW i \in DOMAIN r, r[i].do = "close"
        PROVE  \/ \E j \in 1..i : j # 1 /\ q[j] = Do("get", r[i].of) /\ Silent(q, j + 1, i)
               \/ g # <<>> /\ Last(g) = r[i].of /\ Silent(q, 2, i)
    <3>1. PICK j \in 1..i : q[j] = Do("get", r[i].of) /\ Silent(q, j + 1, i)
      BY <1>5, <1>9, <1>11, <2>2
    <3>2. CASE j = 1
      <4>1. q[1].of = r[i].of
        BY <3>1, <3>2 DEF Do
      <4>2. r[i].of \in Clients
        BY <1>2, <2>2 DEF Orderly
      <4>3. g = Append(h, r[i].of)
        BY <2>1, <4>1, <4>2
      <4>4. g # <<>> /\ Last(g) = r[i].of
        BY <4>2, <4>3 DEF Last
      <4> QED BY <3>1, <3>2, <4>4
    <3> QED BY <3>1, <3>2
  <2> QED BY <1>8, <2>1, <2>2
<1>12. ASSUME q[1].do = "close"
       PROVE  /\ h # <<>> /\ Last(h) = q[1].of
              /\ \A g : ClosesItsOwn(r, g)
  <2>1. 1 \in DOMAIN q
    BY <1>2
  <2>2. ~\E j \in 1..(1 - 1) : TRUE
    OBVIOUS
  <2>3. h # <<>> /\ Last(h) = q[1].of
    BY <1>12, <2>1, <2>2 DEF ClosesItsOwn
  <2>4. \A s : q[1] # Do("get", s)
    BY <1>12 DEF Do
  <2>5. \A i \in DOMAIN r : r[i].do = "close" =>
            \E j \in 1..i : j # 1 /\ q[j] = Do("get", r[i].of) /\ Silent(q, j + 1, i)
    BY <1>5, <1>9, <1>12, <2>4
  <2> QED BY <1>8, <2>3, <2>5
<1> QED BY <1>1, <1>10, <1>11, <1>12

-----------------------------------------------------------------------------
(* What a step is to one caller                                            *)

Advances(c) ==
    /\ Active(c) /\ outcome[c] = "none" /\ rest[c] # <<>>
    /\ rest'[c] = Tail(rest[c])
    /\ outcome'[c] = IF Len(rest[c]) = 1 THEN "ok" ELSE "none"
    /\ op'[c] = op[c] /\ calls'[c] = calls[c]

\* A step that neither gets a client nor closes one.
WalksOn(c) ==
    /\ Advances(c)
    /\ rest[c][1].do \notin {"get", "close"}
    /\ held'[c] = held[c]
    /\ rest[c][1].do = "subscribe" => ~zeroWait
    /\ rest[c][1].do = "createPolicy" => BuildPolicy(c)

GetsClient(c) ==
    /\ Advances(c)
    /\ rest[c][1].do = "get" /\ provider[Service(c)] = "ready"
    /\ held'[c] = IF Service(c) \in Clients THEN Append(held[c], Service(c)) ELSE held[c]

ClosesInside(c) ==
    /\ Advances(c)
    /\ rest[c][1].do = "close"
    /\ CloseLast(c)

ClosesAfter(c) ==
    /\ Active(c) /\ outcome[c] # "none"
    /\ op'[c] = op[c] /\ calls'[c] = calls[c] /\ rest'[c] = rest[c] /\ outcome'[c] = outcome[c]
    /\ CloseLast(c)

GivesUp(c) ==
    /\ Active(c) /\ outcome[c] = "none" /\ outcome'[c] = "error"
    /\ At(c, "get") => provider[Service(c)] = "failed"
    /\ op'[c] = op[c] /\ calls'[c] = calls[c] /\ rest'[c] = rest[c] /\ held'[c] = held[c]

Begins(c) ==
    /\ ~Active(c) /\ calls[c] < MaxCalls
    /\ op'[c] \in Menu[c] /\ rest'[c] = Program(op'[c]) /\ calls'[c] = calls[c] + 1
    /\ outcome'[c] = outcome[c] /\ held'[c] = held[c]

Returns(c) ==
    /\ outcome[c] # "none" /\ held[c] = <<>>
    /\ op'[c] = None /\ rest'[c] = <<>> /\ outcome'[c] = "none"
    /\ calls'[c] = calls[c] /\ held'[c] = held[c]

Rests(c) ==
    /\ op'[c] = op[c] /\ rest'[c] = rest[c] /\ outcome'[c] = outcome[c]
    /\ calls'[c] = calls[c] /\ held'[c] = held[c]

CallerInv == LeaseInv /\ DOMAIN calls = Callers

LEMMA CallerStep ==
    ASSUME CallerInv, [Next]_vars, NEW c \in Callers
    PROVE  \/ WalksOn(c) \/ GetsClient(c) \/ ClosesInside(c) \/ ClosesAfter(c) \/ GivesUp(c)
           \/ Begins(c) \/ Returns(c) \/ Rests(c)
<1>0. /\ DOMAIN op = Callers /\ DOMAIN rest = Callers /\ DOMAIN outcome = Callers
      /\ DOMAIN calls = Callers /\ held \in [Callers -> Seq(Clients)]
      /\ provider \in [Services -> {"new", "making", "ready", "failed"}]
  BY DEF CallerInv, LeaseInv
<1>1. ASSUME NEW d \in Callers, Advance(d), outcome[d] = "none",
             rest[d] # <<>>, Active(d), UNCHANGED <<op, calls>>
      PROVE  (d = c => Advances(c)) /\ (d # c => rest'[c] = rest[c] /\ outcome'[c] = outcome[c])
  BY <1>0, <1>1 DEF Advance, Advances
<1>2. ASSUME NEW d \in Callers, Abort(d)
      PROVE  /\ rest'[c] = rest[c]
             /\ d = c => outcome'[c] = "error"
             /\ d # c => outcome'[c] = outcome[c]
  BY <1>0, <1>2 DEF Abort
<1>3. ASSUME NEW d \in Callers, NEW o \in Menu[d], Call(d, o) PROVE Begins(c) \/ Rests(c)
  BY <1>0, <1>3 DEF Call, Begins, Rests
<1>4. ASSUME NEW d \in Callers,
             Validate(d) \/ StepSucceeds(d) \/ Subscribe(d) \/ Send(d) \/ BuildPolicy(d)
                \/ OrdererAnswers(d) \/ ReceiveAborted(d) \/ Await(d) \/ StepFails(d)
      PROVE  WalksOn(c) \/ GivesUp(c) \/ Rests(c)
  <2>1. /\ Active(d) /\ outcome[d] = "none" /\ rest[d] # <<>>
        /\ rest[d][1].do \notin {"get", "close"} /\ UNCHANGED <<op, held, calls>>
        /\ Advance(d) \/ Abort(d)
    BY <1>4 DEF Validate, StepSucceeds, Subscribe, Send, BuildPolicy, OrdererAnswers,
                ReceiveAborted, Await, StepFails, At
  <2>2. CASE Abort(d)
    BY <1>2, <2>1, <2>2 DEF GivesUp, Rests, At
  <2>3. CASE Advance(d)
    <3>1. CASE d # c
      BY <1>1, <2>1, <2>3, <3>1 DEF Rests
    <3>2. CASE d = c
      <4>1. Advances(c)
        BY <1>1, <2>1, <2>3, <3>2
      <4>2. /\ rest[c][1].do = "subscribe" => Subscribe(c) \/ Abort(c)
            /\ rest[c][1].do = "createPolicy" => BuildPolicy(c)
        BY <1>4, <3>2 DEF Validate, StepSucceeds, Subscribe, Send, BuildPolicy, OrdererAnswers,
                    ReceiveAborted, Await, StepFails, At
      <4>3. CASE Abort(c)
        BY <1>2, <2>1, <3>2, <4>3 DEF GivesUp, At
      <4>4. CASE ~Abort(c)
        <5>1. rest[c][1].do = "subscribe" => ~zeroWait
          BY <4>2, <4>4 DEF Subscribe
        <5> QED BY <2>1, <3>2, <4>1, <4>2, <5>1 DEF WalksOn
      <4> QED BY <4>3, <4>4
    <3> QED BY <3>1, <3>2
  <2> QED BY <2>1, <2>2, <2>3
<1>5. ASSUME NEW d \in Callers, GetReturns(d) PROVE GetsClient(c) \/ GivesUp(c) \/ Rests(c)
  <2>1. /\ Active(d) /\ outcome[d] = "none" /\ rest[d] # <<>> /\ rest[d][1].do = "get"
        /\ UNCHANGED <<op, calls>>
    BY <1>5 DEF GetReturns, At
  <2>2. CASE provider[Service(d)] = "ready"
    <3>1. /\ Advance(d)
          /\ held' = [held EXCEPT ![d] = IF Service(d) \in Clients
                                         THEN Append(@, Service(d)) ELSE @]
      BY <1>5, <2>2 DEF GetReturns
    <3>2. CASE d = c
      BY <1>0, <1>1, <2>1, <2>2, <3>1, <3>2 DEF GetsClient
    <3>3. CASE d # c
      BY <1>0, <1>1, <2>1, <3>1, <3>3 DEF Rests
    <3> QED BY <3>2, <3>3
  <2>3. CASE provider[Service(d)] # "ready"
    <3>1. Abort(d) /\ UNCHANGED held /\ provider[Service(d)] = "failed"
      BY <1>5, <2>3 DEF GetReturns
    <3> QED BY <1>2, <2>1, <3>1 DEF GivesUp, Rests
  <2> QED BY <2>2, <2>3
<1>6. ASSUME NEW d \in Callers, InnerReturn(d) PROVE ClosesInside(c) \/ Rests(c)
  <2>1. /\ Active(d) /\ outcome[d] = "none" /\ rest[d] # <<>> /\ rest[d][1].do = "close"
        /\ UNCHANGED <<op, calls>> /\ Advance(d) /\ CloseLast(d)
    BY <1>6 DEF InnerReturn, At
  <2>2. CASE d = c
    BY <1>1, <2>1, <2>2 DEF ClosesInside
  <2>3. CASE d # c
    BY <1>0, <1>1, <2>1, <2>3 DEF Rests, CloseLast
  <2> QED BY <2>2, <2>3
<1>7. ASSUME NEW d \in Callers, CloseDeferred(d) PROVE ClosesAfter(c) \/ Rests(c)
  <2>1. held[d] # <<>> => Active(d)
    BY DEF CallerInv, LeaseInv
  <2> QED BY <1>0, <1>7, <2>1 DEF CloseDeferred, CloseLast, ClosesAfter, Rests
<1>8. ASSUME NEW d \in Callers, Return(d) PROVE Returns(c) \/ Rests(c)
  BY <1>0, <1>8 DEF Return, Returns, Rests
<1>9. ASSUME UNCHANGED callVars PROVE Rests(c)
  BY <1>9 DEF callVars, Rests
<1>10. ASSUME NEW d \in Callers, Get(d) PROVE Rests(c)
  BY <1>9, <1>10 DEF Get
<1>11. CASE (\E t \in Services, b \in BOOLEAN : Make(t, b)) \/ Interrupt \/ KeyFileChanges
            \/ UNCHANGED vars
  BY <1>9, <1>11 DEF Make, Interrupt, KeyFileChanges, vars
<1> QED
  BY <1>3, <1>4, <1>5, <1>6, <1>7, <1>8, <1>10, <1>11 DEF Next, Proceed

-----------------------------------------------------------------------------
(* Every caller keeps to the order of its operation                        *)

Distinct(h) == \A i, j \in DOMAIN h : h[i] = h[j] => i = j

\* What is deferred was got once, and what is still to be got is not among it.
OrderOf(c) ==
    /\ op[c] \in Menu[c] \cup {None}
    /\ calls[c] \in 0..MaxCalls
    /\ outcome[c] \in {"none", "ok", "error"}
    /\ Orderly(rest[c])
    /\ Active(c) => outcome[c] # "none" \/ rest[c] # <<>>
    /\ ~Active(c) => outcome[c] = "none" /\ rest[c] = <<>>
    /\ Distinct(held[c])
    /\ outcome[c] = "none" =>
          /\ ClosesItsOwn(rest[c], held[c])
          /\ \A i \in DOMAIN rest[c] : rest[c][i].do = "get" => rest[c][i].of \notin ToSet(held[c])

OrderInv == CallerInv /\ \A c \in Callers : OrderOf(c)

LEMMA OrderInvInit == Init => OrderInv
<1> SUFFICES ASSUME Init PROVE OrderInv
  OBVIOUS
<1>1. LeaseInv /\ DOMAIN calls = Callers
  BY LeaseInvInit DEF Init
<1>2. ASSUME NEW c \in Callers PROVE OrderOf(c)
  <2>1. /\ op[c] = None /\ calls[c] = 0 /\ outcome[c] = "none" /\ rest[c] = <<>>
        /\ held[c] = <<>>
    BY DEF Init
  <2> QED BY <2>1, BoundsAssumption
          DEF OrderOf, Orderly, ClosesItsOwn, Distinct, Active
<1> QED BY <1>1, <1>2 DEF OrderInv, CallerInv

LEMMA DistinctAppend ==
    ASSUME NEW h \in Seq(Clients), Distinct(h), NEW s \in Clients, s \notin ToSet(h)
    PROVE  Distinct(Append(h, s))
<1>1. PICK g : g = Append(h, s)
  OBVIOUS
<1>2. /\ Len(h) \in Nat /\ DOMAIN h = 1..Len(h) /\ DOMAIN g = 1..(Len(h) + 1)
      /\ g[Len(h) + 1] = s /\ \A i \in DOMAIN h : g[i] = h[i] /\ h[i] # s
  BY <1>1 DEF ToSet
<1>3. ASSUME NEW i \in DOMAIN g, NEW j \in DOMAIN g, g[i] = g[j] PROVE i = j
  BY <1>2, <1>3 DEF Distinct
<1> QED BY <1>1, <1>3 DEF Distinct

LEMMA DistinctFront ==
    ASSUME NEW h \in Seq(Clients), Distinct(h), h # <<>>
    PROVE  /\ Distinct(Front(h)) /\ Front(h) \in Seq(Clients)
           /\ ToSet(Front(h)) = ToSet(h) \ {Last(h)} /\ Last(h) \in ToSet(h) /\ Last(h) \in Clients
<1>1. PICK g, n : g = Front(h) /\ n = Len(h)
  OBVIOUS
<1>2. n \in Nat \ {0} /\ DOMAIN h = 1..n /\ DOMAIN g = 1..(n - 1) /\ Last(h) = h[n]
  BY <1>1 DEF Front, Last
<1>3. \A i \in 1..(n - 1) : g[i] = h[i]
  BY <1>1, <1>2 DEF Front
<1>4. Distinct(g)
  BY <1>2, <1>3 DEF Distinct
<1>5. Last(h) \notin ToSet(g)
  <2>1. ASSUME NEW i \in 1..(n - 1), g[i] = h[n] PROVE FALSE
    <3>1. i \in DOMAIN h /\ n \in DOMAIN h /\ i # n /\ h[i] = h[n]
      BY <1>2, <1>3, <2>1
    <3> QED BY <3>1 DEF Distinct
  <2> QED BY <1>2, <2>1 DEF ToSet
<1>6. /\ Last(h) \in Clients /\ Last(h) \in ToSet(h) /\ Front(h) \in Seq(Clients)
      /\ ToSet(Front(h)) \subseteq ToSet(h)
      /\ \A e \in ToSet(h) : e # Last(h) => e \in ToSet(Front(h))
  BY FrontHolds
<1> QED BY <1>1, <1>4, <1>5, <1>6

\* What is deferred between two steps.
LEMMA ClosingKeepsOrder ==
    ASSUME OrderInv, NEW c \in Callers, CloseLast(c)
    PROVE  /\ Last(held[c]) \in Clients /\ Last(held[c]) \in ToSet(held[c])
           /\ held'[c] = Front(held[c]) /\ Distinct(held'[c])
           /\ ToSet(held'[c]) = ToSet(held[c]) \ {Last(held[c])}
<1>1. held[c] \in Seq(Clients) /\ held[c] # <<>> /\ Distinct(held[c]) /\ held'[c] = Front(held[c])
  BY DEF CloseLast, OrderInv, OrderOf, CallerInv, LeaseInv
<1> QED BY <1>1, DistinctFront

LEMMA OrderInvStep == OrderInv /\ [Next]_vars => OrderInv'
<1> SUFFICES ASSUME OrderInv, [Next]_vars PROVE OrderInv'
  OBVIOUS
<1>1. LeaseInv' /\ DOMAIN calls' = Callers
  <2>1. LeaseInv'
    BY LeaseInvStep DEF OrderInv, CallerInv
  <2>2. DOMAIN calls' = Callers
    BY DEF OrderInv, CallerInv, Next, Proceed, Call, Validate, BuildPolicy, Get, GetReturns,
           StepSucceeds, Subscribe, Send, ReceiveAborted, Await, StepFails, InnerReturn,
           CloseDeferred, Return, OrdererAnswers, Make, Interrupt, KeyFileChanges, vars, callVars
  <2> QED BY <2>1, <2>2
<1>2. ASSUME NEW c \in Callers PROVE OrderOf(c)'
  <2> DEFINE q == rest[c]
  <2>0. /\ OrderOf(c) /\ q \in Seq(Steps) /\ held[c] \in Seq(Clients)
        /\ q # <<>> => Len(q) \in Nat \ {0}
    BY DEF OrderInv, OrderOf, Orderly, CallerInv, LeaseInv
  <2>1. \/ WalksOn(c) \/ GetsClient(c) \/ ClosesInside(c) \/ ClosesAfter(c) \/ GivesUp(c)
        \/ Begins(c) \/ Returns(c) \/ Rests(c)
    BY CallerStep DEF OrderInv
  \* A step of the program: what is left to show is about the clients it holds.
  <2>2. ASSUME Advances(c), Distinct(held'[c]), ClosesItsOwn(Tail(q), held'[c]),
               \A i \in DOMAIN Tail(q) : Tail(q)[i].do = "get" => Tail(q)[i].of \notin ToSet(held'[c])
        PROVE  OrderOf(c)'
    <3>1. /\ q # <<>> /\ rest'[c] = Tail(q) /\ op'[c] = op[c] /\ calls'[c] = calls[c]
          /\ Active(c) /\ Active(c)' /\ outcome[c] = "none"
          /\ outcome'[c] = IF Len(q) = 1 THEN "ok" ELSE "none"
      BY <2>2 DEF Advances, Active
    <3>2. Orderly(Tail(q)) /\ (Len(q) # 1 => Tail(q) # <<>>)
      <4>1. Orderly(Tail(q))
        BY <2>0, <3>1, OrderlyTail DEF OrderOf
      <4>2. Len(Tail(q)) = Len(q) - 1 /\ Len(q) \in Nat
        BY <2>0, <3>1, TailIs
      <4>3. PICK r : r = Tail(q)
        OBVIOUS
      <4>4. Len(q) # 1 => Len(r) # 0
        BY <4>2, <4>3
      <4>5. Len(q) # 1 => r # <<>>
        BY <4>4
      <4> QED BY <4>1, <4>3, <4>5
    <3> QED BY <2>0, <2>2, <3>1, <3>2 DEF OrderOf
  <2>3. ASSUME Advances(c)
        PROVE  /\ q # <<>> /\ Orderly(q) /\ ClosesItsOwn(q, held[c])
               /\ DOMAIN q = 1..Len(q) /\ 1 \in DOMAIN q
               /\ \A i \in DOMAIN Tail(q) :
                     /\ i + 1 \in DOMAIN q /\ Tail(q)[i] = q[i + 1] /\ 1 < i + 1
                     /\ Tail(q)[i].do = "get" => Tail(q)[i].of \notin ToSet(held[c])
    <3>1. q # <<>> /\ Orderly(q) /\ ClosesItsOwn(q, held[c])
      BY <2>0, <2>3 DEF Advances, OrderOf
    <3>2. /\ DOMAIN q = 1..Len(q) /\ Len(q) \in Nat \ {0}
          /\ \A i \in DOMAIN Tail(q) : i + 1 \in DOMAIN q /\ Tail(q)[i] = q[i + 1] /\ 1 < i + 1
      BY <2>0, <3>1, TailIs
    <3>3. \A i \in DOMAIN q : q[i].do = "get" => q[i].of \notin ToSet(held[c])
      BY <2>0, <2>3 DEF Advances, OrderOf
    <3> QED BY <3>1, <3>2, <3>3
  <2>4. CASE WalksOn(c)
    <3>1. Advances(c) /\ held'[c] = held[c] /\ q[1].do \notin {"get", "close"}
      BY <2>4 DEF WalksOn
    <3>2. ClosesItsOwn(Tail(q), held[c])
      BY <2>0, <2>3, <3>1, ClosesInTail
    <3> QED BY <2>0, <2>2, <2>3, <3>1, <3>2 DEF OrderOf
  <2>5. CASE GetsClient(c)
    <3>1. /\ Advances(c) /\ q[1].do = "get"
          /\ held'[c] = IF q[1].of \in Clients THEN Append(held[c], q[1].of) ELSE held[c]
      BY <2>5 DEF GetsClient, Service
    <3>2. ClosesItsOwn(Tail(q), held'[c])
      BY <2>0, <2>3, <3>1, ClosesInTail
    <3>3. q[1].of \notin ToSet(held[c])
      BY <2>0, <2>3, <3>1 DEF Advances, OrderOf
    <3>4. CASE q[1].of \in Clients
      <4>1. Distinct(held'[c]) /\ ToSet(held'[c]) = ToSet(held[c]) \cup {q[1].of}
        BY <2>0, <3>1, <3>3, <3>4, DistinctAppend, AppendHolds DEF OrderOf
      <4>2. ASSUME NEW i \in DOMAIN Tail(q), Tail(q)[i].do = "get" PROVE Tail(q)[i].of # q[1].of
        BY <2>3, <3>1, <3>4, <4>2 DEF Orderly
      <4>3. \A i \in DOMAIN Tail(q) : Tail(q)[i].do = "get" => Tail(q)[i].of \notin ToSet(held'[c])
        BY <2>3, <3>1, <4>1, <4>2
      <4> QED BY <2>2, <3>1, <3>2, <4>1, <4>3
    <3>5. CASE q[1].of \notin Clients
      BY <2>0, <2>2, <2>3, <3>1, <3>2, <3>5 DEF OrderOf
    <3> QED BY <3>4, <3>5
  <2>6. CASE ClosesInside(c)
    <3>1. Advances(c) /\ q[1].do = "close" /\ CloseLast(c)
      BY <2>6 DEF ClosesInside
    <3>2. Distinct(held'[c]) /\ ToSet(held'[c]) \subseteq ToSet(held[c])
      BY <3>1, ClosingKeepsOrder
    <3>3. ClosesItsOwn(Tail(q), held'[c])
      BY <2>0, <2>3, <3>1, ClosesInTail
    <3> QED BY <2>2, <2>3, <3>1, <3>2, <3>3
  <2>7. CASE ClosesAfter(c)
    <3>1. Distinct(held'[c])
      BY <2>7, ClosingKeepsOrder DEF ClosesAfter
    <3> QED BY <2>0, <2>7, <3>1 DEF ClosesAfter, OrderOf, Active
  <2>8. CASE GivesUp(c)
    BY <2>0, <2>8 DEF GivesUp, OrderOf, Active
  <2>9. CASE Begins(c)
    <3>1. /\ ~Active(c) /\ outcome[c] = "none" /\ held[c] = <<>> /\ calls[c] \in 0..MaxCalls
      BY <2>0, <2>9 DEF Begins, OrderOf, OrderInv, CallerInv, LeaseInv
    <3>2. /\ op'[c] \in Menu[c] /\ op'[c] \in Operations /\ op'[c] # None
          /\ rest'[c] = Program(op'[c]) /\ held'[c] = <<>> /\ outcome'[c] = "none"
          /\ calls'[c] \in 0..MaxCalls
      BY <2>9, <3>1, MenuAssumption, BoundsAssumption DEF Begins, Operations, None
    <3>3. rest'[c] # <<>> /\ Orderly(rest'[c]) /\ ClosesItsOwn(rest'[c], <<>>)
      BY <3>2, Programs
    <3>4. ToSet(<<>>) = {} /\ Distinct(<<>>)
      BY DEF ToSet, Distinct
    <3> QED BY <3>2, <3>3, <3>4 DEF OrderOf, Active
  <2>10. CASE Returns(c)
    BY <2>0, <2>10 DEF Returns, OrderOf, Active, Orderly, ClosesItsOwn
  <2>11. CASE Rests(c)
    BY <2>0, <2>11 DEF Rests, OrderOf, Active
  <2> QED BY <2>1, <2>4, <2>5, <2>6, <2>7, <2>8, <2>9, <2>10, <2>11
<1> QED BY <1>1, <1>2 DEF OrderInv, CallerInv

-----------------------------------------------------------------------------
(* Clients that a call has closed                                          *)

\* A call that has closed a client does not come back to it; the numbers of calls only
\* grow.
ClosedOf(c) ==
    \A s \in Services :
        /\ \A n \in Int : closedBy[s] = <<c, n>> => n <= calls[c]
        /\ closedBy[s] = ThisCall(c) /\ outcome[c] = "none" =>
              \A i \in DOMAIN rest[c] : rest[c][i].of # s

ClosedInv == OrderInv /\ DOMAIN closedBy = Services /\ \A c \in Callers : ClosedOf(c)

LEMMA ClosedInvInit == Init => ClosedInv
BY OrderInvInit DEF Init, ClosedInv, ClosedOf, ThisCall

\* Who closes a client when.
LEMMA ClosingStep ==
    ASSUME ClosedInv, [Next]_vars
    PROVE  /\ DOMAIN closedBy' = Services
           /\ \/ closedBy' = closedBy
              \/ \E d \in Callers :
                    /\ CloseLast(d) /\ calls' = calls /\ Active(d)
                    /\ \A c \in Callers \ {d} : rest'[c] = rest[c] /\ outcome'[c] = outcome[c]
<1>1. ASSUME NEW d \in Callers, InnerReturn(d) \/ CloseDeferred(d)
      PROVE  /\ CloseLast(d) /\ calls' = calls /\ Active(d)
             /\ \A c \in Callers \ {d} : rest'[c] = rest[c] /\ outcome'[c] = outcome[c]
  BY <1>1 DEF InnerReturn, CloseDeferred, Advance, At, ClosedInv, OrderInv, CallerInv, LeaseInv,
              CloseLast
<1>2. \/ closedBy' = closedBy
      \/ \E d \in Callers : InnerReturn(d) \/ CloseDeferred(d)
  BY DEF Next, Proceed, Call, Validate, BuildPolicy, Get, GetReturns, StepSucceeds, Subscribe,
         Send, ReceiveAborted, Await, StepFails, Return, OrdererAnswers, Make, Interrupt,
         KeyFileChanges, vars, serviceVars
<1>3. \A d \in Callers : CloseLast(d) => DOMAIN closedBy' = Services
  BY DEF CloseLast, ClosedInv
<1>4. closedBy' = closedBy => DOMAIN closedBy' = Services
  BY DEF ClosedInv
<1> QED BY <1>1, <1>2, <1>3, <1>4

LEMMA ClosedInvStep == ClosedInv /\ [Next]_vars => ClosedInv'
<1> SUFFICES ASSUME ClosedInv, [Next]_vars PROVE ClosedInv'
  OBVIOUS
<1>1. OrderInv'
  BY OrderInvStep DEF ClosedInv
<1>2. ASSUME NEW c \in Callers PROVE ClosedOf(c)'
  <2>0. /\ ClosedOf(c) /\ OrderOf(c) /\ calls[c] \in Int /\ rest[c] \in Seq(Steps)
        /\ \A d \in Callers : calls[d] \in Int
    BY BoundsAssumption DEF ClosedInv, OrderInv, OrderOf, Orderly
  <2>1. \/ WalksOn(c) \/ GetsClient(c) \/ ClosesInside(c) \/ ClosesAfter(c) \/ GivesUp(c)
        \/ Begins(c) \/ Returns(c) \/ Rests(c)
    BY CallerStep DEF ClosedInv, OrderInv
  <2>2. ASSUME Advances(c)
        PROVE  /\ outcome[c] = "none" /\ calls'[c] = calls[c]
               /\ \A i \in DOMAIN rest'[c] : i + 1 \in DOMAIN rest[c] /\ rest'[c][i] = rest[c][i + 1]
    <3>1. outcome[c] = "none" /\ calls'[c] = calls[c] /\ rest[c] # <<>> /\ rest'[c] = Tail(rest[c])
      BY <2>2 DEF Advances
    <3>2. \A i \in DOMAIN Tail(rest[c]) :
             i + 1 \in DOMAIN rest[c] /\ Tail(rest[c])[i] = rest[c][i + 1]
      BY <2>0, <3>1, TailIs
    <3> QED BY <3>1, <3>2
  <2>3. CASE closedBy' = closedBy
    <3>1. CASE WalksOn(c) \/ GetsClient(c) \/ ClosesInside(c)
      BY <2>0, <2>2, <2>3, <3>1 DEF WalksOn, GetsClient, ClosesInside, ClosedOf, ThisCall
    <3>2. CASE ClosesAfter(c) \/ GivesUp(c) \/ Rests(c)
      BY <2>0, <2>3, <3>2 DEF ClosesAfter, GivesUp, Rests, ClosedOf, ThisCall
    <3>3. CASE Begins(c)
      <4>1. calls'[c] = calls[c] + 1
        BY <3>3 DEF Begins
      <4> QED BY <2>0, <2>3, <4>1 DEF ClosedOf, ThisCall
    <3>4. CASE Returns(c)
      BY <2>0, <2>3, <3>4 DEF Returns, ClosedOf, ThisCall
    <3> QED BY <2>1, <3>1, <3>2, <3>3, <3>4
  <2>4. ASSUME closedBy' # closedBy PROVE ClosedOf(c)'
    <3>1. PICK d \in Callers :
             /\ CloseLast(d) /\ calls' = calls /\ Active(d)
             /\ \A b \in Callers \ {d} : rest'[b] = rest[b] /\ outcome'[b] = outcome[b]
      BY <2>4, ClosingStep
    <3>2. PICK t : t = Last(held[d])
      OBVIOUS
    <3>3. /\ t \in Services
          /\ closedBy' = [closedBy EXCEPT ![t] = IF client[t] = "open" THEN ThisCall(d) ELSE @]
      BY <3>1, <3>2, ClosingKeepsOrder DEF ClosedInv, Clients, CloseLast
    <3>4. \A s \in Services : closedBy'[s] = closedBy[s] \/ (s = t /\ closedBy'[s] = <<d, calls[d]>>)
      BY <3>3 DEF ClosedInv, ThisCall
    <3>5. CASE c # d
      BY <2>0, <3>1, <3>4, <3>5 DEF ClosedOf, ThisCall
    <3>6. CASE c = d
      <4>1. held'[c] # held[c] /\ calls'[c] = calls[c]
        <5>1. held[c] \in Seq(Clients) /\ held[c] # <<>> /\ held'[c] = Front(held[c])
          BY <3>1, <3>6 DEF CloseLast, ClosedInv, OrderInv, CallerInv, LeaseInv
        <5>2. t \in ToSet(held[c]) /\ t \notin ToSet(held'[c])
          BY <3>1, <3>2, <3>6, ClosingKeepsOrder DEF ClosedInv
        <5> QED BY <3>1, <5>2
      <4>2. ClosesInside(c) \/ ClosesAfter(c) \/ GetsClient(c)
        BY <2>1, <4>1 DEF WalksOn, GivesUp, Begins, Returns, Rests
      <4>3. CASE ClosesAfter(c)
        <5>1. outcome'[c] # "none"
          BY <4>3 DEF ClosesAfter
        <5> QED BY <2>0, <3>1, <3>4, <3>6, <5>1 DEF ClosedOf
      <4>4. CASE ClosesInside(c)
        <5>1. Advances(c) /\ rest[c][1].do = "close"
          BY <4>4 DEF ClosesInside
        <5>2. rest[c] # <<>> /\ Orderly(rest[c]) /\ ClosesItsOwn(rest[c], held[c])
          BY <2>0, <5>1 DEF Advances, OrderOf
        <5>3. t = rest[c][1].of
          <6>1. held[c] \in Seq(Clients)
            BY DEF ClosedInv, OrderInv, CallerInv, LeaseInv
          <6> QED BY <3>2, <3>6, <5>1, <5>2, <6>1, ClosesInTail
        <5>4. \A i \in DOMAIN rest'[c] : /\ i + 1 \in DOMAIN rest[c] /\ rest'[c][i] = rest[c][i + 1]
                                         /\ 1 \in DOMAIN rest[c] /\ 1 < i + 1
          BY <2>0, <2>2, <5>1, <5>2, TailIs DEF Advances
        <5>5. \A i \in DOMAIN rest'[c] : rest'[c][i].of # t
          BY <5>1, <5>2, <5>3, <5>4 DEF Orderly
        <5> QED BY <2>0, <2>2, <3>1, <3>4, <3>6, <5>1, <5>5 DEF ClosedOf, ThisCall
      <4>5. CASE GetsClient(c)
        <5>1. ToSet(held[c]) \subseteq ToSet(held'[c])
          BY <4>5, AppendHolds DEF GetsClient, ClosedInv, OrderInv, CallerInv, LeaseInv
        <5>2. t \in ToSet(held[c]) /\ t \notin ToSet(held'[c])
          BY <3>1, <3>2, <3>6, ClosingKeepsOrder DEF ClosedInv
        <5> QED BY <5>1, <5>2
      <4> QED BY <4>2, <4>3, <4>4, <4>5
    <3> QED BY <3>5, <3>6
  <2> QED BY <2>3, <2>4
<1>3. DOMAIN closedBy' = Services
  BY ClosingStep
<1> QED BY <1>1, <1>2, <1>3 DEF ClosedInv

-----------------------------------------------------------------------------
(* A wait of zero                                                          *)

\* Of what is to wait, nothing was sent, and nothing will be before it subscribes.
ZeroOf(c) ==
    Active(c) /\ outcome[c] = "none" /\ SendsOnlyToWait(op[c]) => SubscribesFirst(rest[c])

ZeroInv ==
    /\ OrderInv
    /\ zeroWait => ZeroWaitSendsNothing /\ \A c \in Callers : ZeroOf(c)

LEMMA ZeroInvInit == Init => ZeroInv
BY OrderInvInit DEF Init, ZeroInv, ZeroOf, ZeroWaitSendsNothing, Active

LEMMA ZeroInvStep == ZeroInv /\ [Next]_vars => ZeroInv'
<1> SUFFICES ASSUME ZeroInv, [Next]_vars PROVE ZeroInv'
  OBVIOUS
<1>1. OrderInv'
  BY OrderInvStep DEF ZeroInv
<1>2. zeroWait' = zeroWait
  BY DEF Next, Proceed, Call, Validate, BuildPolicy, Get, GetReturns, StepSucceeds, Subscribe,
         Send, ReceiveAborted, Await, StepFails, InnerReturn, CloseDeferred, Return,
         OrdererAnswers, Make, Interrupt, KeyFileChanges, vars
<1>3. ASSUME zeroWait, NEW c \in Callers PROVE ZeroOf(c)'
  <2>1. /\ ZeroOf(c) /\ OrderOf(c) /\ CallerInv /\ rest[c] \in Seq(Steps)
    BY <1>3 DEF ZeroInv, OrderInv, OrderOf, Orderly
  <2>2. CASE WalksOn(c) \/ GetsClient(c) \/ ClosesInside(c)
    <3>1. /\ Active(c) /\ outcome[c] = "none" /\ op'[c] = op[c]
          /\ rest[c] # <<>> /\ rest'[c] = Tail(rest[c]) /\ rest[c][1].do # "subscribe"
      BY <1>3, <2>2 DEF WalksOn, GetsClient, ClosesInside, Advances
    <3> QED BY <2>1, <3>1, FirstInTail DEF ZeroOf
  <2>3. CASE ClosesAfter(c) \/ GivesUp(c) \/ Returns(c) \/ Rests(c)
    BY <2>1, <2>3 DEF ClosesAfter, GivesUp, Returns, Rests, ZeroOf, Active
  <2>4. CASE Begins(c)
    <3>1. op'[c] \in Operations /\ rest'[c] = Program(op'[c])
      BY <2>4, MenuAssumption DEF Begins
    <3> QED BY <3>1, Programs DEF ZeroOf
  <2> QED BY <2>1, <2>2, <2>3, <2>4, CallerStep
<1>4. ASSUME zeroWait PROVE ZeroWaitSendsNothing'
  <2>1. \A e \in sent : ~SendsOnlyToWait(e.op)
    BY <1>4 DEF ZeroInv, ZeroWaitSendsNothing, SendsOnlyToWait
  <2>2. ASSUME NEW c \in Callers, Send(c) PROVE ~SendsOnlyToWait(op[c])
    <3>1. Active(c) /\ outcome[c] = "none" /\ rest[c] # <<>> /\ rest[c][1].do = "send"
      BY <2>2 DEF Send, At
    <3>2. 1 \in DOMAIN rest[c] /\ ~\E j \in 1..(1 - 1) : TRUE
      BY <3>1, TailIs DEF ZeroInv, OrderInv, OrderOf, Orderly
    <3>3. ~SubscribesFirst(rest[c])
      BY <3>1, <3>2 DEF SubscribesFirst
    <3> QED BY <1>4, <3>1, <3>3 DEF ZeroInv, ZeroOf
  <2>3. \/ sent' = sent
        \/ \E c \in Callers : Send(c)
    BY DEF Next, Proceed, Call, Validate, BuildPolicy, Get, GetReturns, StepSucceeds, Subscribe,
           ReceiveAborted, Await, StepFails, InnerReturn, CloseDeferred, Return,
           OrdererAnswers, Make, Interrupt, KeyFileChanges, vars
  <2>4. ASSUME NEW c \in Callers, Send(c)
        PROVE  \A e \in sent' : e \in sent \/ e.op = op[c]
    BY <2>4 DEF Send
  <2>5. \A e \in sent' : ~SendsOnlyToWait(e.op)
    BY <2>1, <2>2, <2>3, <2>4
  <2> QED BY <2>5 DEF ZeroWaitSendsNothing, SendsOnlyToWait
<1> QED BY <1>1, <1>2, <1>3, <1>4 DEF ZeroInv

-----------------------------------------------------------------------------
(* The policy of a deployment                                              *)

\* A set of natural numbers has a smallest one.
LEMMA Smallest ==
    ASSUME NEW T, T \subseteq Nat, T # {}
    PROVE  Min(T) \in T /\ \A y \in T : Min(T) <= y
<1>1. PICK R : R = OpToRel(<, Nat)
  OBVIOUS
<1>2. IsWellFoundedOn(R, Nat)
  BY <1>1, NatLessThanWellFounded
<1>3. R = {ss \in Nat \X Nat : ss[1] < ss[2]}
  BY <1>1 DEF OpToRel
<1>4. \E x \in T : \A y \in T : ~(<<y, x>> \in R)
  BY <1>2, WFMin
<1>5. PICK x \in T : \A y \in T : ~(<<y, x>> \in R)
  BY <1>4
<1>6. ASSUME NEW y \in T PROVE x <= y
  <2>1. x \in Nat /\ y \in Nat /\ ~(<<y, x>> \in R)
    BY <1>5
  <2>2. ~(y < x)
    BY <1>3, <2>1
  <2> QED BY <2>1, <2>2
<1> QED BY <1>6 DEF Min

\* What GetPubKeyFromPemData finds is the first ECDSA key of the file.
IsKey(blocks, i) == blocks[i].algorithm = "ECDSA" /\ blocks[i].holds # "other"

LEMMA FirstKey ==
    ASSUME NEW blocks \in Seq(Blocks), GetPubKeyFromPemData(blocks) # NoKey
    PROVE  \E i \in DOMAIN blocks :
              /\ IsKey(blocks, i) /\ GetPubKeyFromPemData(blocks) = blocks[i].key
              /\ \A j \in 1..(i - 1) : ~IsKey(blocks, j)
<1>1. DOMAIN blocks = 1..Len(blocks) /\ Len(blocks) \in Nat /\ \A i \in DOMAIN blocks : blocks[i] \in Blocks
  OBVIOUS
<1>2. PICK T : T = {i \in DOMAIN blocks : ParseCertificateOrPublicKey(blocks[i]) # NoKey}
  OBVIOUS
<1>3. \A i \in DOMAIN blocks : /\ i \in T <=> IsKey(blocks, i)
                               /\ i \in T => ParseCertificateOrPublicKey(blocks[i]) = blocks[i].key
  BY <1>1, <1>2 DEF Blocks, ParseCertificateOrPublicKey, IsKey
<1>4. T # {} /\ T \subseteq Nat
  BY <1>1, <1>2 DEF GetPubKeyFromPemData
<1>5. PICK m : m = Min(T)
  OBVIOUS
<1>6. m \in T /\ \A y \in T : m <= y
  BY <1>4, <1>5, Smallest
<1>7. GetPubKeyFromPemData(blocks) = ParseCertificateOrPublicKey(blocks[m])
  BY <1>2, <1>4, <1>5 DEF GetPubKeyFromPemData
<1>8. m \in DOMAIN blocks
  BY <1>2, <1>6
<1>9. ASSUME NEW j \in 1..(m - 1) PROVE ~IsKey(blocks, j)
  <2>1. j \in DOMAIN blocks /\ ~(m <= j)
    BY <1>1, <1>8
  <2> QED BY <1>3, <1>6, <2>1
<1> QED BY <1>3, <1>6, <1>7, <1>8, <1>9

\* The transaction says what PolicyBeforeClients wants of it.
PolicyMade(c) ==
    IF op[c].policy.prefixed
    THEN /\ created[c] # Missing
         /\ \E i \in DOMAIN created[c].blocks :
               /\ IsKey(created[c].blocks, i) /\ policy[c] = created[c].blocks[i].key
               /\ \A j \in 1..(i - 1) : ~IsKey(created[c].blocks, j)
    ELSE policy[c] \in Expressions

\* A deployment without it has asked for no client and will not before it is made.
PolicyOf(c) ==
    Active(c) /\ op[c].name = "deploy" =>
        \/ PolicyMade(c)
        \/ asked[c] = {} /\ (outcome[c] = "none" => PolicyFirst(rest[c]))

PolicyInv ==
    /\ OrderInv
    /\ DOMAIN asked = Callers /\ DOMAIN policy = Callers /\ DOMAIN created = Callers
    /\ keyFile \in KeyFiles
    /\ \A c \in Callers : PolicyOf(c)

LEMMA PolicyInvInit == Init => PolicyInv
BY OrderInvInit DEF Init, PolicyInv, PolicyOf, Active

\* Who changes what a deployment says of its policy.
LEMMA PolicyStep ==
    ASSUME PolicyInv, [Next]_vars, NEW c \in Callers
    PROVE  /\ DOMAIN asked' = Callers /\ DOMAIN policy' = Callers /\ DOMAIN created' = Callers
           /\ keyFile' \in KeyFiles
           /\ \/ At(c, "get") /\ policy'[c] = policy[c] /\ created'[c] = created[c]
              \/ BuildPolicy(c)
              \/ \E o \in Menu[c] : Call(c, o)
              \/ /\ asked'[c] = asked[c] /\ policy'[c] = policy[c] /\ created'[c] = created[c]
                 /\ op'[c] = op[c] \/ op'[c] = None
<1>0. /\ DOMAIN asked = Callers /\ DOMAIN policy = Callers /\ DOMAIN created = Callers
      /\ DOMAIN op = Callers /\ keyFile \in KeyFiles
  BY DEF PolicyInv, OrderInv, CallerInv, LeaseInv
<1> DEFINE Kept == /\ DOMAIN asked' = Callers /\ DOMAIN policy' = Callers /\ DOMAIN created' = Callers
                   /\ keyFile' \in KeyFiles
<1> DEFINE Same == /\ asked'[c] = asked[c] /\ policy'[c] = policy[c] /\ created'[c] = created[c]
                   /\ op'[c] = op[c] \/ op'[c] = None
<1>1. ASSUME NEW d \in Callers, NEW o \in Menu[d], Call(d, o) PROVE Kept /\ (d # c => Same)
  BY <1>0, <1>1 DEF Call, fileVars
<1>2. ASSUME NEW d \in Callers, BuildPolicy(d) PROVE Kept /\ (d # c => Same)
  BY <1>0, <1>2 DEF BuildPolicy, fileVars, policyVars
<1>3. ASSUME NEW d \in Callers, Get(d) \/ GetReturns(d)
      PROVE  Kept /\ (d # c => Same) /\ At(d, "get") /\ policy' = policy /\ created' = created
  BY <1>0, <1>3 DEF Get, GetReturns, fileVars, policyVars, callVars
<1>4. ASSUME NEW d \in Callers,
             Validate(d) \/ StepSucceeds(d) \/ Subscribe(d) \/ Send(d)
                \/ OrdererAnswers(d) \/ ReceiveAborted(d) \/ Await(d) \/ StepFails(d)
                \/ InnerReturn(d) \/ CloseDeferred(d) \/ Return(d)
      PROVE  Kept /\ Same
  BY <1>0, <1>4 DEF Validate, StepSucceeds, Subscribe, Send, OrdererAnswers, ReceiveAborted, Await,
              StepFails, InnerReturn, CloseDeferred, Return, fileVars, policyVars
<1>5. CASE (\E t \in Services, b \in BOOLEAN : Make(t, b)) \/ Interrupt \/ KeyFileChanges
           \/ UNCHANGED vars
  BY <1>0, <1>5 DEF Make, Interrupt, KeyFileChanges, vars, fileVars, policyVars, callVars
<1> QED BY <1>1, <1>2, <1>3, <1>4, <1>5 DEF Next, Proceed

LEMMA PolicyInvStep == PolicyInv /\ [Next]_vars => PolicyInv'
<1> SUFFICES ASSUME PolicyInv, [Next]_vars PROVE PolicyInv'
  OBVIOUS
<1>1. OrderInv'
  BY OrderInvStep DEF PolicyInv
<1>2. /\ DOMAIN asked' = Callers /\ DOMAIN policy' = Callers /\ DOMAIN created' = Callers
      /\ keyFile' \in KeyFiles
  <2>1. CASE Callers # {}
    BY <2>1, PolicyStep
  <2>2. CASE Callers = {}
    BY <2>2 DEF PolicyInv, Next, Make, Interrupt, KeyFileChanges, vars, fileVars, policyVars
  <2> QED BY <2>1, <2>2
<1>3. ASSUME NEW c \in Callers PROVE PolicyOf(c)'
  <2>0. /\ PolicyOf(c) /\ OrderOf(c) /\ CallerInv /\ rest[c] \in Seq(Steps) /\ keyFile \in KeyFiles
        /\ DOMAIN policy = Callers /\ DOMAIN created = Callers
    BY DEF PolicyInv, OrderInv, OrderOf, Orderly
  <2>1. \/ WalksOn(c) \/ GetsClient(c) \/ ClosesInside(c) \/ ClosesAfter(c) \/ GivesUp(c)
        \/ Begins(c) \/ Returns(c) \/ Rests(c)
    BY <2>0, CallerStep
  <2>2. ASSUME policy'[c] = policy[c], created'[c] = created[c], op'[c] = op[c]
        PROVE  PolicyMade(c)' <=> PolicyMade(c)
    BY <2>2 DEF PolicyMade, IsKey
  <2>3. CASE At(c, "get") /\ policy'[c] = policy[c] /\ created'[c] = created[c]
    <3>1. /\ Active(c) /\ outcome[c] = "none" /\ rest[c] # <<>> /\ rest[c][1].do = "get"
      BY <2>3 DEF At
    <3>2. 1 \in DOMAIN rest[c] /\ ~\E j \in 1..(1 - 1) : TRUE
      BY <2>0, <3>1, TailIs
    <3>3. ~PolicyFirst(rest[c])
      BY <3>1, <3>2 DEF PolicyFirst
    <3>4. op'[c] = op[c]
      BY <2>1, <3>1 DEF WalksOn, GetsClient, ClosesInside, ClosesAfter, GivesUp, Begins, Returns,
                  Rests, Advances
    <3> QED BY <2>0, <2>2, <2>3, <3>1, <3>3, <3>4 DEF PolicyOf
  <2>4. CASE BuildPolicy(c)
    <3>1. /\ op' = op /\ asked' = asked /\ Active(c) /\ At(c, "createPolicy")
      BY <2>4 DEF BuildPolicy, At
    <3>2. CASE ~CanCreatePolicy(Set(op[c].policy), keyFile)
      <4>1. outcome'[c] # "none" /\ policy' = policy /\ created' = created
        BY <2>0, <2>4, <3>2 DEF BuildPolicy, Abort, policyVars, CallerInv, LeaseInv
      <4> QED BY <2>0, <2>2, <3>1, <4>1 DEF PolicyOf, Active
    <3>3. CASE CanCreatePolicy(Set(op[c].policy), keyFile)
      <4>1. /\ policy'[c] = CreatePolicy(Set(op[c].policy), keyFile) /\ created'[c] = keyFile
        BY <2>0, <2>4, <3>3 DEF BuildPolicy
      <4>2. CASE op[c].policy.prefixed
        <5>1. /\ keyFile # Missing /\ GetPubKeyFromPemData(keyFile.blocks) # NoKey
              /\ policy'[c] = GetPubKeyFromPemData(keyFile.blocks)
          BY <3>3, <4>1, <4>2 DEF CanCreatePolicy, CreatePolicy, Set
        <5>2. keyFile.blocks \in Seq(Blocks)
          BY <2>0, <5>1, KeyFilesAssumption
        <5>3. \E i \in DOMAIN keyFile.blocks :
                 /\ IsKey(keyFile.blocks, i) /\ policy'[c] = keyFile.blocks[i].key
                 /\ \A j \in 1..(i - 1) : ~IsKey(keyFile.blocks, j)
          BY <5>1, <5>2, FirstKey
        <5>4. PolicyMade(c)'
          BY <3>1, <4>1, <4>2, <5>1, <5>3 DEF PolicyMade, IsKey
        <5> QED BY <5>4 DEF PolicyOf
      <4>3. CASE ~op[c].policy.prefixed
        <5>1. policy'[c] \in Expressions
          BY <3>3, <4>1, <4>3 DEF CanCreatePolicy, CreatePolicy, Set
        <5> QED BY <3>1, <4>3, <5>1 DEF PolicyOf, PolicyMade
      <4> QED BY <4>2, <4>3
    <3> QED BY <3>2, <3>3
  <2>5. CASE \E o \in Menu[c] : Call(c, o)
    <3>1. PICK o \in Menu[c] : Call(c, o)
      BY <2>5
    <3>2. o \in Operations /\ op'[c] = o /\ rest'[c] = Program(o) /\ asked'[c] = {}
      BY <2>0, <3>1, MenuAssumption DEF Call, PolicyInv, OrderInv, CallerInv, LeaseInv
    <3> QED BY <3>2, Programs DEF PolicyOf
  <2>6. CASE /\ asked'[c] = asked[c] /\ policy'[c] = policy[c] /\ created'[c] = created[c]
             /\ op'[c] = op[c] \/ op'[c] = None
             /\ ~At(c, "get") /\ ~BuildPolicy(c)
    <3>1. SUFFICES ASSUME op'[c] = op[c], Active(c) PROVE PolicyOf(c)'
      BY <2>6 DEF PolicyOf, Active
    <3>2. CASE WalksOn(c) \/ ClosesInside(c)
      <4>1. /\ outcome[c] = "none" /\ rest[c] # <<>> /\ rest'[c] = Tail(rest[c])
            /\ rest[c][1].do # "createPolicy"
        BY <2>6, <3>2 DEF WalksOn, ClosesInside, Advances
      <4> QED BY <2>0, <2>2, <2>6, <3>1, <4>1, FirstInTail DEF PolicyOf, Active
    <3>3. CASE GetsClient(c)
      BY <2>6, <3>3 DEF GetsClient, Advances, At
    <3>4. CASE ClosesAfter(c) \/ GivesUp(c) \/ Rests(c)
      BY <2>0, <2>2, <2>6, <3>1, <3>4 DEF ClosesAfter, GivesUp, Rests, PolicyOf, Active
    <3>5. CASE Begins(c) \/ Returns(c)
      BY <3>1, <3>5 DEF Begins, Returns, Active
    <3> QED BY <2>1, <3>2, <3>3, <3>4, <3>5
  <2> QED BY <2>3, <2>4, <2>5, <2>6, PolicyStep
<1> QED BY <1>1, <1>2, <1>3 DEF PolicyInv

-----------------------------------------------------------------------------
(* Types                                                                   *)

\* An update of one caller's entry with a value of the type.
LEMMA Updated ==
    ASSUME NEW S, NEW T, NEW f \in [S -> T], NEW g, NEW d, NEW v,
           g = f \/ g = [f EXCEPT ![d] = v], \A x \in S : g[x] \in T
    PROVE  g \in [S -> T]
OBVIOUS

\* Whoever is named as the maker of a client is inside once.Do.
TypeInv ==
    /\ OrderInv
    /\ rest \in [Callers -> Seq(Steps)]
    /\ outcome \in [Callers -> {"none", "ok", "error"}]
    /\ calls \in [Callers -> 0..MaxCalls]
    /\ \A s \in Services : maker[s] \in Callers => provider[s] = "making"
    /\ keyFile \in KeyFiles
    /\ interrupted \in BOOLEAN
    /\ zeroWait \in BOOLEAN

LEMMA TypeInvInit == Init => TypeInv
<1> SUFFICES ASSUME Init PROVE TypeInv
  OBVIOUS
<1>1. OrderInv
  BY OrderInvInit
<1>2. 0 \in 0..MaxCalls /\ <<>> \in Seq(Steps)
  BY BoundsAssumption
<1> QED BY <1>1, <1>2, NobodyAssumption DEF Init, TypeInv

LEMMA TypeInvStep == TypeInv /\ [Next]_vars => TypeInv'
<1> SUFFICES ASSUME TypeInv, [Next]_vars PROVE TypeInv'
  OBVIOUS
<1>1. OrderInv'
  BY OrderInvStep DEF TypeInv
<1>2. \A c \in Callers : /\ rest'[c] \in Seq(Steps) /\ outcome'[c] \in {"none", "ok", "error"}
                         /\ calls'[c] \in 0..MaxCalls
  BY <1>1 DEF OrderInv, OrderOf, Orderly
<1>3. \/ rest' = rest
      \/ \E d, v : rest' = [rest EXCEPT ![d] = v]
  <2>1. ASSUME NEW c \in Callers, Advance(c) PROVE \E d, v : rest' = [rest EXCEPT ![d] = v]
    <3>1. rest' = [rest EXCEPT ![c] = Tail(rest[c])]
      BY <2>1 DEF Advance
    <3> QED BY <3>1
  <2>2. ASSUME NEW c \in Callers, NEW o \in Menu[c], Call(c, o)
        PROVE  \E d, v : rest' = [rest EXCEPT ![d] = v]
    BY <2>2 DEF Call
  <2>3. ASSUME NEW c \in Callers, Return(c) PROVE \E d, v : rest' = [rest EXCEPT ![d] = v]
    BY <2>3 DEF Return
  <2>4. ASSUME ~\E c \in Callers : Advance(c) \/ Return(c) \/ \E o \in Menu[c] : Call(c, o)
        PROVE  rest' = rest
    BY <2>4 DEF Next, Proceed, Validate, BuildPolicy, Get, GetReturns, StepSucceeds, Subscribe,
           Send, ReceiveAborted, Await, StepFails, InnerReturn, CloseDeferred,
           OrdererAnswers, Make, Interrupt, KeyFileChanges, vars, callVars, Abort
  <2> QED BY <2>1, <2>2, <2>3, <2>4
<1>4. \/ outcome' = outcome
      \/ \E d, v : outcome' = [outcome EXCEPT ![d] = v]
  <2>1. ASSUME NEW c \in Callers, Advance(c) PROVE \E d, v : outcome' = [outcome EXCEPT ![d] = v]
    <3>1. outcome' = [outcome EXCEPT ![c] = IF Len(rest[c]) = 1 THEN "ok" ELSE outcome[c]]
      BY <2>1 DEF Advance
    <3> QED BY <3>1
  <2>2. ASSUME NEW c \in Callers, Abort(c) PROVE \E d, v : outcome' = [outcome EXCEPT ![d] = v]
    BY <2>2 DEF Abort
  <2>3. ASSUME NEW c \in Callers, Return(c) PROVE \E d, v : outcome' = [outcome EXCEPT ![d] = v]
    BY <2>3 DEF Return
  <2>4. ASSUME ~\E c \in Callers : Advance(c) \/ Abort(c) \/ Return(c)
        PROVE  outcome' = outcome
    BY <2>4 DEF Next, Proceed, Call, Validate, BuildPolicy, Get, GetReturns, StepSucceeds, Subscribe,
           Send, ReceiveAborted, Await, StepFails, InnerReturn, CloseDeferred,
           OrdererAnswers, Make, Interrupt, KeyFileChanges, vars, callVars
  <2> QED BY <2>1, <2>2, <2>3, <2>4
<1>5. \/ calls' = calls
      \/ \E d, v : calls' = [calls EXCEPT ![d] = v]
  <2>1. ASSUME NEW c \in Callers, NEW o \in Menu[c], Call(c, o)
        PROVE  \E d, v : calls' = [calls EXCEPT ![d] = v]
    <3>1. calls' = [calls EXCEPT ![c] = calls[c] + 1]
      BY <2>1 DEF Call
    <3> QED BY <3>1
  <2>2. ASSUME ~\E c \in Callers : \E o \in Menu[c] : Call(c, o)
        PROVE  calls' = calls
    BY <2>2 DEF Next, Proceed, Validate, BuildPolicy, Get, GetReturns, StepSucceeds, Subscribe,
           Send, ReceiveAborted, Await, StepFails, InnerReturn, CloseDeferred, Return,
           OrdererAnswers, Make, Interrupt, KeyFileChanges, vars, callVars
  <2> QED BY <2>1, <2>2
<1>6. rest' \in [Callers -> Seq(Steps)]
  BY <1>2, <1>3, Updated DEF TypeInv
<1>7. outcome' \in [Callers -> {"none", "ok", "error"}]
  BY <1>2, <1>4, Updated DEF TypeInv
<1>8. calls' \in [Callers -> 0..MaxCalls]
  BY <1>2, <1>5, Updated DEF TypeInv
<1>9. \/ UNCHANGED <<provider, maker>>
      \/ \E c \in Callers : Get(c)
      \/ \E s \in Services, b \in BOOLEAN : Make(s, b)
  BY DEF Next, Proceed, Call, Validate, BuildPolicy, GetReturns, StepSucceeds, Subscribe,
         Send, ReceiveAborted, Await, StepFails, InnerReturn, CloseDeferred, Return,
         OrdererAnswers, Interrupt, KeyFileChanges, vars, serviceVars
<1>10. \A s \in Services : maker'[s] \in Callers => provider'[s] = "making"
  <2>0. DOMAIN maker = Services /\ DOMAIN provider = Services
    BY DEF TypeInv, OrderInv, CallerInv, LeaseInv
  <2>1. ASSUME NEW c \in Callers, Get(c), NEW s \in Services, maker'[s] \in Callers
        PROVE  provider'[s] = "making"
    BY <2>0, <2>1 DEF Get, TypeInv
  <2>2. ASSUME NEW t \in Services, NEW b \in BOOLEAN, Make(t, b),
               NEW s \in Services, maker'[s] \in Callers
        PROVE  provider'[s] = "making"
    BY <2>0, <2>2, NobodyAssumption DEF Make, TypeInv
  <2>3. CASE UNCHANGED <<provider, maker>>
    BY <2>3 DEF TypeInv
  <2> QED BY <1>9, <2>1, <2>2, <2>3
<1>11. keyFile' \in KeyFiles /\ interrupted' \in BOOLEAN /\ zeroWait' \in BOOLEAN
  <2>1. CASE UNCHANGED <<fileVars, interrupted, zeroWait>>
    BY <2>1 DEF TypeInv, fileVars
  <2>2. CASE Interrupt \/ KeyFileChanges
    BY <2>2 DEF TypeInv, Interrupt, KeyFileChanges, fileVars
  <2>3. ~(Interrupt \/ KeyFileChanges) => UNCHANGED <<fileVars, interrupted, zeroWait>>
    BY DEF Next, Proceed, Call, Validate, BuildPolicy, Get, GetReturns, StepSucceeds,
           Subscribe, Send, ReceiveAborted, Await, StepFails, InnerReturn, CloseDeferred, Return,
           OrdererAnswers, Make, vars
  <2> QED BY <2>1, <2>2, <2>3
<1> QED BY <1>1, <1>6, <1>7, <1>8, <1>10, <1>11 DEF TypeInv

-----------------------------------------------------------------------------
(* The clients as ClientLease has them                                     *)

\* The clients that c has to give back: those it has deferred, and the one it is about
\* to be handed.
Mine(c) == {s \in Clients : Active(c) /\ Owns(c, s)}
Wants(c) == {s \in Clients : At(c, "get") /\ Service(c) = s /\ client[s] # "absent"}

MineKnown ==
    \A c \in Callers :
        /\ Mine(c) = ToSet(held[c]) \cup Wants(c)
        /\ Wants(c) \cap ToSet(held[c]) = {}
        /\ \A s, t \in Wants(c) : s = t
        /\ ToSet(held[c]) \subseteq Clients

LEMMA MineIs == OrderInv => MineKnown
<1> SUFFICES ASSUME OrderInv, NEW c \in Callers
             PROVE  /\ Mine(c) = ToSet(held[c]) \cup Wants(c)
                    /\ Wants(c) \cap ToSet(held[c]) = {}
                    /\ \A s, t \in Wants(c) : s = t
                    /\ ToSet(held[c]) \subseteq Clients
  BY DEF MineKnown
<1>1. /\ ~Active(c) => held[c] = <<>>
      /\ held[c] \in Seq(Clients) /\ OrderOf(c)
  BY DEF OrderInv, CallerInv, LeaseInv
<1>2. ToSet(held[c]) \subseteq Clients
  BY <1>1 DEF ToSet
<1>3. ~Active(c) => ToSet(held[c]) = {}
  BY <1>1 DEF ToSet
<1>4. Mine(c) = ToSet(held[c]) \cup Wants(c)
  BY <1>2, <1>3 DEF Mine, Wants, Owns, At
<1>5. ASSUME NEW s \in Wants(c) PROVE s \notin ToSet(held[c])
  <2>1. /\ rest[c] \in Seq(Steps) /\ rest[c] # <<>> /\ outcome[c] = "none"
        /\ rest[c][1].do = "get" /\ rest[c][1].of = s
    BY <1>1, <1>5 DEF Wants, At, Service, OrderOf, Orderly
  <2>2. 1 \in DOMAIN rest[c]
    BY <2>1, TailIs
  <2> QED BY <1>1, <2>1, <2>2 DEF OrderOf
<1> QED BY <1>2, <1>4, <1>5 DEF Wants

\* What a step of c itself does to them: it may give one back, or join those who wait
\* for, or use, one that is there.
LEMMA MineStep ==
    ASSUME OrderInv, OrderInv', [Next]_vars, NEW c \in Callers,
           client' = client \/ CloseLast(c)
    PROVE  \/ \E s \in Clients :
                 /\ s \in Mine(c) /\ Mine(c)' = Mine(c) \ {s}
                 /\ client' = [client EXCEPT ![s] = "closed"]
           \/ /\ client' = client
              /\ \/ Mine(c)' = Mine(c)
                 \/ \E s \in Clients : /\ client[s] # "absent" /\ s \notin Mine(c)
                                       /\ Mine(c)' = Mine(c) \cup {s}
<1>1. /\ CallerInv /\ OrderOf(c) /\ held[c] \in Seq(Clients) /\ (~Active(c) => held[c] = <<>>)
      /\ \A s \in Services : client[s] # "absent" <=> provider[s] = "ready" /\ s \in Clients
  BY DEF OrderInv, CallerInv, LeaseInv
<1>2. PICK H, W, K, V : H = ToSet(held[c]) /\ W = Wants(c) /\ K = ToSet(held'[c]) /\ V = Wants(c)'
  OBVIOUS
<1>3. /\ Mine(c) = H \cup W /\ W \cap H = {} /\ H \subseteq Clients
  BY <1>2, MineIs DEF MineKnown
<1>4. /\ Mine(c)' = K \cup V /\ V \cap K = {} /\ \A s, t \in V : s = t
  <2>1. MineKnown'
    BY MineIs, PTL
  <2> QED BY <1>2, <2>1 DEF MineKnown
<1>5. ASSUME client' = client
      PROVE  \A s \in V : s \in Clients /\ client[s] # "absent"
  BY <1>2, <1>5 DEF Wants
\* A step that closes nothing leaves what is held, and what was wanted is held now.
<1>6. ASSUME K = H \cup W, client' = client
      PROVE  \/ Mine(c)' = Mine(c)
             \/ \E s \in Clients : /\ client[s] # "absent" /\ s \notin Mine(c)
                                   /\ Mine(c)' = Mine(c) \cup {s}
  <2>1. CASE V = {}
    BY <1>3, <1>4, <1>6, <2>1
  <2>2. CASE V # {}
    <3>1. PICK s \in V : V = {s}
      BY <1>4, <2>2
    <3>2. s \in Clients /\ client[s] # "absent"
      BY <1>5, <1>6
    <3>3. s \notin Mine(c) /\ Mine(c)' = Mine(c) \cup {s}
      BY <1>3, <1>4, <1>6, <3>1
    <3> QED BY <3>2, <3>3
  <2> QED BY <2>1, <2>2
\* Whoever closes, closes what it got last.
<1>7. ASSUME CloseLast(c)
      PROVE  \E s \in Clients : s \in H /\ K = H \ {s} /\ client' = [client EXCEPT ![s] = "closed"]
  <2>1. PICK s : s = Last(held[c])
    OBVIOUS
  <2>2. /\ s \in Clients /\ s \in ToSet(held[c])
        /\ ToSet(held'[c]) = ToSet(held[c]) \ {s}
    BY <1>7, <2>1, ClosingKeepsOrder
  <2>3. client' = [client EXCEPT ![s] = "closed"]
    BY <1>7, <2>1 DEF CloseLast
  <2> QED BY <1>2, <2>2, <2>3
<1>8. CASE ClosesInside(c) \/ ClosesAfter(c)
  <2>1. PICK s \in Clients : s \in H /\ K = H \ {s} /\ client' = [client EXCEPT ![s] = "closed"]
    BY <1>7, <1>8 DEF ClosesInside, ClosesAfter
  <2>2. W = {}
    BY <1>2, <1>8 DEF Wants, At, ClosesInside, ClosesAfter, Advances
  <2>3. V = {}
    <3>1. CASE ClosesAfter(c)
      BY <1>2, <3>1 DEF ClosesAfter, Wants, At
    <3>2. CASE ClosesInside(c)
      <4>1. /\ rest[c] \in Seq(Steps) /\ rest[c] # <<>> /\ rest'[c] = Tail(rest[c])
            /\ Orderly(rest[c]) /\ rest[c][1].do = "close"
        BY <1>1, <3>2 DEF ClosesInside, Advances, OrderOf, Orderly
      <4>2. ASSUME rest'[c] # <<>>, rest'[c][1].do = "get" PROVE rest'[c][1].of \notin Clients
        <5>1. PICK r : r = Tail(rest[c])
          OBVIOUS
        <5>2. Len(r) = Len(rest[c]) - 1 /\ Len(rest[c]) \in Nat /\ r \in Seq(Steps) /\ r # <<>>
          BY <4>1, <4>2, <5>1, TailIs
        <5>3. Len(r) # 0
          BY <5>2, TailIs
        <5>4. /\ 1 \in DOMAIN rest[c] /\ 2 \in DOMAIN rest[c] /\ 2 = 1 + 1
              /\ 1 \in 1..(Len(rest[c]) - 1)
          BY <4>1, <5>2, <5>3
        <5>5. r[1] = rest[c][2]
          BY <4>1, <5>1, <5>4, TailIs
        <5> QED BY <4>1, <4>2, <5>1, <5>4, <5>5 DEF Orderly
      <4> QED BY <1>2, <4>2 DEF Wants, At, Service
    <3> QED BY <1>8, <3>1, <3>2
  <2> QED BY <1>3, <1>4, <2>1, <2>2, <2>3
<1>9. ASSUME ~ClosesInside(c), ~ClosesAfter(c), ~Rests(c) PROVE K = H \cup W
  <2>1. CASE WalksOn(c)
    <3>1. held'[c] = held[c] /\ W = {}
      BY <1>2, <2>1 DEF WalksOn, Wants, At
    <3> QED BY <1>2, <3>1
  <2>2. CASE GetsClient(c)
    <3>1. PICK t : t = Service(c)
      OBVIOUS
    <3>2. /\ At(c, "get") /\ provider[t] = "ready"
          /\ held'[c] = IF t \in Clients THEN Append(held[c], t) ELSE held[c]
      BY <2>2, <3>1 DEF GetsClient, Advances, At
    <3>3. CASE t \in Clients
      <4>1. ToSet(Append(held[c], t)) = ToSet(held[c]) \cup {t}
        BY <1>1, <3>3, AppendHolds
      <4>2. W = {t}
        BY <1>1, <1>2, <3>1, <3>2, <3>3 DEF Wants, Clients
      <4> QED BY <1>2, <3>2, <3>3, <4>1, <4>2
    <3>4. CASE t \notin Clients
      BY <1>2, <3>1, <3>2, <3>4 DEF Wants
    <3> QED BY <3>3, <3>4
  <2>3. CASE GivesUp(c)
    <3>1. W = {}
      BY <1>1, <1>2, <2>3 DEF GivesUp, Wants, Clients
    <3>2. held'[c] = held[c]
      BY <2>3 DEF GivesUp
    <3> QED BY <1>2, <3>1, <3>2
  <2>4. CASE Begins(c) \/ Returns(c)
    <3>1. W = {} /\ held'[c] = held[c]
      BY <1>2, <2>4 DEF Begins, Returns, Wants, At
    <3> QED BY <1>2, <3>1
  <2> QED BY <1>1, <1>9, <2>1, <2>2, <2>3, <2>4, CallerStep
<1>10. CASE Rests(c)
  <2>1. H = K
    BY <1>2, <1>10 DEF Rests
  <2>2. client' = client
    BY <1>7, <2>1
  <2>3. Mine(c)' = Mine(c)
    BY <1>10, <2>2 DEF Rests, Mine, Owns, Active, At, Service
  <2> QED BY <2>2, <2>3
<1>11. CASE ~ClosesInside(c) /\ ~ClosesAfter(c) /\ ~Rests(c)
  <2>1. K = H \cup W
    BY <1>9, <1>11
  <2>2. client' = client
    BY <1>7, <2>1
  <2> QED BY <1>6, <2>1, <2>2
<1> QED BY <1>8, <1>10, <1>11

\* A step is one caller's, or somebody leaves once.Do, or it is none of the clients'.
LEMMA OneAtATime ==
    ASSUME CallerInv, [Next]_vars
    PROVE  \/ UNCHANGED <<callVars, client>>
           \/ \E s \in Services, succeeds \in BOOLEAN : Make(s, succeeds)
           \/ \E d \in Callers :
                 /\ client' = client \/ CloseLast(d)
                 /\ \A c \in Callers : c # d => Rests(c)
<1>0. /\ DOMAIN op = Callers /\ DOMAIN rest = Callers /\ DOMAIN outcome = Callers
      /\ DOMAIN calls = Callers /\ DOMAIN held = Callers
  BY DEF CallerInv, LeaseInv
<1>1. ASSUME NEW d \in Callers, Advance(d) \/ Abort(d), UNCHANGED <<op, calls>>,
             \A c \in Callers : c # d => held'[c] = held[c]
      PROVE  \A c \in Callers : c # d => Rests(c)
  BY <1>0, <1>1 DEF Advance, Abort, Rests
<1>2. ASSUME NEW d \in Callers, NEW o \in Menu[d], Call(d, o)
      PROVE  client' = client /\ \A c \in Callers : c # d => Rests(c)
  BY <1>0, <1>2 DEF Call, Rests, serviceVars
<1>3. ASSUME NEW d \in Callers,
             Validate(d) \/ StepSucceeds(d) \/ Subscribe(d) \/ Send(d) \/ BuildPolicy(d)
                \/ OrdererAnswers(d) \/ ReceiveAborted(d) \/ Await(d) \/ StepFails(d)
      PROVE  client' = client /\ \A c \in Callers : c # d => Rests(c)
  <2>1. client' = client /\ UNCHANGED <<op, calls, held>> /\ (Advance(d) \/ Abort(d))
    BY <1>3 DEF Validate, StepSucceeds, Subscribe, Send, BuildPolicy, OrdererAnswers,
                ReceiveAborted, Await, StepFails, serviceVars
  <2> QED BY <1>1, <2>1
<1>4. ASSUME NEW d \in Callers, GetReturns(d)
      PROVE  client' = client /\ \A c \in Callers : c # d => Rests(c)
  <2>1. client' = client /\ UNCHANGED <<op, calls>> /\ (Advance(d) \/ Abort(d))
    BY <1>4 DEF GetReturns, serviceVars
  <2>2. \A c \in Callers : c # d => held'[c] = held[c]
    BY <1>0, <1>4 DEF GetReturns
  <2> QED BY <1>1, <2>1, <2>2
<1>5. ASSUME NEW d \in Callers, InnerReturn(d)
      PROVE  CloseLast(d) /\ \A c \in Callers : c # d => Rests(c)
  <2>1. CloseLast(d) /\ UNCHANGED <<op, calls>> /\ Advance(d)
    BY <1>5 DEF InnerReturn
  <2>2. \A c \in Callers : c # d => held'[c] = held[c]
    BY <1>0, <2>1 DEF CloseLast
  <2> QED BY <1>1, <2>1, <2>2
<1>6. ASSUME NEW d \in Callers, CloseDeferred(d)
      PROVE  CloseLast(d) /\ \A c \in Callers : c # d => Rests(c)
  BY <1>0, <1>6 DEF CloseDeferred, CloseLast, Rests
<1>7. ASSUME NEW d \in Callers, Return(d)
      PROVE  client' = client /\ \A c \in Callers : c # d => Rests(c)
  BY <1>0, <1>7 DEF Return, Rests, serviceVars
<1>8. ASSUME (\E d \in Callers : Get(d)) \/ Interrupt \/ KeyFileChanges \/ UNCHANGED vars
      PROVE  UNCHANGED <<callVars, client>>
  BY <1>8 DEF Get, Interrupt, KeyFileChanges, vars, serviceVars
<1> QED BY <1>2, <1>3, <1>4, <1>5, <1>6, <1>7, <1>8 DEF Next, Proceed

LeaseUsers == [s \in Clients |-> {c \in Callers : s \in Mine(c)}]

\* Every step maps to a step of ClientLease or to none.
LEMMA LeaseStep ==
    ASSUME OrderInv, OrderInv', [Next]_vars
    PROVE  [Lease!LeaseNext]_(Lease!leaseVars)
<1>1. PICK A, B, U, W : /\ A = [s \in Clients |-> client[s]] /\ B = [s \in Clients |-> client'[s]]
                        /\ U = LeaseUsers /\ W = LeaseUsers'
  OBVIOUS
<1>2. /\ U = [s \in Clients |-> {c \in Callers : s \in Mine(c)}]
      /\ W = [s \in Clients |-> {c \in Callers : s \in Mine(c)'}]
  BY <1>1 DEF LeaseUsers
<1>3. U = [s \in Clients |-> {c \in Callers : Active(c) /\ Owns(c, s)}]
  BY <1>1 DEF LeaseUsers, Mine
<1>4. W = [s \in Clients |-> {c \in Callers : Active(c) /\ Owns(c, s)}]'
  BY <1>1 DEF LeaseUsers, Mine
<1>5. CallerInv /\ LeaseInv /\ client \in [Services -> {"absent", "open", "closed"}]
  BY DEF OrderInv, CallerInv, LeaseInv
\* Callers that rest keep what is theirs as long as no client is made.
<1>6. ASSUME NEW c \in Callers, Rests(c),
             \A s \in Clients : client'[s] # "absent" <=> client[s] # "absent"
      PROVE  Mine(c)' = Mine(c)
  BY <1>6 DEF Rests, Mine, Owns, Active, At, Service
<1>7. CASE UNCHANGED <<callVars, client>>
  <2>1. \A c \in Callers : Mine(c)' = Mine(c)
    BY <1>6, <1>7 DEF callVars, Rests
  <2>2. A = B /\ U = W
    BY <1>1, <1>2, <1>7, <2>1
  <2> QED BY <1>1, <1>3, <1>4, <2>2 DEF Lease!leaseVars
<1>8. ASSUME NEW d \in Callers, client' = client \/ CloseLast(d),
             \A c \in Callers : c # d => Rests(c)
      PROVE  [Lease!LeaseNext]_(Lease!leaseVars)
  <2>1. \A c \in Callers : c # d => Mine(c)' = Mine(c)
    <3>1. \A s \in Clients : client'[s] # "absent" <=> client[s] # "absent"
      <4>1. CASE client' = client
        BY <4>1
      <4>2. CASE CloseLast(d)
        <5>1. PICK s : s = Last(held[d])
          OBVIOUS
        <5>2. /\ s \in ToSet(held[d]) /\ s \in Clients
              /\ client' = [client EXCEPT ![s] = "closed"]
          BY <4>2, <5>1, ClosingKeepsOrder DEF CloseLast
        <5>3. client[s] # "absent"
          BY <1>5, <5>2 DEF LeaseInv
        <5> QED BY <1>5, <5>2, <5>3 DEF Clients
      <4> QED BY <1>8, <4>1, <4>2
    <3> QED BY <1>6, <1>8, <3>1
  <2>2. CASE client' = client /\ Mine(d)' = Mine(d)
    <3>1. A = B /\ U = W
      BY <1>1, <1>2, <2>1, <2>2
    <3> QED BY <1>1, <1>3, <1>4, <3>1 DEF Lease!leaseVars
  <2>3. ASSUME client' = client, NEW s \in Clients, client[s] # "absent", s \notin Mine(d),
               Mine(d)' = Mine(d) \cup {s}
        PROVE  Lease!LeaseNext
    <3>1. A = B /\ A[s] # "absent" /\ d \notin U[s] /\ W = [U EXCEPT ![s] = @ \cup {d}]
      <4>1. A = B /\ A[s] # "absent" /\ d \notin U[s]
        BY <1>1, <1>2, <2>3
      <4>2. \A t \in Clients : W[t] = IF t = s THEN U[t] \cup {d} ELSE U[t]
        BY <1>2, <2>1, <2>3
      <4>3. W = [U EXCEPT ![s] = U[s] \cup {d}]
        BY <1>2, <4>2
      <4> QED BY <4>1, <4>3
    <3>2. Lease!Join(d, s)
      BY <1>1, <1>3, <1>4, <3>1 DEF Lease!Join
    <3> QED BY <3>2 DEF Lease!LeaseNext
  <2>4. ASSUME NEW s \in Clients, s \in Mine(d), Mine(d)' = Mine(d) \ {s},
               client' = [client EXCEPT ![s] = "closed"]
        PROVE  Lease!LeaseNext
    <3>1. B = [A EXCEPT ![s] = "closed"] /\ d \in U[s] /\ W = [U EXCEPT ![s] = @ \ {d}]
      <4>1. B = [A EXCEPT ![s] = "closed"] /\ d \in U[s]
        BY <1>1, <1>2, <1>5, <2>4 DEF Clients
      <4>2. \A t \in Clients : W[t] = IF t = s THEN U[t] \ {d} ELSE U[t]
        BY <1>2, <2>1, <2>4
      <4>3. W = [U EXCEPT ![s] = U[s] \ {d}]
        BY <1>2, <4>2
      <4> QED BY <4>1, <4>3
    <3>2. Lease!GiveBack(d, s)
      BY <1>1, <1>3, <1>4, <3>1 DEF Lease!GiveBack
    <3> QED BY <3>2 DEF Lease!LeaseNext
  <2> QED BY <1>8, <2>2, <2>3, <2>4, MineStep
<1>9. ASSUME NEW s \in Services, NEW succeeds \in BOOLEAN, Make(s, succeeds)
      PROVE  [Lease!LeaseNext]_(Lease!leaseVars)
  <2>1. /\ UNCHANGED callVars /\ provider[s] = "making"
        /\ client' = [client EXCEPT ![s] = IF succeeds /\ s \in Clients THEN "open" ELSE @]
    BY <1>9 DEF Make
  <2>2. CASE ~(succeeds /\ s \in Clients)
    <3>1. client' = client
      BY <1>5, <2>1, <2>2
    <3> QED BY <1>7, <2>1, <3>1
  <2>3. CASE succeeds /\ s \in Clients
    <3>1. /\ client[s] = "absent" /\ maker[s] \in Callers
          /\ At(maker[s], "get") /\ Service(maker[s]) = s
      BY <1>5, <2>1 DEF LeaseInv
    <3>2. client'[s] = "open" /\ \A t \in Clients : t # s => client'[t] = client[t]
      BY <1>5, <2>1, <2>3 DEF Clients
    <3>3. B = [A EXCEPT ![s] = "open"] /\ A[s] = "absent"
      BY <1>1, <2>3, <3>1, <3>2
    <3>4. \A c \in Callers, t \in Clients : t # s => (t \in Mine(c)' <=> t \in Mine(c))
      BY <2>1, <3>2 DEF Mine, Owns, At, Service, Active, callVars
    <3>5. maker[s] \in W[s]
      BY <1>2, <2>1, <2>3, <3>1, <3>2 DEF Mine, Owns, At, Service, Active, callVars
    <3>6. W = [U EXCEPT ![s] = W[s]] /\ W[s] \in SUBSET Callers /\ W[s] # {}
      BY <1>2, <2>3, <3>4, <3>5
    <3>7. Lease!Open(s, W[s])
      BY <1>1, <1>3, <1>4, <3>3, <3>6 DEF Lease!Open
    <3> QED BY <2>3, <3>6, <3>7 DEF Lease!LeaseNext
  <2> QED BY <2>2, <2>3
<1> QED BY <1>5, <1>7, <1>8, <1>9, OneAtATime

-----------------------------------------------------------------------------
(* Theorems                                                                *)

\* Where clients come from and where they are.
THEOREM LeaseInvariant == Spec => []LeaseInv
BY LeaseInvInit, LeaseInvStep, PTL DEF Spec

\* No operation leaves a connection behind: whatever is open belongs to a call that is
\* still running and closes it on every way out, whoever made the client.
THEOREM NoClientIsLeft == Spec => []NoClientLeft
<1>1. LeaseInv => NoClientLeft
  BY DEF LeaseInv
<1> QED
  BY LeaseInvariant, <1>1, PTL

\* Every caller keeps to the order of its operation.
THEOREM OrderInvariant == Spec => []OrderInv
BY OrderInvInit, OrderInvStep, PTL DEF Spec

\* The type invariant: an operation that works has steps left, and whoever is inside
\* once.Do waits for that client.
THEOREM TypeCorrect == Spec => []TypeOK
<1>1. TypeInv => TypeOK
  <2>1. SUFFICES ASSUME TypeInv PROVE TypeOK
    OBVIOUS
  <2>2. \A c \in Callers : OrderOf(c) /\ (~Active(c) => held[c] = <<>>)
    BY <2>1 DEF TypeInv, OrderInv, CallerInv, LeaseInv
  <2>3. LeaseInv
    BY <2>1 DEF TypeInv, OrderInv, CallerInv
  <2>4. \A s \in Services :
           /\ provider[s] = "making" <=> maker[s] \in Callers
           /\ provider[s] = "making" => At(maker[s], "get") /\ Service(maker[s]) = s
           /\ client[s] # "absent" <=> provider[s] = "ready" /\ s \in Clients
    BY <2>1, <2>3 DEF TypeInv, LeaseInv
  <2>5. /\ held \in [Callers -> Seq(Clients)]
        /\ provider \in [Services -> {"new", "making", "ready", "failed"}]
        /\ client \in [Services -> {"absent", "open", "closed"}]
    BY <2>3 DEF LeaseInv
  <2> QED BY <2>1, <2>2, <2>4, <2>5 DEF TypeOK, TypeInv, OrderOf
<1> QED BY TypeInvInit, TypeInvStep, <1>1, PTL DEF Spec

\* A call never uses a client that it closed itself: a connection it finds closed was
\* closed by another call that shares the provider.
THEOREM ClosedOnlyByAnother == Spec => []ClosedByAnother
<1>1. ClosedInv => ClosedByAnother
  <2>1. SUFFICES ASSUME ClosedInv, NEW c \in Callers,
                        NEW what \in {"call", "subscribe", "send", "receive", "await"}, At(c, what)
                 PROVE  closedBy[Service(c)] # ThisCall(c)
    BY DEF ClosedByAnother
  <2>2. /\ rest[c] \in Seq(Steps) /\ rest[c] # <<>> /\ outcome[c] = "none"
        /\ Orderly(rest[c]) /\ ClosedOf(c) /\ rest[c][1].do = what
    BY <2>1 DEF ClosedInv, OrderInv, OrderOf, Orderly, At
  <2>3. 1 \in DOMAIN rest[c]
    BY <2>2, TailIs
  <2>4. Service(c) \in Services /\ rest[c][1].of = Service(c)
    BY <2>1, <2>2, <2>3 DEF Orderly, Service, Clients
  <2> QED BY <2>2, <2>3, <2>4 DEF ClosedOf
<1> QED BY ClosedInvInit, ClosedInvStep, <1>1, PTL DEF Spec

\* With a waitingTimeout of zero an operation that is to wait sends nothing at all.
THEOREM NothingIsSentWithoutWaiting == Spec => []ZeroWaitSendsNothing
<1>1. ZeroInv => ZeroWaitSendsNothing
  BY DEF ZeroInv, ZeroWaitSendsNothing
<1> QED BY ZeroInvInit, ZeroInvStep, <1>1, PTL DEF Spec

\* A deployment that asks for a client has its policy: an expression that parses, or
\* the first ECDSA key of the file as createPolicy read it.
THEOREM PolicyIsMadeFirst == Spec => []PolicyBeforeClients
<1>1. PolicyInv => PolicyBeforeClients
  BY DEF PolicyInv, PolicyOf, PolicyMade, PolicyBeforeClients, IsKey
<1> QED BY PolicyInvInit, PolicyInvStep, <1>1, PTL DEF Spec

\* The clients under their operations implement ClientLease: each is made once, for
\* everybody who waits for it, is closed by the first who returns and never opens again.
THEOREM ClientsAreLeased == Spec => ImplementsLease
<1>1. Init => Lease!LeaseInit
  BY DEF Init, Lease!LeaseInit, Active, Clients
<1> QED BY OrderInvInit, OrderInvStep, LeaseStep, <1>1, PTL
        DEF Spec, ImplementsLease, Lease!LeaseSpec

=============================================================================
