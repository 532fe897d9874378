---------------------- MODULE TransactionMergingProofs ----------------------
(***************************************************************************)
(* What the runs check of Merge and Endorse over bounded inputs, for every *)
(* set of signers and of contents and every length of the inputs.          *)
(***************************************************************************)
EXTENDS TransactionMerging, TransactionProofs

Made == {Endorsement(s, TxID, ns) : s \in Signers, ns \in Contents}

Transactions == [namespaces : Seq(Contents), endorsements : Seq(Seq(Made))]

LEMMA MspsAreNumbers == \A e \in Made : MspOf(e) \in Int
BY SignersAssumption DEF Made, Endorsement, MspOf

LEMMA EndorsedAre ==
    ASSUME NEW ns \in Contents, NEW max \in Nat, NEW es \in Endorsed(ns, max)
    PROVE  es \in Seq(Made) /\ Len(es) <= max
<1>1. PICK len \in 0..max : es \in [1..len -> {Endorsement(s, TxID, ns) : s \in Signers}]
  BY DEF Endorsed
<1>2. {Endorsement(s, TxID, ns) : s \in Signers} \subseteq Made
  BY DEF Made
<1>3. es \in [1..len -> Made] /\ len \in Nat
  BY <1>1, <1>2
<1>4. es \in Seq(Made) /\ Len(es) = len
  BY <1>3
<1> QED BY <1>1, <1>4

\* What is used of an input.
IsInput(tx) ==
    /\ tx \in Transactions
    /\ WellFormed(tx)
    /\ \A n \in DOMAIN tx.namespaces :
          Len(EndorsementsOf(tx, n)) <= MaxOfOne + MaxOfTwo

LEMMA InputsAre == \A tx \in Inputs : IsInput(tx)
<1>1. ASSUME NEW tx \in OneNamespace PROVE IsInput(tx)
  <2>0. PICK ns \in Contents : \E sets \in {<<>>} \cup {<<es>> : es \in Endorsed(ns, MaxOfOne)} :
            tx = [namespaces |-> <<ns>>, endorsements |-> sets]
    BY <1>1 DEF OneNamespace
  <2>1. PICK sets \in {<<>>} \cup {<<es>> : es \in Endorsed(ns, MaxOfOne)} :
            tx = [namespaces |-> <<ns>>, endorsements |-> sets]
    BY <2>0
  <2>2. tx.namespaces = <<ns>> /\ <<ns>> \in Seq(Contents) /\ Len(<<ns>>) = 1
    BY <2>1
  <2>3. CASE sets = <<>>
    <3>1. tx.endorsements = <<>> /\ <<>> \in Seq(Seq(Made)) /\ Len(<<>>) = 0
      BY <2>1, <2>3
    <3>2. tx \in Transactions
      BY <2>1, <2>2, <3>1 DEF Transactions
    <3>3. \A n : EndorsementsOf(tx, n) = <<>>
      BY <3>1 DEF EndorsementsOf
    <3> QED BY <2>2, <3>1, <3>2, <3>3, BoundsAssumption DEF IsInput, WellFormed
  <2>4. CASE sets # <<>>
    <3>1. PICK es \in Endorsed(ns, MaxOfOne) : sets = <<es>>
      BY <2>1, <2>4
    <3>2. es \in Seq(Made) /\ Len(es) <= MaxOfOne
      BY <3>1, EndorsedAre, BoundsAssumption
    <3>3. tx.endorsements = <<es>> /\ <<es>> \in Seq(Seq(Made)) /\ Len(<<es>>) = 1
      BY <2>1, <3>1, <3>2
    <3>4. tx \in Transactions
      BY <2>1, <2>2, <3>3 DEF Transactions
    <3>5. \A n \in {1} : EndorsementsOf(tx, n) = es
      BY <3>3 DEF EndorsementsOf
    <3>6. DOMAIN tx.namespaces = {1}
      BY <2>2
    <3>7. Len(es) <= MaxOfOne + MaxOfTwo
      BY <3>2, BoundsAssumption
    <3> QED BY <2>2, <3>3, <3>4, <3>5, <3>6, <3>7 DEF IsInput, WellFormed
  <2> QED BY <2>3, <2>4
<1>2. ASSUME NEW tx \in TwoNamespaces PROVE IsInput(tx)
  <2>0. PICK ns \in Contents \X Contents :
            \E sets \in {<<>>} \cup (Endorsed(ns[1], MaxOfTwo) \X Endorsed(ns[2], MaxOfTwo)) :
                tx = [namespaces |-> ns, endorsements |-> sets]
    BY <1>2 DEF TwoNamespaces
  <2>1. PICK sets \in {<<>>} \cup (Endorsed(ns[1], MaxOfTwo) \X Endorsed(ns[2], MaxOfTwo)) :
            tx = [namespaces |-> ns, endorsements |-> sets]
    BY <2>0
  <2>2. /\ tx.namespaces = ns /\ ns \in Seq(Contents) /\ Len(ns) = 2
        /\ ns[1] \in Contents /\ ns[2] \in Contents
    <3>1. PICK c \in Contents, d \in Contents : ns = <<c, d>>
      OBVIOUS
    <3>2. <<c, d>> \in Seq(Contents) /\ Len(<<c, d>>) = 2
      OBVIOUS
    <3> QED BY <2>1, <3>1, <3>2
  <2>3. CASE sets = <<>>
    <3>1. tx.endorsements = <<>> /\ <<>> \in Seq(Seq(Made)) /\ Len(<<>>) = 0
      BY <2>1, <2>3
    <3>2. tx \in Transactions
      BY <2>1, <2>2, <3>1 DEF Transactions
    <3>3. \A n : EndorsementsOf(tx, n) = <<>>
      BY <3>1 DEF EndorsementsOf
    <3> QED BY <2>2, <3>1, <3>2, <3>3, BoundsAssumption DEF IsInput, WellFormed
  <2>4. CASE sets # <<>>
    <3>1. PICK a \in Endorsed(ns[1], MaxOfTwo), b \in Endorsed(ns[2], MaxOfTwo) : sets = <<a, b>>
      BY <2>1, <2>4
    <3>2. /\ a \in Seq(Made) /\ Len(a) <= MaxOfTwo
          /\ b \in Seq(Made) /\ Len(b) <= MaxOfTwo
      BY <2>2, <3>1, EndorsedAre, BoundsAssumption
    <3>3. tx.endorsements = <<a, b>> /\ <<a, b>> \in Seq(Seq(Made)) /\ Len(<<a, b>>) = 2
      BY <2>1, <3>1, <3>2
    <3>4. tx \in Transactions
      BY <2>1, <2>2, <3>3 DEF Transactions
    <3>5. EndorsementsOf(tx, 1) = a /\ EndorsementsOf(tx, 2) = b
      BY <3>3 DEF EndorsementsOf
    <3>6. DOMAIN tx.namespaces = {1, 2}
      BY <2>2
    <3>7. Len(a) <= MaxOfOne + MaxOfTwo /\ Len(b) <= MaxOfOne + MaxOfTwo
      BY <3>2, BoundsAssumption
    <3> QED BY <2>2, <3>3, <3>4, <3>5, <3>6, <3>7 DEF IsInput, WellFormed
  <2> QED BY <2>3, <2>4
<1> QED BY <1>1, <1>2 DEF Inputs

-----------------------------------------------------------------------------
(* Merging transactions of the same content                                *)

LEMMA MspsAre == ASSUME NEW es, NEW msp PROVE msp \in Msps(es) <=> HasMsp(es, msp)
BY DEF Msps, HasMsp

\* The sets of a transaction are sequences, the missing ones too.
LEMMA SetsAre ==
    ASSUME NEW tx \in Transactions, NEW n \in DOMAIN tx.namespaces
    PROVE  EndorsementsOf(tx, n) \in Seq(Made)
<1>1. tx.endorsements \in Seq(Seq(Made))
  BY DEF Transactions
<1> QED BY <1>1 DEF EndorsementsOf

SameContent(ins) == \A i \in DOMAIN ins : ins[i].namespaces = ins[1].namespaces

MspsOfAll(ins, n) == UNION {Msps(EndorsementsOf(ins[i], n)) : i \in DOMAIN ins}

IsMergeOf(m, ins) ==
    /\ m \in Transactions
    /\ m.namespaces = ins[1].namespaces
    /\ Len(m.endorsements) = Len(ins[1].namespaces)
    /\ \A n \in DOMAIN ins[1].namespaces :
          /\ EndorsementsOf(m, n) = m.endorsements[n]
          /\ EndorsementsOf(m, n) \in Seq(Made)
          /\ SetsOf(ins, n) \in Seq(Seq(Made))
          /\ SortedByMsp(EndorsementsOf(m, n))
          /\ \A e : In(EndorsementsOf(m, n), e) <=> FirstOfAll(SetsOf(ins, n), e)
          /\ Msps(EndorsementsOf(m, n)) = MspsOfAll(ins, n)

\* MergeIs, for the transactions of this module.
LEMMA MergedIs ==
    ASSUME NEW ins \in Seq(Transactions), Len(ins) > 0, SameContent(ins)
    PROVE  IsMergeOf(Merge(ins), ins)
<1>1. DOMAIN ins = 1..Len(ins) /\ Len(ins) \in Nat /\ 1 \in DOMAIN ins
  OBVIOUS
<1>2. \A i \in DOMAIN ins : ins[i] \in Transactions
  BY <1>1
<1>3. ins[1].namespaces \in Seq(Contents)
  BY <1>1, <1>2 DEF Transactions
<1>4. \A n \in DOMAIN ins[1].namespaces, i \in DOMAIN ins : EndorsementsOf(ins[i], n) \in Seq(Made)
  BY <1>2, SetsAre DEF SameContent
<1>5. /\ Merge(ins) = [namespaces |-> ins[1].namespaces, endorsements |-> Merge(ins).endorsements]
      /\ Merge(ins).endorsements \in Seq(Seq(Made))
      /\ Len(Merge(ins).endorsements) = Len(ins[1].namespaces)
      /\ \A n \in DOMAIN ins[1].namespaces :
            /\ SortedByMsp(Merge(ins).endorsements[n])
            /\ \A e : In(Merge(ins).endorsements[n], e) <=> FirstOfAll(SetsOf(ins, n), e)
  BY <1>1, <1>3, <1>4, MspsAreNumbers, MergeIs
<1>6. PICK m : m = Merge(ins)
  OBVIOUS
<1>7. m \in Transactions /\ m.namespaces = ins[1].namespaces
  BY <1>3, <1>5, <1>6 DEF Transactions
<1>8. ASSUME NEW n \in DOMAIN ins[1].namespaces
      PROVE  /\ EndorsementsOf(m, n) = m.endorsements[n]
             /\ EndorsementsOf(m, n) \in Seq(Made)
             /\ SetsOf(ins, n) \in Seq(Seq(Made))
             /\ Msps(EndorsementsOf(m, n)) = MspsOfAll(ins, n)
  <2>1. n \in DOMAIN m.endorsements
    BY <1>3, <1>5, <1>6
  <2>2. EndorsementsOf(m, n) = m.endorsements[n] /\ EndorsementsOf(m, n) \in Seq(Made)
    BY <1>5, <1>6, <2>1 DEF EndorsementsOf
  <2>3. PICK sets : sets = SetsOf(ins, n)
    OBVIOUS
  <2>4. DOMAIN sets = DOMAIN ins /\ \A i \in DOMAIN ins : sets[i] = EndorsementsOf(ins[i], n)
    BY <2>3 DEF SetsOf
  <2>5. sets \in Seq(Seq(Made))
    BY <1>1, <1>4, <2>3 DEF SetsOf
  <2>6. ASSUME NEW msp
        PROVE  msp \in Msps(EndorsementsOf(m, n))
                   <=> \E i \in DOMAIN ins : msp \in Msps(EndorsementsOf(ins[i], n))
    <3>1. msp \in Msps(EndorsementsOf(m, n)) <=> \E e : In(m.endorsements[n], e) /\ MspOf(e) = msp
      BY <2>2 DEF Msps, In
    <3>2. \A e : In(m.endorsements[n], e) <=> FirstOfAll(sets, e)
      BY <1>5, <1>6, <2>3
    <3>3. (\E j \in DOMAIN sets : HasMsp(sets[j], msp))
              <=> \E e : FirstOfAll(sets, e) /\ MspOf(e) = msp
      BY <2>5, EveryMspHasAFirstOfAll
    <3> QED BY <2>4, <3>1, <3>2, <3>3, MspsAre
  <2>7. Msps(EndorsementsOf(m, n)) = MspsOfAll(ins, n)
    BY <2>6 DEF MspsOfAll
  <2> QED BY <2>2, <2>3, <2>5, <2>7
<1> QED BY <1>5, <1>6, <1>7, <1>8 DEF IsMergeOf

-----------------------------------------------------------------------------
(* The properties of the inputs                                            *)

\* Every state is a choice of three inputs.
InputsInv == txs \in [1..3 -> Inputs]

THEOREM InputsInvariant == Spec => []InputsInv
<1>1. Init => InputsInv
  BY DEF Init, InputsInv
<1>2. InputsInv /\ [Next]_txs => InputsInv'
  BY DEF InputsInv, Next
<1> QED BY <1>1, <1>2, PTL DEF Spec

LEMMA ThreeTransactions ==
    ASSUME InputsInv
    PROVE  /\ txs \in Seq(Transactions)
           /\ Len(txs) = 3 /\ DOMAIN txs = 1..3
           /\ \A i \in 1..3 : IsInput(txs[i]) /\ txs[i] \in Transactions
<1>1. \A i \in 1..3 : IsInput(txs[i])
  BY InputsAre DEF InputsInv
<1>2. \A i \in 1..3 : txs[i] \in Transactions
  BY <1>1 DEF IsInput
<1>3. \A i \in 1..3 : txs[i] \in Transactions /\ DOMAIN txs = 1..3
  BY <1>2 DEF InputsInv
<1>4. txs = [i \in 1..3 |-> txs[i]]
  BY DEF InputsInv
<1>5. txs \in Seq(Transactions) /\ Len(txs) = 3
  BY <1>3, <1>4
<1> QED BY <1>1, <1>3, <1>5

\* Merge keeps, for every namespace, the first endorsement of each MSP in the order of
\* the inputs, sorted by MSP, and loses no MSP (merge.go:20-107).
THEOREM MergeKeepsTheFirst == Spec => []MergedIsFirstOfEachMsp
<1>1. InputsInv => MergedIsFirstOfEachMsp
  <2> SUFFICES ASSUME InputsInv, Mergeable(txs),
                      NEW merged, merged = Merge(txs)
               PROVE  /\ WellFormed(merged)
                      /\ merged.namespaces = txs[1].namespaces
                      /\ \A n \in DOMAIN txs[1].namespaces :
                            LET out == merged.endorsements[n] IN
                            /\ \A j, k \in DOMAIN out : j < k => MspOf(out[j]) < MspOf(out[k])
                            /\ Msps(out) = UNION {Msps(EndorsementsOf(txs[i], n)) : i \in 1..3}
                            /\ \A k \in DOMAIN out :
                                  \E p \in Places(txs, n, MspOf(out[k])) :
                                      /\ out[k] = EndorsementsOf(txs[p[1]], n)[p[2]]
                                      /\ \A q \in Places(txs, n, MspOf(out[k])) : Before(p, q)
    BY DEF MergedIsFirstOfEachMsp
  <2>1. /\ txs \in Seq(Transactions) /\ Len(txs) = 3 /\ DOMAIN txs = 1..3
        /\ \A i \in 1..3 : IsInput(txs[i]) /\ txs[i] \in Transactions
    BY ThreeTransactions
  <2>2. SameContent(txs)
    BY DEF Mergeable, SameContent
  <2>3. IsMergeOf(merged, txs)
    BY <2>1, <2>2, MergedIs
  <2>4. WellFormed(merged)
    BY <2>3 DEF IsMergeOf, WellFormed
  <2>5. ASSUME NEW n \in DOMAIN txs[1].namespaces,
               NEW out, out = merged.endorsements[n], NEW k \in DOMAIN out
        PROVE  \E p \in Places(txs, n, MspOf(out[k])) :
                   /\ out[k] = EndorsementsOf(txs[p[1]], n)[p[2]]
                   /\ \A q \in Places(txs, n, MspOf(out[k])) : Before(p, q)
    <3>1. PICK msp : msp = MspOf(out[k])
      OBVIOUS
    <3>2. PICK sets : sets = SetsOf(txs, n)
      OBVIOUS
    <3>3. /\ DOMAIN sets = 1..3 /\ Len(sets) = 3
          /\ \A i \in 1..3 : sets[i] = EndorsementsOf(txs[i], n) /\ sets[i] \in Seq(Made)
      BY <2>1, <2>3, <3>2 DEF IsMergeOf, SetsOf
    <3>4. FirstOfAll(sets, out[k])
      BY <2>3, <2>5, <3>2 DEF IsMergeOf, In
    <3>5. PICK j \in 1..3 : /\ IsFirst(sets[j], out[k])
                            /\ \A l \in 1..(j - 1) : ~HasMsp(sets[l], msp)
      BY <3>1, <3>3, <3>4 DEF FirstOfAll, FirstOfSome
    <3>6. PICK x \in 1..Len(sets[j]) : /\ sets[j][x] = out[k]
                                       /\ \A y \in 1..(x - 1) : MspOf(sets[j][y]) # msp
      BY <3>1, <3>5 DEF IsFirst, FirstUpTo
    <3>7. \A i \in 1..3 : /\ DOMAIN sets[i] = 1..Len(sets[i])
                          /\ Len(sets[i]) \in Nat
                          /\ Len(sets[i]) <= MaxOfOne + MaxOfTwo
      <4>1. \A i \in 1..3 : n \in DOMAIN txs[i].namespaces
        BY <2>1, <2>2 DEF SameContent
      <4> QED BY <2>1, <3>3, <4>1 DEF IsInput
    <3>8. <<j, x>> \in Places(txs, n, msp)
      <4>1. x \in 1..(MaxOfOne + MaxOfTwo)
        BY <3>7, BoundsAssumption
      <4> QED BY <2>1, <3>1, <3>3, <3>6, <3>7, <4>1 DEF Places
    <3>9. ASSUME NEW q \in Places(txs, n, msp) PROVE Before(<<j, x>>, q)
      <4>1. /\ q[1] \in 1..3 /\ q[2] \in 1..(MaxOfOne + MaxOfTwo)
            /\ q[2] \in DOMAIN sets[q[1]] /\ MspOf(sets[q[1]][q[2]]) = msp
        BY <2>1, <3>3 DEF Places
      <4>2. ~(q[1] < j)
        BY <3>5, <4>1 DEF HasMsp
      <4>3. q[1] = j => ~(q[2] < x)
        BY <3>6, <4>1
      <4>4. q[1] \in Nat /\ q[2] \in Nat /\ j \in Nat /\ x \in Nat
        BY <3>6, <3>7, <4>1, BoundsAssumption
      <4> QED BY <4>2, <4>3, <4>4 DEF Before
    <3> QED BY <3>1, <3>3, <3>6, <3>8, <3>9
  <2>6. ASSUME NEW n \in DOMAIN txs[1].namespaces, NEW out, out = merged.endorsements[n]
        PROVE  /\ \A j, k \in DOMAIN out : j < k => MspOf(out[j]) < MspOf(out[k])
               /\ Msps(out) = UNION {Msps(EndorsementsOf(txs[i], n)) : i \in 1..3}
    BY <2>1, <2>3, <2>6 DEF IsMergeOf, MspsOfAll, SortedByMsp
  <2>7. merged.namespaces = txs[1].namespaces
    BY <2>3 DEF IsMergeOf
  <2> QED BY <2>4, <2>5, <2>6, <2>7
<1> QED BY <1>1, InputsInvariant, PTL

\* The order of the arguments decides neither whether a merge succeeds nor which MSPs
\* it is endorsed by (merge.go:55-104).
THEOREM MergeHasNoOrder == Spec => []MergeInAnyOrder
<1>1. InputsInv => MergeInAnyOrder
  <2> SUFFICES ASSUME InputsInv, NEW p \in Orders,
                      NEW swapped, swapped = [i \in 1..3 |-> txs[p[i]]]
               PROVE  /\ Mergeable(txs) <=> Mergeable(swapped)
                      /\ Mergeable(txs) => Approvals(Merge(txs)) = Approvals(Merge(swapped))
    BY DEF MergeInAnyOrder
  <2>1. /\ txs \in Seq(Transactions) /\ Len(txs) = 3 /\ DOMAIN txs = 1..3
        /\ \A i \in 1..3 : txs[i] \in Transactions
    BY ThreeTransactions
  <2>2. p \in [1..3 -> 1..3] /\ \A i \in 1..3 : \E k \in 1..3 : p[k] = i
    BY DEF Orders
  <2>3. /\ swapped \in Seq(Transactions) /\ Len(swapped) = 3 /\ DOMAIN swapped = 1..3
        /\ \A i \in 1..3 : p[i] \in 1..3 /\ swapped[i] = txs[p[i]]
    BY <2>1, <2>2
  <2>4. /\ \A i \in 1..3 : \E k \in 1..3 : swapped[i] = txs[k]
        /\ \A i \in 1..3 : \E k \in 1..3 : txs[i] = swapped[k]
    BY <2>2, <2>3
  <2>5. 1 \in 1..3 /\ 3 >= 2
    OBVIOUS
  <2>6. ASSUME NEW f, NEW g, Len(f) = 3, Len(g) = 3, DOMAIN f = 1..3, DOMAIN g = 1..3,
               \A i \in 1..3 : \E k \in 1..3 : g[i] = f[k], Mergeable(f)
        PROVE  Mergeable(g)
    <3>1. \A i \in 1..3 : /\ f[i].namespaces = f[1].namespaces
                          /\ \A n \in DOMAIN f[i].endorsements : f[i].endorsements[n] # <<>>
      BY <2>6 DEF Mergeable
    <3>2. \A i \in 1..3 : /\ g[i].namespaces = f[1].namespaces
                          /\ \A n \in DOMAIN g[i].endorsements : g[i].endorsements[n] # <<>>
      BY <2>6, <3>1
    <3> QED BY <2>5, <2>6, <3>2 DEF Mergeable
  <2>7. Mergeable(txs) <=> Mergeable(swapped)
    BY <2>1, <2>3, <2>4, <2>6
  <2>8. ASSUME Mergeable(txs) PROVE Approvals(Merge(txs)) = Approvals(Merge(swapped))
    <3>1. SameContent(txs) /\ SameContent(swapped)
      BY <2>7, <2>8 DEF Mergeable, SameContent
    <3>2. swapped[1].namespaces = txs[1].namespaces
      BY <2>1, <2>3, <2>5, <3>1 DEF SameContent
    <3>3. PICK a, b : a = Merge(txs) /\ b = Merge(swapped)
      OBVIOUS
    <3>4. IsMergeOf(a, txs) /\ IsMergeOf(b, swapped)
      <4>1. IsMergeOf(Merge(txs), txs)
        <5>1. Len(txs) > 0
          BY <2>1
        <5> QED BY <2>1, <3>1, <5>1, MergedIs
      <4>2. swapped \in Seq(Transactions) /\ Len(swapped) > 0
        BY <2>3
      <4>3. IsMergeOf(Merge(swapped), swapped)
        BY <3>1, <4>2, MergedIs
      <4> QED BY <3>3, <4>1, <4>3
    <3>5. /\ a.namespaces = txs[1].namespaces
          /\ b.namespaces = txs[1].namespaces
          /\ \A n \in DOMAIN txs[1].namespaces :
                /\ Msps(EndorsementsOf(a, n)) = MspsOfAll(txs, n)
                /\ Msps(EndorsementsOf(b, n)) = MspsOfAll(swapped, n)
      BY <3>2, <3>4 DEF IsMergeOf
    <3>6. ASSUME NEW n \in DOMAIN txs[1].namespaces
          PROVE  MspsOfAll(txs, n) = MspsOfAll(swapped, n)
      <4>1. {Msps(EndorsementsOf(txs[i], n)) : i \in 1..3}
                = {Msps(EndorsementsOf(swapped[i], n)) : i \in 1..3}
        BY <2>4
      <4> QED BY <2>1, <2>3, <4>1 DEF MspsOfAll
    <3> QED BY <3>3, <3>5, <3>6 DEF Approvals
  <2> QED BY <2>7, <2>8
<1> QED BY <1>1, InputsInvariant, PTL

\* Every namespace gets one endorsement more.
LEMMA EndorsedOnceMore ==
    ASSUME NEW tx \in Transactions, NEW s \in Signers
    PROVE  /\ Endorse(s, TxID, tx) \in Transactions
           /\ Endorse(s, TxID, tx).namespaces = tx.namespaces
           /\ WellFormed(Endorse(s, TxID, tx))
           /\ \A n \in DOMAIN Endorse(s, TxID, tx).endorsements :
                 Endorse(s, TxID, tx).endorsements[n] # <<>>
           /\ \A n \in DOMAIN tx.namespaces :
                 Msps(EndorsementsOf(Endorse(s, TxID, tx), n))
                     = Msps(EndorsementsOf(tx, n)) \cup {s.msp}
<1>1. PICK k : k = Len(tx.namespaces)
  OBVIOUS
<1>2. tx.namespaces \in Seq(Contents) /\ k \in Nat /\ DOMAIN tx.namespaces = 1..k
  BY <1>1 DEF Transactions
<1>3. PICK sets : sets = [n \in 1..k |-> Append(EndorsementsOf(tx, n),
                                               Endorsement(s, TxID, tx.namespaces[n]))]
  OBVIOUS
<1>4. PICK new : new = Endorse(s, TxID, tx)
  OBVIOUS
<1>5. new = [namespaces |-> tx.namespaces, endorsements |-> sets]
  BY <1>2, <1>3, <1>4 DEF Endorse, Transactions
<1>6. ASSUME NEW n \in 1..k
      PROVE  /\ sets[n] \in Seq(Made)
             /\ sets[n] # <<>>
             /\ Msps(sets[n]) = Msps(EndorsementsOf(tx, n)) \cup {s.msp}
  <2>1. PICK es : es = EndorsementsOf(tx, n)
    OBVIOUS
  <2>2. PICK e : e = Endorsement(s, TxID, tx.namespaces[n])
    OBVIOUS
  <2>3. es \in Seq(Made)
    BY <1>2, <2>1, SetsAre
  <2>4. e \in Made /\ MspOf(e) = s.msp
    BY <1>2, <2>2 DEF Made, MspOf, Endorsement
  <2>5. sets[n] = Append(es, e)
    BY <1>3, <2>1, <2>2
  <2>6. Msps(Append(es, e)) = Msps(es) \cup {MspOf(e)}
    <3>1. PICK l : l = Len(es)
      OBVIOUS
    <3>2. PICK longer : longer = Append(es, e)
      OBVIOUS
    <3>3. /\ l \in Nat /\ DOMAIN es = 1..l /\ DOMAIN longer = 1..(l + 1)
          /\ \A i \in 1..l : longer[i] = es[i] /\ i \in 1..(l + 1)
          /\ longer[l + 1] = e /\ l + 1 \in 1..(l + 1)
          /\ \A i \in 1..(l + 1) : i \in 1..l \/ i = l + 1
      BY <2>3, <2>4, <3>1, <3>2
    <3>4. \A msp : HasMsp(longer, msp) <=> HasMsp(es, msp) \/ msp = MspOf(e)
      BY <3>3 DEF HasMsp
    <3>5. \A msp : msp \in Msps(longer) <=> msp \in Msps(es) \/ msp = MspOf(e)
      BY <3>4, MspsAre
    <3> QED BY <3>2, <3>5
  <2>7. Append(es, e) \in Seq(Made) /\ Append(es, e) # <<>>
    BY <2>3, <2>4
  <2> QED BY <2>1, <2>4, <2>5, <2>6, <2>7
<1>7. sets \in Seq(Seq(Made)) /\ Len(sets) = k /\ DOMAIN sets = 1..k
  <2>1. PICK S : S = Seq(Made)
    OBVIOUS
  <2>2. sets = [n \in 1..k |-> sets[n]] /\ \A n \in 1..k : sets[n] \in S
    BY <1>3, <1>6, <2>1
  <2>3. sets \in Seq(S) /\ Len(sets) = k
    BY <1>2, <2>2
  <2> QED BY <1>3, <2>1, <2>3
<1>8. new \in Transactions
  BY <1>2, <1>5, <1>7 DEF Transactions
<1>9. WellFormed(new)
  BY <1>1, <1>5, <1>7 DEF WellFormed
<1>10. \A n \in 1..k : EndorsementsOf(new, n) = sets[n]
  BY <1>5, <1>7 DEF EndorsementsOf
<1> QED BY <1>2, <1>4, <1>5, <1>6, <1>7, <1>8, <1>9, <1>10

\* Endorsing two copies and merging them approves a transaction like endorsing it
\* twice (endorse.go:27-78, merge.go:20-107; docs/README.md:200-251).
THEOREM ParallelIsLikeSequential == Spec => []ParallelIsSequential
<1>1. InputsInv => ParallelIsSequential
  <2> SUFFICES ASSUME InputsInv, NEW s \in Signers, NEW r \in Signers,
                      NEW x, x = Endorse(s, TxID, txs[1]),
                      NEW y, y = Endorse(r, TxID, txs[1]),
                      NEW z, z = Endorse(r, TxID, x)
               PROVE  /\ Mergeable(<<x, y>>)
                      /\ Approvals(Merge(<<x, y>>)) = Approvals(z)
                      /\ WellFormed(z)
    BY DEF ParallelIsSequential
  <2>1. PICK tx : tx = txs[1]
    OBVIOUS
  <2>2. tx \in Transactions
    BY <2>1, ThreeTransactions
  <2>3. /\ x \in Transactions /\ x.namespaces = tx.namespaces
        /\ \A n \in DOMAIN x.endorsements : x.endorsements[n] # <<>>
        /\ \A n \in DOMAIN tx.namespaces :
              Msps(EndorsementsOf(x, n)) = Msps(EndorsementsOf(tx, n)) \cup {s.msp}
    BY <2>1, <2>2, EndorsedOnceMore
  <2>4. /\ y \in Transactions /\ y.namespaces = tx.namespaces
        /\ \A n \in DOMAIN y.endorsements : y.endorsements[n] # <<>>
        /\ \A n \in DOMAIN tx.namespaces :
              Msps(EndorsementsOf(y, n)) = Msps(EndorsementsOf(tx, n)) \cup {r.msp}
    BY <2>1, <2>2, EndorsedOnceMore
  <2>5. /\ z.namespaces = tx.namespaces /\ WellFormed(z)
        /\ \A n \in DOMAIN tx.namespaces :
              Msps(EndorsementsOf(z, n)) = Msps(EndorsementsOf(x, n)) \cup {r.msp}
    BY <2>3, EndorsedOnceMore
  <2>6. PICK forked : forked = <<x, y>>
    OBVIOUS
  <2>7. /\ forked \in Seq(Transactions) /\ Len(forked) = 2 /\ DOMAIN forked = {1, 2}
        /\ forked[1] = x /\ forked[2] = y
    BY <2>3, <2>4, <2>6
  <2>8. Mergeable(forked) /\ SameContent(forked)
    BY <2>3, <2>4, <2>7 DEF Mergeable, SameContent
  <2>9. PICK m : m = Merge(forked)
    OBVIOUS
  <2>10. IsMergeOf(m, forked)
    <3>1. Len(forked) > 0
      BY <2>7
    <3> QED BY <2>7, <2>8, <2>9, <3>1, MergedIs
  <2>11. ASSUME NEW n \in DOMAIN tx.namespaces
         PROVE  Msps(EndorsementsOf(m, n)) = Msps(EndorsementsOf(z, n))
    <3>1. Msps(EndorsementsOf(m, n)) = MspsOfAll(forked, n)
      BY <2>3, <2>7, <2>10 DEF IsMergeOf
    <3>2. MspsOfAll(forked, n) = Msps(EndorsementsOf(x, n)) \cup Msps(EndorsementsOf(y, n))
      BY <2>7 DEF MspsOfAll
    <3> QED BY <2>3, <2>4, <2>5, <3>1, <3>2
  <2>12. m.namespaces = tx.namespaces
    BY <2>3, <2>7, <2>10 DEF IsMergeOf
  <2>13. Approvals(m) = Approvals(z)
    BY <2>5, <2>11, <2>12 DEF Approvals
  <2> QED BY <2>5, <2>6, <2>8, <2>9, <2>13
<1> QED BY <1>1, InputsInvariant, PTL

\* In a sorted sequence every endorsement is the first of its MSP.
LEMMA SortedIsFirst ==
    ASSUME NEW es \in Seq(Made), SortedByMsp(es), NEW e
    PROVE  IsFirst(es, e) <=> In(es, e)
<1>1. PICK k : k = Len(es)
  OBVIOUS
<1>2. k \in Nat /\ DOMAIN es = 1..k /\ \A i \in 1..k : MspOf(es[i]) \in Int
  BY <1>1, MspsAreNumbers
<1>3. ASSUME NEW x \in 1..k, NEW y \in 1..(x - 1) PROVE MspOf(es[y]) # MspOf(es[x])
  <2>1. y \in 1..k /\ y < x
    BY <1>2
  <2>2. MspOf(es[y]) < MspOf(es[x])
    BY <1>2, <2>1 DEF SortedByMsp
  <2> QED BY <1>2, <2>1, <2>2
<1> QED BY <1>1, <1>2, <1>3 DEF IsFirst, FirstUpTo, In

LEMMA FirstOfTwo ==
    ASSUME NEW a, NEW b, NEW e
    PROVE  FirstOfAll(<<a, b>>, e)
               <=> IsFirst(a, e) \/ (IsFirst(b, e) /\ ~HasMsp(a, MspOf(e)))
<1>1. PICK seqs : seqs = <<a, b>>
  OBVIOUS
<1>2. /\ Len(seqs) = 2 /\ seqs[1] = a /\ seqs[2] = b
      /\ 1..2 = {1, 2} /\ 1..(1 - 1) = {} /\ 1..(2 - 1) = {1}
  BY <1>1
<1>3. FirstOfAll(seqs, e)
          <=> \/ IsFirst(seqs[1], e) /\ \A l \in 1..(1 - 1) : ~HasMsp(seqs[l], MspOf(e))
              \/ IsFirst(seqs[2], e) /\ \A l \in 1..(2 - 1) : ~HasMsp(seqs[l], MspOf(e))
  BY <1>2 DEF FirstOfAll, FirstOfSome
<1> QED BY <1>1, <1>2, <1>3

LEMMA FirstOfThree ==
    ASSUME NEW a, NEW b, NEW c, NEW e
    PROVE  FirstOfAll(<<a, b, c>>, e)
               <=> \/ IsFirst(a, e)
                   \/ IsFirst(b, e) /\ ~HasMsp(a, MspOf(e))
                   \/ IsFirst(c, e) /\ ~HasMsp(a, MspOf(e)) /\ ~HasMsp(b, MspOf(e))
<1>1. PICK seqs : seqs = <<a, b, c>>
  OBVIOUS
<1>2. /\ Len(seqs) = 3 /\ seqs[1] = a /\ seqs[2] = b /\ seqs[3] = c
      /\ 1..3 = {1, 2, 3} /\ 1..(1 - 1) = {} /\ 1..(2 - 1) = {1} /\ 1..(3 - 1) = {1, 2}
  BY <1>1
<1>3. FirstOfAll(seqs, e)
          <=> \/ IsFirst(seqs[1], e) /\ \A l \in 1..(1 - 1) : ~HasMsp(seqs[l], MspOf(e))
              \/ IsFirst(seqs[2], e) /\ \A l \in 1..(2 - 1) : ~HasMsp(seqs[l], MspOf(e))
              \/ IsFirst(seqs[3], e) /\ \A l \in 1..(3 - 1) : ~HasMsp(seqs[l], MspOf(e))
  BY <1>2 DEF FirstOfAll, FirstOfSome
<1> QED BY <1>1, <1>2, <1>3

\* Merging in stages: what was merged first can be merged with the rest, and the
\* result is that of one merge of all (merge.go:20-107).
THEOREM MergeIsInStages == Spec => []MergeInStages
<1>1. InputsInv => MergeInStages
  <2> SUFFICES ASSUME InputsInv, \A i \in 1..3 : IsEndorsed(txs[i]), Mergeable(txs),
                      NEW first, first = Merge(<<txs[1], txs[2]>>)
               PROVE  /\ Mergeable(<<first, txs[3]>>)
                      /\ Merge(<<first, txs[3]>>) = Merge(txs)
    BY DEF MergeInStages
  <2>1. PICK two, staged : two = <<txs[1], txs[2]>> /\ staged = <<first, txs[3]>>
    OBVIOUS
  <2>2. /\ txs \in Seq(Transactions) /\ Len(txs) = 3 /\ DOMAIN txs = 1..3
        /\ \A i \in 1..3 : IsInput(txs[i]) /\ txs[i] \in Transactions
    BY ThreeTransactions
  <2>3. PICK namespaces : namespaces = txs[1].namespaces
    OBVIOUS
  <2>4. /\ namespaces \in Seq(Contents)
        /\ \A i \in 1..3 : /\ txs[i].namespaces = namespaces
                           /\ \A n \in DOMAIN txs[i].endorsements : txs[i].endorsements[n] # <<>>
    BY <2>2, <2>3 DEF Mergeable, Transactions
  <2>5. /\ two \in Seq(Transactions) /\ Len(two) = 2 /\ Len(two) > 0 /\ DOMAIN two = {1, 2}
        /\ two[1] = txs[1] /\ two[2] = txs[2]
    BY <2>1, <2>2
  <2>6. SameContent(two) /\ SameContent(txs)
    BY <2>2, <2>3, <2>4, <2>5 DEF SameContent
  <2>7. IsMergeOf(first, two)
    BY <2>1, <2>5, <2>6, MergedIs
  <2>8. first \in Transactions /\ first.namespaces = namespaces
    BY <2>3, <2>5, <2>7 DEF IsMergeOf
  <2>9. /\ staged \in Seq(Transactions) /\ Len(staged) = 2 /\ Len(staged) > 0
        /\ DOMAIN staged = {1, 2} /\ staged[1] = first /\ staged[2] = txs[3]
    BY <2>1, <2>2, <2>8
  <2>10. SameContent(staged)
    BY <2>4, <2>8, <2>9 DEF SameContent
  <2>11. Mergeable(staged)
    <3>1. ASSUME NEW n \in DOMAIN first.endorsements PROVE first.endorsements[n] # <<>>
      <4>1. n \in DOMAIN namespaces
        <5>1. Len(first.endorsements) = Len(namespaces) /\ first.endorsements \in Seq(Seq(Made))
          BY <2>3, <2>5, <2>7, <2>8 DEF IsMergeOf, Transactions
        <5> QED BY <2>4, <5>1
      <4>2. n \in DOMAIN txs[1].endorsements
        <5>1. txs[1].endorsements \in Seq(Seq(Made)) /\ txs[1].endorsements # <<>>
          BY <2>2 DEF Transactions, IsEndorsed
        <5>2. Len(txs[1].endorsements) # 0
          BY <5>1
        <5>3. Len(txs[1].endorsements) = Len(namespaces)
          BY <2>2, <2>4, <5>2 DEF IsInput, WellFormed
        <5> QED BY <2>4, <4>1, <5>1, <5>3
      <4>3. PICK es : es = EndorsementsOf(txs[1], n)
        OBVIOUS
      <4>4. es \in Seq(Made) /\ es # <<>>
        BY <2>2, <2>4, <4>1, <4>2, <4>3, SetsAre DEF EndorsementsOf
      <4>5. 1 \in DOMAIN es
        BY <4>4
      <4>6. MspOf(es[1]) \in Msps(es)
        BY <4>5 DEF Msps
      <4>7. MspOf(es[1]) \in Msps(first.endorsements[n])
        <5>1. Msps(first.endorsements[n]) = MspsOfAll(two, n)
          BY <2>3, <2>5, <2>7, <4>1 DEF IsMergeOf
        <5>2. MspsOfAll(two, n) = Msps(EndorsementsOf(txs[1], n)) \cup Msps(EndorsementsOf(txs[2], n))
          BY <2>5 DEF MspsOfAll
        <5> QED BY <4>3, <4>6, <5>1, <5>2
      <4> QED BY <4>7 DEF Msps
    <3>2. \A i \in {1, 2} : staged[i].namespaces = staged[1].namespaces
      BY <2>4, <2>8, <2>9
    <3>3. \A i \in {1, 2} : \A n \in DOMAIN staged[i].endorsements :
              staged[i].endorsements[n] # <<>>
      BY <2>4, <2>9, <3>1
    <3> QED BY <2>9, <3>2, <3>3 DEF Mergeable
  <2>12. PICK a, b : a = Merge(staged) /\ b = Merge(txs)
    OBVIOUS
  <2>13. IsMergeOf(a, staged)
    BY <2>9, <2>10, <2>12, MergedIs
  <2>14. IsMergeOf(b, txs)
    <3>1. Len(txs) > 0
      BY <2>2
    <3> QED BY <2>2, <2>6, <2>12, <3>1, MergedIs
  <2>15. ASSUME NEW n \in DOMAIN namespaces PROVE a.endorsements[n] = b.endorsements[n]
    <3>1. PICK s1, s2, s3, f : /\ s1 = EndorsementsOf(txs[1], n)
                               /\ s2 = EndorsementsOf(txs[2], n)
                               /\ s3 = EndorsementsOf(txs[3], n)
                               /\ f = EndorsementsOf(first, n)
      OBVIOUS
    <3>2. SetsOf(two, n) = <<s1, s2>>
      BY <2>5, <3>1 DEF SetsOf
    <3>3. SetsOf(staged, n) = <<f, s3>>
      BY <2>9, <3>1 DEF SetsOf
    <3>4. SetsOf(txs, n) = <<s1, s2, s3>>
      <4>1. 1..3 = {1, 2, 3}
        OBVIOUS
      <4> QED BY <2>2, <3>1, <4>1 DEF SetsOf
    <3>5. /\ f \in Seq(Made) /\ SortedByMsp(f)
          /\ \A e : In(f, e) <=> FirstOfAll(<<s1, s2>>, e)
          /\ Msps(f) = MspsOfAll(two, n)
      BY <2>3, <2>5, <2>7, <3>1, <3>2 DEF IsMergeOf
    <3>6. \A msp : HasMsp(f, msp) <=> HasMsp(s1, msp) \/ HasMsp(s2, msp)
      <4>1. MspsOfAll(two, n) = Msps(s1) \cup Msps(s2)
        BY <2>5, <3>1 DEF MspsOfAll
      <4>2. \A msp : msp \in Msps(f) <=> msp \in Msps(s1) \/ msp \in Msps(s2)
        BY <3>5, <4>1
      <4> QED BY <4>2, MspsAre
    <3>7. ASSUME NEW e PROVE FirstOfAll(<<f, s3>>, e) <=> FirstOfAll(<<s1, s2, s3>>, e)
      <4>1. IsFirst(f, e) <=> IsFirst(s1, e) \/ (IsFirst(s2, e) /\ ~HasMsp(s1, MspOf(e)))
        BY <3>5, SortedIsFirst, FirstOfTwo
      <4> QED BY <3>6, <4>1, FirstOfTwo, FirstOfThree
    <3>8. /\ a.endorsements[n] \in Seq(Made) /\ SortedByMsp(a.endorsements[n])
          /\ \A e : In(a.endorsements[n], e) <=> FirstOfAll(<<f, s3>>, e)
      BY <2>8, <2>9, <2>13, <3>3 DEF IsMergeOf
    <3>9. /\ b.endorsements[n] \in Seq(Made) /\ SortedByMsp(b.endorsements[n])
          /\ \A e : In(b.endorsements[n], e) <=> FirstOfAll(<<s1, s2, s3>>, e)
      BY <2>3, <2>14, <3>4 DEF IsMergeOf
    <3> QED BY <3>7, <3>8, <3>9, MspsAreNumbers, SortedIsUnique
  <2>16. a.endorsements = b.endorsements
    <3>1. /\ a.endorsements \in Seq(Seq(Made)) /\ Len(a.endorsements) = Len(namespaces)
          /\ b.endorsements \in Seq(Seq(Made)) /\ Len(b.endorsements) = Len(namespaces)
      BY <2>3, <2>8, <2>9, <2>13, <2>14 DEF IsMergeOf, Transactions
    <3> QED BY <2>4, <2>15, <3>1
  <2>17. a = b
    <3>1. a \in Transactions /\ b \in Transactions /\ a.namespaces = b.namespaces
      BY <2>3, <2>8, <2>9, <2>13, <2>14 DEF IsMergeOf
    <3> QED BY <2>16, <3>1 DEF Transactions
  <2> QED BY <2>1, <2>11, <2>12, <2>17
<1> QED BY <1>1, InputsInvariant, PTL

=============================================================================
