------------------------- MODULE TransactionMerging -------------------------
(***************************************************************************)
(* The algebra of transaction.Merge and transaction.Endorse over bounded   *)
(* inputs: the state is three inputs, and every choice of them is an       *)
(* initial state.                                                          *)
(***************************************************************************)
EXTENDS Transaction, FiniteSets

CONSTANTS
    Signers,      \* members of MSPs, records [msp, key]
    Contents,     \* contents a namespace of a transaction can have
    TxID,         \* the transaction ID all inputs share
    MaxOfOne,     \* longest endorsement set of a transaction with one namespace
    MaxOfTwo      \* ... and of one with two

ASSUME SignersAssumption == \A s \in Signers : s.msp \in Int

ASSUME BoundsAssumption == MaxOfOne \in Nat /\ MaxOfTwo \in Nat

VARIABLE txs      \* the three inputs

\* The endorsement sets that namespace ns of a file can carry.
Endorsed(ns, max) ==
    UNION {[1..len -> {Endorsement(s, TxID, ns) : s \in Signers}] : len \in 0..max}

OneNamespace ==
    UNION {{[namespaces |-> <<ns>>, endorsements |-> sets] :
               sets \in {<<>>} \cup {<<es>> : es \in Endorsed(ns, MaxOfOne)}} : ns \in Contents}

TwoNamespaces ==
    UNION {{[namespaces |-> ns, endorsements |-> sets] :
               sets \in {<<>>} \cup (Endorsed(ns[1], MaxOfTwo) \X Endorsed(ns[2], MaxOfTwo))} :
           ns \in {c \in Contents \X Contents : c[1] # c[2]}}

Inputs == OneNamespace \cup TwoNamespaces

Init == txs \in [1..3 -> Inputs]

Next == UNCHANGED txs

Spec == Init /\ [][Next]_txs

-----------------------------------------------------------------------------
Msps(es) == {MspOf(es[k]) : k \in DOMAIN es}

\* The MSPs that endorsed each namespace.
Approvals(tx) == [n \in DOMAIN tx.namespaces |-> Msps(EndorsementsOf(tx, n))]

IsEndorsed(tx) == tx.endorsements # <<>>

\* Where the endorsements by msp of namespace n are in the inputs.
Places(ins, n, msp) ==
    {p \in (1..Len(ins)) \X (1..(MaxOfOne + MaxOfTwo)) :
        /\ p[2] \in DOMAIN EndorsementsOf(ins[p[1]], n)
        /\ MspOf(EndorsementsOf(ins[p[1]], n)[p[2]]) = msp}

Before(p, q) == p[1] < q[1] \/ (p[1] = q[1] /\ p[2] <= q[2])

\* What Merge documents (merge.go:20-23): every MSP that endorsed an input is
\* there once, with its first endorsement in the order of the inputs, sorted by
\* MSP ID; the content is the common one.
MergedIsFirstOfEachMsp ==
    Mergeable(txs) =>
        LET merged == Merge(txs) IN
        /\ WellFormed(merged)
        /\ merged.namespaces = txs[1].namespaces
        /\ \A n \in DOMAIN txs[1].namespaces :
              LET out == merged.endorsements[n] IN
              /\ \A j, k \in DOMAIN out : j < k => MspOf(out[j]) < MspOf(out[k])
              /\ Msps(out) = UNION {Msps(EndorsementsOf(txs[i], n)) : i \in 1..3}
              /\ \A k \in DOMAIN out :
                    \E p \in Places(txs, n, MspOf(out[k])) :
                        /\ out[k] = EndorsementsOf(txs[p[1]], n)[p[2]]
                        /\ \A q \in Places(txs, n, MspOf(out[k])) : Before(p, q)

\* Every way to rearrange three arguments.
Orders == {p \in [1..3 -> 1..3] : \A i \in 1..3 : \E k \in 1..3 : p[k] = i}

\* The order of the arguments of "fxconfig tx merge" decides neither whether it
\* succeeds nor which organizations the result is endorsed by.
MergeInAnyOrder ==
    \A p \in Orders :
        LET swapped == [i \in 1..3 |-> txs[p[i]]] IN
        /\ Mergeable(txs) <=> Mergeable(swapped)
        /\ Mergeable(txs) => Approvals(Merge(txs)) = Approvals(Merge(swapped))

\* Endorsed inputs can be merged in stages: merging a merge with the rest gives
\* the transaction that one merge of all of them gives.
MergeInStages ==
    (\A i \in 1..3 : IsEndorsed(txs[i])) /\ Mergeable(txs) =>
        LET first == Merge(<<txs[1], txs[2]>>) IN
        /\ Mergeable(<<first, txs[3]>>)
        /\ Merge(<<first, txs[3]>>) = Merge(txs)

\* Two organizations that endorse copies of a transaction and merge approve it
\* like two that endorse it one after the other (docs/README.md:200-251).
ParallelIsSequential ==
    \A s, r \in Signers :
        LET forked == <<Endorse(s, TxID, txs[1]), Endorse(r, TxID, txs[1])>>
            chained == Endorse(r, TxID, Endorse(s, TxID, txs[1]))
        IN /\ Mergeable(forked)
           /\ Approvals(Merge(forked)) = Approvals(chained)
           /\ WellFormed(chained)

\* The organizations that endorsed some namespace of a transaction.
Organizations(tx) == UNION {Approvals(tx)[n] : n \in DOMAIN tx.namespaces}

FromDifferentOrganizations(tx1, tx2) ==
    /\ IsEndorsed(tx1)
    /\ IsEndorsed(tx2)
    /\ Organizations(tx1) \cap Organizations(tx2) = {}

\* "The merged transaction will contain all endorsement signatures"
\* (cli/v1/tx_merge.go:33-34), of inputs as that text asks for (28-31): endorsed,
\* and by different organizations.
MergeKeepsEverySignature ==
    LET ins == <<txs[1], txs[2]>> IN
    Mergeable(ins) /\ FromDifferentOrganizations(txs[1], txs[2]) =>
        \A i \in DOMAIN ins : \A n \in DOMAIN ins[i].namespaces :
            Range(EndorsementsOf(ins[i], n)) \subseteq Range(Merge(ins).endorsements[n])

=============================================================================
