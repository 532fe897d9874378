----------------------------- MODULE Transaction -----------------------------
(***************************************************************************)
(* internal/transaction: building, endorsing and merging transactions.     *)
(* Pure operators on values, used by EndorsementFlow and                   *)
(* NamespaceDeployment.                                                    *)
(*                                                                         *)
(* A transaction has a sequence of namespaces (TxNamespace messages) and a *)
(* sequence of endorsement sets, one sequence of endorsements per          *)
(* namespace; the empty sequence stands for the nil slice of a transaction *)
(* nobody has endorsed.  MSP IDs are numbers: their order is the order of  *)
(* the strings.                                                            *)
(***************************************************************************)
EXTENDS Integers, Sequences, SequencesExt

\* Version checks of the CLI input: -1 creates, anything above updates.
ValidateVersion(v) == v >= -1

\* Variant with a fault: version 0 is taken for "no version".
CreateNamespacesTxFromOne(nsPolicy, nsID, nsVersion, metaNsVersion) ==
    [namespaces |-> << [nsVersion |-> metaNsVersion,
                        key       |-> nsID,
                        value     |-> nsPolicy,
                        version   |-> IF nsVersion > 0 THEN {nsVersion} ELSE {}] >>,
     endorsements |-> <<>>]

\* One write to the meta-namespace.  The optional version of the write is the
\* set of the version it carries: empty on a create.
CreateNamespacesTx(nsPolicy, nsID, nsVersion, metaNsVersion) ==
    [namespaces |-> << [nsVersion |-> metaNsVersion,
                        key       |-> nsID,
                        value     |-> nsPolicy,
                        version   |-> IF nsVersion >= 0 THEN {nsVersion} ELSE {}] >>,
     endorsements |-> <<>>]

-----------------------------------------------------------------------------
(* Endorse                                                                 *)

\* What signer.Sign(ns.ASN1Marshal(txID)) and the signer's identity make: a
\* signature of one member of an MSP over one namespace of one transaction.
Endorsement(signer, txID, ns) == [by |-> signer, over |-> <<txID, ns>>]

MspOf(e) == e.by.msp

\* The endorsements of namespace n; none when the set is missing.
EndorsementsOf(tx, n) == IF n \in DOMAIN tx.endorsements THEN tx.endorsements[n] ELSE <<>>

\* The slice of sets has one per namespace, or is nil.  Both functions index by
\* namespace without a check: Endorse panics on fewer sets, Merge on more.
WellFormed(tx) == Len(tx.endorsements) \in {0, Len(tx.namespaces)}

\* Variant with a fault: the set is made anew for every endorser.
EndorseAnew(signer, txID, tx) ==
    [tx EXCEPT !.endorsements =
        [n \in DOMAIN tx.namespaces |-> <<Endorsement(signer, txID, tx.namespaces[n])>>]]

\* Variant with a fault: the endorsements are added as sets of their own.
EndorseInNewSets(signer, txID, tx) ==
    [tx EXCEPT !.endorsements =
        @ \o [n \in DOMAIN tx.namespaces |-> <<Endorsement(signer, txID, tx.namespaces[n])>>]]

\* Append the signer's endorsement to the set of every namespace.
Endorse(signer, txID, tx) ==
    [tx EXCEPT !.endorsements =
        [n \in DOMAIN tx.namespaces |->
            Append(EndorsementsOf(tx, n), Endorsement(signer, txID, tx.namespaces[n]))]]

-----------------------------------------------------------------------------
(* Merge                                                                   *)

\* Variant with a fault: the base transaction is compared with, never checked.
MergeableAfterBase(txs) ==
    /\ Len(txs) >= 2
    /\ \A i \in 2..Len(txs) :
          /\ txs[i].namespaces = txs[1].namespaces
          /\ \A n \in DOMAIN txs[i].endorsements : txs[i].endorsements[n] # <<>>

\* Variant with a fault: an input brings exactly one endorsement.
MergeableSingles(txs) ==
    /\ Len(txs) >= 2
    /\ \A i \in DOMAIN txs :
          /\ txs[i].namespaces = txs[1].namespaces
          /\ \A n \in DOMAIN txs[i].endorsements : Len(txs[i].endorsements[n]) = 1

\* Two inputs or more, the same namespaces in each, and no empty set among the
\* endorsements.  An input without endorsements has no set to be empty.
Mergeable(txs) ==
    /\ Len(txs) >= 2
    /\ \A i \in DOMAIN txs :
          /\ txs[i].namespaces = txs[1].namespaces
          /\ \A n \in DOMAIN txs[i].endorsements : txs[i].endorsements[n] # <<>>

\* Variant with a fault: only neighbours are compared, as in a sorted list.
OncePerMspAdjacent(es) ==
    FoldLeft(LAMBDA kept, e :
                 IF kept # <<>> /\ MspOf(kept[Len(kept)]) = MspOf(e)
                 THEN kept ELSE Append(kept, e),
             <<>>, es)

\* The loop of mergeEndorsements over the endorsements of one namespace: keep
\* the first of every MSP.
OncePerMsp(es) ==
    FoldLeft(LAMBDA kept, e :
                 IF \E i \in DOMAIN kept : MspOf(kept[i]) = MspOf(e)
                 THEN kept ELSE Append(kept, e),
             <<>>, es)

MergeEndorsements(txs) ==
    [n \in DOMAIN txs[1].namespaces |->
        OncePerMsp(FlattenSeq([i \in DOMAIN txs |-> EndorsementsOf(txs[i], n)]))]

\* sort.Slice by MSP ID, whose order of equal IDs is any; they are distinct by now, so
\* that the result is unique.
SortEndorsementsByMspID(es) ==
    LET order == CHOOSE p \in Bijection(DOMAIN es, DOMAIN es) :
                     \A i, j \in DOMAIN es : i < j => MspOf(es[p[i]]) <= MspOf(es[p[j]])
    IN [i \in DOMAIN es |-> es[order[i]]]

\* The merged transaction of inputs that are Mergeable.
Merge(txs) ==
    LET merged == MergeEndorsements(txs) IN
    [namespaces   |-> txs[1].namespaces,
     endorsements |-> [n \in DOMAIN merged |-> SortEndorsementsByMspID(merged[n])]]

=============================================================================
