-------------------------- MODULE MCEndorsementFlow --------------------------
(* Two organizations, two file names and one request.                      *)
EXTENDS EndorsementFlow, TLC

CONSTANTS org1, org2, f1, f2, tx1, tx2

MCSignerOf == org1 :> [msp |-> 1, key |-> "peer"] @@ org2 :> [msp |-> 2, key |-> "peer"]

MCRequests == {[nsPolicy |-> "or", nsID |-> "ns", nsVersion |-> -1]}

Symmetry == Permutations({f1, f2}) \cup Permutations({tx1, tx2})

=============================================================================
