------------------------ MODULE MCTransactionMerging ------------------------
(* Two members of one MSP and one of another, two contents.                  *)
EXTENDS TransactionMerging

MCSigners == {[msp |-> 1, key |-> "peer"], [msp |-> 1, key |-> "admin"],
              [msp |-> 2, key |-> "peer"]}

=============================================================================
