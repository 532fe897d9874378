CONSTANTS
    Signers <- MCSigners
    Contents = {"ns1", "ns2"}
    TxID = "tx"
    MaxOfOne = 2
    MaxOfTwo = 1
SPECIFICATION Spec
INVARIANT
    MergeKeepsEverySignature
