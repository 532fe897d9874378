------------------------------ MODULE Policies ------------------------------
(***************************************************************************)
(* The endorsement policy of a namespace: what --policy says, when it is   *)
(* valid, and what goes into the transaction.                              *)
(*                                                                         *)
(* A key file is a sequence of PEM blocks [holds, algorithm, key], where   *)
(* "holds" is what its bytes parse as: a certificate, a public key or      *)
(* something else; or it is Missing.                                       *)
(***************************************************************************)
EXTENDS Naturals, Sequences, FiniteSetsExt

CONSTANT
    Expressions   \* the texts that the policy parser accepts

Missing == [file |-> "missing"]
Pem(blocks) == [file |-> "regular", blocks |-> blocks]

\* What --policy says, trimmed: with the prefix "threshold:" or without it.
Set(text) ==
    IF text.prefixed THEN [type |-> "threshold", path |-> text.rest]
                     ELSE [type |-> "msp", expression |-> text.rest]

\* A threshold policy needs a file that is there, an MSP policy an expression.
ValidatePolicy(policy, file) ==
    \/ policy.type = "threshold" /\ policy.path # "" /\ file # Missing
    \/ policy.type = "msp" /\ policy.expression # "" /\ policy.expression \in Expressions

NoKey == "no key"

\* The ECDSA key of a block, of a certificate or a public key.
ParseCertificateOrPublicKey(block) ==
    IF block.holds \in {"certificate", "public key"} /\ block.algorithm = "ECDSA"
    THEN block.key ELSE NoKey

\* The first block that holds an ECDSA key; what does not parse is skipped.
GetPubKeyFromPemData(blocks) ==
    LET usable == {i \in DOMAIN blocks : ParseCertificateOrPublicKey(blocks[i]) # NoKey} IN
    IF usable = {} THEN NoKey ELSE ParseCertificateOrPublicKey(blocks[Min(usable)])

\* createPolicy succeeds: the expression parses again, the file still has a key.
CanCreatePolicy(policy, file) ==
    \/ policy.type = "msp" /\ policy.expression \in Expressions
    \/ /\ policy.type = "threshold"
       /\ file # Missing
       /\ GetPubKeyFromPemData(file.blocks) # NoKey

\* What the transaction says of the policy.
CreatePolicy(policy, file) ==
    IF policy.type = "msp" THEN policy.expression ELSE GetPubKeyFromPemData(file.blocks)

=============================================================================
