---------------------------- MODULE MCApplication ----------------------------
(* Two callers, so that a client is asked for before it is made, while the    *)
(* other uses it, and after the other closed it.                             *)
EXTENDS Application, TLC

CONSTANTS a, b

Deploy(text, endorse, submit, wait) ==
    [name |-> "deploy", policy |-> text, endorse |-> endorse, submit |-> submit, wait |-> wait]

Expression == [prefixed |-> FALSE, rest |-> "or"]
Junk       == [prefixed |-> FALSE, rest |-> "junk"]
KeyPath    == [prefixed |-> TRUE, rest |-> "key.pem"]

Op(name) == [name |-> name]

MCMenu ==
    a :> {Deploy(KeyPath, TRUE, FALSE, TRUE), Deploy(Expression, TRUE, TRUE, FALSE)}
 @@ b :> {Op("list"), Op("endorse"), Op("submit"), Op("submitWithWait"),
          Deploy(KeyPath, FALSE, TRUE, TRUE), Deploy(Junk, TRUE, TRUE, FALSE)}

Block(holds, algorithm, key) == [holds |-> holds, algorithm |-> algorithm, key |-> key]

MCKeyFiles ==
    {Missing, Pem(<<Block("certificate", "RSA", "k1")>>),
     Pem(<<Block("other", "ECDSA", "k0"), Block("public key", "ECDSA", "k2"),
           Block("certificate", "ECDSA", "k3")>>)}

=============================================================================
