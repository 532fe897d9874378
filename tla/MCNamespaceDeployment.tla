------------------------ MODULE MCNamespaceDeployment ------------------------
(* One namespace; a deployment, and two runs that submit what it saves or     *)
(* deploy themselves, at the same time.                                      *)
EXTENDS NamespaceDeployment, TLC

CONSTANTS d1, s1, s2

Deploy(kind, version, endorse, submit, wait) ==
    [kind |-> kind, nsID |-> "ns", version |-> version, endorse |-> endorse,
     submit |-> submit, wait |-> wait]

\* Every combination of the flags for a create and for updates of version v.
AllFlags(kind, v) ==
    {Deploy(kind, v, endorse, submit, wait) : endorse, submit, wait \in BOOLEAN}

SubmitLines == {Deploy("submit", -1, FALSE, FALSE, wait) : wait \in BOOLEAN}

MCSigner == [msp |-> 1, key |-> "admin"]

\* A create with any flags (or an update that validation refuses), and two runs: each
\* is a "tx submit", which may take the same file as the other, or an update of the
\* first version, or, of one of them, of the second or, by mistake, of -1.
MCMenu == d1 :> AllFlags("create", -1) \cup {Deploy("update", -2, TRUE, TRUE, TRUE)}
       @@ s1 :> SubmitLines \cup {Deploy("update", 0, TRUE, TRUE, TRUE)}
       @@ s2 :> SubmitLines \cup {Deploy("update", v, TRUE, TRUE, FALSE) : v \in {-1, 0, 1}}

=============================================================================
