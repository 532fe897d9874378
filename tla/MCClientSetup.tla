---------------------------- MODULE MCClientSetup ----------------------------
(* One service.  Its TLS section and the common one are every combination of *)
(* fields that are stated or not, in any one of the three files; the address *)
(* and the switch may also come from the environment.                        *)
EXTENDS ClientSetup, TLC

CONSTANT s1

MCPaths == {"key", "cert", "roots", "ownKey", "ownCert", "ownRoots"}

\* Two pairs; the root certificates are of a kind of their own.
MCHolds == [p \in MCPaths |-> CASE p \in {"key", "cert"} -> "pair"
                                [] p \in {"ownKey", "ownCert"} -> "ownPair"
                                [] OTHER -> "roots"]

NoKeys == [k \in {} |-> ""]
NoFile == [state |-> "missing", keys |-> NoKeys]
NotGiven == [state |-> "none", keys |-> NoKeys]
Broken == [state |-> "malformed", keys |-> NoKeys]
Holding(keys) == [state |-> "ok", keys |-> keys]

Address(a) == <<s1, "address">> :> a

\* What a file can say of one key: nothing, or one of these values.
Maybe(k, values) == {NoKeys} \cup {k :> v : v \in values}

Common == {a @@ b @@ c @@ d : a \in Maybe(<<"tls", "enabled">>, {"true", "false"}),
                              b \in Maybe(<<"tls", "clientKey">>, {"key"}),
                              c \in Maybe(<<"tls", "clientCert">>, {"cert"}),
                              d \in Maybe(<<"tls", "rootCerts">>, {"roots"})}

Own == {a @@ b @@ c @@ d : a \in Maybe(<<s1, "tls", "enabled">>, {"true", "false"}),
                           b \in Maybe(<<s1, "tls", "clientKey">>, {"ownKey"}),
                           c \in Maybe(<<s1, "tls", "clientCert">>, {"ownCert"}),
                           d \in Maybe(<<s1, "tls", "rootCerts">>, {"ownRoots"})}

Sections == {c @@ o @@ Address("file") : c \in Common, o \in Own}

Env == {NoKeys, <<"tls", "enabled">> :> "true",
        <<s1, "tls", "enabled">> :> "false" @@ Address("env")}

\* One file, with every pair of sections.
OneFile ==
    {[user |-> Holding(keys), project |-> NoFile, explicit |-> NotGiven, env |-> env] :
        keys \in Sections, env \in Env}

\* Every placement of files that state the address, or a timeout of zero.
AnyFiles ==
    LET state(name) == {NoFile, Broken, Holding(NoKeys), Holding(Address(name)),
                        Holding(<<s1, "connectionTimeout">> :> "0s")}
    IN [user : state("user"), project : state("project"),
        explicit : state("explicit") \cup {NotGiven}, env : {NoKeys, Address("env")}]

\* A user and a project file, which may state the address.
TwoFiles == {i \in AnyFiles : i.explicit.state = "none" /\ i.env = NoKeys}

\* No file; the environment may state the switches and the address.
NoFiles ==
    {[user |-> NoFile, project |-> NoFile, explicit |-> NotGiven, env |-> a @@ b @@ c] :
        a \in Maybe(<<"tls", "enabled">>, {"true", "false"}),
        b \in Maybe(<<s1, "tls", "enabled">>, {"true", "false"}),
        c \in Maybe(<<s1, "address">>, {"env"})}

SetupInputs == OneFile \cup AnyFiles \cup NoFiles

=============================================================================
