---------------------------- MODULE Configuration ----------------------------
(***************************************************************************)
(* internal/config: how the sources of the configuration are put together, *)
(* how a service's TLS section inherits from the top-level one, what       *)
(* validation asks for, and what the gRPC clients make of the result.      *)
(*                                                                         *)
(* Every value is a name and "" stands for a value that is not set; a list *)
(* of root certificates is one value.  A key is the path of a field:       *)
(* <<"tls", f>>, <<service, f>> or <<service, "tls", f>>.                  *)
(***************************************************************************)
EXTENDS Naturals

CONSTANT Services     \* orderer, queries, notifications

TLSFields == {"enabled", "clientKey", "clientCert", "rootCerts"}

ServiceFields == {"address", "connectionTimeout"}

\* The keys registerStructKeys makes known: it does not follow pointers, and the TLS
\* section of a service is one.
Registered == {<<"tls", f>> : f \in TLSFields} \cup (Services \X ServiceFields)

ServiceTLSKeys == {<<s, "tls", f>> : s \in Services, f \in TLSFields}

Keys == Registered \cup ServiceTLSKeys

Default(k) ==
    CASE k[2] = "enabled" -> "false"
      [] k[2] = "connectionTimeout" -> "30s"
      [] OTHER -> ""

-----------------------------------------------------------------------------
(* Load                                                                    *)

\* The file whose contents count.  viper remembers the first config file it finds,
\* so the second MergeInConfig reads the user's file once more if there is one; and
\* ReadInConfig starts anew with the file of --config.
FileUsed(user, project, explicit) ==
    CASE explicit.state # "none" -> explicit
      [] explicit.state = "none" /\ user.state # "missing" -> user
      [] explicit.state = "none" /\ user.state = "missing" -> project

\* A file that does not parse, or one that --config names and that is not there.
LoadFails(user, project, explicit) ==
    \/ user.state = "malformed"
    \/ user.state = "missing" /\ project.state = "malformed"
    \/ explicit.state \in {"missing", "malformed"}

\* Variant with a fault: the file beats the environment.
ValueFileFirst(env, file, k) ==
    CASE k \in DOMAIN file -> file[k]
      [] k \in (DOMAIN env \cap Registered) \ DOMAIN file -> env[k]
      [] k \in Registered \ (DOMAIN env \cup DOMAIN file) -> Default(k)
      [] OTHER -> ""

\* Unmarshal asks for the keys viper knows: those registered and those in the file.
\* The environment comes first, but cannot make a key known.
Value(env, file, k) ==
    CASE k \in DOMAIN env \cap (Registered \cup DOMAIN file) -> env[k]
      [] k \in DOMAIN file \ DOMAIN env -> file[k]
      [] k \in Registered \ (DOMAIN env \cup DOMAIN file) -> Default(k)
      [] OTHER -> ""

-----------------------------------------------------------------------------
(* ResolveTLS                                                              *)

IsSet(v) == v # ""

\* cmp.Or of two values.
Or(a, b) == IF IsSet(a) THEN a ELSE b

Normalize(t) == [t EXCEPT !.enabled = Or(@, "false")]

\* Variant with a fault: the parent's values are preferred.
InheritFromParentFirst(child, parent) == [f \in TLSFields |-> Or(parent[f], child[f])]

\* Field by field, the service's value where it is set.
InheritFrom(child, parent) == [f \in TLSFields |-> Or(child[f], parent[f])]

IsEnabled(t) == t.enabled = "true"

\* The configuration of service s after Load: its endpoint and its resolved TLS section.
ServiceConfig(env, file, s) ==
    LET parent == Normalize([f \in TLSFields |-> Value(env, file, <<"tls", f>>)])
        own    == [f \in TLSFields |-> Value(env, file, <<s, "tls", f>>)]
    IN [address           |-> Value(env, file, <<s, "address">>),
        connectionTimeout |-> Value(env, file, <<s, "connectionTimeout">>),
        tls               |-> Normalize(InheritFrom(own, parent))]

-----------------------------------------------------------------------------
(* Validate and createSecOpts.  disk[path] is what the file holds, "" if    *)
(* there is none; a certificate and a key match if they hold the same pair. *)

Exists(disk, path) == IsSet(path) /\ IsSet(disk[path])

\* Variant with a fault: without a complete pair there is no mutual TLS to check.
ValidateTLSCompleteOnly(t, disk) ==
    ~IsEnabled(t) \/
        /\ Exists(disk, t.rootCerts)
        /\ (IsSet(t.clientCert) /\ IsSet(t.clientKey)) =>
              /\ Exists(disk, t.clientCert)
              /\ Exists(disk, t.clientKey)
              /\ disk[t.clientCert] = disk[t.clientKey]

\* Variant with a fault: the root certificates are asked for, not looked for.
ValidateTLSNoRootFile(t, disk) ==
    ~IsEnabled(t) \/
        /\ IsSet(t.rootCerts)
        /\ (IsSet(t.clientCert) \/ IsSet(t.clientKey)) =>
              /\ Exists(disk, t.clientCert)
              /\ Exists(disk, t.clientKey)
              /\ disk[t.clientCert] = disk[t.clientKey]

\* TLS needs root certificates; a client certificate or key needs the other.
ValidateTLS(t, disk) ==
    ~IsEnabled(t) \/
        /\ Exists(disk, t.rootCerts)
        /\ (IsSet(t.clientCert) \/ IsSet(t.clientKey)) =>
              /\ Exists(disk, t.clientCert)
              /\ Exists(disk, t.clientKey)
              /\ disk[t.clientCert] = disk[t.clientKey]

\* Variant with a fault: the address is not looked at.
ValidateNoAddress(cfg, disk) == cfg.connectionTimeout # "0s" /\ ValidateTLS(cfg.tls, disk)

Validate(cfg, disk) ==
    /\ IsSet(cfg.address)
    /\ cfg.connectionTimeout # "0s"
    /\ ValidateTLS(cfg.tls, disk)

\* Both client credentials are there; one without the other is ignored.
HasClientPair(t) == IsSet(t.clientCert) /\ IsSet(t.clientKey)

\* How the connection is protected.
Mode(t) ==
    CASE ~IsEnabled(t) -> "plain"
      [] IsEnabled(t) /\ ~HasClientPair(t) -> "server"
      [] IsEnabled(t) /\ HasClientPair(t) -> "mutual"

\* The files createSecOpts reads are there, and the pair that dialling parses matches.
Dials(t, disk) ==
    /\ Mode(t) # "plain" => Exists(disk, t.rootCerts)
    /\ Mode(t) = "mutual" => /\ Exists(disk, t.clientCert)
                             /\ Exists(disk, t.clientKey)
                             /\ disk[t.clientCert] = disk[t.clientKey]

=============================================================================
