----------------------------- MODULE ClientSetup -----------------------------
(***************************************************************************)
(* One process of fxconfig from its start to its clients: the root command *)
(* loads the configuration, and the Provider of each service validates its *)
(* part and makes the client when it is first asked for.  The certificate  *)
(* files may be replaced or removed in between.                            *)
(***************************************************************************)
EXTENDS Configuration

CONSTANTS
    Inputs,       \* what can be on the machine: records [user, project, explicit, env],
                  \* each file [state, keys], env and keys functions of some Keys
    Paths,        \* certificate and key files
    Holds,        \* Holds[p]: what file p holds at first
    MaxChanges    \* bound: changes of certificate files

\* The keys whose value is a switch.
IsSwitch(k) == k = <<"tls", "enabled">> \/ \E s \in Services : k = <<s, "tls", "enabled">>

\* What is empty is not stated: an empty environment variable counts as unset.
ASSUME InputsAssumption ==
    \A i \in Inputs : \A source \in {i.env, i.user.keys, i.project.keys, i.explicit.keys} :
        \A k \in DOMAIN source : source[k] # ""

\* A file that is not there or does not parse has no keys; only --config can be left out.
ASSUME FilesAssumption ==
    \A i \in Inputs :
        /\ {i.user.state, i.project.state} \subseteq {"ok", "missing", "malformed"}
        /\ i.explicit.state \in {"ok", "missing", "malformed", "none"}
        /\ \A file \in {i.user, i.project, i.explicit} :
              file.state # "ok" => DOMAIN file.keys = {}

\* A switch is a boolean (config.go:63); a source that gives another value is not modelled.
ASSUME SwitchAssumption ==
    \A i \in Inputs : \A source \in {i.env, i.user.keys, i.project.keys, i.explicit.keys} :
        \A k \in DOMAIN source : IsSwitch(k) => source[k] \in {"true", "false"}

ASSUME DiskAssumption == DOMAIN Holds = Paths /\ MaxChanges \in Nat

VARIABLES
    input,        \* the sources of the configuration
    disk,         \* the certificate files
    changes,      \* counts the changes of disk
    phase,        \* starting, running, failed
    config,       \* the loaded configuration of each service
    provider,     \* per service: new, validated (inside once.Do), ready, failed
    seen,         \* history: the disk as validation saw it
    client        \* per service: how its connection is protected, "none" without one

vars == <<input, disk, changes, phase, config, provider, seen, client>>

Unloaded == [address |-> "", connectionTimeout |-> "", tls |-> [f \in TLSFields |-> ""]]

Init ==
    /\ input \in Inputs
    /\ disk = Holds
    /\ changes = 0
    /\ phase = "starting"
    /\ config = [s \in Services |-> Unloaded]
    /\ provider = [s \in Services |-> "new"]
    /\ seen = [s \in Services |-> Holds]
    /\ client = [s \in Services |-> "none"]

File == FileUsed(input.user, input.project, input.explicit)

\* PersistentPreRunE: config.Load.
Load ==
    /\ phase = "starting"
    /\ ~LoadFails(input.user, input.project, input.explicit)
    /\ phase' = "running"
    /\ config' = [s \in Services |-> ServiceConfig(input.env, File.keys, s)]
    /\ UNCHANGED <<input, disk, changes, provider, seen, client>>

FailToLoad ==
    /\ phase = "starting"
    /\ LoadFails(input.user, input.project, input.explicit)
    /\ phase' = "failed"
    /\ UNCHANGED <<input, disk, changes, config, provider, seen, client>>

\* Provider.Get of service s for the first time, inside once.Do: validation ...
GetValidates(s) ==
    /\ phase = "running"
    /\ provider[s] = "new"
    /\ provider' = [provider EXCEPT ![s] = IF Validate(config[s], disk)
                                           THEN "validated" ELSE "failed"]
    /\ seen' = [seen EXCEPT ![s] = disk]
    /\ UNCHANGED <<input, disk, changes, phase, config, client>>

\* ... and the factory.  Later calls of Get return what this one did.
GetCreates(s) ==
    /\ provider[s] = "validated"
    /\ IF Dials(config[s].tls, disk)
       THEN /\ provider' = [provider EXCEPT ![s] = "ready"]
            /\ client' = [client EXCEPT ![s] = Mode(config[s].tls)]
       ELSE /\ provider' = [provider EXCEPT ![s] = "failed"]
            /\ UNCHANGED client
    /\ UNCHANGED <<input, disk, changes, phase, config, seen>>

\* Somebody replaces a certificate file or removes it.
FileChanges(path) ==
    /\ changes < MaxChanges
    /\ changes' = changes + 1
    /\ \E content \in {"", "renewed"} : disk' = [disk EXCEPT ![path] = content]
    /\ UNCHANGED <<input, phase, config, provider, seen, client>>

Next ==
    \/ Load
    \/ FailToLoad
    \/ \E s \in Services : GetValidates(s) \/ GetCreates(s)
    \/ \E path \in Paths : FileChanges(path)

Spec == Init /\ [][Next]_vars

-----------------------------------------------------------------------------
(* Properties                                                              *)

\* Type invariant, with what is known of a service whose client was made.
TypeOK ==
    /\ input \in Inputs
    /\ DOMAIN disk = Paths
    /\ changes \in 0..MaxChanges
    /\ phase \in {"starting", "running", "failed"}
    /\ provider \in [Services -> {"new", "validated", "ready", "failed"}]
    /\ client \in [Services -> {"none", "plain", "server", "mutual"}]
    /\ \A s \in Services :
          /\ config[s].tls.enabled \in (IF phase = "running" THEN {"true", "false"} ELSE {""})
          /\ provider[s] # "new" => phase = "running"
          /\ client[s] # "none" <=> provider[s] = "ready"
          /\ provider[s] = "ready" => config[s].address # "" /\ config[s].connectionTimeout # "0s"

\* A key as a source states it, "" if it does not.
StatedIn(source, k) == IF k \in DOMAIN source THEN source[k] ELSE ""

\* Whether TLS is on for service s by what the sources state: the service's own
\* switch, then the common one, of the environment before the file; else off.  The
\* environment's word on the service's own switch counts only where the file has one
\* too (load.go:139).
SwitchedOn(s) ==
    LET own == IF <<s, "tls", "enabled">> \in DOMAIN File.keys
               THEN Or(StatedIn(input.env, <<s, "tls", "enabled">>),
                       StatedIn(File.keys, <<s, "tls", "enabled">>))
               ELSE ""
        common == Or(StatedIn(input.env, <<"tls", "enabled">>),
                     StatedIn(File.keys, <<"tls", "enabled">>))
    IN Or(own, common) = "true"

\* A connection is unprotected exactly if TLS is not switched on for its service
\* (config.go:72-112, client.go:42): no combination of sections, of missing values
\* and of files that come and go makes a client fall back to plain text.
EncryptedAsSwitched ==
    \A s \in Services : provider[s] = "ready" => (client[s] = "plain" <=> ~SwitchedOn(s))

\* A client whose section names a certificate or a key, of its own or inherited, uses
\* both: createSecOpts would do without them if it had one only (client.go:60-66), and
\* what it is given is what validation let through (validate.go:90-107).
CredentialsNeverIgnored ==
    \A s \in Services :
        client[s] = "server" => config[s].tls.clientCert = "" /\ config[s].tls.clientKey = ""

\* What passed validation can be used: the factory finds every file and a matching
\* pair, unless the files have changed since (validate.go:72-110, client.go:38-83).
ValidatedIsUsable ==
    \A s \in Services :
        provider[s] = "validated" /\ disk = seen[s] => Dials(config[s].tls, disk)

\* The precedence the documentation gives (docs/README.md:94-99, info.go:28-33):
\* the first of these sources that states a key decides.
Documented(k) ==
    LET keysOf(file) == IF file.state = "ok" THEN file.keys ELSE [x \in {} |-> ""]
        default == IF k \in Registered THEN Default(k) ELSE ""
    IN Or(StatedIn(input.env, k),
       Or(StatedIn(keysOf(input.explicit), k),
       Or(StatedIn(keysOf(input.project), k),
       Or(StatedIn(keysOf(input.user), k), default))))

\* The files there are.
FilesPresent == {f \in {"user", "project", "explicit"} : input[f].state = "ok"}

\* With one file at most, every key that viper knows has its documented value.  The
\* comment of Load (load.go:41-42) has the file of --config above the environment; the
\* documentation, load_test.go:186 and this property have it below.
OneFileAsDocumented ==
    phase = "running" /\ (\E f \in {"user", "project", "explicit"} : FilesPresent \subseteq {f}) =>
        \A k \in Registered \cup DOMAIN File.keys :
            Value(input.env, File.keys, k) = Documented(k)

\* "Configuration is loaded from multiple sources with the following precedence"
\* (docs/README.md:94), of an address and of the switch of a service's TLS section,
\* which the common one stands in for.
PrecedenceAsDocumented ==
    phase = "running" =>
        \A s \in Services :
            /\ config[s].address = Documented(<<s, "address">>)
            /\ config[s].tls.enabled = Or(Documented(<<s, "tls", "enabled">>),
                                         Documented(<<"tls", "enabled">>))

=============================================================================
