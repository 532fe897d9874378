-------------------------- MODULE ClientSetupProofs --------------------------
(***************************************************************************)
(* How a client is protected, for any services, configuration sources and  *)
(* certificate files.                                                      *)
(***************************************************************************)
EXTENDS ClientSetup, TLAPS

\* Providers work on what Load made of the sources; a provider gets beyond validation
\* only with a section that was valid on the disk it saw; and a client is protected as
\* that section says.
SetupInv ==
    /\ input \in Inputs
    /\ DOMAIN provider = Services
    /\ client \in [Services -> {"none", "plain", "server", "mutual"}]
    /\ DOMAIN config = Services
    /\ DOMAIN seen = Services
    /\ phase # "running" => provider = [s \in Services |-> "new"]
    /\ phase = "running" => config = [s \in Services |-> ServiceConfig(input.env, File.keys, s)]
    /\ phase \in {"starting", "running", "failed"}
    /\ phase = "running" => ~LoadFails(input.user, input.project, input.explicit)
    /\ phase # "running" => config = [s \in Services |-> Unloaded]
    /\ provider \in [Services -> {"new", "validated", "ready", "failed"}]
    /\ DOMAIN disk = Paths
    /\ changes \in 0..MaxChanges
    /\ \A s \in Services :
          /\ provider[s] \in {"validated", "ready"} => Validate(config[s], seen[s])
          /\ provider[s] = "ready" => client[s] = Mode(config[s].tls)
          /\ provider[s] # "ready" => client[s] = "none"

LEMMA SetupInvInit == Init => SetupInv
BY DiskAssumption DEF Init, SetupInv

LEMMA SetupInvStep == SetupInv /\ [Next]_vars => SetupInv'
<1> SUFFICES ASSUME SetupInv, [Next]_vars PROVE SetupInv'
  OBVIOUS
<1> USE DEF SetupInv
<1>1. CASE Load
  BY <1>1 DEF Load, File
<1>2. CASE FailToLoad
  BY <1>2 DEF FailToLoad, File
<1>3. ASSUME NEW s \in Services, GetValidates(s) PROVE SetupInv'
  BY <1>3 DEF GetValidates, File
<1>4. ASSUME NEW s \in Services, GetCreates(s) PROVE SetupInv'
  BY <1>4 DEF GetCreates, File, Mode
<1>5. ASSUME NEW path \in Paths, FileChanges(path) PROVE SetupInv'
  <2>1. changes' \in 0..MaxChanges
    <3>1. changes \in 0..MaxChanges /\ changes < MaxChanges /\ changes' = changes + 1
      BY <1>5 DEF FileChanges
    <3> HIDE DEF SetupInv
    <3> QED
      BY <3>1, DiskAssumption
  <2>2. DOMAIN disk' = Paths
    BY <1>5 DEF FileChanges
  <2> QED
    BY <1>5, <2>1, <2>2 DEF FileChanges, File
<1>6. CASE UNCHANGED vars
  BY <1>6 DEF vars, File
<1> QED
  BY <1>1, <1>2, <1>3, <1>4, <1>5, <1>6 DEF Next

\* Validation refuses half a client pair where TLS is on, so the mode "server" means
\* that no client credential is configured.
LEMMA ValidPairIsWhole ==
    ASSUME NEW cfg, NEW d, Validate(cfg, d), Mode(cfg.tls) = "server"
    PROVE  cfg.tls.clientCert = "" /\ cfg.tls.clientKey = ""
BY DEF Validate, ValidateTLS, Mode, HasClientPair, Exists, IsSet

\* A client whose section names a certificate or a key uses both: createSecOpts never
\* ignores half a pair.
THEOREM ClientsUseTheirCredentials == Spec => []CredentialsNeverIgnored
<1>1. SetupInv => CredentialsNeverIgnored
  BY ValidPairIsWhole DEF SetupInv, CredentialsNeverIgnored
<1> QED
  BY SetupInvInit, SetupInvStep, <1>1, PTL DEF Spec

\* What validation accepts on a disk can be dialled with on that disk.
LEMMA ValidDials ==
    ASSUME NEW cfg, NEW d, Validate(cfg, d)
    PROVE  Dials(cfg.tls, d)
<1>1. CASE ~IsEnabled(cfg.tls)
  BY <1>1 DEF Dials, Mode
<1>2. CASE IsEnabled(cfg.tls)
  BY <1>2 DEF Validate, ValidateTLS, Dials, Mode, HasClientPair
<1> QED
  BY <1>1, <1>2

\* What passed validation can be used as long as the files stay as they were.
THEOREM ValidatedCanBeUsed == Spec => []ValidatedIsUsable
<1>1. SetupInv => ValidatedIsUsable
  BY ValidDials DEF SetupInv, ValidatedIsUsable
<1> QED
  BY SetupInvInit, SetupInvStep, <1>1, PTL DEF Spec

\* The sources a process reads state no empty value.
Stating(source) == \A k \in DOMAIN source : source[k] # ""

LEMMA SourcesState ==
    ASSUME input \in Inputs
    PROVE  Stating(input.env) /\ Stating(File.keys)
BY InputsAssumption DEF Stating, File, FileUsed

\* A TLS key of a service is no registered key.
LEMMA ServiceKeyUnregistered ==
    ASSUME NEW s \in Services
    PROVE  <<s, "tls", "enabled">> \notin Registered
BY DEF Registered, TLSFields, ServiceFields

\* The switch of a service's own section: the environment's only where the file has one.
LEMMA OwnSwitch ==
    ASSUME NEW s \in Services, NEW env, NEW file, Stating(env), Stating(file)
    PROVE  Value(env, file, <<s, "tls", "enabled">>) =
             IF <<s, "tls", "enabled">> \in DOMAIN file
             THEN Or(StatedIn(env, <<s, "tls", "enabled">>), StatedIn(file, <<s, "tls", "enabled">>))
             ELSE ""
<1> DEFINE k == <<s, "tls", "enabled">>
<1>1. k \notin Registered
  BY ServiceKeyUnregistered
<1>2. CASE k \in DOMAIN env /\ k \in DOMAIN file
  BY <1>1, <1>2 DEF Value, Or, StatedIn, IsSet, Stating
<1>3. CASE k \notin DOMAIN env /\ k \in DOMAIN file
  BY <1>1, <1>3 DEF Value, Or, StatedIn, IsSet, Stating
<1>4. CASE k \notin DOMAIN file
  BY <1>1, <1>4 DEF Value
<1> QED
  BY <1>2, <1>3, <1>4

\* The common switch, which is off by default.
LEMMA CommonSwitch ==
    ASSUME NEW env, NEW file, Stating(env), Stating(file)
    PROVE  Value(env, file, <<"tls", "enabled">>) =
             Or(Or(StatedIn(env, <<"tls", "enabled">>), StatedIn(file, <<"tls", "enabled">>)),
                "false")
<1> DEFINE k == <<"tls", "enabled">>
<1>1. k \in Registered
  BY DEF Registered, TLSFields
<1>2. Default(k) = "false"
  BY DEF Default
<1>3. CASE k \in DOMAIN env
  BY <1>1, <1>3 DEF Value, Or, StatedIn, IsSet, Stating
<1>4. CASE k \notin DOMAIN env /\ k \in DOMAIN file
  BY <1>1, <1>4 DEF Value, Or, StatedIn, IsSet, Stating
<1>5. CASE k \notin DOMAIN env /\ k \notin DOMAIN file
  BY <1>1, <1>2, <1>5 DEF Value, Or, StatedIn, IsSet
<1> QED
  BY <1>3, <1>4, <1>5

\* The resolved switch of a service is what its sources state.
LEMMA ResolvedSwitch ==
    ASSUME input \in Inputs, NEW s \in Services
    PROVE  IsEnabled(ServiceConfig(input.env, File.keys, s).tls) <=> SwitchedOn(s)
<1> DEFINE env == input.env
           file == File.keys
           ownSwitch == Value(env, file, <<s, "tls", "enabled">>)
           commonSwitch == Value(env, file, <<"tls", "enabled">>)
<1>1. ServiceConfig(env, file, s).tls.enabled =
         Or(Or(ownSwitch, Or(commonSwitch, "false")), "false")
  BY DEF ServiceConfig, Normalize, InheritFrom, TLSFields
<1>2. Stating(env) /\ Stating(file)
  BY SourcesState
<1>3. commonSwitch = Or(Or(StatedIn(env, <<"tls", "enabled">>),
                           StatedIn(file, <<"tls", "enabled">>)), "false")
  BY <1>2, CommonSwitch
<1>4. ownSwitch = IF <<s, "tls", "enabled">> \in DOMAIN file
                  THEN Or(StatedIn(env, <<s, "tls", "enabled">>),
                          StatedIn(file, <<s, "tls", "enabled">>))
                  ELSE ""
  BY <1>2, OwnSwitch
<1> QED
  BY <1>1, <1>3, <1>4 DEF IsEnabled, SwitchedOn, Or, IsSet

\* A connection is unprotected exactly if TLS is not switched on for its service.
THEOREM ClientsEncryptAsSwitched == Spec => []EncryptedAsSwitched
<1>1. SetupInv => EncryptedAsSwitched
  <2> SUFFICES ASSUME SetupInv, NEW s \in Services, provider[s] = "ready"
               PROVE  client[s] = "plain" <=> ~SwitchedOn(s)
    BY DEF EncryptedAsSwitched
  <2>1. phase = "running" /\ input \in Inputs
    BY DEF SetupInv
  <2>2. config[s] = ServiceConfig(input.env, File.keys, s)
    BY <2>1 DEF SetupInv
  <2>3. client[s] = "plain" <=> ~IsEnabled(config[s].tls)
    BY DEF SetupInv, Mode
  <2> QED
    BY <2>1, <2>2, <2>3, ResolvedSwitch
<1> QED
  BY SetupInvInit, SetupInvStep, <1>1, PTL DEF Spec

\* A switch resolves to a boolean, whatever its sources leave out.
LEMMA SwitchResolves ==
    ASSUME input \in Inputs, NEW s \in Services
    PROVE  ServiceConfig(input.env, File.keys, s).tls.enabled \in {"true", "false"}
<1> DEFINE env == input.env
           file == File.keys
           ownSwitch == Value(env, file, <<s, "tls", "enabled">>)
           commonSwitch == Value(env, file, <<"tls", "enabled">>)
<1>1. ServiceConfig(env, file, s).tls.enabled =
         Or(Or(ownSwitch, Or(commonSwitch, "false")), "false")
  BY DEF ServiceConfig, Normalize, InheritFrom, TLSFields
<1>2. \A source \in {env, file} : \A k \in DOMAIN source :
         IsSwitch(k) => source[k] \in {"true", "false"}
  BY SwitchAssumption DEF File, FileUsed
<1>3. ASSUME NEW k, IsSwitch(k) PROVE Value(env, file, k) \in {"true", "false", ""}
  <2>1. k \in DOMAIN env => env[k] \in {"true", "false"}
    BY <1>2, <1>3
  <2>2. k \in DOMAIN file => file[k] \in {"true", "false"}
    BY <1>2, <1>3
  <2>3. k \in Registered => Default(k) = "false"
    BY <1>3, ServiceKeyUnregistered DEF IsSwitch, Default
  <2> HIDE DEF env, file
  <2> QED
    BY <2>1, <2>2, <2>3 DEF Value
<1>4. IsSwitch(<<s, "tls", "enabled">>) /\ IsSwitch(<<"tls", "enabled">>)
  BY DEF IsSwitch
<1>5. /\ ownSwitch \in {"true", "false", ""}
      /\ commonSwitch \in {"true", "false", ""}
  BY <1>3, <1>4
<1> QED
  BY <1>1, <1>5 DEF Or, IsSet

\* The type invariant of the setup: among the rest, a client exists exactly where the
\* provider is ready, and only with an address and a timeout.
THEOREM TypeCorrect == Spec => []TypeOK
<1>1. SetupInv => TypeOK
  <2> SUFFICES ASSUME SetupInv, NEW s \in Services
               PROVE  /\ config[s].tls.enabled \in
                            (IF phase = "running" THEN {"true", "false"} ELSE {""})
                      /\ provider[s] # "new" => phase = "running"
                      /\ client[s] \in {"none", "plain", "server", "mutual"}
                      /\ client[s] # "none" <=> provider[s] = "ready"
                      /\ provider[s] = "ready" => /\ config[s].address # ""
                                                  /\ config[s].connectionTimeout # "0s"
    BY DEF SetupInv, TypeOK
  <2>1. config[s].tls.enabled \in (IF phase = "running" THEN {"true", "false"} ELSE {""})
    <3>1. CASE phase = "running"
      <4>1. config[s] = ServiceConfig(input.env, File.keys, s) /\ input \in Inputs
        BY <3>1 DEF SetupInv
      <4>2. config[s].tls.enabled \in {"true", "false"}
        BY <4>1, SwitchResolves
      <4> QED
        BY <3>1, <4>2
    <3>2. CASE phase # "running"
      <4>1. config[s] = Unloaded
        BY <3>2 DEF SetupInv
      <4>2. Unloaded.tls = [f \in TLSFields |-> ""] /\ "enabled" \in TLSFields
        BY DEF Unloaded, TLSFields
      <4>3. config[s].tls.enabled = ""
        BY <4>1, <4>2
      <4> QED
        BY <3>2, <4>3
    <3> QED
      BY <3>1, <3>2
  <2>2. Mode(config[s].tls) \in {"plain", "server", "mutual"}
    BY DEF Mode
  <2> QED
    BY <2>1, <2>2 DEF SetupInv, Validate, IsSet
<1> QED
  BY SetupInvInit, SetupInvStep, <1>1, PTL DEF Spec

\* With one file at most, the file that counts is that file: the order in which Load
\* reads the files does not show.
LEMMA OneFileCounts ==
    ASSUME input \in Inputs, ~LoadFails(input.user, input.project, input.explicit),
           NEW f \in {"user", "project", "explicit"}, FilesPresent \subseteq {f}
    PROVE  /\ \A g \in {"user", "project", "explicit"} : input[g].state = "ok" => g = f
           /\ input[f].state = "ok" => File = input[f]
           /\ input[f].state # "ok" => DOMAIN File.keys = {}
<1>1. \A g \in {"user", "project", "explicit"} : input[g].state = "ok" => g = f
  BY DEF FilesPresent
<1>2. /\ {input.user.state, input.project.state} \subseteq {"ok", "missing", "malformed"}
      /\ input.explicit.state \in {"ok", "missing", "malformed", "none"}
      /\ \A file \in {input.user, input.project, input.explicit} :
            file.state # "ok" => DOMAIN file.keys = {}
  BY FilesAssumption
<1>3. CASE input.explicit.state = "ok"
  BY <1>1, <1>2, <1>3 DEF File, FileUsed
<1>4. CASE input.explicit.state = "none"
  BY <1>1, <1>2, <1>4 DEF File, FileUsed, LoadFails
<1> QED
  BY <1>2, <1>3, <1>4 DEF LoadFails

\* With one file at most, every key that viper knows has the documented value.
THEOREM OneFileIsAsDocumented == Spec => []OneFileAsDocumented
<1>1. SetupInv => OneFileAsDocumented
  <2> SUFFICES ASSUME SetupInv, phase = "running",
                      NEW f \in {"user", "project", "explicit"}, FilesPresent \subseteq {f},
                      NEW k \in Registered \cup DOMAIN File.keys
               PROVE  Value(input.env, File.keys, k) = Documented(k)
    BY DEF OneFileAsDocumented
  <2> DEFINE env == input.env
             file == File.keys
             default == IF k \in Registered THEN Default(k) ELSE ""
             keysOf(g) == IF input[g].state = "ok" THEN input[g].keys ELSE [x \in {} |-> ""]
  <2>1. /\ \A g \in {"user", "project", "explicit"} : input[g].state = "ok" => g = f
        /\ input[f].state = "ok" => File = input[f]
        /\ input[f].state # "ok" => DOMAIN File.keys = {}
    BY OneFileCounts DEF SetupInv
  <2>2. Stating(env) /\ Stating(file)
    BY SourcesState DEF SetupInv
  <2>3. Documented(k) =
          Or(StatedIn(env, k),
          Or(StatedIn(keysOf("explicit"), k),
          Or(StatedIn(keysOf("project"), k),
          Or(StatedIn(keysOf("user"), k), default))))
    BY DEF Documented
  <2>4. \A g \in {"user", "project", "explicit"} :
           StatedIn(keysOf(g), k) = IF g = f THEN StatedIn(file, k) ELSE ""
    BY <2>1 DEF StatedIn
  <2>5. Documented(k) = Or(StatedIn(env, k), Or(StatedIn(file, k), default))
    BY <2>3, <2>4 DEF Or, IsSet
  <2>6. Value(env, file, k) = Or(StatedIn(env, k), Or(StatedIn(file, k), default))
    <3> HIDE DEF env
    <3>1. CASE k \in DOMAIN env
      BY <2>2, <3>1 DEF Value, StatedIn, Stating, Or, IsSet
    <3>2. CASE k \notin DOMAIN env /\ k \in DOMAIN file
      BY <2>2, <3>2 DEF Value, StatedIn, Stating, Or, IsSet
    <3>3. CASE k \notin DOMAIN env /\ k \notin DOMAIN file
      BY <3>3 DEF Value, StatedIn, Or, IsSet
    <3> QED
      BY <3>1, <3>2, <3>3
  <2> QED
    BY <2>5, <2>6
<1> QED
  BY SetupInvInit, SetupInvStep, <1>1, PTL DEF Spec

=============================================================================
