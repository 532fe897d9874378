----------------------------- MODULE ConfigTools -----------------------------
(***************************************************************************)
(* Runs of configtxlator and configtxgen over shared files.  configtxlator *)
(* translates: it opens its files while the command line is parsed, reads, *)
(* computes and writes.  configtxgen generates: it loads profiles and goes *)
(* through its outputs and inspections in a fixed order.                   *)
(*                                                                         *)
(* Standard input and output, the REST server and -printOrg are left out.  *)
(*                                                                         *)
(* A run is a process and a sequence of steps (Program), the last of which *)
(* is that main returns; any of them may fail, which ends the run with an  *)
(* exit code that is not 0, and it may be killed before or after any.      *)
(***************************************************************************)
EXTENDS Naturals, SequencesExt

CONSTANTS
    Runs,         \* processes, each runs one command
    Menu,         \* Menu[r]: the command lines that r may have
    Files,        \* file names
    Initial,      \* what the files hold at first
    Configs,      \* channel configurations
    Profiles      \* the profiles of configtx.yaml

\* What a file holds: nothing yet, no bytes, a JSON document, a protobuf message, or
\* bytes that do not parse (cut short, or of two writers).
Absent == [form |-> "absent"]
Empty  == [form |-> "empty"]
Torn   == [form |-> "torn"]
Json(of) == [form |-> "json", of |-> of]

NoFields   == <<"no fields">>
SomeFields == <<"some fields">>

\* A message without fields has no bytes.
Message(of) == IF of = NoFields THEN Empty ELSE [form |-> "message", of |-> of]

\* Parts of one message, or of two, that parse nevertheless: fields are missing.
Fragment == Message(SomeFields)

Config(c)                 == <<"config", c>>
Update(original, updated) == <<"update", original, updated>>
Block(profile)            == <<"block", profile>>
ChannelTx(profile, base)  == <<"channel tx", profile, base>>

Contents ==
    LET messages ==
            {SomeFields} \cup {Config(c) : c \in Configs} \cup {Block(p) : p \in Profiles}
            \cup {Update(Config(c[1]), Config(c[2])) : c \in Configs \X Configs}
            \cup {ChannelTx(c[1], c[2]) : c \in Profiles \X (Profiles \cup {""})}
    IN {Absent, Empty, Torn, Json(NoFields)} \cup {Json(m) : m \in messages}
       \cup {Message(m) : m \in messages}

ASSUME InitialAssumption == Initial \in [Files -> Contents]

\* Command lines.  "" is the file of a flag that is not given; order is that of the flags
\* with files on the command line; type is what is said of --type, or of --channel_id.
Flags == {"input", "original", "updated", "output"}

Translations ==
    [tool : {"configtxlator"}, command : {"proto_encode", "proto_decode", "compute_update"},
     file : [Flags -> Files \cup {""}], order : Seq(Flags),
     type : {"missing", "unknown", "known"}]

Generations ==
    [tool : {"configtxgen"}, channelID : BOOLEAN, profile : STRING,
     channelCreateTxBaseProfile : STRING,
     outputBlock : Files \cup {""}, outputCreateChannelTx : Files \cup {""},
     inspectBlock : Files \cup {""}, inspectChannelCreateTx : Files \cup {""}]

ASSUME MenuAssumption == \A r \in Runs : Menu[r] \subseteq Translations \cup Generations

\* Standard input and output, which --input and --output have by default, are left out;
\* --original and --updated may be missing.
ASSUME FlagsAssumption ==
    \A r \in Runs : \A c \in Menu[r] \cap Translations :
        /\ ToSet(c.order) = {f \in Flags : c.file[f] # ""}
        /\ c.file["output"] # ""
        /\ c.command # "compute_update" => c.file["input"] # ""

VARIABLES
    files,        \* what each file holds
    cmd,          \* the command line of each run, None before
    rest,         \* the steps it has still to take
    got,          \* what it has read, in this order
    outcome,      \* idle, running, ok (exit code 0), failed (another, or killed)
    opened,       \* history: the files it has opened for writing
    held,         \* history: what each file has held since it began
    disturbed     \* history: the files that others changed while it ran

vars == <<files, cmd, rest, got, outcome, opened, held, disturbed>>

None == [tool |-> "none"]

Do(what, of) == [do |-> what, of |-> of]
Put(file, content) == [do |-> "write", of |-> file, content |-> content]

-----------------------------------------------------------------------------
(* configtxlator                                                           *)

\* No content: the error of a translation, and what configtxlator has yet to compute.
Undone == [form |-> "none"]
ToBeComputed == Undone

Output(c) == c.file["output"]

\* Variant with a fault: the inputs are opened the way the output is.
ParseStepsTruncateAll(c) == [i \in DOMAIN c.order |-> Do("truncate", c.file[c.order[i]])]

\* The parser opens a file as soon as it meets its flag, inputs and output alike;
\* --output creates and truncates.
ParseSteps(c) ==
    [i \in DOMAIN c.order |->
        Do(IF c.order[i] = "output" THEN "truncate" ELSE "open", c.file[c.order[i]])]

\* Variant with a fault: the inputs of compute_update are taken the other way round.
InputsSwapped(c) ==
    IF c.command = "compute_update" THEN <<"updated", "original">> ELSE <<"input">>

\* The inputs as they are read: compute_update begins with the original.
Inputs(c) == IF c.command = "compute_update" THEN <<"original", "updated">> ELSE <<"input">>

ReadSteps(c) == [i \in DOMAIN Inputs(c) |-> Do("read", c.file[Inputs(c)[i]])]

\* Variant with a fault: the output is opened when there is something to write.
TranslationStepsOpenLate(c) ==
    SelectSeq(ParseSteps(c), LAMBDA s : s.do = "open")
        \o <<Do("require", c.type)>> \o ReadSteps(c)
        \o <<Do("truncate", Output(c)), Put(Output(c), ToBeComputed)>>

TranslationSteps(c) ==
    ParseSteps(c) \o <<Do("require", c.type)>> \o ReadSteps(c)
        \o <<Put(Output(c), ToBeComputed)>>

\* encodeProto: a document of no bytes is no JSON.
EncodeProto(input) == IF input.form = "json" THEN Message(input.of) ELSE Undone

\* decodeProto: no bytes are a message without fields; torn ones hardly parse.
DecodeProto(input) ==
    CASE input.form = "message" -> Json(input.of)
      [] input = Empty -> Json(NoFields)
      [] OTHER -> Undone

\* computeUpdt: both must be whole configurations, and they must differ; one that is
\* cut short has lost its channel group.
ComputeUpdt(original, updated) ==
    IF /\ {original, updated} \subseteq {Message(Config(c)) : c \in Configs}
       /\ original # updated
    THEN Message(Update(original.of, updated.of)) ELSE Undone

\* What a run of configtxlator makes of the contents of its inputs.
Translation(c, inputs) ==
    CASE c.command = "proto_encode" -> EncodeProto(inputs[1])
      [] c.command = "proto_decode" -> DecodeProto(inputs[1])
      [] c.command = "compute_update" -> ComputeUpdt(inputs[1], inputs[2])

-----------------------------------------------------------------------------
(* configtxgen                                                             *)

\* A file is written, if the flag is given, in the two steps of os.WriteFile.
WriteFile(file, content) ==
    IF file = "" THEN <<>> ELSE <<Do("truncate", file), Put(file, content)>>

\* One step, if the flag is given.
If(what, flag) == IF flag = "" THEN <<>> ELSE <<Do(what, flag)>>

Generates(c) == c.outputBlock # "" \/ c.outputCreateChannelTx # ""

\* The profile that is generated from, and the one of the channel transaction.
LoadProfile(c)     == IF Generates(c) THEN <<Do("load", c.profile)>> ELSE <<>>
LoadBaseProfile(c) == If("load", c.channelCreateTxBaseProfile)

OutputBlock(c) == WriteFile(c.outputBlock, Message(Block(c.profile)))
OutputChannelTx(c) ==
    WriteFile(c.outputCreateChannelTx,
              Message(ChannelTx(c.profile, c.channelCreateTxBaseProfile)))

Inspections(c) ==
    If("inspectBlock", c.inspectBlock) \o If("inspectChannelTx", c.inspectChannelCreateTx)

\* A channel ID is required to generate anything.
RequireChannelID(c) ==
    <<Do("require", IF Generates(c) /\ ~c.channelID THEN "missing" ELSE "known")>>

\* Variant with a fault: the base profile is loaded where it is needed.
GenerationStepsLoadLate(c) ==
    RequireChannelID(c) \o LoadProfile(c)
        \o OutputBlock(c) \o LoadBaseProfile(c) \o OutputChannelTx(c) \o Inspections(c)

\* The order of main.
GenerationSteps(c) ==
    RequireChannelID(c) \o LoadProfile(c) \o LoadBaseProfile(c)
        \o OutputBlock(c) \o OutputChannelTx(c) \o Inspections(c)

\* What a run goes through; at last main returns.
Program(c) ==
    (IF c.tool = "configtxgen" THEN GenerationSteps(c) ELSE TranslationSteps(c))
        \o <<Do("return", "")>>

-----------------------------------------------------------------------------
Init ==
    /\ files = Initial
    /\ cmd = [r \in Runs |-> None]
    /\ rest = [r \in Runs |-> <<>>]
    /\ got = [r \in Runs |-> <<>>]
    /\ outcome = [r \in Runs |-> "idle"]
    /\ opened = [r \in Runs |-> {}]
    /\ held = [r \in Runs |-> [f \in Files |-> {}]]
    /\ disturbed = [r \in Runs |-> {}]

Running(r) == outcome[r] = "running"

At(r, what) == Running(r) /\ rest[r][1].do = what

\* The file, the profile or the flag that the step is about.
Of(r) == rest[r][1].of

\* The step is done; the last one ends the run with exit code 0.
Advance(r) ==
    /\ rest' = [rest EXCEPT ![r] = Tail(@)]
    /\ outcome' = [outcome EXCEPT ![r] = IF Len(rest[r]) = 1 THEN "ok" ELSE @]

\* Exit code 1, of app.Fatalf, logger.Fatalf or a panic of Load that main recovers and
\* knows, or 2, of one that it raises again.
Abort(r) ==
    /\ outcome' = [outcome EXCEPT ![r] = "failed"]
    /\ UNCHANGED rest

\* Run r changes a file, under the hands of the others that are running.
Change(r, f, content) ==
    /\ files' = [files EXCEPT ![f] = content]
    /\ held' = [q \in Runs |-> IF Running(q)
                                THEN [held[q] EXCEPT ![f] = @ \cup {content}]
                                ELSE held[q]]
    /\ disturbed' = [q \in Runs |-> IF q # r /\ Running(q) THEN disturbed[q] \cup {f}
                                                            ELSE disturbed[q]]

Start(r, c) ==
    /\ outcome[r] = "idle"
    /\ outcome' = [outcome EXCEPT ![r] = "running"]
    /\ cmd' = [cmd EXCEPT ![r] = c]
    /\ rest' = [rest EXCEPT ![r] = Program(c)]
    /\ held' = [held EXCEPT ![r] = [f \in Files |-> {files[f]}]]
    /\ UNCHANGED <<files, got, opened, disturbed>>

\* An input that is missing ends the parsing, whatever was opened before.
Open(r) ==
    /\ At(r, "open")
    /\ IF files[Of(r)] # Absent THEN Advance(r) ELSE Abort(r)
    /\ UNCHANGED <<files, cmd, got, opened, held, disturbed>>

\* Variant with a fault: an output that exists is opened as it is.
TruncateNothing(r) ==
    /\ At(r, "truncate")
    /\ Advance(r)
    /\ Change(r, Of(r), IF files[Of(r)] = Absent THEN Empty ELSE files[Of(r)])
    /\ opened' = [opened EXCEPT ![r] = @ \cup {Of(r)}]
    /\ UNCHANGED <<cmd, got>>

Truncate(r) ==
    /\ At(r, "truncate")
    /\ Advance(r)
    /\ Change(r, Of(r), Empty)
    /\ opened' = [opened EXCEPT ![r] = @ \cup {Of(r)}]
    /\ UNCHANGED <<cmd, got>>

\* Required flags are looked for when all values are set, so after the files are
\* open; the type is looked up after that.
Require(r) ==
    /\ At(r, "require")
    /\ IF Of(r) = "known" THEN Advance(r) ELSE Abort(r)
    /\ UNCHANGED <<files, cmd, got, opened, held, disturbed>>

\* configtxgen.Load panics if configtx.yaml does not have the profile.
Load(r) ==
    /\ At(r, "load")
    /\ IF Of(r) \in Profiles THEN Advance(r) ELSE Abort(r)
    /\ UNCHANGED <<files, cmd, got, opened, held, disturbed>>

\* An input that was not given cannot be read.
Read(r) ==
    /\ At(r, "read")
    /\ IF Of(r) # ""
       THEN Advance(r) /\ got' = [got EXCEPT ![r] = Append(@, files[Of(r)])]
       ELSE Abort(r) /\ UNCHANGED got
    /\ UNCHANGED <<files, cmd, opened, held, disturbed>>

\* DoInspectBlock, DoInspectChannelCreateTx: the file is printed.  What has no fields, or
\* lacks some, may be printed or refused.
Inspect(r, what, kind) ==
    /\ At(r, what)
    /\ LET content == files[Of(r)]
           right == content.form = "message" /\ content.of[1] = kind
       IN \/ (right \/ content \in {Empty, Fragment}) /\ Advance(r)
          \/ ~right /\ Abort(r)
    /\ UNCHANGED <<files, cmd, got, opened, held, disturbed>>

\* What may be there of a document when its writing breaks off: JSON that is all there
\* but for its last newline, and a message that is cut between two fields, parse.
Beginnings(content) ==
    CASE content = Empty -> {Empty}
      [] content.form = "json" -> {Empty, Torn, content}
      [] content.form = "message" -> {Empty, Torn, Fragment, content}

\* What is written over other bytes, from the first on, leaves what is longer.
Overlay(old, new) ==
    CASE new = Empty -> {old}
      [] new # Empty /\ (old = Empty \/ (old = new /\ new.of # SomeFields)) -> {new}
      [] OTHER -> Beginnings(new) \ {Empty}

\* What the run has to write.
Result(r) ==
    IF cmd[r].tool = "configtxlator" THEN Translation(cmd[r], got[r]) ELSE rest[r][1].content

\* The result is computed and written, or there is none.
Write(r) ==
    /\ At(r, "write")
    /\ IF Result(r) # Undone
       THEN /\ Advance(r)
            /\ \E content \in Overlay(files[Of(r)], Result(r)) : Change(r, Of(r), content)
       ELSE Abort(r) /\ UNCHANGED <<files, held, disturbed>>
    /\ UNCHANGED <<cmd, got, opened>>

\* The disk is full, or the process dies, before the write, in it, or at its end.
WriteBreaks(r) ==
    /\ At(r, "write")
    /\ Result(r) # Undone
    /\ Abort(r)
    /\ \E content \in {files[Of(r)]} \cup (Beginnings(Result(r)) \ {Empty}) :
          Change(r, Of(r), content)
    /\ UNCHANGED <<cmd, got, opened>>

\* main returns, the deferred Close of the files included: exit code 0.
Return(r) ==
    /\ At(r, "return")
    /\ Advance(r)
    /\ UNCHANGED <<files, cmd, got, opened, held, disturbed>>

\* Every other error, and a signal, be it after the write: nobody cleans up.
Stop(r) ==
    /\ Running(r)
    /\ Abort(r)
    /\ UNCHANGED <<files, cmd, got, opened, held, disturbed>>

Next ==
    \E r \in Runs :
        \/ \E c \in Menu[r] : Start(r, c)
        \/ Open(r) \/ Truncate(r) \/ Require(r) \/ Load(r) \/ Read(r)
        \/ Inspect(r, "inspectBlock", "block")
        \/ Inspect(r, "inspectChannelTx", "channel tx")
        \/ Write(r) \/ WriteBreaks(r) \/ Return(r) \/ Stop(r)

Spec == Init /\ [][Next]_vars

-----------------------------------------------------------------------------
(* Properties                                                              *)

\* The files that a command line allows to be written.
Outputs(c) ==
    CASE c.tool = "configtxgen" -> {c.outputBlock, c.outputCreateChannelTx} \ {""}
      [] c.tool = "configtxlator" -> {Output(c)}
      [] OTHER -> {}

\* Type invariant; a run has opened nothing for writing but the outputs of its command
\* line (configtxlator/main.go:56, 61, 67; the inputs are opened for reading), which are
\* there from then on, and has steps left as long as it runs.
TypeOK ==
    /\ files \in [Files -> Contents]
    /\ outcome \in [Runs -> {"idle", "running", "ok", "failed"}]
    /\ \A r \in Runs :
          /\ cmd[r] \in Menu[r] \cup {None}
          /\ ToSet(got[r]) \subseteq Contents
          /\ held[r] \in [Files -> SUBSET Contents]
          /\ disturbed[r] \subseteq Files
          /\ Running(r) <=> cmd[r] # None /\ outcome[r] \notin {"ok", "failed"}
          /\ Running(r) => rest[r] # <<>>
          /\ opened[r] \subseteq Outputs(cmd[r])
          /\ \A f \in opened[r] : files[f] # Absent

Translates(r) == cmd[r].tool = "configtxlator"

Sources(c) == {c.file[f] : f \in ToSet(Inputs(c))}

\* Nobody else has written to the output of the run while it ran.
OutputIsOurs(r) == Output(cmd[r]) \notin disturbed[r]

\* What a reader may have found in the file of a flag while the run went on.
Seen(r, flag) ==
    IF cmd[r].file[flag] = "" THEN {} ELSE held[r][cmd[r].file[flag]]

\* The help texts of the commands: what may become of what the inputs held.
Results(r) ==
    (CASE cmd[r].command = "proto_encode" -> {EncodeProto(d) : d \in Seen(r, "input")}
       [] cmd[r].command = "proto_decode" -> {DecodeProto(d) : d \in Seen(r, "input")}
       [] cmd[r].command = "compute_update" ->
             {ComputeUpdt(d[1], d[2]) : d \in Seen(r, "original") \X Seen(r, "updated")})
    \ {Undone}

Succeeds(r) == Running(r) /\ outcome'[r] = "ok"
Fails(r)    == Running(r) /\ outcome'[r] = "failed"

\* A run of configtxlator that exits 0 leaves in its output the translation of contents
\* that its inputs had while it ran, whoever rewrites them meanwhile, in the order of
\* their flags' meaning and not of the command line (configtxlator/main.go:198-221), unless
\* another run writes to the same output.
TranslatesItsInputs ==
    [][\A r \in Runs :
          Translates(r) /\ Succeeds(r) /\ OutputIsOurs(r)
          => files'[Output(cmd[r])] \in Results(r)]_vars

\* The output is truncated before anything is read, at the parsing of the command line
\* (configtxlator/main.go:56, 61, 67).  A run that is to write over its own input therefore never
\* exits 0 with something that looks like a result: it fails, or says that the message
\* has no fields.
InPlaceYieldsNothing ==
    [][\A r \in Runs :
          /\ Translates(r) /\ Succeeds(r) /\ OutputIsOurs(r)
          /\ Output(cmd[r]) \in Sources(cmd[r])
          => files'[Output(cmd[r])] = Json(NoFields)]_vars

\* A run of configtxlator that fails after it has opened its output, at whatever step, be
\* it a kill between the write (configtxlator/main.go:159, 190, 236) and the return of main
\* (83-107), leaves no older document there which a script that goes on could take for
\* the result: what is there is nothing, or a beginning of a translation of what the
\* inputs held meanwhile, or all of it.
FailureLeavesNothingStale ==
    [][\A r \in Runs :
          Translates(r) /\ Fails(r) /\ OutputIsOurs(r) =>
              \A f \in opened[r] :
                  files'[f] \in {Empty} \cup UNION {Beginnings(d) : d \in Results(r)}]_vars

\* configtxgen touches no file before it has the channel ID, the profile and the base
\* profile (configtxgen/main.go:50, 85-107): a command line that is refused leaves
\* earlier artifacts as they were.
NothingWrittenUnlessLoaded ==
    \A r \in Runs :
        cmd[r].tool = "configtxgen" /\ opened[r] # {} =>
            /\ cmd[r].channelID
            /\ cmd[r].profile \in Profiles
            /\ cmd[r].channelCreateTxBaseProfile \in Profiles \cup {""}

=============================================================================
