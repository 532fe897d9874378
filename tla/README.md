# A TLA+ model of the Fabric-X tools

The repository holds the command line tools of Fabric-X. `tools/fxconfig` has most
of the logic: it builds namespace transactions, collects the endorsements of several
organizations, submits the result to the ordering service and waits for the
committer's verdict. The network it talks to (query service, ordering service,
committer, sidecar) is the environment, modelled from the way the code uses it.
Of `configtxlator` and `configtxgen`, whose computations are libraries', what is
their own is modelled: when they open, truncate, read and write files and how they
exit. `cryptogen` and `fxadmin` call one library function per command and are left out.

Paths below are relative to `src/tools/fxconfig/internal/`, unless they begin with
the name of another tool.

## 1. Inventory

| Component | State | Operations | Used by |
|---|---|---|---|
| Notification client, `client/notifications.go` | map `subscribers`, one channel of capacity 1 per call, `streamErr`, two unbuffered queues, a context | `Subscribe`, `WaitForEvent`, `Close`; `listen` with a receiver, a sender and a dispatcher | `app/submit.go` |
| Transaction algebra, `transaction/*.go` | none (values) | `CreateNamespacesTx`, `ValidateVersion`, `Endorse`, `Merge` | `app/*.go` |
| Endorsement flow, `cli/v1/tx_endorse.go`, `tx_merge.go`, `cliio` | transaction files shared by administrators | create with `--output`, endorse, merge, `WriteOutput` | administrators, scripts |
| Deployment and submission, `app/{create,deploy,submit}.go`, `client/orderer.go`, `cli/v1/namespace*.go`, `tx_submit.go` | the transaction in hand, a subscription, an exit code | `namespace create`, `namespace update`, `tx submit`; `DeployNamespace`, `SubmitTransaction`, `SubmitTransactionWithWait`, `Broadcast` | users, scripts |
| Query client, `client/queries.go`, `app/list.go` | a connection | `GetConfigVersion`, `GetNamespacePolicies` | `create.go`, `namespace list` |
| Configuration, `config/*.go`, `validation` | one `Config` per process | `Load`, `ResolveTLS`, `InheritFrom`, `Validate` | root command, providers |
| Provider, `provider/provider.go` | `once`, the instance or its error | `Get`, `Validate` | `app` |
| Application operations, `app/*.go` | the four providers | `ListNamespaces`, `DeployNamespace`, `EndorseTransaction`, `SubmitTransaction`, `SubmitTransactionWithWait` | `cli/v1` |
| gRPC connections, `client/client.go` | TLS options from files | `newClientConn`, `createSecOpts` | clients |
| Endorsement policies, `app/policy.go`, `transaction/policy.go` | none; key files on disk | `Set`, `Validate`, `createPolicy` | `deploy.go`, `create.go` |
| MSP signer, `msp/signer.go` | an identity | `GetSignerIdentityFromMSP` | `endorse.go`, `submit.go` |
| `configtxlator/main.go` | files opened while the command line is parsed | `proto_encode`, `proto_decode`, `compute_update` | administrators, scripts |
| `configtxgen/main.go` | profiles, output files | generate a block or a channel transaction, inspect them | administrators, scripts |

How they meet: the root command loads the configuration and hands each service's
part to a provider; a command asks its providers for clients. `namespace create`
asks the query service for the config version, builds and perhaps endorses a
transaction, and writes it to a file or submits it. Files travel between
organizations, each runs `tx endorse`, somebody runs `tx merge` and `tx submit`.
With `--wait` the notification client is subscribed before the transaction is
broadcast and asked for the status afterwards. An operation closes each client it
got when it returns, although the provider keeps handing out the same one.
`configtxlator` and `configtxgen` meet each other, and themselves, in the files that a
script passes from one command to the next.

What is hard, and the property that makes each component correct:

- *Notification client* — real concurrency: calls, three goroutines, one lock, a
  non-blocking send outside the lock, rollback of a timed-out call, cleanup at the
  end. Correct if a waiting call is told exactly one status about its transaction,
  a failed call none, no notice is dropped and the listener always ends.
- *Transaction algebra* — order of inputs, partial endorsement sets. Correct if
  merging loses no organization, in any order and in stages.
- *Endorsement flow* — processes that read and write the same files, torn writes.
  Correct if no signature ends up in a transaction its owner did not sign.
- *Deployment* — the state of the network moves between any two remote calls, an
  acknowledgement may be lost, a subscription may reach the sidecar too late, a
  file may be submitted twice. Correct if the exit code tells the truth, nothing
  is submitted unasked and no update is overwritten.
- *Configuration* — layers override per key, TLS sections inherit per field,
  certificate files change after validation. Correct if no client speaks plain text
  or drops its credentials where the configuration says otherwise.

- *Application operations and provider* — one client per service is shared by all who
  call the application and is closed by the first who returns; a factory's error is
  kept for ever; an interrupt, a waiting time of zero or a silent orderer meets any
  step. Correct if nothing stays open, no call trips over its own `Close`, and every
  operation ends unless it waits for an orderer that is silent.
- *Endorsement policies* — a key file that is validated, then replaced, then read.
  Correct if a transaction holds the key of the file that was read, and a policy is
  there before any service is asked.
- *configtxlator and configtxgen* — the output is truncated before the inputs are
  read and before required flags are checked; inputs are rewritten while they are read;
  a write may break, and the process may die after it. Correct if exit code 0 means the
  translation of what the inputs held, and a failure leaves no older document behind
  that passes for a result.

`PROJECT.json` lists every hazard with its line and the properties aimed at it.

## 2. Modules

| Module | Models | Composes |
|---|---|---|
| `TxStatusNotification` | abstract: what a subscription promises | |
| `NotificationClient` | `client/notifications.go` | implements `TxStatusNotification` |
| `Transaction` | `transaction/*.go`, as operators on values | |
| `TransactionMerging` | bounded inputs for the algebra | `Transaction` |
| `Approval` | abstract: papers, consents, approvals | |
| `EndorsementFlow` | create, endorse, merge over shared files | `Transaction`; implements `Approval` |
| `NamespaceDeployment` | create, update, submit against the network | `Transaction` |
| `Configuration` | `config/*.go`, `client/client.go`, as operators | |
| `ClientSetup` | root command, providers, certificate files | `Configuration` |
| `Policies` | `--policy`, `app/policy.go`, `transaction/policy.go`, as operators | |
| `ClientLease` | abstract: clients that are made once and closed by the first user | |
| `Application` | operations of `app/*.go`, providers, clients, interrupt | `Policies`; implements `ClientLease` |
| `ConfigTools` | `configtxlator/main.go`, `configtxgen/main.go` over shared files | |
| `TransactionProofs` | theorems about `Merge` and the lemmas on its operators | `Transaction` |
| `NotificationClientProofs`, `TransactionMergingProofs`, `EndorsementFlowProofs`, `NamespaceDeploymentProofs`, `ClientSetupProofs`, `ApplicationProofs`, `ConfigToolsProofs` | theorems about the module of that name | `EndorsementFlowProofs` has those about `Approval` too; it and `TransactionMergingProofs` use `TransactionProofs` |
| `MC*` | instances for TLC | |

Where a definition has a "variant with a fault" before it, the variant is what a
plausible mistake would make of it; putting the variant in the definition's place
makes a run fail (`PROJECT.json`, "mutants"). No specification uses a variant.

### NotificationClient

A step is what one goroutine does between two points where another can be seen: a
critical section of `subscribersMu`, one channel operation, one call on the stream.

| Code | Model |
|---|---|
| `Subscribe`: check of `streamErr` (89-91), registration (93-107), push (147-160), rollback (109-136) | `FailFast`, `PassCheck`, `Register`, `TakeRequest`, `GiveUp`, `RollBack` |
| `WaitForEvent`, `wait` (167-187) | `ReceiveStatus`, `Expire` |
| opening the stream (193-201) | `OpenStream`, `OpenFails` |
| sender (222-235) | `TakeRequest`, `Send`, `SendLost`, `SendFails`, `SenderStops` |
| receiver (203-220) | `Receive`, `ReceiveFails`, `HandOver`, `ReceiverStops` |
| dispatcher (238-280): map under the lock, then the sends | `HandOver`, `Collect`, `Notify`, `DispatcherStops` |
| `g.Wait` and cleanup (282-294) | `WaitGroup`, `Clear` |
| `Close` | `Close` |
| sidecar and stream | `Answer`, `StreamBreaks` |

The unbuffered queues are rendezvous: a push is the sender's receive. `upstream`
and `wire` are the stream; a request may be lost on a dying stream although `Send`
returned nil. An answer carries timeouts and events in one message, as the protocol
allows; about one transaction too. Then the status counts, not the timeout:
`TxStatusNotification` has the answer that is dealt with as a variable (`inHand` of the
client) and resolves by its statuses first, so that the refinement checks it.

### Transaction and TransactionMerging

A namespace is its content, an endorsement the record of its key and what it is a
signature over (transaction ID and content). MSP IDs are numbers, so that
sorting by ID is sorting numbers. `Merge` includes the trailing sort. `TransactionMerging` has no
steps: each triple of inputs is an initial state and the properties are laws.

### EndorsementFlow

One administrator runs one command at a time. Reading each input, the computation,
truncating the output and writing it are separate steps, with the other
administrators in between; a process may die at any of them. One file is read at one
moment: the code reads it in chunks (`cliio/io.go:44-56`, 82-96), so a reader can meet a
mix of two writers. A mix that does not parse is an input that is torn, which is
modelled; one that parses nevertheless is not. `signed` is a history
variable: each signature a key ever made. `Paper` forgets the order of endorsements
and the key, which gives `Approval`.

### NamespaceDeployment

A run is a process; a step is one remote call or what the network does in between.
`Broadcast` has two steps, because the orderer may have accepted what the caller
never learns. `Fail` is every error return and the interrupt. `CommandLines` are
the flags after parsing; `AfterEndorsement` is the order in which `DeployNamespace`
looks at them. External: `Process` decides transactions in order by endorsement,
channel config version and namespace version; `Registers` lets the sidecar learn of
a subscription late or never; `TimesOut` is its own timeout. Unendorsed means no
endorsement for the meta-namespace; evaluating a policy is the committer's.
`Subscribe` here is one step: what the notification client promises in
`TxStatusNotification`, with a sidecar that may be late.

### Configuration and ClientSetup

Keys are paths of fields, values are names, `""` is "not set". `FileUsed` and `Value`
rest on three facts of viper v1.21 (`go.mod`), which is not in the repository: it
remembers the first configuration file it finds, `ReadInConfig` replaces what was
merged, and `Unmarshal` asks the environment only about known keys. `Provider.Get`
validates and creates in two steps, with certificate files changing in between.
Left out: `logging`, `msp`, `channel`, `serverNameOverride` and `waitingTimeout`,
whose values are passed through; several root certificates count as one value.

### Policies and Application

`Program` gives each operation its steps, in the order of the code: `DeployNamespace`
validates, makes the policy, asks for the config version and, by its flags, endorses
and submits. One action per kind of step takes the first one away; a step that fails
sets the outcome, and the deferred `Close` calls run before the caller is free again
(`CloseDeferred`, `Return`). `configVersion` is a function of its own, so its client
is closed in the middle (`InnerReturn`).

| Code | Model |
|---|---|
| `Provider.Get`: `once.Do`, and the callers who wait for it (`provider.go:41-52`) | `Get`, `Make`, `GetReturns` |
| the calls of query client, signer, notification client | `StepSucceeds`, `Subscribe`, `Await`, `StepFails` |
| `Broadcast` (`client/orderer.go:65-100`) | `Send`, `OrdererAnswers`, `ReceiveAborted` |
| validation and `createPolicy` | `Validate`, `BuildPolicy`, with `KeyFileChanges` in between |
| the signal handler of `main.go` | `Interrupt` |

A process of fxconfig has one caller and calls once; several callers are what the
`once` in the provider is written for. Calls are about different transactions here;
those that share one are `NotificationClient`'s. The state of the network is
`NamespaceDeployment`'s: here a remote call works, fails or, at the orderer, is never
answered. An expression of a policy is one the parser accepts or not; a key file
is a sequence of PEM blocks, of which the first that holds an ECDSA key counts.
`Lease` forgets everything but who holds which client.

### ConfigTools

A run is a process and, again, a `Program`. `configtxlator` declares its files with
kingpin's `File` and `OpenFile`, which open while values are set, in the order of the
command line: `ParseSteps` therefore come before the check of required flags (`Require`)
and before any read. A command line says which file each flag names and in which order
the flags stand; `compute_update` reads the original first whatever that order is, and
without `--original` or `--updated`, which nothing requires, it stops at the reading. `configtxgen` follows `main`: channel ID, profiles, outputs, inspections;
`os.WriteFile` is a truncation and a write. Two processes may write one file through
different descriptors: `Overlay` leaves one of them or a mix. Contents are values that
say what they were made from; a protobuf message without fields is a file without
bytes, as in the code. The last step of every program is that `main` returns (`Return`):
a run that is killed after its write has failed and leaves the whole result. A write
that breaks leaves any of the `Beginnings` of its content: nothing, bytes that do not
parse, JSON that lacks its last newline only, or a message cut between two fields, which
parses (`Fragment`). `held` remembers what each file held while a run went on, so that
its result can be compared with what it may have read.

Left out: standard input and output, the REST server of `configtxlator` (`start`),
whose handlers are a library's, `-printOrg`, which only prints, `-asOrg`, which is
declared and read by nobody, `-version`.

## 3. Runs

| Run | Question | Answer, bounds |
|---|---|---|
| `notification_safety` | Told at most once, after a failure never; nothing dropped; one request per interest; implements `TxStatusNotification`, which has a status win over a timeout | holds; 3 calls, two about one transaction and one about another, 2 final statuses. Two calls meet on one entry; the third makes mixed responses |
| `notification_liveness` | Does the listener end; is a requested and reported transaction told; does every call return, whatever became of the stream, its request or the map | holds under `FairSpec`; 3 calls about one transaction |
| `notification_shared` | "share a single upstream subscription" (`notifications.go:82`) | **violated**: a joined call has no request upstream after the first call's rollback |
| `transaction_merging` | First endorsement of each MSP, order, stages, parallel = sequential | holds; all triples over 2 contents, 2 namespaces, 3 members of 2 MSPs, sets up to 2 |
| `merging_signatures` | "will contain all endorsement signatures" (`tx_merge.go:33`) | **violated**: one signature per MSP and namespace survives |
| `endorsement_flow` | Are all endorsements in files genuine; refinement of `Approval` | holds; 2 organizations, 2 transactions, 2 files, each transaction endorsed up to twice and merged, torn writes, deaths |
| `deployment` | Exit codes, nothing unasked, subscribe before decide, lost updates, decisions by stated versions | holds; a create with all 8 flag combinations or a refused update, and two runs that each submit what was saved or update version 0 (one of them also 1 or -1), overlapping; 1 config update |
| `deployment_wait` | "exit non-zero unless it is committed" (`docs/README.md:55`) | **violated**: `--wait` without `--endorse` submits nothing and exits 0 |
| `client_setup` | Plain text, ignored credentials, validated but unusable, one file as documented | holds; all 24 common by 24 own TLS sections, 3 environments, all placements of three files, 1 certificate change |
| `setup_precedence` | "Override any configuration parameter using environment variables" (`docs/README.md:172`) | **violated**: a service's TLS keys are not known to viper unless a file has them |
| `application` | Clients left open or closed under their user, policies before clients, waiting time zero, does every operation end; implements `ClientLease` | holds under `FairSpec`; 2 callers with one call each out of 2 and 6, 3 key files, 1 change, an interrupt, failing factories |
| `config_tools` | What exit code 0 says of the output, what a failure leaves behind, which files are written at all | holds; any two of 14 command lines at the same time over 6 files, broken writes, kills up to the return of `main` |

Why these bounds are enough to be interesting: sharing, rollback and joining need
two calls about one transaction, and a third shows what they leave to a newcomer;
`Merge` looks at namespaces one by one and at inputs in order, so three inputs show
order and staging; a torn file needs a writer and a reader; a lost update needs two
writers, a stale config version a third party; a duplicate needs two submissions of
one file; a TLS section inherits field by field from one parent only; a client is
asked for before it is made, while it is used and after it was closed as soon as there
are two callers; and a run of `configtxlator` sees the file of another before, between
and after that one's steps with two runs.
All bounds (`MaxConfig`, `MaxChanges`, `MaxCalls`, `MaxEndorsements`, `MaxInputs`, `MaxOfOne`,
`MaxOfTwo`, the number of `TxIDs`) are constants. Symmetry is used for safety only,
over model values that no definition distinguishes.

Deadlock is checked except where the system stops by itself: in the runs of
`NamespaceDeployment`, `ClientSetup`, `Application` and `ConfigTools` processes exit and
calls return, and their number is bounded.

Fairness. `NotificationClient!FairSpec` is weak fairness of each goroutine of the
listener (the Go scheduler runs a goroutine that can run) and of the sidecar's
answers, which it gives within its own timeout at the latest; callers owe nothing.
Only `EveryCallReturns` assumes that a call that has begun goes on (`GoesOn`), with its
context, which ends at the latest when `WaitingTimeout` has passed
(`notifications.go:85`, 168); other calls owe it nothing.
`Application!FairSpec` is weak fairness of an operation's own steps and of the
factories inside `once.Do`: queries, the subscription and the wait for the status have
deadlines and fail at the latest then, dialling does not wait, the rest is local.
The orderer's answer is not among them: `Recv` in `client/orderer.go:92` has no
timeout of its own, and `EndsUnlessOrdererSilent` says that this is the only place
where an operation can stay for ever, and only as long as nobody interrupts.
Nothing is assumed of the user who interrupts or of other callers' calls. The other
specifications state no fairness: their properties are about safety.

## 4. Findings

1. A call that joins another's subscription depends on that other call's push
   (`notification_shared`).
2. Merging keeps one signature per organization; the help promises all
   (`merging_signatures`).
3. `--wait` without `--endorse` is ignored, exit code 0 (`deployment_wait`).
4. Environment variables of a service's TLS section are ignored where no file has
   the key, and a project file is ignored where a user file exists
   (`setup_precedence`; the second with `Inputs <- TwoFiles`).
5. The comment of `Load` (`config/load.go:41-42`) merges the explicit configuration file
   after the environment, so that the file would win. In the code the environment wins, as
   the documentation (`docs/README.md:94-99`) and `TestLoad_EnvVarsOverrideConfigFile` say;
   `OneFileAsDocumented` of `client_setup` shows it, with every placement of a file and an
   environment that states the same address. The comment is what is wrong.

## 5. Proofs

All theorems are for any values of the constants, under these assumptions, which TLC
evaluates in the runs:

| Assumption | Says | Why |
|---|---|---|
| `NotificationAssumption` | the markers "nothing" are no statuses, transactions or responses; `TxOf` is a function | choice of values |
| `MenuAssumption` (three modules) | the menus consist of command lines | flags after parsing |
| `InitialAssumption` | the files hold nothing, bytes that are no document, or documents the tools know | what the tools read and write |
| `FlagsAssumption` | a command line of `configtxlator` has the flags it names, among them `--output`, and `--input` where there is one | standard streams are left out; the other flags have no default (`configtxlator/main.go:53-67`) |
| `InputsAssumption` | no source states an empty value | to viper an empty environment variable is unset |
| `FilesAssumption`, `SwitchAssumption`, `DiskAssumption` | a file that is missing or malformed has no keys; a switch is `true` or `false`; `Holds` is about the certificate files | `Enabled` is a `*bool` (`config/config.go:63`) |
| `KeyFilesAssumption`, `NobodyAssumption` | a key file is missing or a sequence of blocks; nobody is no caller | PEM |
| `SignersAssumption` (two modules) | MSP IDs are numbers | they are only compared |
| `BoundsAssumption` (two modules) | bounds are natural numbers | |

- `NotificationClientProofs`. `TypeOK` and `ToldOnce` are inductive (the latter with
  the former), and `NothingDroppedEver` follows: a call on the dispatcher's list
  has an empty channel, so the send with a `default` branch always succeeds.
  `SingleUpstreamRequest` is not inductive, because a count says nothing of the map.
  `RequestInv` adds what the code relies on: a request exists in at most one place
  (`OnePlace`); whatever is under way has an entry in the map; a call that may
  still roll back has sent nothing and is the only such call of its transaction
  (`Alone`); a failed call is in no entry. The other direction, that an entry has a
  request (`RegisteredHaveARequest`), needs to know when requests and answers are
  lost: `CoverageInv` says that the group ends only when the stream is down, so that
  a goroutine that stops, and takes a message with it, does so only then.
  `ClientImplementsNotification` maps each step to `Join`, `Withdraw`, `Take`,
  `Resolve`, `DropAll` or a stutter: the dispatcher takes an answer, the moment of its
  critical section is the moment the answer resolves, and the sends afterwards do not
  change what was told.
- `TransactionProofs`. `MergeIs` says what `Merge` makes of inputs of any number and
  length: per namespace, sorted by MSP, the first endorsement of every MSP in the order
  of the inputs and nothing else (`FirstOfAll`). The folds are unfolded to the functions
  that define them. What they yield for a sequence of any length is an induction
  over its length; it is done with numbers only, as the absence of a smallest
  counterexample (`Smallest`, `Inductive`): a loop over a sequence is a function on
  `0..n` that keeps a recurrence, and such a function has the invariant at each `n`.
  `SortedIsUnique`: two sequences sorted by MSP that have the same elements are equal.
- `TransactionMergingProofs`. The laws of the algebra for any members, contents and
  lengths. With `MergeIs`, `MergeKeepsTheFirst`, `MergeHasNoOrder` and
  `ParallelIsLikeSequential` are about sets. `MergeIsInStages` is an equality of
  transactions: the first of the first of two inputs and a third is the first of all
  three (`FirstOfTwo`, `FirstOfThree`), and what is sorted is determined by its elements.
- `EndorsementFlowProofs`. `TypeInv` says more than `TypeOK`: what files hold and what
  commands have read are well-formed transactions, in every stage of a command.
  `StepDoes` then sorts every step by what it does to the transactions that are around,
  in files and in commands: it loses some (`Loses`), or adds one that was created,
  endorsed or merged from ones that are around (`Does`). Genuineness and the refinement
  are proved of these four cases. `EverythingIsGenuine` is inductive over them: a merge
  takes endorsements from inputs with the same ID and, by `MergeIs`, for the same
  namespace. `FlowImplementsApproval` maps them to `Lose`, `Draft`, `Approve` and
  `Combine`; `ApprovalsAreConsented` shows of `Approval` alone that an organization is listed
  only where it consented (a paper approves only parts it has, `PaperInv`), and
  `FlowApprovalsAreConsented` says it of files.
- `NamespaceDeploymentProofs`. `RunInv` relates where a run stands, its command
  line, its subscription and the ledger: a run that is broadcasting is one that was
  asked to submit (`AskedInv`); a run that waits has subscribed
  (`SubscribedInv`); "committed" is told only of a committed transaction, and only
  about the transaction in hand (`ToldInv`); what was handed over is in the queue
  or decided (`HandedInv`). The exit codes' truth follows:
  `WaitedRunsAreCommitted` and `SubmittedRunsAreAccepted`, together `ExitCodesAreTrue`;
  then `OrderedIsAskedFor`, and
  `DecidedOnlyWhileSubscribed` from `SubscribedInv`. `NoUpdateLost` is about two
  transactions and needs what the ledger has of each: `LedgerInv` adds that whatever
  is in a hand, in a file or at the ordering service says what its command line states
  (`BuiltInv`), and that a committed update left its namespace at a version above the
  one it states (`CommittedInv`), so that a second one that states it is refused.
- `ClientSetupProofs`. `SetupInv`: providers work on what `Load` made of the sources,
  one that got beyond validation has a section that was valid on the disk it saw, and
  a client is protected as its section says. `ResolvedSwitch` then follows the switch
  through `Value`, `Normalize` and `InheritFrom` back to the sources.
  `OneFileIsAsDocumented` shows that the divergence of finding 4 takes two files, or a
  key that is not known: with one file, `FileUsed` is that file (`OneFileCounts`).
- `ApplicationProofs`. `NoClientLeft` alone is not inductive: a client that is being
  made belongs to nobody yet. `LeaseInv` says where clients come from: whoever is inside
  `once.Do` is a call that still waits for just that client, so the client has an owner
  the moment it is made; a client exists exactly if its provider is ready, so `Get`
  never hands out an error together with a client; and what a call has deferred was
  made. The order of a program's steps does not matter for it. It does for the rest:
  `OrderInv` says of what is left of a program that it closes what was got and deferred
  last, and gets no client that is held (`Programs` shows it of every operation, the
  tail of a program inherits it). `ClosedOnlyByAnother` (a call has no step left for a
  client it closed), `NothingIsSentWithoutWaiting` (the subscription comes before the
  sending) and `PolicyIsMadeFirst` (so does the policy before the first client, and it
  is of the first ECDSA key of the file as it was read) each add one such fact on the
  rest of the program. `ClientsAreLeased` maps a call's step to what it does to its
  own clients (`MineStep`) and shows that no other call's clients change with it
  (`OneAtATime`).
- `ConfigToolsProofs`. Everything follows from how far a run is in its program.
  `IInv` says of every run that it has taken some number `d` of its steps (`Stage`):
  what is left is the rest of the program (`Follows`), the steps taken had what they
  require and the truncating ones among them are the files opened (`Progress`), the
  number of inputs read follows from `d` (`ReadAfter`), what was read of an input is
  something its file held (`Heard`), and, as long as no other process wrote to its
  output, that is empty before the write and the translation of what was read after it,
  and so is what was read where the input is the output (`Kept`). `TypeOK` says nothing of
  the program, and of the five properties none is inductive without `d`. The shapes of
  the two programs are `TranslationProgram` and `GenerationProgram`: `configtxlator` opens
  all, requires, reads in the order of `Inputs`, writes, returns; in `configtxgen` what may
  refuse comes before what opens (`NothingWrittenUnlessLoadedAlways`). A run exits 0
  with its last step, the return, when the output is written (`SuccessIsReturn`,
  `WrittenResult`): `InputsAreTranslated` and `NothingComesOfOverwriting` then are about
  what was read. `FailuresLeaveNothingStale` is `Kept` at a run that stops, before the
  write or after it, and a beginning of the result at one whose write breaks. Steps of
  other runs are treated once (`Others`): whatever they change is in `held` of those who
  run, and in `disturbed`.

Model-checked only:

- liveness (`ListenerEnds`, `RequestedIsNotified`, `EveryCallReturns`,
  `EndsUnlessOrdererSilent`) and
  everything about ENABLED, which the prover does not handle;
- the violated properties of section 4, which no theorem could state.

## 6. Not modelled

The language of policy expressions, PEM and the MSP's files (parsed by libraries); the
JSON format, size limits, stdin and pipes of `cliio`; `info` and `version`, which only
print; what `namespace list` prints; WithOverride, which no command uses; TLS and
dialling themselves; the REST server, standard streams and printing of `configtxlator`
and `configtxgen`; `cryptogen` and `fxadmin`, whose commands are one call of a library
of another repository each, with no state, order or recovery of their own.

## 7. Plan

Done: the modules above, in this order: notification client, algebra, flow,
deployment, configuration, policies, application, other tools.

Proved: every invariant, every action property and every refinement that a passing run
checks.

Of the model, what is left is stdin and pipes of `cliio`. A composition of
`NamespaceDeployment` with `TxStatusNotification` was considered and dropped: a process
has one subscription, and what that promises is what `sub` and `told` say.
