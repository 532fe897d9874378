------------------------ MODULE NamespaceDeployment ------------------------
(***************************************************************************)
(* Runs of "fxconfig namespace create|update" and "fxconfig tx submit"     *)
(* against a network that other administrators use at the same time: the   *)
(* query service, the ordering service, the committer and the sidecar.     *)
(*                                                                         *)
(* Every run is a process with clients of its own.  A step is one remote   *)
(* call of the process, or what the network does in between; a remote call *)
(* that the far side may have acted on without the caller learning of it   *)
(* (Broadcast) has two steps.                                              *)
(***************************************************************************)
EXTENDS Transaction, FiniteSets

CONSTANTS
    Commands,     \* runs of the tool; a run that builds a transaction names it
    Menu,         \* Menu[c]: the command lines that run c may have
    NsIDs,        \* namespaces
    Signer,       \* the local identity, [msp, key]
    MaxConfig     \* bound: channel config updates by others

\* A command line.  "create" has version -1; "submit" has neither a version nor
\* the flags endorse and submit.
CommandLines ==
    [kind : {"create", "update", "submit"}, nsID : NsIDs, version : Int,
     endorse : BOOLEAN, submit : BOOLEAN, wait : BOOLEAN]

ASSUME MenuAssumption == \A c \in Commands : Menu[c] \subseteq CommandLines

Statuses == {"committed", "aborted_signature", "aborted_mvcc"}

\* What WaitForEvent can return: a status, the sidecar's report of a timeout, or
\* the rejection of a second copy.
Answers == Statuses \cup {"unspecified", "duplicate"}

VARIABLES
    pc,           \* where each run stands; "succeeded" is exit code 0, "failed" 1
    line,         \* the command line of each run
    hand,         \* the transaction a run works on, [txID, tx]
    read,         \* history: the config version a run was told
    sub,          \* its subscription: none, requested, registered at the sidecar
    told,         \* the answer on its way to, or at, WaitForEvent
    saved,        \* transaction files, [txID, tx]
    ordered,      \* accepted by the ordering service, not yet processed
    configVersion,\* version of the latest committed channel config
    current,      \* the version of each namespace: a set, empty if there is none
    status        \* the status of each transaction at the committer

runVars     == <<pc, line, hand, read>>
noticeVars  == <<sub, told>>
ledgerVars  == <<configVersion, current, status>>

vars == <<runVars, noticeVars, saved, ordered, ledgerVars>>

Nothing == [txID |-> "none"]

Init ==
    /\ pc = [c \in Commands |-> "idle"]
    /\ line \in [Commands -> UNION {Menu[c] : c \in Commands}]
    /\ \A c \in Commands : line[c] \in Menu[c]
    /\ hand = [c \in Commands |-> Nothing]
    /\ read = [c \in Commands |-> -1]
    /\ sub = [c \in Commands |-> "none"]
    /\ told = [c \in Commands |-> "nothing"]
    /\ saved = {}
    /\ ordered = <<>>
    /\ configVersion = 0
    /\ current = [n \in NsIDs |-> {}]
    /\ status = [c \in Commands |-> "unknown"]

Goto(c, from, to) ==
    /\ pc[c] = from
    /\ pc' = [pc EXCEPT ![c] = to]

Running(c) == pc[c] \notin {"idle", "succeeded", "failed"}

Deploys(c) == line[c].kind \in {"create", "update"}

-----------------------------------------------------------------------------
(* namespace create, namespace update: DeployNamespace                     *)

\* The command line is parsed and validated.
StartDeploy(c) ==
    /\ Deploys(c)
    /\ Goto(c, "idle", IF ValidateVersion(line[c].version) THEN "validated" ELSE "failed")
    /\ UNCHANGED <<line, hand, read, noticeVars, saved, ordered, ledgerVars>>

\* Variant with a fault: the version is looked up, not taken from the command line.
CreateNamespaceAtCurrent(c) ==
    /\ Goto(c, "validated", "built")
    /\ \E v \in current[line[c].nsID] \cup (IF current[line[c].nsID] = {} THEN {-1} ELSE {}) :
          hand' = [hand EXCEPT ![c] =
                      [txID |-> c,
                       tx |-> CreateNamespacesTx("policy", line[c].nsID, v, configVersion)]]
    /\ read' = [read EXCEPT ![c] = configVersion]
    /\ UNCHANGED <<line, noticeVars, saved, ordered, ledgerVars>>

\* CreateNamespace: the query service reports the config version, and the
\* transaction is built for it under a new ID.
CreateNamespace(c) ==
    /\ Goto(c, "validated", "built")
    /\ hand' = [hand EXCEPT ![c] =
                   [txID |-> c,
                    tx |-> CreateNamespacesTx("policy", line[c].nsID, line[c].version,
                                              configVersion)]]
    /\ read' = [read EXCEPT ![c] = configVersion]
    /\ UNCHANGED <<line, noticeVars, saved, ordered, ledgerVars>>

\* Variant with a fault: what was endorsed is submitted, asked for or not.
AfterEndorsementSubmit(c) == IF line[c].wait THEN "watching" ELSE "ready"

\* Where an endorsed transaction goes: --wait enforces --submit.
AfterEndorsement(c) ==
    CASE line[c].wait -> "watching"
      [] line[c].submit /\ ~line[c].wait -> "ready"
      [] OTHER -> "saving"

\* Without --endorse nothing else is looked at: the transaction is returned.
SkipEndorsement(c) ==
    /\ ~line[c].endorse
    /\ Goto(c, "built", "saving")
    /\ UNCHANGED <<line, hand, read, noticeVars, saved, ordered, ledgerVars>>

EndorseTransaction(c) ==
    /\ line[c].endorse
    /\ Goto(c, "built", AfterEndorsement(c))
    /\ hand' = [hand EXCEPT ![c].tx = Endorse(Signer, hand[c].txID, hand[c].tx)]
    /\ UNCHANGED <<line, read, noticeVars, saved, ordered, ledgerVars>>

\* The transaction goes to --output or stdout.
WriteOutput(c) ==
    /\ Goto(c, "saving", "succeeded")
    /\ saved' = saved \cup {hand[c]}
    /\ UNCHANGED <<line, hand, read, noticeVars, ordered, ledgerVars>>

-----------------------------------------------------------------------------
(* tx submit                                                               *)

\* The transaction file is read.
StartSubmit(c) ==
    /\ line[c].kind = "submit"
    /\ Goto(c, "idle", IF line[c].wait THEN "watching" ELSE "ready")
    /\ \E document \in saved : hand' = [hand EXCEPT ![c] = document]
    /\ UNCHANGED <<line, read, noticeVars, saved, ordered, ledgerVars>>

-----------------------------------------------------------------------------
(* SubmitTransaction, SubmitTransactionWithWait                            *)

\* With --wait: Subscribe returns once the client's sender took the request.
Subscribe(c) ==
    /\ Goto(c, "watching", "ready")
    /\ sub' = [sub EXCEPT ![c] = "requested"]
    /\ UNCHANGED <<line, hand, read, told, saved, ordered, ledgerVars>>

\* Variant with a fault: the acknowledgement does not wait for the orderer.
BroadcastBlindly(c) ==
    /\ Goto(c, "ready", "sent")
    /\ \E accepted \in BOOLEAN :
          ordered' = IF accepted THEN Append(ordered, hand[c]) ELSE ordered
    /\ UNCHANGED <<line, hand, read, noticeVars, saved, ledgerVars>>

\* Variant with a fault: the transaction is sent before the subscription is made.
BroadcastBeforeSubscribe(c) ==
    /\ pc[c] \in {"ready", "watching"}
    /\ pc' = [pc EXCEPT ![c] = "sent"]
    /\ ordered' = Append(ordered, hand[c])
    /\ UNCHANGED <<line, hand, read, noticeVars, saved, ledgerVars>>

\* Broadcast: the orderer has the envelope ...
Broadcast(c) ==
    /\ Goto(c, "ready", "sent")
    /\ ordered' = Append(ordered, hand[c])
    /\ UNCHANGED <<line, hand, read, noticeVars, saved, ledgerVars>>

\* ... and its SUCCESS arrives.
Acknowledged(c) ==
    /\ Goto(c, "sent", IF line[c].wait THEN "waiting" ELSE "succeeded")
    /\ UNCHANGED <<line, hand, read, noticeVars, saved, ordered, ledgerVars>>

\* Variant with a fault: any final status will do.
RequireAnswered(answer) == answer # "unspecified"

\* requireCommitted: the exit code of a run that waited.
RequireCommitted(answer) == answer = "committed"

\* WaitForEvent returns a status.
WaitForEvent(c) ==
    /\ told[c] # "nothing"
    /\ Goto(c, "waiting", IF RequireCommitted(told[c]) THEN "succeeded" ELSE "failed")
    /\ UNCHANGED <<line, hand, read, noticeVars, saved, ordered, ledgerVars>>

\* WaitForEvent runs into WaitingTimeout.
WaitExpires(c) ==
    /\ Goto(c, "waiting", "failed")
    /\ UNCHANGED <<line, hand, read, noticeVars, saved, ordered, ledgerVars>>

\* Every other way out, with exit code 1: a provider, a signature or a file that
\* fails, a service that does not answer, a rejection by the orderer, a lost
\* acknowledgement, an interrupt.
Fail(c) ==
    /\ Running(c)
    /\ pc' = [pc EXCEPT ![c] = "failed"]
    /\ UNCHANGED <<line, hand, read, noticeVars, saved, ordered, ledgerVars>>

-----------------------------------------------------------------------------
(* The network                                                             *)

\* Another organization endorses a saved transaction (EndorsementFlow).
EndorseSaved ==
    /\ \E document \in saved :
          /\ document.tx.endorsements = <<>>
          /\ saved' = saved \cup
                {[document EXCEPT !.tx = Endorse(Signer, document.txID, document.tx)]}
    /\ UNCHANGED <<runVars, noticeVars, ordered, ledgerVars>>

\* The sidecar learns of a subscription that Subscribe has requested before.
Registers(c) ==
    /\ sub[c] = "requested"
    /\ sub' = [sub EXCEPT ![c] = "registered"]
    /\ UNCHANGED <<runVars, told, saved, ordered, ledgerVars>>

\* The committer: the endorsement policy of the meta-namespace, then the versions
\* the transaction read.
Verdict(tx) ==
    LET ns == tx.namespaces[1] IN
    CASE EndorsementsOf(tx, 1) = <<>> -> "aborted_signature"
      [] /\ EndorsementsOf(tx, 1) # <<>>
         /\ ns.nsVersion = configVersion
         /\ ns.version = current[ns.key] -> "committed"
      [] OTHER -> "aborted_mvcc"

\* The version of a namespace after a write.
NextVersion(version) == IF version = {} THEN {0} ELSE {v + 1 : v \in version}

\* The next transaction in order is decided, unless it is a second copy, and the
\* registered subscribers are told.
Process ==
    LET txID == Head(ordered).txID
        tx == Head(ordered).tx
        ns == tx.namespaces[1]
        answer == IF status[txID] = "unknown" THEN Verdict(tx) ELSE "duplicate"
    IN /\ ordered # <<>>
       /\ ordered' = Tail(ordered)
       /\ status' = [status EXCEPT ![txID] = IF @ = "unknown" THEN answer ELSE @]
       /\ current' = [current EXCEPT ![ns.key] = IF answer = "committed"
                                                 THEN NextVersion(@) ELSE @]
       /\ told' = [c \in Commands |-> IF /\ sub[c] = "registered"
                                         /\ hand[c].txID = txID
                                         /\ told[c] = "nothing"
                                      THEN answer ELSE told[c]]
       /\ UNCHANGED <<runVars, sub, saved, configVersion>>

\* The sidecar gives up on a transaction it has seen no status of.
TimesOut(c) ==
    /\ sub[c] = "registered"
    /\ told[c] = "nothing"
    /\ told' = [told EXCEPT ![c] = "unspecified"]
    /\ UNCHANGED <<runVars, sub, saved, ordered, ledgerVars>>

\* Somebody updates the channel configuration.
UpdateConfig ==
    /\ configVersion < MaxConfig
    /\ configVersion' = configVersion + 1
    /\ UNCHANGED <<runVars, noticeVars, saved, ordered, current, status>>

-----------------------------------------------------------------------------
Proceed(c) ==
    \/ CreateNamespace(c) \/ SkipEndorsement(c) \/ EndorseTransaction(c) \/ WriteOutput(c)
    \/ Subscribe(c) \/ Broadcast(c) \/ Acknowledged(c) \/ WaitForEvent(c) \/ WaitExpires(c)

CommandStep(c) == StartDeploy(c) \/ StartSubmit(c) \/ Proceed(c) \/ Fail(c)

NetworkStep ==
    \/ EndorseSaved \/ Process \/ UpdateConfig
    \/ \E c \in Commands : Registers(c) \/ TimesOut(c)

Next ==
    \/ \E c \in Commands : CommandStep(c)
    \/ NetworkStep

Spec == Init /\ [][Next]_vars

-----------------------------------------------------------------------------
(* Properties                                                              *)

\* The version a command line states: the one it replaces, none for a create.
Stated(c) == IF line[c].version >= 0 THEN {line[c].version} ELSE {}

\* The run is to submit its transaction.
Submits(c) ==
    \/ line[c].kind = "submit"
    \/ line[c].endorse /\ (line[c].submit \/ line[c].wait)

\* What a file and an envelope carry.
Writes == [nsVersion : Nat, key : NsIDs, value : {"policy"}, version : SUBSET Nat]

Endorsements == [by : {Signer}, over : Seq(Commands \cup Writes)]

Transactions == [namespaces : Seq(Writes), endorsements : Seq(Seq(Endorsements))]

Documents == [txID : Commands, tx : Transactions]

\* Type invariant, with what a run holds at each point.
TypeOK ==
    /\ pc \in [Commands -> {"idle", "validated", "built", "saving", "watching", "ready",
                             "sent", "waiting", "succeeded", "failed"}]
    /\ line \in [Commands -> CommandLines]
    /\ hand \in [Commands -> Documents \cup {Nothing}]
    /\ read \in [Commands -> Nat \cup {-1}]
    /\ sub \in [Commands -> {"none", "requested", "registered"}]
    /\ told \in [Commands -> Answers \cup {"nothing"}]
    /\ saved \subseteq Documents
    /\ ordered \in Seq(Documents)
    /\ configVersion \in Nat
    /\ current \in [NsIDs -> SUBSET Nat]
    /\ status \in [Commands -> Statuses \cup {"unknown"}]
    /\ \A c \in Commands :
          /\ hand[c] = Nothing => pc[c] \in {"idle", "validated", "failed"}
          /\ told[c] # "nothing" => sub[c] = "registered"
          /\ sub[c] # "none" => line[c].wait
          /\ pc[c] = "waiting" => sub[c] # "none"

\* A run with --wait that submitted and exits 0 has its transaction committed
\* (deploy.go:84-91, tx_submit.go:63-71), although notices are lost, subscriptions
\* reach the sidecar late and files are submitted twice.
WaitedMeansCommitted ==
    \A c \in Commands :
        pc[c] = "succeeded" /\ Submits(c) /\ line[c].wait
            => status[hand[c].txID] = "committed"

\* A run without --wait that submitted and exits 0 has handed its transaction to
\* the ordering service (orderer.go:82-99).
SubmittedMeansAccepted ==
    \A c \in Commands :
        pc[c] = "succeeded" /\ Submits(c) =>
            \/ status[hand[c].txID] # "unknown"
            \/ \E i \in DOMAIN ordered : ordered[i].txID = hand[c].txID

\* What exit code 0 of a run that submits tells the script that called it: with --wait
\* that the transaction is committed, without that it was accepted.
ExitCodeIsTrue == WaitedMeansCommitted /\ SubmittedMeansAccepted

\* Nothing reaches the ordering service that no run was told to submit: building,
\* endorsing and saving a transaction stay local (deploy.go:67-82).
OnlyAskedForIsOrdered ==
    \A t \in Commands :
        status[t] # "unknown" \/ (\E i \in DOMAIN ordered : ordered[i].txID = t) =>
            \E c \in Commands : hand[c].txID = t /\ Submits(c)

\* The committer decides by what the administrator stated: a deployment commits
\* only over the version its command line names and under the channel config its
\* run was told of, and a version conflict is reported only when one of the two
\* has changed (create.go:31-38, namespace.go:20-49, docs/README.md:42-46).
DecidedAsStated ==
    [][\A c \in Commands :
          Deploys(c) /\ status[c] = "unknown" /\ status'[c] # "unknown" =>
              LET asStated == /\ read[c] = configVersion
                              /\ current[line[c].nsID] = Stated(c)
              IN /\ status'[c] = "committed" => asStated
                 /\ status'[c] = "aborted_mvcc" => ~asStated]_vars

\* "The --version flag is required to prevent concurrent modification conflicts"
\* (namespace_update.go:37): of the deployments that state the same version of a
\* namespace, one commits at most, however their runs overlap.
NoUpdateLost ==
    \A c, d \in Commands :
        /\ c # d
        /\ Deploys(c) /\ Deploys(d) /\ line[c].nsID = line[d].nsID
        /\ status[c] = "committed"
        /\ Stated(c) = Stated(d)
        => status[d] # "committed"

\* When the transaction of a run that waits is decided, its subscription has been
\* requested before: the order of submit.go:63-68 against the committer.
DecidedWhileSubscribed ==
    [][ordered # <<>> /\ ordered' = Tail(ordered) =>
          \A c \in Commands :
              line[c].wait /\ pc[c] \in {"sent", "waiting"} /\ hand[c].txID = Head(ordered).txID
                  => sub[c] # "none"]_vars

\* "--wait - Block until transaction is finalized and exit non-zero unless it is
\* committed" (docs/README.md:55).
WaitExitsZeroOnlyIfCommitted ==
    \A c \in Commands :
        pc[c] = "succeeded" /\ line[c].wait => status[hand[c].txID] = "committed"

=============================================================================
