--------------------------- MODULE EndorsementFlow ---------------------------
(***************************************************************************)
(* The multi-organization flow of fxconfig: administrators run "namespace  *)
(* create", "tx endorse" and "tx merge" as separate processes that share   *)
(* nothing but transaction files.                                          *)
(*                                                                         *)
(* A process reads its inputs one after the other and computes its result  *)
(* in memory.  os.WriteFile then truncates the output and writes it: in    *)
(* between, and for good if the process dies there, the file is torn and   *)
(* nobody can decode it.                                                   *)
(***************************************************************************)
EXTENDS Transaction, FiniteSets

CONSTANTS
    Admins,       \* administrators; each runs one command at a time
    SignerOf,     \* SignerOf[a]: the identity of a's configuration, [msp, key]
    Files,        \* file names
    TxIDs,        \* the IDs GenerateTxID can draw; their number bounds the creates
    Requests,     \* what namespaces are asked for: [nsPolicy, nsID, nsVersion]
    ConfigVersions, \* channel config versions the query service may report
    MaxEndorsements, \* bound: longest endorsement set that is endorsed again
    MaxInputs     \* bound: files merged at once

\* MSP IDs are numbers: their order is the order of the strings.
ASSUME SignersAssumption == \A a \in Admins : SignerOf[a].msp \in Int

NoFile == [file |-> "missing"]
Torn   == [file |-> "torn"]
Holding(txID, tx) == [file |-> "transaction", txID |-> txID, tx |-> tx]

Readable(content) == content.file = "transaction"

Idle == [stage |-> "idle"]
Merging(inputs) == [stage |-> "merging", inputs |-> inputs]
Ready(content) == [stage |-> "ready", content |-> content]
Writing(content, out) == [stage |-> "truncated", content |-> content, out |-> out]

VARIABLES
    files,        \* what each file holds
    job,          \* the command each administrator is running
    generated,    \* the transaction IDs drawn so far
    signed        \* history: every endorsement a key has made

vars == <<files, job, generated, signed>>

Init ==
    /\ files = [f \in Files |-> NoFile]
    /\ job = [a \in Admins |-> Idle]
    /\ generated = {}
    /\ signed = {}

-----------------------------------------------------------------------------
\* The endorsements that Endorse adds.
NewEndorsements(a, txID, tx) ==
    {Endorsement(SignerOf[a], txID, tx.namespaces[n]) : n \in DOMAIN tx.namespaces}

\* "namespace create|update --output out" with or without --endorse: a new ID, a
\* transaction for the config version the query service reports.
Create(a, request, configVersion, endorse) ==
    LET tx == CreateNamespacesTx(request.nsPolicy, request.nsID, request.nsVersion,
                                 configVersion)
    IN /\ job[a] = Idle
       /\ ValidateVersion(request.nsVersion)
       /\ \E txID \in TxIDs \ generated :
             /\ generated' = generated \cup {txID}
             /\ job' = [job EXCEPT ![a] =
                           Ready(Holding(txID, IF endorse THEN Endorse(SignerOf[a], txID, tx)
                                                          ELSE tx))]
             /\ signed' = IF endorse THEN signed \cup NewEndorsements(a, txID, tx) ELSE signed
       /\ UNCHANGED files

\* "tx endorse in --output out": the ID and the transaction are those of the file.
EndorseFile(a, in) ==
    LET txID == files[in].txID
        tx == files[in].tx
    IN /\ job[a] = Idle
       /\ Readable(files[in])
       /\ \A n \in DOMAIN tx.endorsements : Len(tx.endorsements[n]) < MaxEndorsements
       /\ job' = [job EXCEPT ![a] = Ready(Holding(txID, Endorse(SignerOf[a], txID, tx)))]
       /\ signed' = signed \cup NewEndorsements(a, txID, tx)
       /\ UNCHANGED <<files, generated>>

\* "tx merge": resolveInputs reads and decodes one argument, as it is at one moment.
ReadInput(a, in) ==
    LET inputs == IF job[a] = Idle THEN <<>> ELSE job[a].inputs IN
    /\ job[a].stage \in {"idle", "merging"}
    /\ Len(inputs) < MaxInputs
    /\ job' = [job EXCEPT ![a] = IF Readable(files[in])
                                 THEN Merging(Append(inputs, files[in]))
                                 ELSE Idle]
    /\ UNCHANGED <<files, generated, signed>>

SameTxID(inputs) == \A i \in DOMAIN inputs : inputs[i].txID = inputs[1].txID

\* Variant with a fault: the result takes the ID of the first input unchecked.
MergeFilesOfAnyID(a) ==
    LET inputs == job[a].inputs
        txs == [i \in DOMAIN inputs |-> inputs[i].tx]
    IN /\ job[a].stage = "merging"
       /\ Len(inputs) >= 2
       /\ job' = [job EXCEPT ![a] =
                     IF Mergeable(txs)
                     THEN Ready(Holding(inputs[1].txID, Merge(txs)))
                     ELSE Idle]
       /\ UNCHANGED <<files, generated, signed>>

\* All inputs are read: check that they have one ID, merge; or fail.
MergeFiles(a) ==
    LET inputs == job[a].inputs
        txs == [i \in DOMAIN inputs |-> inputs[i].tx]
    IN /\ job[a].stage = "merging"
       /\ Len(inputs) >= 2
       /\ job' = [job EXCEPT ![a] =
                     IF SameTxID(inputs) /\ Mergeable(txs)
                     THEN Ready(Holding(inputs[1].txID, Merge(txs)))
                     ELSE Idle]
       /\ UNCHANGED <<files, generated, signed>>

\* WriteOutput, first half: the output, which --output names, is truncated ...
Truncate(a, out) ==
    /\ job[a].stage = "ready"
    /\ files' = [files EXCEPT ![out] = Torn]
    /\ job' = [job EXCEPT ![a] = Writing(job[a].content, out)]
    /\ UNCHANGED <<generated, signed>>

\* ... and then written.
Write(a) ==
    /\ job[a].stage = "truncated"
    /\ files' = [files EXCEPT ![job[a].out] = job[a].content]
    /\ job' = [job EXCEPT ![a] = Idle]
    /\ UNCHANGED <<generated, signed>>

\* The process is killed, or its write fails.
Die(a) ==
    /\ job[a] # Idle
    /\ job' = [job EXCEPT ![a] = Idle]
    /\ UNCHANGED <<files, generated, signed>>

Next ==
    \E a \in Admins :
        \/ \E request \in Requests, v \in ConfigVersions, endorse \in BOOLEAN :
               Create(a, request, v, endorse)
        \/ \E in \in Files : EndorseFile(a, in) \/ ReadInput(a, in)
        \/ MergeFiles(a)
        \/ \E out \in Files : Truncate(a, out)
        \/ Write(a)
        \/ Die(a)

Spec == Init /\ [][Next]_vars

-----------------------------------------------------------------------------
(* Properties                                                              *)

Namespaces ==
    [nsVersion : ConfigVersions, key : {r.nsID : r \in Requests},
     value : {r.nsPolicy : r \in Requests}, version : SUBSET {r.nsVersion : r \in Requests}]

Endorsements == [by : {SignerOf[a] : a \in Admins}, over : TxIDs \X Namespaces]

\* A transaction file of fxconfig.
IsDocument(content) ==
    /\ content.file = "transaction"
    /\ content.txID \in TxIDs
    /\ content.tx.namespaces \in Seq(Namespaces)
    /\ content.tx.endorsements \in Seq(Seq(Endorsements))
    /\ WellFormed(content.tx)

\* Type invariant; every transaction in a file or in a process has one set of
\* endorsements per namespace or none at all, so that nothing indexes too far.
TypeOK ==
    /\ DOMAIN files = Files
    /\ \A f \in Files : files[f] \in {NoFile, Torn} \/ IsDocument(files[f])
    /\ DOMAIN job = Admins
    /\ \A a \in Admins :
          \/ job[a] = Idle
          \/ job[a].stage = "merging" /\ \A i \in DOMAIN job[a].inputs :
                                             IsDocument(job[a].inputs[i])
          \/ /\ job[a].stage \in {"ready", "truncated"}
             /\ job[a].stage = "truncated" => job[a].out \in Files
             /\ IsDocument(job[a].content)
    /\ generated \subseteq TxIDs
    /\ signed \subseteq Endorsements

\* Every transaction there is: in files, in arguments that were read, in results
\* still to be written.
Documents ==
    {files[f] : f \in {g \in Files : Readable(files[g])}}
    \cup UNION {CASE job[a].stage = "merging" -> Range(job[a].inputs)
                  [] job[a].stage \in {"ready", "truncated"} -> {job[a].content}
                  [] OTHER -> {} : a \in Admins}

\* An endorsement in a file is a signature its organization really made over this
\* namespace of this transaction ID: "tx endorse" signs what the file says and
\* "tx merge" never carries a signature over to another ID or another content
\* (tx_merge.go:99-103, merge.go:59-68), whatever files are combined while others
\* rewrite them.
EndorsementsAreGenuine ==
    \A d \in Documents :
        /\ d.txID \in generated
        /\ \A n \in DOMAIN d.tx.endorsements : \A k \in DOMAIN d.tx.endorsements[n] :
              LET e == d.tx.endorsements[n][k] IN
              e \in signed /\ e.over = <<d.txID, d.tx.namespaces[n]>>

\* The papers of Approval are the documents, the torn files and the order of
\* endorsements forgotten.
Paper(d) ==
    [name |-> d.txID,
     parts |-> Range(d.tx.namespaces),
     approvals |-> UNION {{<<d.tx.namespaces[n], MspOf(d.tx.endorsements[n][k])>> :
                              k \in DOMAIN d.tx.endorsements[n]} :
                          n \in DOMAIN d.tx.endorsements}]

Abs == INSTANCE Approval WITH
           Names    <- TxIDs,
           Parts    <- Namespaces,
           Orgs     <- {SignerOf[a].msp : a \in Admins},
           papers   <- {Paper(d) : d \in Documents},
           drawn    <- generated,
           consents <- {<<e.over[1], e.over[2], MspOf(e)>> : e \in signed}

\* The flow of files implements Approval: endorsing adds the own organization and
\* keeps everybody else, merging puts together exactly what its inputs say,
\* writing, overwriting and dying only lose papers.
ImplementsApproval == Abs!AbsSpec

=============================================================================
