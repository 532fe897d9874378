---------------------- MODULE NamespaceDeploymentProofs ----------------------
(***************************************************************************)
(* What the exit code 0 of a run and the contents of the ordering service  *)
(* mean, for any number of runs, namespaces and config updates.  The       *)
(* invariant joins four things a single step relates two of: where a run   *)
(* stands, what it was asked to do, its subscription, and the ledger.      *)
(* A second one joins what the documents say with the command lines, and   *)
(* what has committed with the versions of the namespaces.                 *)
(***************************************************************************)
EXTENDS NamespaceDeployment, TLAPS

\* The committer or the ordering service has the transaction.
Handed(t) ==
    \/ status[t] # "unknown"
    \/ \E i \in DOMAIN ordered : ordered[i].txID = t

\* Where a run stands tells what its command line asks for.
AskedInv ==
    \A c \in Commands :
        /\ pc[c] \in {"validated", "built", "saving"} => Deploys(c)
        /\ pc[c] = "saving" => ~Submits(c)
        /\ pc[c] \in {"watching", "ready", "sent", "waiting"} => Submits(c)
        /\ pc[c] \in {"watching", "waiting"} => line[c].wait
        /\ pc[c] \in {"idle", "validated"} => hand[c] = Nothing

\* A subscription is made for the transaction the run then keeps, and before it is
\* broadcast.
SubscribedInv ==
    \A c \in Commands :
        /\ pc[c] \in {"ready", "sent", "waiting"} /\ line[c].wait => sub[c] # "none"
        /\ sub[c] # "none" => /\ hand[c] # Nothing
                              /\ pc[c] \in {"ready", "sent", "waiting", "succeeded", "failed"}

\* The answer at WaitForEvent is what the committer decided.
ToldInv ==
    \A c \in Commands : told[c] = "committed" => status[hand[c].txID] = "committed"

\* A broadcast transaction is at the ordering service or at the committer.
HandedInv ==
    \A c \in Commands :
        \/ pc[c] \in {"sent", "waiting"}
        \/ pc[c] = "succeeded" /\ Submits(c)
        => Handed(hand[c].txID)

\* Whatever got there was in the hand of a run that was to submit it.
AskedForInv ==
    \A t \in Commands : Handed(t) =>
        \E c \in Commands : hand[c] # Nothing /\ hand[c].txID = t /\ Submits(c)

RunInv ==
    /\ TypeOK
    /\ AskedInv
    /\ SubscribedInv
    /\ ToldInv
    /\ HandedInv
    /\ AskedForInv
    /\ WaitedMeansCommitted

-----------------------------------------------------------------------------
(* Documents                                                               *)

LEMMA NothingIsNoDocument == Nothing \notin Documents
BY DEF Nothing, Documents

LEMMA CreateDocument ==
    ASSUME NEW t \in Commands, NEW n \in NsIDs, NEW v \in Int, NEW m \in Nat
    PROVE  [txID |-> t, tx |-> CreateNamespacesTx("policy", n, v, m)] \in Documents
<1> DEFINE w == [nsVersion |-> m, key |-> n, value |-> "policy",
                 version |-> IF v >= 0 THEN {v} ELSE {}]
<1>1. w \in Writes
  BY DEF Writes
<1>2. <<w>> \in Seq(Writes) /\ <<>> \in Seq(Seq(Endorsements))
  BY <1>1
<1>3. CreateNamespacesTx("policy", n, v, m) = [namespaces |-> <<w>>, endorsements |-> <<>>]
  BY DEF CreateNamespacesTx
<1> HIDE DEF w
<1>4. CreateNamespacesTx("policy", n, v, m) \in Transactions
  <2>1. \A ns \in Seq(Writes), es \in Seq(Seq(Endorsements)) :
           [namespaces |-> ns, endorsements |-> es] \in Transactions
    BY DEF Transactions
  <2> QED BY <1>2, <1>3, <2>1, Zenon
<1> QED BY <1>4 DEF Documents

\* An endorsed document is one of the same transaction ID.
LEMMA EndorsedDocument ==
    ASSUME NEW d \in Documents
    PROVE  /\ [d EXCEPT !.tx = Endorse(Signer, d.txID, d.tx)] \in Documents
           /\ [d EXCEPT !.tx = Endorse(Signer, d.txID, d.tx)].txID = d.txID
<1> DEFINE tx == d.tx
           added(n) == Append(EndorsementsOf(tx, n), Endorsement(Signer, d.txID, tx.namespaces[n]))
           sets == [n \in DOMAIN tx.namespaces |-> added(n)]
<1>1. /\ tx \in Transactions /\ d.txID \in Commands
      /\ tx.namespaces \in Seq(Writes) /\ tx.endorsements \in Seq(Seq(Endorsements))
  BY DEF Documents, Transactions
<1>2. ASSUME NEW n \in DOMAIN tx.namespaces PROVE added(n) \in Seq(Endorsements)
  <2>1. tx.namespaces[n] \in Writes
    BY <1>1
  <2>2. Endorsement(Signer, d.txID, tx.namespaces[n]) \in Endorsements
    BY <1>1, <2>1 DEF Endorsement, Endorsements
  <2>3. EndorsementsOf(tx, n) \in Seq(Endorsements)
    BY <1>1 DEF EndorsementsOf
  <2> QED BY <2>2, <2>3
<1>3. DOMAIN tx.namespaces = 1..Len(tx.namespaces) /\ Len(tx.namespaces) \in Nat
  BY <1>1
<1> HIDE DEF added
<1>4. sets \in Seq(Seq(Endorsements))
  BY <1>2, <1>3
<1>5. Endorse(Signer, d.txID, tx) = [tx EXCEPT !.endorsements = sets]
  BY DEF Endorse, added
<1> HIDE DEF sets
<1>6. Endorse(Signer, d.txID, tx) \in Transactions
  BY <1>1, <1>4, <1>5 DEF Transactions
<1> QED BY <1>1, <1>6 DEF Documents

-----------------------------------------------------------------------------
(* Steps of a run                                                          *)

PCs == {"idle", "validated", "built", "saving", "watching", "ready", "sent", "waiting",
        "succeeded", "failed"}

\* What RunInv says of where one run stands, for a run at p with document h.
At(c, p, h) ==
    /\ p \in {"validated", "built", "saving"} => Deploys(c)
    /\ p = "saving" => ~Submits(c)
    /\ p \in {"watching", "ready", "sent", "waiting"} => Submits(c)
    /\ p \in {"watching", "waiting"} => line[c].wait
    /\ h = Nothing => p \in {"idle", "validated", "failed"}
    /\ p \in {"idle", "validated"} => h = Nothing

\* A step of run c alone that leaves the network and its subscription as they are:
\* the run moves to p, with a document that is new or of the same transaction.
LEMMA RunMoves ==
    ASSUME RunInv,
           NEW c \in Commands, NEW p \in PCs, NEW h \in Documents \cup {Nothing},
           pc' = [pc EXCEPT ![c] = p], hand' = [hand EXCEPT ![c] = h],
           read' \in [Commands -> Nat \cup {-1}], saved' \subseteq Documents,
           UNCHANGED <<line, noticeVars, ordered, ledgerVars>>,
           At(c, p, h),
           hand[c] # Nothing => h # Nothing /\ h.txID = hand[c].txID,
           p \in {"ready", "sent", "waiting"} /\ line[c].wait => sub[c] # "none",
           sub[c] # "none" => p \in {"ready", "sent", "waiting", "succeeded", "failed"},
           p \in {"sent", "waiting"} \/ (p = "succeeded" /\ Submits(c))
               => hand[c] # Nothing /\ Handed(hand[c].txID),
           p = "succeeded" /\ Submits(c) /\ line[c].wait
               => hand[c] # Nothing /\ status[hand[c].txID] = "committed"
    PROVE  RunInv'
<1>0. /\ pc' \in [Commands -> PCs] /\ pc'[c] = p /\ hand'[c] = h
      /\ \A d \in Commands : d # c => pc'[d] = pc[d] /\ hand'[d] = hand[d]
  BY DEF RunInv, TypeOK, PCs
<1>1. UNCHANGED <<line, sub, told, ordered, configVersion, current, status>>
  BY DEF noticeVars, ledgerVars
<1>2. TypeOK'
  BY <1>0, <1>1 DEF RunInv, TypeOK, PCs, At
<1>3. AskedInv'
  BY <1>0, <1>1 DEF RunInv, AskedInv, At, Deploys, Submits
<1>4. SubscribedInv'
  BY <1>0, <1>1 DEF RunInv, SubscribedInv
<1>5. ToldInv'
  BY <1>0, <1>1 DEF RunInv, ToldInv, SubscribedInv, TypeOK
<1>6. HandedInv'
  BY <1>0, <1>1 DEF RunInv, HandedInv, Handed, Submits
<1>7. AskedForInv'
  BY <1>0, <1>1 DEF RunInv, AskedForInv, Handed, Submits
<1>8. WaitedMeansCommitted'
  BY <1>0, <1>1 DEF RunInv, WaitedMeansCommitted, Submits
<1> QED BY <1>2, <1>3, <1>4, <1>5, <1>6, <1>7, <1>8 DEF RunInv

LEMMA RunInvInit == Init => RunInv
<1> SUFFICES ASSUME Init PROVE RunInv
  OBVIOUS
<1>1. line \in [Commands -> CommandLines]
  BY MenuAssumption DEF Init
<1>2. ordered = <<>> /\ <<>> \in Seq(Documents) /\ DOMAIN ordered = {}
  BY DEF Init
<1>3. TypeOK
  BY <1>1, <1>2 DEF Init, TypeOK
<1>4. /\ \A t \in Commands : ~Handed(t)
      /\ \A c \in Commands : pc[c] = "idle" /\ sub[c] = "none" /\ told[c] = "nothing"
                               /\ hand[c] = Nothing
  BY <1>2 DEF Init, Handed
<1> QED
  BY <1>3, <1>4 DEF RunInv, AskedInv, SubscribedInv, ToldInv, HandedInv, AskedForInv,
                    WaitedMeansCommitted

\* The deployment of a namespace up to its submission, and reading a file.
LEMMA PreparationStep ==
    ASSUME RunInv, NEW c \in Commands,
           \/ StartDeploy(c) \/ StartSubmit(c) \/ CreateNamespace(c)
           \/ SkipEndorsement(c) \/ EndorseTransaction(c) \/ WriteOutput(c)
    PROVE  RunInv'
<1> USE DEF RunInv, PCs, At
<1>0. /\ pc \in [Commands -> PCs] /\ hand[c] \in Documents \cup {Nothing}
      /\ hand \in [Commands -> Documents \cup {Nothing}] /\ line[c] \in CommandLines
      /\ read \in [Commands -> Nat \cup {-1}] /\ saved \subseteq Documents
      /\ configVersion \in Nat /\ hand = [hand EXCEPT ![c] = hand[c]]
  BY DEF TypeOK
<1>1. CASE StartDeploy(c)
  <2> DEFINE p == IF ValidateVersion(line[c].version) THEN "validated" ELSE "failed"
  <2>1. /\ p \in PCs /\ hand[c] = Nothing /\ sub[c] = "none" /\ Deploys(c)
        /\ p \in {"validated", "failed"}
    BY <1>1 DEF StartDeploy, Goto, AskedInv, SubscribedInv
  <2>2. /\ pc' = [pc EXCEPT ![c] = p]
        /\ UNCHANGED <<line, hand, read, noticeVars, saved, ordered, ledgerVars>>
    BY <1>1 DEF StartDeploy, Goto
  <2> HIDE DEF p
  <2> QED BY <1>0, <2>1, <2>2, RunMoves DEF SubscribedInv
<1>2. CASE StartSubmit(c)
  <2> DEFINE p == IF line[c].wait THEN "watching" ELSE "ready"
  <2>1. PICK d \in saved : hand' = [hand EXCEPT ![c] = d]
    BY <1>2 DEF StartSubmit
  <2>2. /\ p \in PCs /\ hand[c] = Nothing /\ sub[c] = "none" /\ Submits(c)
        /\ p \in {"watching", "ready"} /\ (p = "watching" <=> line[c].wait)
    BY <1>0, <1>2 DEF StartSubmit, Goto, AskedInv, SubscribedInv, Submits, CommandLines
  <2>3. /\ pc' = [pc EXCEPT ![c] = p] /\ d \in Documents /\ d # Nothing
        /\ UNCHANGED <<line, read, noticeVars, saved, ordered, ledgerVars>>
    BY <1>0, <1>2, NothingIsNoDocument DEF StartSubmit, Goto
  <2> HIDE DEF p
  <2> QED BY <1>0, <2>1, <2>2, <2>3, RunMoves
<1>3. CASE CreateNamespace(c)
  <2> DEFINE d == [txID |-> c, tx |-> CreateNamespacesTx("policy", line[c].nsID,
                                                         line[c].version, configVersion)]
  <2>1. d \in Documents /\ d # Nothing
    BY <1>0, CreateDocument, NothingIsNoDocument DEF CommandLines
  <2>2. Deploys(c) /\ hand[c] = Nothing /\ sub[c] = "none"
    BY <1>3 DEF CreateNamespace, Goto, AskedInv, SubscribedInv
  <2>3. /\ pc' = [pc EXCEPT ![c] = "built"] /\ hand' = [hand EXCEPT ![c] = d]
        /\ read' \in [Commands -> Nat \cup {-1}]
        /\ UNCHANGED <<line, noticeVars, saved, ordered, ledgerVars>>
    BY <1>0, <1>3 DEF CreateNamespace, Goto
  <2> HIDE DEF d
  <2> QED BY <1>0, <2>1, <2>2, <2>3, RunMoves
<1>4. CASE SkipEndorsement(c)
  <2>1. /\ pc' = [pc EXCEPT ![c] = "saving"] /\ hand[c] # Nothing
        /\ Deploys(c) /\ ~Submits(c) /\ sub[c] = "none"
        /\ UNCHANGED <<line, hand, read, noticeVars, saved, ordered, ledgerVars>>
    BY <1>4 DEF SkipEndorsement, Goto, AskedInv, SubscribedInv, Submits, Deploys, TypeOK
  <2> QED BY <1>0, <2>1, RunMoves
<1>5. CASE EndorseTransaction(c)
  <2> DEFINE d == [hand[c] EXCEPT !.tx = Endorse(Signer, hand[c].txID, hand[c].tx)]
             p == AfterEndorsement(c)
  <2>1. /\ Deploys(c) /\ line[c].endorse /\ sub[c] = "none" /\ hand[c] # Nothing
    BY <1>5 DEF EndorseTransaction, Goto, AskedInv, SubscribedInv, TypeOK
  <2>2. d \in Documents /\ d # Nothing /\ d.txID = hand[c].txID
    BY <1>0, <2>1, EndorsedDocument, NothingIsNoDocument
  <2>3. /\ pc' = [pc EXCEPT ![c] = p] /\ hand' = [hand EXCEPT ![c] = d]
        /\ UNCHANGED <<line, read, noticeVars, saved, ordered, ledgerVars>>
    BY <1>0, <1>5 DEF EndorseTransaction, Goto
  <2>4. /\ p \in {"watching", "ready", "saving"} /\ (p = "watching" <=> line[c].wait)
        /\ (p = "saving" <=> ~Submits(c))
    BY <1>0, <2>1 DEF AfterEndorsement, Submits, Deploys, CommandLines
  <2> HIDE DEF d, p
  <2> QED BY <1>0, <2>1, <2>2, <2>3, <2>4, RunMoves
<1>6. CASE WriteOutput(c)
  <2>1. /\ pc' = [pc EXCEPT ![c] = "succeeded"] /\ hand[c] # Nothing /\ ~Submits(c)
        /\ sub[c] = "none" /\ saved' = saved \cup {hand[c]}
        /\ UNCHANGED <<line, hand, read, noticeVars, ordered, ledgerVars>>
    BY <1>6 DEF WriteOutput, Goto, AskedInv, SubscribedInv, TypeOK
  <2>2. saved' \subseteq Documents /\ hand' = [hand EXCEPT ![c] = hand[c]]
    BY <1>0, <2>1
  <2>3. /\ read' \in [Commands -> Nat \cup {-1}]
        /\ UNCHANGED <<line, noticeVars, ordered, ledgerVars>>
    BY <1>0, <2>1
  <2> QED BY <1>0, <2>1, <2>2, <2>3, RunMoves
<1> QED BY <1>1, <1>2, <1>3, <1>4, <1>5, <1>6

\* The ways a submission moves on after the broadcast, and the ways out.
LEMMA OutcomeStep ==
    ASSUME RunInv, NEW c \in Commands,
           Acknowledged(c) \/ WaitForEvent(c) \/ WaitExpires(c) \/ Fail(c)
    PROVE  RunInv'
<1> USE DEF RunInv, PCs, At
<1>0. /\ pc \in [Commands -> PCs] /\ hand[c] \in Documents \cup {Nothing}
      /\ hand \in [Commands -> Documents \cup {Nothing}] /\ line[c] \in CommandLines
      /\ read \in [Commands -> Nat \cup {-1}] /\ saved \subseteq Documents
      /\ hand = [hand EXCEPT ![c] = hand[c]]
  BY DEF TypeOK
<1>1. /\ UNCHANGED <<line, hand, read, noticeVars, saved, ordered, ledgerVars>>
      /\ hand' = [hand EXCEPT ![c] = hand[c]]
      /\ read' \in [Commands -> Nat \cup {-1}] /\ saved' \subseteq Documents
  BY <1>0 DEF Acknowledged, WaitForEvent, WaitExpires, Fail
<1>2. CASE Acknowledged(c)
  <2>1. /\ pc[c] = "sent" /\ hand[c] # Nothing /\ Handed(hand[c].txID) /\ Submits(c)
        /\ line[c].wait => sub[c] # "none"
    BY <1>2 DEF Acknowledged, Goto, AskedInv, SubscribedInv, HandedInv, TypeOK
  <2>2. CASE line[c].wait
    <3>1. pc' = [pc EXCEPT ![c] = "waiting"]
      BY <1>2, <2>2 DEF Acknowledged, Goto
    <3> QED BY <1>0, <1>1, <2>1, <2>2, <3>1, RunMoves
  <2>3. CASE ~line[c].wait
    <3>1. pc' = [pc EXCEPT ![c] = "succeeded"]
      BY <1>2, <2>3 DEF Acknowledged, Goto
    <3> QED BY <1>0, <1>1, <2>1, <2>3, <3>1, RunMoves
  <2> QED BY <2>2, <2>3
<1>3. CASE WaitForEvent(c)
  <2> DEFINE p == IF RequireCommitted(told[c]) THEN "succeeded" ELSE "failed"
  <2>1. /\ pc' = [pc EXCEPT ![c] = p] /\ hand[c] # Nothing /\ Handed(hand[c].txID)
        /\ p = "succeeded" => status[hand[c].txID] = "committed"
        /\ p \in {"succeeded", "failed"}
    BY <1>3 DEF WaitForEvent, RequireCommitted, Goto, HandedInv, ToldInv, TypeOK
  <2> HIDE DEF p
  <2> QED BY <1>0, <1>1, <2>1, RunMoves
<1>4. CASE WaitExpires(c) \/ Fail(c)
  <2>1. pc' = [pc EXCEPT ![c] = "failed"]
    BY <1>4 DEF WaitExpires, Fail, Goto
  <2> QED BY <1>0, <1>1, <2>1, RunMoves
<1> QED BY <1>2, <1>3, <1>4

\* What has been handed to the ordering service stays handed.
LEMMA AppendKeeps ==
    ASSUME TypeOK, NEW d \in Documents, ordered' = Append(ordered, d), UNCHANGED status
    PROVE  /\ ordered' \in Seq(Documents)
           /\ \A t \in Commands : Handed(t)' <=> Handed(t) \/ t = d.txID
<1>1. ordered \in Seq(Documents)
  BY DEF TypeOK
<1>2. /\ Len(ordered) \in Nat /\ DOMAIN ordered = 1..Len(ordered)
      /\ DOMAIN ordered' = 1..(Len(ordered) + 1)
      /\ \A i \in 1..Len(ordered) : ordered'[i] = ordered[i]
      /\ ordered'[Len(ordered) + 1] = d
  BY <1>1
<1> QED BY <1>1, <1>2 DEF Handed

LEMMA SubmissionStep ==
    ASSUME RunInv, NEW c \in Commands, Subscribe(c) \/ Broadcast(c)
    PROVE  RunInv'
<1>0. /\ pc \in [Commands -> PCs] /\ hand \in [Commands -> Documents \cup {Nothing}]
      /\ UNCHANGED <<line, hand, read, told, saved, configVersion, current, status>>
      /\ TypeOK
  BY DEF RunInv, TypeOK, PCs, Subscribe, Broadcast, ledgerVars, noticeVars
<1>1. CASE Subscribe(c)
  <2>1. /\ pc[c] = "watching" /\ pc' = [pc EXCEPT ![c] = "ready"]
        /\ sub' = [sub EXCEPT ![c] = "requested"] /\ UNCHANGED ordered
        /\ hand[c] # Nothing /\ line[c].wait /\ Submits(c) /\ told[c] = "nothing"
    BY <1>1 DEF Subscribe, Goto, RunInv, TypeOK, AskedInv, SubscribedInv
  <2>2. TypeOK'
    BY <1>0, <2>1 DEF TypeOK, PCs
  <2>3. AskedInv' /\ SubscribedInv'
    BY <1>0, <2>1 DEF RunInv, AskedInv, SubscribedInv, TypeOK, Deploys, Submits
  <2>4. ToldInv' /\ HandedInv' /\ AskedForInv' /\ WaitedMeansCommitted'
    BY <1>0, <2>1 DEF RunInv, ToldInv, HandedInv, AskedForInv, WaitedMeansCommitted,
                      Handed, Submits
  <2> QED BY <2>2, <2>3, <2>4 DEF RunInv
<1>2. CASE Broadcast(c)
  <2>1. /\ pc[c] = "ready" /\ pc' = [pc EXCEPT ![c] = "sent"]
        /\ ordered' = Append(ordered, hand[c]) /\ UNCHANGED sub
        /\ hand[c] # Nothing /\ hand[c] \in Documents /\ Submits(c)
    BY <1>0, <1>2 DEF Broadcast, Goto, RunInv, TypeOK, AskedInv, noticeVars
  <2>2. /\ ordered' \in Seq(Documents)
        /\ \A t \in Commands : Handed(t)' <=> Handed(t) \/ t = hand[c].txID
    BY <1>0, <2>1, AppendKeeps
  <2>3. TypeOK'
    BY <1>0, <2>1, <2>2 DEF TypeOK, PCs
  <2>4. AskedInv' /\ SubscribedInv'
    BY <1>0, <2>1 DEF RunInv, AskedInv, SubscribedInv, TypeOK, Deploys, Submits
  <2>5. ToldInv' /\ WaitedMeansCommitted'
    BY <1>0, <2>1 DEF RunInv, ToldInv, WaitedMeansCommitted, Submits
  <2>6. \A d \in Commands : hand[d] # Nothing => hand[d].txID \in Commands
    BY <1>0 DEF Documents
  <2>7. \A d \in Commands : pc[d] \in {"sent", "waiting", "succeeded"} => hand[d] # Nothing
    BY <1>0 DEF TypeOK
  <2>8. HandedInv'
    BY <1>0, <2>1, <2>2, <2>6, <2>7 DEF RunInv, HandedInv, Submits
  <2>9. AskedForInv'
    BY <1>0, <2>1, <2>2 DEF RunInv, AskedForInv, Submits
  <2> QED BY <2>3, <2>4, <2>5, <2>8, <2>9 DEF RunInv
<1> QED BY <1>1, <1>2

-----------------------------------------------------------------------------
(* Steps of the network                                                    *)

\* A transaction in order moves from the ordering service to the committer.
LEMMA ProcessKeeps ==
    ASSUME TypeOK, Process
    PROVE  /\ ordered' \in Seq(Documents)
           /\ status' \in [Commands -> Statuses \cup {"unknown"}]
           /\ \A t \in Commands : Handed(t)' <=> Handed(t)
           /\ \A t \in Commands : status[t] = "committed" => status'[t] = "committed"
<1> DEFINE t0 == Head(ordered).txID
           answer == IF status[t0] = "unknown" THEN Verdict(Head(ordered).tx) ELSE "duplicate"
<1>1. /\ ordered \in Seq(Documents) /\ ordered # <<>> /\ ordered' = Tail(ordered)
      /\ status \in [Commands -> Statuses \cup {"unknown"}]
      /\ status' = [status EXCEPT ![t0] = IF @ = "unknown" THEN answer ELSE @]
  BY DEF TypeOK, Process
<1>2. /\ Len(ordered) \in Nat \ {0} /\ DOMAIN ordered = 1..Len(ordered)
      /\ DOMAIN ordered' = 1..(Len(ordered) - 1)
      /\ \A i \in 1..(Len(ordered) - 1) : ordered'[i] = ordered[i + 1]
      /\ Head(ordered) = ordered[1] /\ Head(ordered) \in Documents
      /\ ordered' \in Seq(Documents)
  BY <1>1
<1>3. t0 \in Commands
  BY <1>2 DEF Documents
<1>4. status[t0] = "unknown" => answer \in Statuses
  BY DEF Verdict, Statuses
<1> HIDE DEF t0, answer
<1>5. /\ status' \in [Commands -> Statuses \cup {"unknown"}]
      /\ status'[t0] # "unknown"
      /\ \A t \in Commands : status[t] # "unknown" => status'[t] = status[t]
      /\ \A t \in Commands : t # t0 => status'[t] = status[t]
  BY <1>1, <1>3, <1>4 DEF Statuses
<1>6. ASSUME NEW t \in Commands, Handed(t) PROVE Handed(t)'
  <2>1. CASE t = t0
    BY <1>5, <2>1 DEF Handed
  <2>2. CASE status[t] # "unknown"
    BY <1>5, <2>2 DEF Handed
  <2>3. CASE t # t0 /\ status[t] = "unknown"
    <3>1. PICK i \in DOMAIN ordered : ordered[i].txID = t
      BY <1>6, <2>3 DEF Handed
    <3>2. i # 1
      BY <1>2, <2>3, <3>1 DEF t0
    <3>3. i - 1 \in DOMAIN ordered' /\ ordered'[i - 1].txID = t
      BY <1>2, <3>1, <3>2
    <3> QED BY <3>3 DEF Handed
  <2> QED BY <2>1, <2>2, <2>3
<1>7. ASSUME NEW t \in Commands, Handed(t)' PROVE Handed(t)
  <2>1. CASE t = t0
    BY <1>2, <2>1 DEF Handed, t0
  <2>2. CASE t # t0 /\ status'[t] # "unknown"
    BY <1>5, <2>2 DEF Handed
  <2>3. CASE status'[t] = "unknown"
    <3>1. PICK i \in DOMAIN ordered' : ordered'[i].txID = t
      BY <1>7, <2>3 DEF Handed
    <3>2. i + 1 \in DOMAIN ordered /\ ordered[i + 1].txID = t
      BY <1>2, <3>1
    <3> QED BY <3>2 DEF Handed
  <2> QED BY <2>1, <2>2, <2>3
<1> QED BY <1>2, <1>5, <1>6, <1>7

LEMMA ProcessStep == ASSUME RunInv, Process PROVE RunInv'
<1>1. /\ UNCHANGED <<pc, line, hand, read, sub, saved, configVersion>>
      /\ TypeOK
  BY DEF RunInv, Process, runVars
<1>2. /\ ordered' \in Seq(Documents)
      /\ status' \in [Commands -> Statuses \cup {"unknown"}]
      /\ \A t \in Commands : Handed(t)' <=> Handed(t)
      /\ \A t \in Commands : status[t] = "committed" => status'[t] = "committed"
  BY <1>1, ProcessKeeps
<1>3. /\ \A c \in Commands : hand[c] # Nothing => hand[c].txID \in Commands
      /\ \A c \in Commands : sub[c] # "none" => hand[c] # Nothing
      /\ \A c \in Commands : pc[c] \in {"sent", "waiting", "succeeded"} => hand[c] # Nothing
      /\ \A c \in Commands : told[c] # "nothing" => sub[c] = "registered"
  BY <1>1 DEF TypeOK, RunInv, SubscribedInv, Documents
<1> DEFINE txID == Head(ordered).txID
           answer == IF status[txID] = "unknown" THEN Verdict(Head(ordered).tx) ELSE "duplicate"
<1>4. /\ answer \in Answers
      /\ \A c \in Commands :
            told'[c] # told[c] => /\ told'[c] = answer
                                  /\ sub[c] = "registered"
                                  /\ hand[c].txID = txID
      /\ told' \in [Commands -> Answers \cup {"nothing"}]
  BY <1>1 DEF Process, Answers, Statuses, Verdict, TypeOK
<1>5. txID \in Commands => (answer = "committed" => status'[txID] = "committed")
  BY <1>1 DEF Process, TypeOK
<1>6. current' \in [NsIDs -> SUBSET Nat]
  <2>1. \A v \in SUBSET Nat : NextVersion(v) \in SUBSET Nat
    BY DEF NextVersion
  <2> DEFINE n == Head(ordered).tx.namespaces[1].key
  <2>2. current' = [current EXCEPT ![n] = IF answer = "committed" THEN NextVersion(current[n])
                                                                  ELSE current[n]]
    BY DEF Process
  <2> HIDE DEF n, answer
  <2>3. current \in [NsIDs -> SUBSET Nat]
    BY <1>1 DEF TypeOK
  <2> QED BY <2>1, <2>2, <2>3
<1> HIDE DEF txID, answer
<1>7. TypeOK'
  BY <1>1, <1>2, <1>4, <1>6 DEF TypeOK
<1>8. AskedInv' /\ SubscribedInv'
  BY <1>1 DEF RunInv, AskedInv, SubscribedInv, Deploys, Submits
<1>9. ToldInv'
  BY <1>1, <1>2, <1>3, <1>4, <1>5 DEF RunInv, ToldInv
<1>10. HandedInv' /\ AskedForInv'
  BY <1>1, <1>2, <1>3 DEF RunInv, HandedInv, AskedForInv, Submits
<1>11. WaitedMeansCommitted'
  BY <1>1, <1>2, <1>3 DEF RunInv, WaitedMeansCommitted, Submits
<1> QED BY <1>7, <1>8, <1>9, <1>10, <1>11 DEF RunInv

LEMMA NetworkKeeps == ASSUME RunInv, NetworkStep PROVE RunInv'
<1>1. CASE Process
  BY <1>1, ProcessStep
<1>2. ASSUME NEW c \in Commands, Registers(c) \/ TimesOut(c) PROVE RunInv'
  <2>1. /\ UNCHANGED <<pc, line, hand, read, saved, ordered, configVersion, current, status>>
        /\ \/ sub[c] = "requested" /\ sub' = [sub EXCEPT ![c] = "registered"] /\ told' = told
           \/ /\ sub[c] = "registered" /\ sub' = sub
              /\ told' = [told EXCEPT ![c] = "unspecified"]
    BY <1>2 DEF Registers, TimesOut, runVars, ledgerVars
  <2>2. TypeOK'
    BY <2>1 DEF RunInv, TypeOK, Answers
  <2>3. AskedInv' /\ HandedInv' /\ AskedForInv' /\ WaitedMeansCommitted'
    BY <2>1 DEF RunInv, AskedInv, HandedInv, AskedForInv, WaitedMeansCommitted, Handed,
                Deploys, Submits
  <2>4. SubscribedInv' /\ ToldInv'
    BY <2>1 DEF RunInv, SubscribedInv, ToldInv, TypeOK
  <2> QED BY <2>2, <2>3, <2>4 DEF RunInv
<1>3. CASE EndorseSaved \/ UpdateConfig
  <2>1. UNCHANGED <<pc, line, hand, read, sub, told, ordered, current, status>>
    BY <1>3 DEF EndorseSaved, UpdateConfig, runVars, noticeVars, ledgerVars
  <2>2. saved' \subseteq Documents
    <3>1. CASE EndorseSaved
      <4>1. PICK d \in saved :
               saved' = saved \cup {[d EXCEPT !.tx = Endorse(Signer, d.txID, d.tx)]}
        BY <3>1 DEF EndorseSaved
      <4>2. d \in Documents /\ saved \subseteq Documents
        BY DEF RunInv, TypeOK
      <4> QED BY <4>1, <4>2, EndorsedDocument
    <3>2. CASE UpdateConfig
      BY <3>2 DEF UpdateConfig, RunInv, TypeOK
    <3> QED BY <1>3, <3>1, <3>2
  <2>3. configVersion' \in Nat
    BY <1>3 DEF EndorseSaved, UpdateConfig, ledgerVars, RunInv, TypeOK
  <2>4. TypeOK'
    BY <2>1, <2>2, <2>3 DEF RunInv, TypeOK
  <2>5. AskedInv' /\ SubscribedInv' /\ ToldInv' /\ HandedInv' /\ AskedForInv'
           /\ WaitedMeansCommitted'
    BY <2>1 DEF RunInv, AskedInv, SubscribedInv, ToldInv, HandedInv, AskedForInv,
                WaitedMeansCommitted, Handed, Deploys, Submits
  <2> QED BY <2>4, <2>5 DEF RunInv
<1> QED BY <1>1, <1>2, <1>3 DEF NetworkStep

-----------------------------------------------------------------------------
(* The invariant and what follows from it                                  *)

LEMMA RunInvStep == RunInv /\ [Next]_vars => RunInv'
<1> SUFFICES ASSUME RunInv, [Next]_vars PROVE RunInv'
  OBVIOUS
<1>1. CASE \E c \in Commands : CommandStep(c)
  BY <1>1, PreparationStep, SubmissionStep, OutcomeStep DEF CommandStep, Proceed
<1>2. CASE NetworkStep
  BY <1>2, NetworkKeeps
<1>3. CASE UNCHANGED vars
  BY <1>3 DEF vars, runVars, noticeVars, ledgerVars, RunInv, TypeOK, AskedInv, SubscribedInv,
              ToldInv, HandedInv, AskedForInv, WaitedMeansCommitted, Handed, Deploys, Submits
<1> QED BY <1>1, <1>2, <1>3 DEF Next

\* The runs, their subscriptions and the ledger stay in step, whatever the command
\* lines and however the runs and the network interleave.
THEOREM RunInvariant == Spec => []RunInv
BY RunInvInit, RunInvStep, PTL DEF Spec

\* Every variable keeps its type, and what a run holds fits where it stands.
THEOREM RunTypeCorrect == Spec => []TypeOK
<1>1. RunInv => TypeOK
  BY DEF RunInv
<1> QED BY <1>1, RunInvariant, PTL

\* Exit code 0 of a run that submitted with --wait means that its transaction was
\* committed (requireCommitted, namespace.go:45-50).
THEOREM WaitedRunsAreCommitted == Spec => []WaitedMeansCommitted
<1>1. RunInv => WaitedMeansCommitted
  BY DEF RunInv
<1> QED BY <1>1, RunInvariant, PTL

\* Exit code 0 of a run that submitted without it means that the ordering service
\* has accepted its transaction (Broadcast, orderer.go:58-102).
THEOREM SubmittedRunsAreAccepted == Spec => []SubmittedMeansAccepted
<1>1. RunInv => SubmittedMeansAccepted
  BY DEF RunInv, HandedInv, Handed, SubmittedMeansAccepted
<1> QED BY <1>1, RunInvariant, PTL

\* Both: whatever other runs do meanwhile, the exit code of a run that submits is true.
THEOREM ExitCodesAreTrue == Spec => []ExitCodeIsTrue
BY WaitedRunsAreCommitted, SubmittedRunsAreAccepted, PTL DEF ExitCodeIsTrue

\* Nothing is ordered that nobody asked to submit (DeployNamespace, deploy.go:67-82).
THEOREM OrderedIsAskedFor == Spec => []OnlyAskedForIsOrdered
<1>1. RunInv => OnlyAskedForIsOrdered
  BY DEF RunInv, AskedForInv, Handed, OnlyAskedForIsOrdered
<1> QED BY <1>1, RunInvariant, PTL

\* When the transaction of a run that waits is decided, its subscription has been
\* requested: the verdict never comes before the call at submit.go:63.
THEOREM DecidedOnlyWhileSubscribed == Spec => DecidedWhileSubscribed
<1>1. RunInv => \A c \in Commands :
                   line[c].wait /\ pc[c] \in {"sent", "waiting"} => sub[c] # "none"
  BY DEF RunInv, SubscribedInv
<1>2. RunInv => [ordered # <<>> /\ ordered' = Tail(ordered) =>
                    \A c \in Commands :
                       line[c].wait /\ pc[c] \in {"sent", "waiting"}
                           /\ hand[c].txID = Head(ordered).txID => sub[c] # "none"]_vars
  BY <1>1
<1> QED
  BY RunInvariant, <1>2, PTL DEF DecidedWhileSubscribed

-----------------------------------------------------------------------------
(* What a transaction says is what its administrator stated                *)

\* Document d is the one its run built: it names the namespace and the version of the
\* command line, under the config version the run was told.
Built(d) ==
    /\ pc[d.txID] \notin {"idle", "validated"}
    /\ Deploys(d.txID)
    /\ d.tx.namespaces = << [nsVersion |-> read[d.txID],
                             key       |-> line[d.txID].nsID,
                             value     |-> "policy",
                             version   |-> Stated(d.txID)] >>

\* So is every document there is, whoever has it and whoever endorsed it.
Around == {hand[c] : c \in Commands} \cup saved \cup {ordered[i] : i \in DOMAIN ordered}

BuiltInv == \A d \in Around \ {Nothing} : Built(d)

\* A run is told the config version once, before it has a document.
LEMMA RunsGoOn ==
    ASSUME RunInv, [Next]_vars
    PROVE  /\ line' = line
           /\ \A c \in Commands : pc[c] \notin {"idle", "validated"} =>
                 pc'[c] \notin {"idle", "validated"} /\ read'[c] = read[c]
<1>0. pc \in [Commands -> PCs] /\ read \in [Commands -> Nat \cup {-1}]
  BY DEF RunInv, TypeOK, PCs
<1>1. ASSUME NEW c \in Commands, CommandStep(c)
      PROVE  /\ line' = line
             /\ \A d \in Commands : pc[d] \notin {"idle", "validated"} =>
                   pc'[d] \notin {"idle", "validated"} /\ read'[d] = read[d]
  <2>1. CASE StartDeploy(c) \/ StartSubmit(c) \/ CreateNamespace(c)
    BY <1>0, <2>1 DEF StartDeploy, StartSubmit, CreateNamespace, Goto
  <2>2. CASE SkipEndorsement(c) \/ WriteOutput(c) \/ Subscribe(c) \/ Broadcast(c)
             \/ Acknowledged(c) \/ WaitForEvent(c) \/ WaitExpires(c) \/ Fail(c)
    BY <1>0, <2>2 DEF SkipEndorsement, WriteOutput, Subscribe, Broadcast, Acknowledged,
                      WaitForEvent, WaitExpires, Fail, Goto
  <2>3. CASE EndorseTransaction(c)
    BY <1>0, <2>3 DEF EndorseTransaction, AfterEndorsement, Goto, RunInv, TypeOK, CommandLines
  <2> QED BY <1>1, <2>1, <2>2, <2>3 DEF CommandStep, Proceed
<1>2. CASE NetworkStep
  BY <1>2 DEF NetworkStep, EndorseSaved, Process, UpdateConfig, Registers, TimesOut, runVars
<1>3. CASE UNCHANGED vars
  BY <1>3 DEF vars, runVars
<1> QED BY <1>1, <1>2, <1>3 DEF Next

\* What is built stays as it is.
LEMMA BuiltLasts ==
    ASSUME RunInv, [Next]_vars, NEW d, d.txID \in Commands, Built(d)
    PROVE  Built(d)'
BY RunsGoOn DEF Built, Deploys, Stated

\* Endorsing does not change what is written.
LEMMA EndorsedIsBuilt ==
    ASSUME NEW d \in Documents, Built(d)
    PROVE  Built([d EXCEPT !.tx = Endorse(Signer, d.txID, d.tx)])
<1> DEFINE e == [d EXCEPT !.tx = Endorse(Signer, d.txID, d.tx)]
<1>1. e.txID = d.txID /\ e.tx = Endorse(Signer, d.txID, d.tx)
  BY DEF Documents
<1>2. e.tx.namespaces = d.tx.namespaces
  BY <1>1 DEF Endorse, Documents, Transactions
<1> QED BY <1>1, <1>2 DEF Built

LEMMA BuiltInvInit == Init => BuiltInv
<1> SUFFICES ASSUME Init PROVE BuiltInv
  OBVIOUS
<1>1. DOMAIN ordered = {} /\ saved = {} /\ \A c \in Commands : hand[c] = Nothing
  BY DEF Init
<1> QED BY <1>1 DEF BuiltInv, Around

LEMMA BuiltInvStep == RunInv /\ BuiltInv /\ [Next]_vars => BuiltInv'
<1> SUFFICES ASSUME RunInv, BuiltInv, [Next]_vars PROVE BuiltInv'
  OBVIOUS
<1>0. /\ hand \in [Commands -> Documents \cup {Nothing}] /\ saved \subseteq Documents
      /\ ordered \in Seq(Documents) /\ pc \in [Commands -> PCs]
      /\ \A d \in Documents : d.txID \in Commands /\ d # Nothing
  BY NothingIsNoDocument DEF RunInv, TypeOK, PCs, Documents
<1>1. \A d \in Around \ {Nothing} : d \in Documents /\ Built(d)
  BY <1>0 DEF BuiltInv, Around
\* It is enough to look at a document that appears somewhere.
<1>2. ASSUME Around' \subseteq Around PROVE BuiltInv'
  BY <1>0, <1>1, <1>2, BuiltLasts DEF BuiltInv
<1>3. ASSUME NEW e, Built(e)', Around' \subseteq Around \cup {e} PROVE BuiltInv'
  BY <1>0, <1>1, <1>3, BuiltLasts DEF BuiltInv
<1>4. ASSUME NEW c \in Commands, CommandStep(c) PROVE BuiltInv'
  <2>1. CASE StartDeploy(c) \/ SkipEndorsement(c) \/ Subscribe(c) \/ Acknowledged(c)
             \/ WaitForEvent(c) \/ WaitExpires(c) \/ Fail(c)
    <3>1. UNCHANGED <<hand, saved, ordered>>
      BY <2>1 DEF StartDeploy, SkipEndorsement, Subscribe, Acknowledged, WaitForEvent,
                  WaitExpires, Fail
    <3> QED BY <1>2, <3>1 DEF Around
  <2>2. CASE StartSubmit(c)
    <3>1. PICK d \in saved : hand' = [hand EXCEPT ![c] = d]
      BY <2>2 DEF StartSubmit
    <3>2. UNCHANGED <<saved, ordered>>
      BY <2>2 DEF StartSubmit
    <3>3. \A b \in Commands : hand'[b] = hand[b] \/ hand'[b] = d
      BY <1>0, <3>1
    <3> QED BY <1>2, <3>2, <3>3 DEF Around
  <2>3. CASE CreateNamespace(c)
    <3>1. PICK d : d = [txID |-> c, tx |-> CreateNamespacesTx("policy", line[c].nsID,
                                                             line[c].version, configVersion)]
      OBVIOUS
    <3>2. /\ pc[c] = "validated" /\ pc' = [pc EXCEPT ![c] = "built"]
          /\ hand' = [hand EXCEPT ![c] = d]
          /\ read' = [read EXCEPT ![c] = configVersion]
          /\ UNCHANGED <<line, saved, ordered>>
      BY <2>3, <3>1 DEF CreateNamespace, Goto
    <3>3. Deploys(c) /\ pc'[c] = "built" /\ read'[c] = configVersion
      BY <1>0, <3>2 DEF RunInv, AskedInv, TypeOK
    <3>4. d.txID = c /\ d.tx = CreateNamespacesTx("policy", line[c].nsID, line[c].version,
                                                  configVersion)
      BY <3>1
    <3>5. d.tx.namespaces = << [nsVersion |-> configVersion, key |-> line[c].nsID,
                               value |-> "policy", version |-> Stated(c)] >>
      <4>1. PICK w : w = [nsVersion |-> configVersion, key |-> line[c].nsID,
                          value |-> "policy", version |-> Stated(c)]
        OBVIOUS
      <4>2. d.tx = [namespaces |-> <<w>>, endorsements |-> <<>>]
        BY ZenonT(30), <3>4, <4>1 DEF Stated, CreateNamespacesTx
      <4> QED BY <4>1, <4>2
    <3>6. Stated(c)' = Stated(c) /\ Deploys(c)'
      BY <3>2, <3>3 DEF Stated, Deploys
    <3>7. pc'[d.txID] \notin {"idle", "validated"} /\ Deploys(d.txID)'
      BY <3>3, <3>4, <3>6
    <3>8. d.tx.namespaces = << [nsVersion |-> read[d.txID], key |-> line[d.txID].nsID,
                                value |-> "policy", version |-> Stated(d.txID)] >>'
      BY <3>2, <3>3, <3>4, <3>5, <3>6
    <3>9. Built(d)'
      BY <3>7, <3>8 DEF Built
    <3>10. \A b \in Commands : hand'[b] = hand[b] \/ hand'[b] = d
      BY <1>0, <3>2
    <3>11. Around' \subseteq Around \cup {d}
      BY <3>2, <3>10 DEF Around
    <3> QED BY <1>3, <3>9, <3>11
  <2>4. CASE EndorseTransaction(c)
    <3>1. hand[c] # Nothing /\ hand[c] \in Around
      BY <2>4 DEF EndorseTransaction, Goto, RunInv, TypeOK, Around
    <3>2. PICK d : d = [hand[c] EXCEPT !.tx = Endorse(Signer, hand[c].txID, hand[c].tx)]
      OBVIOUS
    <3>3. d \in Documents /\ Built(d)
      BY <1>1, <3>1, <3>2, EndorsedDocument, EndorsedIsBuilt
    <3>4. hand' = [hand EXCEPT ![c] = d] /\ UNCHANGED <<saved, ordered>>
      BY <1>0, <2>4, <3>2 DEF EndorseTransaction
    <3>5. Built(d)'
      BY <1>0, <3>3, BuiltLasts
    <3>6. \A b \in Commands : hand'[b] = hand[b] \/ hand'[b] = d
      BY <1>0, <3>4
    <3>7. Around' \subseteq Around \cup {d}
      BY <3>4, <3>6 DEF Around
    <3> QED BY <1>3, <3>5, <3>7
  <2>5. CASE WriteOutput(c)
    <3>1. saved' = saved \cup {hand[c]} /\ UNCHANGED <<hand, ordered>>
      BY <2>5 DEF WriteOutput
    <3> QED BY <1>2, <3>1 DEF Around
  <2>6. CASE Broadcast(c)
    <3>1. /\ ordered' = Append(ordered, hand[c]) /\ UNCHANGED <<hand, saved>>
          /\ hand[c] \in Documents
      BY <2>6 DEF Broadcast, Goto, RunInv, TypeOK
    <3>2. \A i \in DOMAIN ordered' : (i \in DOMAIN ordered /\ ordered'[i] = ordered[i])
                                      \/ ordered'[i] = hand[c]
      BY <1>0, <3>1
    <3> QED BY <1>2, <3>1, <3>2 DEF Around
  <2> QED BY <1>4, <2>1, <2>2, <2>3, <2>4, <2>5, <2>6 DEF CommandStep, Proceed
<1>5. CASE NetworkStep
  <2>1. CASE EndorseSaved
    <3>1. PICK d \in saved :
             saved' = saved \cup {[d EXCEPT !.tx = Endorse(Signer, d.txID, d.tx)]}
      BY <2>1 DEF EndorseSaved
    <3>2. PICK e : e = [d EXCEPT !.tx = Endorse(Signer, d.txID, d.tx)]
      OBVIOUS
    <3>3. d \in Around /\ d \in Documents
      BY <1>0 DEF Around
    <3>4. e \in Documents /\ Built(e)
      BY <1>0, <1>1, <3>2, <3>3, EndorsedDocument, EndorsedIsBuilt
    <3>5. Built(e)'
      BY <1>0, <3>4, BuiltLasts
    <3>6. Around' \subseteq Around \cup {e}
      BY <2>1, <3>1, <3>2 DEF EndorseSaved, runVars, Around
    <3> QED BY <1>3, <3>5, <3>6
  <2>2. CASE Process
    <3>1. ordered # <<>> /\ ordered' = Tail(ordered) /\ UNCHANGED <<hand, saved>>
      BY <2>2 DEF Process, runVars
    <3>2. \A i \in DOMAIN ordered' : i + 1 \in DOMAIN ordered /\ ordered'[i] = ordered[i + 1]
      BY <1>0, <3>1
    <3> QED BY <1>2, <3>1, <3>2 DEF Around
  <2>3. CASE UpdateConfig \/ \E c \in Commands : Registers(c) \/ TimesOut(c)
    <3>1. UNCHANGED <<hand, saved, ordered>>
      BY <2>3 DEF UpdateConfig, Registers, TimesOut, runVars
    <3> QED BY <1>2, <3>1 DEF Around
  <2> QED BY <1>5, <2>1, <2>2, <2>3 DEF NetworkStep
<1>6. CASE UNCHANGED vars
  <2>1. UNCHANGED <<hand, saved, ordered>>
    BY <1>6 DEF vars, runVars
  <2> QED BY <1>2, <2>1 DEF Around
<1> QED BY <1>4, <1>5, <1>6 DEF Next

-----------------------------------------------------------------------------
(* The versions of the committed transactions                              *)

\* What a committed transaction wrote is there, under a version above the stated one.
CommittedInv ==
    \A c \in Commands : status[c] = "committed" =>
        /\ current[line[c].nsID] # {}
        /\ \A v \in Stated(c) : \A k \in current[line[c].nsID] : k > v

LedgerInv ==
    /\ RunInv
    /\ BuiltInv
    /\ CommittedInv
    /\ NoUpdateLost

\* The transaction that is decided next, and what its verdict means.
LEMMA DecidedIsBuilt ==
    ASSUME RunInv, BuiltInv, Process,
           NEW d, d = Head(ordered),
           NEW c, c = d.txID
    PROVE  /\ c \in Commands /\ Deploys(c) /\ line[c].nsID \in NsIDs
           /\ Verdict(d.tx) = "committed" =>
                 read[c] = configVersion /\ current[line[c].nsID] = Stated(c)
           /\ Verdict(d.tx) = "aborted_mvcc" =>
                 ~(read[c] = configVersion /\ current[line[c].nsID] = Stated(c))
           /\ status' = [status EXCEPT ![c] = IF @ = "unknown" THEN Verdict(d.tx) ELSE @]
           /\ current' = [current EXCEPT ![line[c].nsID] =
                             IF status[c] = "unknown" /\ Verdict(d.tx) = "committed"
                             THEN NextVersion(@) ELSE @]
<1> DEFINE ns == d.tx.namespaces[1]
<1>1. ordered \in Seq(Documents) /\ ordered # <<>>
  BY DEF RunInv, TypeOK, Process
<1>2. d \in Documents /\ d \in Around /\ d # Nothing
  BY <1>1, NothingIsNoDocument DEF Around
<1>3. c \in Commands /\ Built(d)
  BY <1>2 DEF BuiltInv, Documents
<1>4. /\ Deploys(c) /\ ns.key = line[c].nsID /\ ns.version = Stated(c) /\ ns.nsVersion = read[c]
  BY <1>3 DEF Built
<1>5. line[c].nsID \in NsIDs
  BY <1>3 DEF RunInv, TypeOK, CommandLines
<1>6. /\ Verdict(d.tx) = "committed" => ns.nsVersion = configVersion /\ ns.version = current[ns.key]
      /\ Verdict(d.tx) = "aborted_mvcc" => ~(ns.nsVersion = configVersion
                                             /\ ns.version = current[ns.key])
  BY DEF Verdict
<1>7. status' = [status EXCEPT ![c] = IF @ = "unknown" THEN Verdict(d.tx) ELSE @]
  BY <1>3 DEF Process, RunInv, TypeOK
<1>8. Verdict(d.tx) # "duplicate"
  BY DEF Verdict
<1>9. current' = [current EXCEPT ![ns.key] =
                     IF status[c] = "unknown" /\ Verdict(d.tx) = "committed"
                     THEN NextVersion(@) ELSE @]
  BY <1>8 DEF Process
<1> HIDE DEF ns
<1> QED BY <1>3, <1>4, <1>5, <1>6, <1>7, <1>9

LEMMA ProcessKeepsVersions ==
    ASSUME LedgerInv, Process
    PROVE  CommittedInv' /\ NoUpdateLost'
<1> DEFINE d == Head(ordered)
           t == d.txID
           n == line[t].nsID
           verdict == Verdict(d.tx)
<1>0. /\ RunInv /\ BuiltInv /\ CommittedInv /\ NoUpdateLost
      /\ line' = line
      /\ status \in [Commands -> Statuses \cup {"unknown"}]
      /\ current \in [NsIDs -> SUBSET Nat]
      /\ \A c \in Commands : line[c].nsID \in NsIDs /\ line[c].version \in Int
      /\ \A c \in Commands : Stated(c) \subseteq Nat /\ Stated(c)' = Stated(c)
                             /\ (Deploys(c)' <=> Deploys(c))
  BY DEF LedgerInv, RunInv, TypeOK, Process, runVars, CommandLines, Stated, Deploys
<1>1. /\ t \in Commands /\ n \in NsIDs
      /\ verdict = "committed" => current[n] = Stated(t)
      /\ status' = [status EXCEPT ![t] = IF @ = "unknown" THEN verdict ELSE @]
      /\ current' = [current EXCEPT ![n] = IF status[t] = "unknown" /\ verdict = "committed"
                                           THEN NextVersion(@) ELSE @]
  BY <1>0, DecidedIsBuilt
<1> HIDE DEF d, t, n, verdict
<1>2. CASE ~(status[t] = "unknown" /\ verdict = "committed")
  <2>1. current' = current /\ \A c \in Commands : status'[c] = "committed" => status[c] = "committed"
    BY <1>0, <1>1, <1>2
  <2> QED BY <1>0, <2>1 DEF CommittedInv, NoUpdateLost
<1>3. CASE status[t] = "unknown" /\ verdict = "committed"
  <2>1. /\ current[n] = Stated(t)
        /\ current'[n] = NextVersion(Stated(t))
        /\ \A m \in NsIDs : m # n => current'[m] = current[m]
        /\ \A c \in Commands : status'[c] = "committed" => status[c] = "committed" \/ c = t
    BY <1>0, <1>1, <1>3
  <2>2. /\ current'[n] # {}
        /\ \A k \in current'[n] : \A v \in current[n] : k > v
    <3>1. CASE Stated(t) = {}
      BY <2>1, <3>1 DEF NextVersion
    <3>2. CASE Stated(t) # {}
      <4>1. Stated(t) = {line[t].version} /\ line[t].version \in Nat
        BY <1>0, <1>1, <3>2 DEF Stated
      <4>2. current'[n] = {line[t].version + 1}
        BY <2>1, <3>2, <4>1 DEF NextVersion
      <4>3. current[n] = {line[t].version}
        BY <2>1, <4>1
      <4>4. line[t].version + 1 > line[t].version
        BY ONLY <4>1
      <4> QED BY ONLY <4>2, <4>3, <4>4
    <3> QED BY <3>1, <3>2
  <2>3. \A c \in Commands : line[c].nsID = n /\ status[c] = "committed" => Stated(c) # Stated(t)
    BY <1>0, <2>1 DEF CommittedInv
  <2>4. ASSUME NEW c \in Commands, status'[c] = "committed"
        PROVE  /\ current'[line[c].nsID] # {}
               /\ \A v \in Stated(c) : \A k \in current'[line[c].nsID] : k > v
    <3>1. CASE c = t
      BY <2>1, <2>2, <3>1 DEF n
    <3>2. CASE c # t /\ line[c].nsID # n
      BY <1>0, <2>1, <2>4, <3>2 DEF CommittedInv
    <3>3. CASE c # t /\ line[c].nsID = n
      <4>1. current[n] # {} /\ \A v \in Stated(c) : \A k \in current[n] : k > v
        BY <2>1, <2>4, <3>3 DEF CommittedInv, LedgerInv
      <4>2. current[n] \subseteq Nat /\ Stated(c) \subseteq Nat /\ current'[n] \subseteq Nat
        BY <1>0, <1>1, <2>1 DEF NextVersion
      <4>3. PICK j \in current[n] : TRUE
        BY <4>1
      <4>4. ASSUME NEW v \in Stated(c), NEW k \in current'[n] PROVE k > v
        <5>1. j > v /\ k > j /\ j \in Nat /\ k \in Nat /\ v \in Nat
          BY <2>2, <4>1, <4>2
        <5> QED BY <5>1
      <4> QED BY <2>2, <3>3, <4>4
    <3> QED BY <3>1, <3>2, <3>3
  <2>5. CommittedInv'
    BY <1>0, <2>4 DEF CommittedInv
  <2>6. NoUpdateLost'
    BY <1>0, <2>1, <2>3 DEF NoUpdateLost, n
  <2> QED BY <2>5, <2>6
<1> QED BY <1>2, <1>3

LEMMA LedgerInvInit == Init => LedgerInv
BY RunInvInit, BuiltInvInit DEF Init, LedgerInv, CommittedInv, NoUpdateLost

LEMMA LedgerInvStep == LedgerInv /\ [Next]_vars => LedgerInv'
<1> SUFFICES ASSUME LedgerInv, [Next]_vars PROVE LedgerInv'
  OBVIOUS
<1>1. RunInv' /\ BuiltInv'
  BY RunInvStep, BuiltInvStep DEF LedgerInv
<1>2. CASE Process
  BY <1>1, <1>2, ProcessKeepsVersions DEF LedgerInv
<1>3. ASSUME UNCHANGED <<line, status, current>> PROVE CommittedInv' /\ NoUpdateLost'
  BY <1>3 DEF LedgerInv, CommittedInv, NoUpdateLost, Stated, Deploys
<1>4. CASE ~Process
  <2>1. UNCHANGED <<status, current>>
    BY <1>4 DEF Next, NetworkStep, CommandStep, Proceed, StartDeploy, StartSubmit,
                CreateNamespace, SkipEndorsement, EndorseTransaction, WriteOutput, Subscribe,
                Broadcast, Acknowledged, WaitForEvent, WaitExpires, Fail, EndorseSaved,
                UpdateConfig, Registers, TimesOut, vars, ledgerVars
  <2> QED BY <1>1, <1>3, <2>1, RunsGoOn DEF LedgerInv
<1> QED BY <1>2, <1>4

\* The documents and the ledger stay in step with the command lines: every document says
\* what its run was told to say, and what has committed is above what it stated.
THEOREM LedgerInvariant == Spec => []LedgerInv
BY LedgerInvInit, LedgerInvStep, PTL DEF Spec

\* Of two deployments that state the same version of a namespace, one commits at most
\* (namespace_update.go:37), however many runs overlap and whoever submits their files.
THEOREM NoUpdateIsLost == Spec => []NoUpdateLost
<1>1. LedgerInv => NoUpdateLost
  BY DEF LedgerInv
<1> QED BY <1>1, LedgerInvariant, PTL

\* A deployment commits only over the version its command line names, and is refused for
\* its version only if that or the channel config has changed (create.go:31-38).
THEOREM DecisionsAreAsStated == Spec => DecidedAsStated
<1> DEFINE AsStated(c) == read[c] = configVersion /\ current[line[c].nsID] = Stated(c)
           Decision ==
               \A c \in Commands :
                  Deploys(c) /\ status[c] = "unknown" /\ status'[c] # "unknown" =>
                      /\ status'[c] = "committed" => AsStated(c)
                      /\ status'[c] = "aborted_mvcc" => ~AsStated(c)
<1>1. ASSUME LedgerInv, Process PROVE Decision
  <2>1. RunInv /\ BuiltInv /\ status \in [Commands -> Statuses \cup {"unknown"}]
    BY <1>1 DEF LedgerInv, RunInv, TypeOK
  <2> QED BY <1>1, <2>1, DecidedIsBuilt
<1>2. ASSUME [Next]_vars, ~Process PROVE Decision
  <2>1. UNCHANGED status
    BY <1>2 DEF Next, NetworkStep, CommandStep, Proceed, StartDeploy, StartSubmit,
                CreateNamespace, SkipEndorsement, EndorseTransaction, WriteOutput, Subscribe,
                Broadcast, Acknowledged, WaitForEvent, WaitExpires, Fail, EndorseSaved,
                UpdateConfig, Registers, TimesOut, vars, ledgerVars
  <2> QED BY <2>1
<1>3. LedgerInv /\ [Next]_vars =>
        [\A c \in Commands :
           Deploys(c) /\ status[c] = "unknown" /\ status'[c] # "unknown" =>
               LET asStated == /\ read[c] = configVersion
                               /\ current[line[c].nsID] = Stated(c)
               IN /\ status'[c] = "committed" => asStated
                  /\ status'[c] = "aborted_mvcc" => ~asStated]_vars
  BY <1>1, <1>2
<1> QED BY LedgerInvariant, <1>3, PTL DEF Spec, DecidedAsStated

=============================================================================
