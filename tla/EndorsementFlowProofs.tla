------------------------ MODULE EndorsementFlowProofs ------------------------
(***************************************************************************)
(* The endorsement flow, for any number of administrators, files, requests *)
(* and transaction IDs: what files and processes hold is always a          *)
(* transaction, its endorsements are genuine, and the flow implements      *)
(* Approval.                                                               *)
(***************************************************************************)
EXTENDS EndorsementFlow, TransactionProofs

\* The transactions of the flow, and what is written to a file.
Transactions ==
    {tx \in [namespaces : Seq(Namespaces), endorsements : Seq(Seq(Endorsements))] : WellFormed(tx)}

Contents == {Holding(txID, tx) : txID \in TxIDs, tx \in Transactions}

Jobs ==
    {Idle}
    \cup {Merging(inputs) : inputs \in Seq(Contents)}
    \cup {Ready(content) : content \in Contents}
    \cup {Writing(content, out) : content \in Contents, out \in Files}

TypeInv ==
    /\ files \in [Files -> {NoFile, Torn} \cup Contents]
    /\ job \in [Admins -> Jobs]
    /\ generated \subseteq TxIDs
    /\ signed \subseteq Endorsements

LEMMA MspsAreNumbers == \A e \in Endorsements : MspOf(e) \in Int
BY SignersAssumption DEF Endorsements, MspOf

LEMMA ContentIs ==
    ASSUME NEW content \in Contents
    PROVE  /\ content = Holding(content.txID, content.tx)
           /\ content.file = "transaction"
           /\ content.txID \in TxIDs
           /\ content.tx \in Transactions
           /\ content.tx.namespaces \in Seq(Namespaces)
           /\ content.tx.endorsements \in Seq(Seq(Endorsements))
           /\ WellFormed(content.tx)
           /\ \A n : EndorsementsOf(content.tx, n) \in Seq(Endorsements)
<1>1. PICK txID \in TxIDs, tx \in Transactions : content = Holding(txID, tx)
  BY DEF Contents
<1>2. content.file = "transaction" /\ content.txID = txID /\ content.tx = tx
  BY <1>1 DEF Holding
<1>3. tx.endorsements \in Seq(Seq(Endorsements))
  BY DEF Transactions
<1>4. \A n : EndorsementsOf(tx, n) \in Seq(Endorsements)
  BY <1>3 DEF EndorsementsOf
<1> QED BY <1>1, <1>2, <1>3, <1>4 DEF Transactions

LEMMA TypeInvIsTypeOK == TypeInv => TypeOK
<1> SUFFICES ASSUME TypeInv PROVE TypeOK
  OBVIOUS
<1>1. \A content \in Contents : IsDocument(content)
  BY ContentIs DEF IsDocument
<1>2. \A f \in Files : files[f] \in {NoFile, Torn} \/ IsDocument(files[f])
  BY <1>1 DEF TypeInv
<1>3. ASSUME NEW a \in Admins
      PROVE  \/ job[a] = Idle
             \/ job[a].stage = "merging" /\ \A i \in DOMAIN job[a].inputs :
                                                IsDocument(job[a].inputs[i])
             \/ /\ job[a].stage \in {"ready", "truncated"}
                /\ job[a].stage = "truncated" => job[a].out \in Files
                /\ IsDocument(job[a].content)
  <2>1. job[a] \in Jobs
    BY DEF TypeInv
  <2>2. CASE \E inputs \in Seq(Contents) : job[a] = Merging(inputs)
    BY <1>1, <2>2 DEF Merging
  <2>3. CASE \E content \in Contents : job[a] = Ready(content)
    BY <1>1, <2>3 DEF Ready
  <2>4. CASE \E content \in Contents, out \in Files : job[a] = Writing(content, out)
    BY <1>1, <2>4 DEF Writing
  <2> QED BY <2>1, <2>2, <2>3, <2>4 DEF Jobs
<1> QED BY <1>2, <1>3 DEF TypeOK, TypeInv

-----------------------------------------------------------------------------
(* What the operations of a transaction make                               *)

LEMMA CreatedIs ==
    ASSUME NEW request \in Requests, NEW v \in ConfigVersions,
           NEW tx, tx = CreateNamespacesTx(request.nsPolicy, request.nsID, request.nsVersion, v)
    PROVE  tx \in Transactions /\ tx.endorsements = <<>>
<1>1. PICK ns : ns = [nsVersion |-> v, key |-> request.nsID, value |-> request.nsPolicy,
                      version |-> IF request.nsVersion >= 0 THEN {request.nsVersion} ELSE {}]
  OBVIOUS
<1>2. tx = [namespaces |-> <<ns>>, endorsements |-> <<>>]
  BY <1>1 DEF CreateNamespacesTx
<1>3. ns \in Namespaces
  BY <1>1 DEF Namespaces
<1>4. <<ns>> \in Seq(Namespaces) /\ <<>> \in Seq(Seq(Endorsements)) /\ Len(<<>>) = 0
  BY <1>3
<1> QED BY <1>2, <1>4 DEF Transactions, WellFormed

LEMMA EndorsedIs ==
    ASSUME NEW a \in Admins, NEW txID \in TxIDs, NEW tx \in Transactions,
           NEW new, new = Endorse(SignerOf[a], txID, tx)
    PROVE  /\ new \in Transactions
           /\ new.namespaces = tx.namespaces
           /\ DOMAIN new.endorsements = DOMAIN tx.namespaces
           /\ \A n \in DOMAIN tx.namespaces :
                 /\ EndorsementsOf(tx, n) \in Seq(Endorsements)
                 /\ Endorsement(SignerOf[a], txID, tx.namespaces[n]) \in Endorsements
                 /\ new.endorsements[n] = Append(EndorsementsOf(tx, n),
                                                 Endorsement(SignerOf[a], txID, tx.namespaces[n]))
<1>1. PICK k : k = Len(tx.namespaces)
  OBVIOUS
<1>2. tx.namespaces \in Seq(Namespaces) /\ k \in Nat /\ DOMAIN tx.namespaces = 1..k
  BY <1>1 DEF Transactions
<1>3. PICK sets : sets = [n \in 1..k |-> Append(EndorsementsOf(tx, n),
                                               Endorsement(SignerOf[a], txID, tx.namespaces[n]))]
  OBVIOUS
<1>4. new = [namespaces |-> tx.namespaces, endorsements |-> sets]
  BY <1>2, <1>3 DEF Endorse, Transactions
<1>5. ASSUME NEW n \in 1..k
      PROVE  /\ EndorsementsOf(tx, n) \in Seq(Endorsements)
             /\ Endorsement(SignerOf[a], txID, tx.namespaces[n]) \in Endorsements
             /\ sets[n] \in Seq(Endorsements)
  <2>1. tx.endorsements \in Seq(Seq(Endorsements))
    BY DEF Transactions
  <2>2. EndorsementsOf(tx, n) \in Seq(Endorsements)
    BY <2>1 DEF EndorsementsOf
  <2>3. Endorsement(SignerOf[a], txID, tx.namespaces[n]) \in Endorsements
    BY <1>2 DEF Endorsement, Endorsements
  <2> QED BY <1>3, <2>2, <2>3
<1>6. sets \in Seq(Seq(Endorsements)) /\ Len(sets) = k /\ DOMAIN sets = 1..k
  <2>1. PICK S : S = Seq(Endorsements)
    OBVIOUS
  <2>2. sets = [n \in 1..k |-> sets[n]] /\ \A n \in 1..k : sets[n] \in S
    BY <1>3, <1>5, <2>1
  <2>3. sets \in Seq(S) /\ Len(sets) = k
    BY <1>2, <2>2
  <2> QED BY <1>3, <2>1, <2>3
<1>7. new \in Transactions
  BY <1>1, <1>2, <1>4, <1>6 DEF Transactions, WellFormed
<1> QED BY <1>2, <1>3, <1>4, <1>5, <1>6, <1>7

\* Everything in a merged file is in one of its inputs, and no MSP is lost.
LEMMA MergedFileIs ==
    ASSUME NEW inputs \in Seq(Contents), Len(inputs) >= 2,
           NEW txs, txs = [i \in DOMAIN inputs |-> inputs[i].tx], Mergeable(txs)
    PROVE  /\ Merge(txs) \in Transactions
           /\ Merge(txs).namespaces = inputs[1].tx.namespaces
           /\ DOMAIN Merge(txs).endorsements = DOMAIN inputs[1].tx.namespaces
           /\ \A i \in DOMAIN inputs : inputs[i].tx.namespaces = inputs[1].tx.namespaces
           /\ \A n \in DOMAIN inputs[1].tx.namespaces :
                 /\ \A e : In(Merge(txs).endorsements[n], e)
                              => \E i \in DOMAIN inputs : In(EndorsementsOf(inputs[i].tx, n), e)
                 /\ \A msp : HasMsp(Merge(txs).endorsements[n], msp)
                              <=> \E i \in DOMAIN inputs :
                                      HasMsp(EndorsementsOf(inputs[i].tx, n), msp)
<1>1. /\ Len(inputs) \in Nat /\ DOMAIN inputs = 1..Len(inputs) /\ 1 \in DOMAIN inputs
      /\ \A i \in DOMAIN inputs : inputs[i] \in Contents
  OBVIOUS
<1>2. /\ DOMAIN txs = 1..Len(inputs) /\ txs \in Seq(Transactions) /\ Len(txs) = Len(inputs)
      /\ \A i \in DOMAIN inputs : txs[i] = inputs[i].tx
  BY <1>1, ContentIs
<1>3. \A i \in DOMAIN inputs : inputs[i].tx.namespaces = inputs[1].tx.namespaces
  BY <1>1, <1>2 DEF Mergeable
<1>4. PICK namespaces : namespaces = inputs[1].tx.namespaces
  OBVIOUS
<1>5. txs[1].namespaces = namespaces /\ namespaces \in Seq(Namespaces)
  BY <1>1, <1>2, <1>4, ContentIs
<1>6. \A n, i : i \in DOMAIN inputs => EndorsementsOf(inputs[i].tx, n) \in Seq(Endorsements)
  BY <1>1, ContentIs
<1>7. PICK m : m = Merge(txs)
  OBVIOUS
<1>8. /\ m = [namespaces |-> txs[1].namespaces, endorsements |-> m.endorsements]
      /\ m.endorsements \in Seq(Seq(Endorsements))
      /\ Len(m.endorsements) = Len(txs[1].namespaces)
      /\ \A n \in DOMAIN txs[1].namespaces :
            /\ SortedByMsp(m.endorsements[n])
            /\ \A e : In(m.endorsements[n], e) <=> FirstOfAll(SetsOf(txs, n), e)
  <2>1. DOMAIN txs = 1..Len(txs) /\ Len(txs) \in Nat /\ Len(txs) > 0
    BY <1>1, <1>2
  <2>2. \A n \in DOMAIN txs[1].namespaces, i \in DOMAIN txs :
            EndorsementsOf(txs[i], n) \in Seq(Endorsements)
    BY <1>1, <1>2, <1>6
  <2> QED BY <1>5, <1>7, <2>1, <2>2, MspsAreNumbers, MergeIs
<1>9. m \in Transactions /\ m.namespaces = namespaces
  BY <1>5, <1>8 DEF Transactions, WellFormed
<1>10. DOMAIN m.endorsements = DOMAIN namespaces
  BY <1>5, <1>8
<1>11. ASSUME NEW n \in DOMAIN namespaces
       PROVE  /\ \A e : In(m.endorsements[n], e)
                            => \E i \in DOMAIN inputs : In(EndorsementsOf(inputs[i].tx, n), e)
              /\ \A msp : HasMsp(m.endorsements[n], msp)
                            <=> \E i \in DOMAIN inputs :
                                    HasMsp(EndorsementsOf(inputs[i].tx, n), msp)
  <2>1. PICK sets : sets = SetsOf(txs, n)
    OBVIOUS
  <2>2. /\ DOMAIN sets = DOMAIN inputs /\ Len(sets) = Len(inputs)
        /\ \A i \in DOMAIN inputs : sets[i] = EndorsementsOf(inputs[i].tx, n)
        /\ sets \in Seq(Seq(Endorsements))
    <3>1. DOMAIN txs = DOMAIN inputs
      BY <1>1, <1>2
    <3>2. sets = [i \in DOMAIN inputs |-> EndorsementsOf(inputs[i].tx, n)]
      BY <1>2, <2>1, <3>1 DEF SetsOf
    <3>3. PICK S : S = Seq(Endorsements)
      OBVIOUS
    <3>4. sets \in Seq(S) /\ Len(sets) = Len(inputs)
      <4>1. PICK k : k = Len(inputs)
        OBVIOUS
      <4>2. k \in Nat /\ sets = [i \in 1..k |-> sets[i]] /\ \A i \in 1..k : sets[i] \in S
        BY <1>1, <1>6, <3>2, <3>3, <4>1
      <4>3. sets \in Seq(S) /\ Len(sets) = k
        BY <4>2
      <4> QED BY <4>1, <4>3
    <3> QED BY <3>2, <3>3, <3>4
  <2>3. \A e : In(m.endorsements[n], e) <=> FirstOfAll(sets, e)
    BY <1>5, <1>8, <2>1
  <2>4. ASSUME NEW e, FirstOfAll(sets, e)
        PROVE  \E i \in DOMAIN inputs : In(EndorsementsOf(inputs[i].tx, n), e)
    <3>1. PICK i \in DOMAIN inputs : IsFirst(sets[i], e)
      BY <1>1, <2>2, <2>4 DEF FirstOfAll, FirstOfSome
    <3>2. sets[i] \in Seq(Endorsements)
      BY <1>6, <2>2
    <3>3. In(sets[i], e)
      BY <3>1, <3>2 DEF IsFirst, FirstUpTo, In
    <3> QED BY <2>2, <3>3
  <2>5. \A msp : (\E i \in DOMAIN sets : HasMsp(sets[i], msp))
                    <=> \E e : FirstOfAll(sets, e) /\ MspOf(e) = msp
    BY <2>2, EveryMspHasAFirstOfAll
  <2>6. \A msp : HasMsp(m.endorsements[n], msp)
                    <=> \E e : In(m.endorsements[n], e) /\ MspOf(e) = msp
    BY DEF HasMsp, In
  <2>7. ASSUME NEW msp
        PROVE  HasMsp(m.endorsements[n], msp)
                   <=> \E i \in DOMAIN inputs : HasMsp(EndorsementsOf(inputs[i].tx, n), msp)
    BY <2>2, <2>3, <2>5, <2>6
  <2> QED BY <2>3, <2>4, <2>7
<1> QED BY <1>3, <1>4, <1>7, <1>9, <1>10, <1>11

-----------------------------------------------------------------------------
(* Types                                                                   *)

\* The inputs a merging process has read so far, in the sense of ReadInput.
LEMMA ReadInputIs ==
    ASSUME TypeInv, NEW a \in Admins, NEW in \in Files, ReadInput(a, in)
    PROVE  /\ UNCHANGED <<files, generated, signed>>
           /\ \/ job' = [job EXCEPT ![a] = Idle]
              \/ \E inputs \in Seq(Contents) :
                    /\ (job[a] = Idle /\ inputs = <<>>) \/ job[a] = Merging(inputs)
                    /\ files[in] \in Contents
                    /\ job' = [job EXCEPT ![a] = Merging(Append(inputs, files[in]))]
<1>1. job[a] \in Jobs /\ files[in] \in {NoFile, Torn} \cup Contents
  BY DEF TypeInv
<1>2. PICK inputs : inputs = IF job[a] = Idle THEN <<>> ELSE job[a].inputs
  OBVIOUS
<1>3. /\ job[a].stage \in {"idle", "merging"}
      /\ job' = [job EXCEPT ![a] = IF Readable(files[in])
                                   THEN Merging(Append(inputs, files[in]))
                                   ELSE Idle]
      /\ UNCHANGED <<files, generated, signed>>
  BY <1>2 DEF ReadInput
<1>4. inputs \in Seq(Contents) /\ ((job[a] = Idle /\ inputs = <<>>) \/ job[a] = Merging(inputs))
  <2>1. CASE job[a] = Idle
    BY <1>2, <2>1
  <2>2. CASE job[a] # Idle
    <3>1. PICK ins \in Seq(Contents) : job[a] = Merging(ins)
      <4>1. CASE \E c \in Contents : job[a] = Ready(c)
        BY <1>3, <4>1 DEF Ready
      <4>2. CASE \E c \in Contents, out \in Files : job[a] = Writing(c, out)
        BY <1>3, <4>2 DEF Writing
      <4> QED BY <1>1, <2>2, <4>1, <4>2 DEF Jobs
    <3>2. inputs = ins
      BY <1>2, <2>2, <3>1 DEF Merging
    <3> QED BY <3>1, <3>2
  <2> QED BY <2>1, <2>2
<1>5. CASE Readable(files[in])
  <2>1. files[in] \in Contents
    BY <1>1, <1>5 DEF Readable, NoFile, Torn
  <2>2. job' = [job EXCEPT ![a] = Merging(Append(inputs, files[in]))]
    BY <1>3, <1>5
  <2> QED BY <1>3, <1>4, <2>1, <2>2
<1>6. CASE ~Readable(files[in])
  BY <1>3, <1>6
<1> QED BY <1>5, <1>6

LEMMA MergeFilesIs ==
    ASSUME TypeInv, NEW a \in Admins, MergeFiles(a)
    PROVE  /\ UNCHANGED <<files, generated, signed>>
           /\ \/ job' = [job EXCEPT ![a] = Idle]
              \/ \E inputs \in Seq(Contents) : \E txs :
                    /\ job[a] = Merging(inputs)
                    /\ Len(inputs) >= 2
                    /\ txs = [i \in DOMAIN inputs |-> inputs[i].tx]
                    /\ SameTxID(inputs)
                    /\ Mergeable(txs)
                    /\ job' = [job EXCEPT ![a] = Ready(Holding(inputs[1].txID, Merge(txs)))]
<1>1. job[a] \in Jobs
  BY DEF TypeInv
<1>2. PICK inputs, txs : inputs = job[a].inputs /\ txs = [i \in DOMAIN inputs |-> inputs[i].tx]
  OBVIOUS
<1>3. /\ job[a].stage = "merging"
      /\ Len(inputs) >= 2
      /\ job' = [job EXCEPT ![a] = IF SameTxID(inputs) /\ Mergeable(txs)
                                   THEN Ready(Holding(inputs[1].txID, Merge(txs)))
                                   ELSE Idle]
      /\ UNCHANGED <<files, generated, signed>>
  BY <1>2 DEF MergeFiles
<1>4. PICK ins \in Seq(Contents) : job[a] = Merging(ins)
  <2>1. CASE \E c \in Contents : job[a] = Ready(c)
    BY <1>3, <2>1 DEF Ready
  <2>2. CASE \E c \in Contents, out \in Files : job[a] = Writing(c, out)
    BY <1>3, <2>2 DEF Writing
  <2>3. CASE job[a] = Idle
    BY <1>3, <2>3 DEF Idle
  <2> QED BY <1>1, <2>1, <2>2, <2>3 DEF Jobs
<1>5. inputs \in Seq(Contents) /\ job[a] = Merging(inputs)
  BY <1>2, <1>4 DEF Merging
<1>6. CASE SameTxID(inputs) /\ Mergeable(txs)
  <2>1. job' = [job EXCEPT ![a] = Ready(Holding(inputs[1].txID, Merge(txs)))]
    BY <1>3, <1>6
  <2> QED BY <1>2, <1>3, <1>5, <1>6, <2>1
<1>7. CASE ~(SameTxID(inputs) /\ Mergeable(txs))
  BY <1>3, <1>7
<1> QED BY <1>6, <1>7

LEMMA TruncateIs ==
    ASSUME TypeInv, NEW a \in Admins, NEW out \in Files, Truncate(a, out)
    PROVE  \E content \in Contents :
              /\ job[a] = Ready(content)
              /\ job' = [job EXCEPT ![a] = Writing(content, out)]
<1>1. job[a] \in Jobs /\ job[a].stage = "ready"
  BY DEF TypeInv, Truncate
<1>2. PICK content \in Contents : job[a] = Ready(content)
  BY <1>1 DEF Jobs, Idle, Merging, Writing
<1>3. job[a].content = content
  BY <1>2 DEF Ready
<1>4. job' = [job EXCEPT ![a] = Writing(content, out)]
  BY <1>3 DEF Truncate
<1> QED BY <1>2, <1>4

LEMMA WriteIs ==
    ASSUME TypeInv, NEW a \in Admins, Write(a)
    PROVE  \E content \in Contents, out \in Files :
              /\ job[a] = Writing(content, out)
              /\ files' = [files EXCEPT ![out] = content]
<1>1. job[a] \in Jobs /\ job[a].stage = "truncated"
  BY DEF TypeInv, Write
<1>2. PICK content \in Contents, out \in Files : job[a] = Writing(content, out)
  BY <1>1 DEF Jobs, Idle, Merging, Ready
<1>3. job[a].content = content /\ job[a].out = out
  BY <1>2 DEF Writing
<1>4. files' = [files EXCEPT ![out] = content]
  BY <1>3 DEF Write
<1> QED BY <1>2, <1>4

LEMMA NewEndorsementsAre ==
    ASSUME NEW a \in Admins, NEW txID \in TxIDs, NEW tx \in Transactions
    PROVE  NewEndorsements(a, txID, tx) \subseteq Endorsements
BY EndorsedIs DEF NewEndorsements

LEMMA TypeStep == TypeInv /\ [Next]_vars => TypeInv'
<1> SUFFICES ASSUME TypeInv, [Next]_vars PROVE TypeInv'
  OBVIOUS
<1>1. CASE UNCHANGED vars
  BY <1>1 DEF TypeInv, vars
<1>2. ASSUME NEW a \in Admins, NEW j \in Jobs, job' = [job EXCEPT ![a] = j],
             UNCHANGED files, generated' \subseteq TxIDs, signed' \subseteq Endorsements
      PROVE  TypeInv'
  BY <1>2 DEF TypeInv
<1>3. \A txID \in TxIDs, tx \in Transactions : Ready(Holding(txID, tx)) \in Jobs
  BY DEF Contents, Jobs
<1>4. generated \subseteq TxIDs /\ signed \subseteq Endorsements /\ Idle \in Jobs
  BY DEF TypeInv, Jobs
<1>5. ASSUME NEW a \in Admins, NEW request \in Requests, NEW v \in ConfigVersions,
             NEW endorse \in BOOLEAN, Create(a, request, v, endorse)
      PROVE  TypeInv'
  <2>1. PICK tx : tx = CreateNamespacesTx(request.nsPolicy, request.nsID, request.nsVersion, v)
    OBVIOUS
  <2>2. tx \in Transactions
    BY <2>1, CreatedIs
  <2>3. PICK txID \in TxIDs \ generated :
           /\ generated' = generated \cup {txID}
           /\ job' = [job EXCEPT ![a] = Ready(Holding(txID, IF endorse
                                                            THEN Endorse(SignerOf[a], txID, tx)
                                                            ELSE tx))]
           /\ signed' = IF endorse THEN signed \cup NewEndorsements(a, txID, tx) ELSE signed
           /\ UNCHANGED files
    BY <1>5, <2>1 DEF Create
  <2>4. PICK new : new = IF endorse THEN Endorse(SignerOf[a], txID, tx) ELSE tx
    OBVIOUS
  <2>5. new \in Transactions
    BY <2>2, <2>4, EndorsedIs
  <2>6. signed' \subseteq Endorsements
    BY <1>4, <2>2, <2>3, NewEndorsementsAre
  <2>7. job' = [job EXCEPT ![a] = Ready(Holding(txID, new))] /\ generated' \subseteq TxIDs
    BY <1>4, <2>3, <2>4
  <2> QED BY <1>2, <1>3, <2>3, <2>5, <2>6, <2>7
<1>6. ASSUME NEW a \in Admins, NEW in \in Files, EndorseFile(a, in) PROVE TypeInv'
  <2>1. PICK txID, tx : txID = files[in].txID /\ tx = files[in].tx
    OBVIOUS
  <2>2. files[in] \in Contents
    BY <1>6 DEF TypeInv, EndorseFile, Readable, NoFile, Torn
  <2>3. txID \in TxIDs /\ tx \in Transactions
    BY <2>1, <2>2, ContentIs
  <2>4. /\ job' = [job EXCEPT ![a] = Ready(Holding(txID, Endorse(SignerOf[a], txID, tx)))]
        /\ signed' = signed \cup NewEndorsements(a, txID, tx)
        /\ UNCHANGED <<files, generated>>
    BY <1>6, <2>1 DEF EndorseFile
  <2>5. Endorse(SignerOf[a], txID, tx) \in Transactions
    BY <2>3, EndorsedIs
  <2>6. signed' \subseteq Endorsements
    BY <1>4, <2>3, <2>4, NewEndorsementsAre
  <2> QED BY <1>2, <1>3, <1>4, <2>3, <2>4, <2>5, <2>6
<1>7. ASSUME NEW a \in Admins, NEW in \in Files, ReadInput(a, in) PROVE TypeInv'
  <2>1. UNCHANGED <<files, generated, signed>>
    BY <1>7, ReadInputIs
  <2>2. CASE job' = [job EXCEPT ![a] = Idle]
    BY <1>2, <1>4, <2>1, <2>2
  <2>3. CASE \E inputs \in Seq(Contents) :
                 /\ files[in] \in Contents
                 /\ job' = [job EXCEPT ![a] = Merging(Append(inputs, files[in]))]
    <3>1. PICK inputs \in Seq(Contents) :
                 /\ files[in] \in Contents
                 /\ job' = [job EXCEPT ![a] = Merging(Append(inputs, files[in]))]
      BY <2>3
    <3>2. PICK longer : longer = Append(inputs, files[in])
      OBVIOUS
    <3>3. longer \in Seq(Contents)
      BY <3>1, <3>2
    <3>4. Merging(longer) \in Jobs
      BY <3>3 DEF Jobs
    <3> QED BY <1>2, <1>4, <2>1, <3>1, <3>2, <3>4
  <2> QED BY <1>7, <2>2, <2>3, ReadInputIs
<1>8. ASSUME NEW a \in Admins, MergeFiles(a) PROVE TypeInv'
  <2>1. UNCHANGED <<files, generated, signed>>
    BY <1>8, MergeFilesIs
  <2>2. CASE job' = [job EXCEPT ![a] = Idle]
    BY <1>2, <1>4, <2>1, <2>2
  <2>3. ASSUME NEW inputs \in Seq(Contents), NEW txs, Len(inputs) >= 2,
               txs = [i \in DOMAIN inputs |-> inputs[i].tx], Mergeable(txs),
               job' = [job EXCEPT ![a] = Ready(Holding(inputs[1].txID, Merge(txs)))]
        PROVE  TypeInv'
    <3>1. Merge(txs) \in Transactions
      BY <2>3, MergedFileIs
    <3>2. inputs[1].txID \in TxIDs
      BY <2>3, ContentIs
    <3> QED BY <1>2, <1>3, <1>4, <2>1, <2>3, <3>1, <3>2
  <2> QED BY <1>8, <2>2, <2>3, MergeFilesIs
<1>9. ASSUME NEW a \in Admins, NEW out \in Files, Truncate(a, out) PROVE TypeInv'
  <2>1. PICK content \in Contents : job' = [job EXCEPT ![a] = Writing(content, out)]
    BY <1>9, TruncateIs
  <2>2. Writing(content, out) \in Jobs
    BY DEF Jobs
  <2>3. files' = [files EXCEPT ![out] = Torn] /\ UNCHANGED <<generated, signed>>
    BY <1>9 DEF Truncate
  <2>4. files' \in [Files -> {NoFile, Torn} \cup Contents]
    BY <2>3 DEF TypeInv
  <2> QED BY <2>1, <2>2, <2>3, <2>4 DEF TypeInv
<1>10. ASSUME NEW a \in Admins, Write(a) PROVE TypeInv'
  <2>1. PICK content \in Contents, out \in Files : files' = [files EXCEPT ![out] = content]
    BY <1>10, WriteIs
  <2>2. job' = [job EXCEPT ![a] = Idle] /\ UNCHANGED <<generated, signed>>
    BY <1>10 DEF Write
  <2>3. files' \in [Files -> {NoFile, Torn} \cup Contents]
    BY <2>1 DEF TypeInv
  <2> QED BY <1>4, <2>2, <2>3 DEF TypeInv
<1>11. ASSUME NEW a \in Admins, Die(a) PROVE TypeInv'
  BY <1>2, <1>4, <1>11 DEF Die
<1>12. CASE Next
  BY <1>5, <1>6, <1>7, <1>8, <1>9, <1>10, <1>11, <1>12 DEF Next
<1> QED BY <1>1, <1>12

LEMMA TypeInit == Init => TypeInv
BY DEF Init, TypeInv, Jobs

\* Every file is a transaction of fxconfig, torn or missing, and has one endorsement
\* set per namespace or none, so that Endorse and Merge never index too far
\* (endorse.go:27-78, merge.go:55-104).
THEOREM TypeCorrect == Spec => []TypeOK
<1>1. Spec => []TypeInv
  BY TypeInit, TypeStep, PTL DEF Spec
<1> QED BY <1>1, TypeInvIsTypeOK, PTL

-----------------------------------------------------------------------------
(* Steps, by what they do to the transactions there are                    *)

Holds(j, d) ==
    \/ \E inputs \in Seq(Contents) : j = Merging(inputs) /\ In(inputs, d)
    \/ j = Ready(d)
    \/ \E out \in Files : j = Writing(d, out)

Held(d) ==
    /\ d \in Contents
    /\ (\E f \in Files : files[f] = d) \/ (\E a \in Admins : Holds(job[a], d))

DocumentsAreHeld == \A d : d \in Documents <=> Held(d)

LEMMA DocumentsAre == TypeInv => DocumentsAreHeld
<1> SUFFICES ASSUME TypeInv, NEW d PROVE d \in Documents <=> Held(d)
  BY DEF DocumentsAreHeld
<1> DEFINE DocumentsOf(j) == CASE j.stage = "merging" -> Range(j.inputs)
                               [] j.stage \in {"ready", "truncated"} -> {j.content}
                               [] OTHER -> {}
<1>1. ASSUME NEW j \in Jobs PROVE d \in DocumentsOf(j) <=> d \in Contents /\ Holds(j, d)
  <2>1. CASE j = Idle
    BY <2>1 DEF Idle, Holds, Merging, Ready, Writing
  <2>2. ASSUME NEW inputs \in Seq(Contents), j = Merging(inputs)
        PROVE  d \in DocumentsOf(j) <=> d \in Contents /\ Holds(j, d)
    <3>1. j.stage = "merging" /\ j.inputs = inputs
      BY <2>2 DEF Merging
    <3>2. d \in DocumentsOf(j) <=> In(inputs, d)
      BY <3>1 DEF Range, In
    <3>3. In(inputs, d) => d \in Contents
      BY DEF In
    <3>4. Holds(j, d) <=> In(inputs, d)
      BY <2>2, <3>1 DEF Holds, Merging, Ready, Writing
    <3> QED BY <3>2, <3>3, <3>4
  <2>3. ASSUME NEW content \in Contents, j = Ready(content)
        PROVE  d \in DocumentsOf(j) <=> d \in Contents /\ Holds(j, d)
    BY <2>3 DEF Holds, Merging, Ready, Writing
  <2>4. ASSUME NEW content \in Contents, NEW out \in Files, j = Writing(content, out)
        PROVE  d \in DocumentsOf(j) <=> d \in Contents /\ Holds(j, d)
    <3>1. j.stage = "truncated" /\ j.content = content /\ j.out = out
      BY <2>4 DEF Writing
    <3>2. d \in DocumentsOf(j) <=> d = content
      BY <3>1
    <3>3. Holds(j, d) <=> d = content
      BY <2>4, <3>1 DEF Holds, Merging, Ready, Writing
    <3> QED BY <3>2, <3>3
  <2> QED BY <2>1, <2>2, <2>3, <2>4 DEF Jobs
<1>2. d \in Documents <=> \/ \E f \in Files : Readable(files[f]) /\ files[f] = d
                          \/ \E a \in Admins : d \in DocumentsOf(job[a])
  BY DEF Documents
<1> HIDE DEF DocumentsOf
<1>3. ASSUME NEW f \in Files PROVE Readable(files[f]) <=> files[f] \in Contents
  <2>1. files[f] \in {NoFile, Torn} \cup Contents
    BY DEF TypeInv
  <2>2. \A c \in Contents : c.file = "transaction"
    BY ContentIs
  <2>3. NoFile.file # "transaction" /\ Torn.file # "transaction"
    BY DEF NoFile, Torn
  <2> QED BY <2>1, <2>2, <2>3 DEF Readable
<1>4. \A a \in Admins : job[a] \in Jobs
  BY DEF TypeInv
<1> QED BY <1>1, <1>2, <1>3, <1>4 DEF Held

\* A transaction that appears is new in the job that made the step.
LEMMA OnlyTheJobAdds ==
    ASSUME TypeInv, TypeInv', NEW a \in Admins,
           \A f \in Files : \/ files'[f] = files[f]
                            \/ files'[f] = Torn
                            \/ Holds(job[a], files'[f]),
           \A b \in Admins \ {a} : job'[b] = job[b],
           NEW d \in Documents'
    PROVE  d \in Documents \/ Holds(job'[a], d)
<1>1. DocumentsAreHeld /\ DocumentsAreHeld'
  BY DocumentsAre, PTL
<1>2. Held(d)' /\ d \in Contents
  BY <1>1 DEF DocumentsAreHeld, Held
<1>3. d # Torn
  <2>1. d.file = "transaction"
    BY <1>2, ContentIs
  <2> QED BY <2>1 DEF Torn
<1>4. ASSUME NEW f \in Files, files'[f] = d PROVE d \in Documents
  <2>1. files[f] = d \/ Holds(job[a], d)
    BY <1>3, <1>4
  <2> QED BY <1>1, <1>2, <2>1 DEF DocumentsAreHeld, Held
<1>5. ASSUME NEW b \in Admins, Holds(job'[b], d) PROVE d \in Documents \/ Holds(job'[a], d)
  <2>1. CASE b = a
    BY <1>5, <2>1
  <2>2. CASE b # a
    BY <1>1, <1>2, <1>5, <2>2 DEF DocumentsAreHeld, Held
  <2> QED BY <2>1, <2>2
<1>6. (\E f \in Files : files'[f] = d) \/ (\E b \in Admins : Holds(job'[b], d))
  BY <1>2 DEF Held, Holds
<1> QED BY <1>4, <1>5, <1>6

\* The transaction new appears and nothing else.
Adds(new) == new \in Documents' /\ Documents' \subseteq Documents \cup {new}

Loses ==
    /\ UNCHANGED <<generated, signed>>
    /\ Documents' \subseteq Documents

Creates(a, txID, tx, endorse) ==
    /\ txID \notin generated
    /\ tx.endorsements = <<>>
    /\ generated' = generated \cup {txID}
    /\ signed' = IF endorse THEN signed \cup NewEndorsements(a, txID, tx) ELSE signed
    /\ Adds(Holding(txID, IF endorse THEN Endorse(SignerOf[a], txID, tx) ELSE tx))

Endorses(a, d) ==
    /\ UNCHANGED generated
    /\ signed' = signed \cup NewEndorsements(a, d.txID, d.tx)
    /\ Adds(Holding(d.txID, Endorse(SignerOf[a], d.txID, d.tx)))

Merges(inputs, txs) ==
    /\ Len(inputs) >= 2
    /\ \A i \in DOMAIN inputs : inputs[i] \in Documents
    /\ txs = [i \in DOMAIN inputs |-> inputs[i].tx]
    /\ SameTxID(inputs)
    /\ Mergeable(txs)
    /\ UNCHANGED <<generated, signed>>
    /\ Adds(Holding(inputs[1].txID, Merge(txs)))

Does ==
    \/ Loses
    \/ \E a \in Admins, txID \in TxIDs, tx \in Transactions, endorse \in BOOLEAN :
           Creates(a, txID, tx, endorse)
    \/ \E a \in Admins, d \in Documents : Endorses(a, d)
    \/ \E inputs \in Seq(Contents) : \E txs : Merges(inputs, txs)

LEMMA Stages ==
    /\ Idle.stage = "idle"
    /\ \A inputs : Merging(inputs).stage = "merging" /\ Merging(inputs).inputs = inputs
    /\ \A c : Ready(c).stage = "ready" /\ Ready(c).content = c
    /\ \A c, out : Writing(c, out).stage = "truncated" /\ Writing(c, out).content = c
BY DEF Idle, Merging, Ready, Writing

LEMMA IdleHolds == \A d : ~Holds(Idle, d)
BY Stages DEF Holds

LEMMA ReadyHolds == \A c, d : Holds(Ready(c), d) => d = c
BY Stages DEF Holds

LEMMA WritingHolds == \A c, d, out : Holds(Writing(c, out), d) => d = c
BY Stages DEF Holds

LEMMA MergingHolds == \A inputs, d : Holds(Merging(inputs), d) => In(inputs, d)
BY Stages DEF Holds

LEMMA ReadyAdds ==
    ASSUME TypeInv, TypeInv', NEW a \in Admins, NEW new \in Contents,
           UNCHANGED files, job' = [job EXCEPT ![a] = Ready(new)]
    PROVE  Adds(new)
<1>1. job'[a] = Ready(new) /\ \A b \in Admins \ {a} : job'[b] = job[b]
  BY DEF TypeInv
<1>2. \A d \in Documents' : d \in Documents \/ Holds(job'[a], d)
  BY <1>1, OnlyTheJobAdds
<1>3. \A d : Holds(job'[a], d) => d = new
  BY <1>1, ReadyHolds
<1>4. new \in Documents'
  <2>1. DocumentsAreHeld'
    BY DocumentsAre, PTL
  <2>2. Holds(job[a], new)'
    BY <1>1 DEF Holds
  <2>3. Held(new)'
    BY <2>2 DEF Held
  <2> QED BY <2>1, <2>3 DEF DocumentsAreHeld
<1> QED BY <1>2, <1>3, <1>4 DEF Adds

LEMMA IdleLoses ==
    ASSUME TypeInv, TypeInv', NEW a \in Admins,
           UNCHANGED files, job' = [job EXCEPT ![a] = Idle]
    PROVE  Documents' \subseteq Documents
<1>1. job'[a] = Idle /\ \A b \in Admins \ {a} : job'[b] = job[b]
  BY DEF TypeInv
<1>2. \A d \in Documents' : d \in Documents \/ Holds(job'[a], d)
  BY <1>1, OnlyTheJobAdds
<1>3. \A d : ~Holds(job'[a], d)
  BY <1>1, IdleHolds
<1> QED BY <1>2, <1>3

\* Whatever is held by a job or a file now, is a document now.
LEMMA HeldIsDocument ==
    ASSUME TypeInv, NEW d \in Contents,
           (\E f \in Files : files[f] = d) \/ (\E a \in Admins : Holds(job[a], d))
    PROVE  d \in Documents
BY DocumentsAre DEF DocumentsAreHeld, Held

LEMMA AppendHolds ==
    ASSUME NEW inputs \in Seq(Contents), NEW c \in Contents, NEW d, In(Append(inputs, c), d)
    PROVE  In(inputs, d) \/ d = c
<1>1. PICK longer, k : longer = Append(inputs, c) /\ k = Len(inputs)
  OBVIOUS
<1>2. /\ k \in Nat /\ DOMAIN inputs = 1..k /\ DOMAIN longer = 1..(k + 1)
      /\ \A i \in 1..k : longer[i] = inputs[i]
      /\ longer[k + 1] = c
      /\ \A i \in 1..(k + 1) : i \in 1..k \/ i = k + 1
  BY <1>1
<1> QED BY <1>1, <1>2 DEF In

LEMMA StepDoes ==
    ASSUME TypeInv, TypeInv', [Next]_vars
    PROVE  Does
<1>1. CASE UNCHANGED vars
  <2>1. DocumentsAreHeld /\ DocumentsAreHeld'
    BY DocumentsAre, PTL
  <2>2. \A d : Held(d)' <=> Held(d)
    BY <1>1 DEF Held, vars
  <2>3. Documents' \subseteq Documents
    BY <2>1, <2>2 DEF DocumentsAreHeld
  <2> QED BY <1>1, <2>3 DEF Does, Loses, vars
<1>2. ASSUME NEW a \in Admins, NEW request \in Requests, NEW v \in ConfigVersions,
             NEW endorse \in BOOLEAN, Create(a, request, v, endorse)
      PROVE  Does
  <2>1. PICK tx : tx = CreateNamespacesTx(request.nsPolicy, request.nsID, request.nsVersion, v)
    OBVIOUS
  <2>2. tx \in Transactions /\ tx.endorsements = <<>>
    BY <2>1, CreatedIs
  <2>3. PICK txID \in TxIDs \ generated :
           /\ generated' = generated \cup {txID}
           /\ job' = [job EXCEPT ![a] = Ready(Holding(txID, IF endorse
                                                            THEN Endorse(SignerOf[a], txID, tx)
                                                            ELSE tx))]
           /\ signed' = IF endorse THEN signed \cup NewEndorsements(a, txID, tx) ELSE signed
           /\ UNCHANGED files
    BY <1>2, <2>1 DEF Create
  <2>4. PICK new : new = Holding(txID, IF endorse THEN Endorse(SignerOf[a], txID, tx) ELSE tx)
    OBVIOUS
  <2>5. new \in Contents
    BY <2>2, <2>4, EndorsedIs DEF Contents
  <2>6. Adds(new)
    BY <2>3, <2>4, <2>5, ReadyAdds
  <2>7. Creates(a, txID, tx, endorse)
    BY <2>2, <2>3, <2>4, <2>6 DEF Creates
  <2> QED BY <2>2, <2>3, <2>7 DEF Does
<1>3. ASSUME NEW a \in Admins, NEW in \in Files, EndorseFile(a, in) PROVE Does
  <2>1. PICK d : d = files[in]
    OBVIOUS
  <2>2. d \in Contents
    BY <1>3, <2>1 DEF TypeInv, EndorseFile, Readable, NoFile, Torn
  <2>3. d \in Documents
    BY <2>1, <2>2, HeldIsDocument
  <2>4. PICK new : new = Holding(d.txID, Endorse(SignerOf[a], d.txID, d.tx))
    OBVIOUS
  <2>5. new \in Contents
    <3>1. d.txID \in TxIDs /\ d.tx \in Transactions
      BY <2>2, ContentIs
    <3>2. Endorse(SignerOf[a], d.txID, d.tx) \in Transactions
      BY <3>1, EndorsedIs
    <3> QED BY <2>4, <3>1, <3>2 DEF Contents
  <2>6. /\ job' = [job EXCEPT ![a] = Ready(new)]
        /\ signed' = signed \cup NewEndorsements(a, d.txID, d.tx)
        /\ UNCHANGED <<files, generated>>
    BY <1>3, <2>1, <2>4 DEF EndorseFile
  <2>7. Adds(new)
    BY <2>5, <2>6, ReadyAdds
  <2>8. Endorses(a, d)
    BY <2>4, <2>6, <2>7 DEF Endorses
  <2> QED BY <2>3, <2>8 DEF Does
<1>4. ASSUME NEW a \in Admins, NEW in \in Files, ReadInput(a, in) PROVE Does
  <2>1. UNCHANGED <<files, generated, signed>>
    BY <1>4, ReadInputIs
  <2>2. CASE job' = [job EXCEPT ![a] = Idle]
    BY <2>1, <2>2, IdleLoses DEF Does, Loses
  <2>3. ASSUME NEW inputs \in Seq(Contents),
               (job[a] = Idle /\ inputs = <<>>) \/ job[a] = Merging(inputs),
               files[in] \in Contents,
               job' = [job EXCEPT ![a] = Merging(Append(inputs, files[in]))]
        PROVE  Does
    <3>1. /\ job'[a] = Merging(Append(inputs, files[in]))
          /\ \A b \in Admins \ {a} : job'[b] = job[b]
      BY <2>3 DEF TypeInv
    <3>2. \A d \in Documents' : d \in Documents \/ Holds(job'[a], d)
      BY <2>1, <3>1, OnlyTheJobAdds
    <3>3. ASSUME NEW d, Holds(job'[a], d) PROVE d \in Documents
      <4>1. In(inputs, d) \/ d = files[in]
        BY <2>3, <3>1, <3>3, AppendHolds, MergingHolds
      <4>2. CASE d = files[in]
        BY <2>3, <4>2, HeldIsDocument
      <4>3. CASE In(inputs, d)
        <5>1. d \in Contents /\ inputs # <<>>
          BY <4>3 DEF In
        <5>2. Holds(job[a], d)
          BY <2>3, <4>3, <5>1 DEF Holds
        <5> QED BY <5>1, <5>2, HeldIsDocument
      <4> QED BY <4>1, <4>2, <4>3
    <3> QED BY <2>1, <3>2, <3>3 DEF Does, Loses
  <2> QED BY <1>4, <2>2, <2>3, ReadInputIs
<1>5. ASSUME NEW a \in Admins, MergeFiles(a) PROVE Does
  <2>1. UNCHANGED <<files, generated, signed>>
    BY <1>5, MergeFilesIs
  <2>2. CASE job' = [job EXCEPT ![a] = Idle]
    BY <2>1, <2>2, IdleLoses DEF Does, Loses
  <2>3. ASSUME NEW inputs \in Seq(Contents), NEW txs,
               job[a] = Merging(inputs), Len(inputs) >= 2,
               txs = [i \in DOMAIN inputs |-> inputs[i].tx],
               SameTxID(inputs), Mergeable(txs),
               job' = [job EXCEPT ![a] = Ready(Holding(inputs[1].txID, Merge(txs)))]
        PROVE  Does
    <3>1. PICK new : new = Holding(inputs[1].txID, Merge(txs))
      OBVIOUS
    <3>2. Merge(txs) \in Transactions /\ inputs[1].txID \in TxIDs
      BY <2>3, MergedFileIs, ContentIs
    <3>3. new \in Contents
      BY <3>1, <3>2 DEF Contents
    <3>4. Adds(new)
      BY <2>1, <2>3, <3>1, <3>3, ReadyAdds
    <3>5. ASSUME NEW i \in DOMAIN inputs PROVE inputs[i] \in Documents
      <4>1. inputs[i] \in Contents /\ In(inputs, inputs[i])
        BY DEF In
      <4>2. Holds(job[a], inputs[i])
        BY <2>3, <4>1 DEF Holds
      <4> QED BY <4>1, <4>2, HeldIsDocument
    <3>6. Merges(inputs, txs)
      BY <2>1, <2>3, <3>1, <3>4, <3>5 DEF Merges
    <3> QED BY <3>6 DEF Does
  <2> QED BY <1>5, <2>2, <2>3, MergeFilesIs
<1>6. ASSUME NEW a \in Admins, NEW out \in Files, Truncate(a, out) PROVE Does
  <2>1. PICK content \in Contents : /\ job[a] = Ready(content)
                                    /\ job' = [job EXCEPT ![a] = Writing(content, out)]
    BY <1>6, TruncateIs
  <2>2. files' = [files EXCEPT ![out] = Torn] /\ UNCHANGED <<generated, signed>>
    BY <1>6 DEF Truncate
  <2>3. \A f \in Files : files'[f] = files[f] \/ files'[f] = Torn
    BY <2>2 DEF TypeInv
  <2>4. job'[a] = Writing(content, out) /\ \A b \in Admins \ {a} : job'[b] = job[b]
    BY <2>1 DEF TypeInv
  <2>5. \A d \in Documents' : d \in Documents \/ Holds(job'[a], d)
    BY <2>3, <2>4, OnlyTheJobAdds
  <2>6. content \in Documents
    BY <2>1, HeldIsDocument DEF Holds
  <2> QED BY <2>2, <2>4, <2>5, <2>6, WritingHolds DEF Does, Loses
<1>7. ASSUME NEW a \in Admins, Write(a) PROVE Does
  <2>1. PICK content \in Contents, out \in Files : /\ job[a] = Writing(content, out)
                                                   /\ files' = [files EXCEPT ![out] = content]
    BY <1>7, WriteIs
  <2>2. job' = [job EXCEPT ![a] = Idle] /\ UNCHANGED <<generated, signed>>
    BY <1>7 DEF Write
  <2>3. Holds(job[a], content)
    BY <2>1 DEF Holds
  <2>4. \A f \in Files : files'[f] = files[f] \/ Holds(job[a], files'[f])
    BY <2>1, <2>3 DEF TypeInv
  <2>5. job'[a] = Idle /\ \A b \in Admins \ {a} : job'[b] = job[b]
    BY <2>2 DEF TypeInv
  <2>6. \A d \in Documents' : d \in Documents \/ Holds(job'[a], d)
    BY <2>4, <2>5, OnlyTheJobAdds
  <2> QED BY <2>2, <2>5, <2>6, IdleHolds DEF Does, Loses
<1>8. ASSUME NEW a \in Admins, Die(a) PROVE Does
  BY <1>8, IdleLoses DEF Die, Does, Loses
<1>9. CASE Next
  BY <1>2, <1>3, <1>4, <1>5, <1>6, <1>7, <1>8, <1>9 DEF Next
<1> QED BY <1>1, <1>9

-----------------------------------------------------------------------------
(* Endorsements are genuine                                                *)

Genuine(d) ==
    /\ d.txID \in generated
    /\ \A n \in DOMAIN d.tx.endorsements : \A k \in DOMAIN d.tx.endorsements[n] :
          /\ d.tx.endorsements[n][k] \in signed
          /\ d.tx.endorsements[n][k].over = <<d.txID, d.tx.namespaces[n]>>

LEMMA GenuineIs == EndorsementsAreGenuine <=> \A d \in Documents : Genuine(d)
BY DEF EndorsementsAreGenuine, Genuine

\* What the endorser adds is signed by then and speaks of this namespace.
LEMMA EndorsingIsGenuine ==
    ASSUME TypeInv, NEW a \in Admins, NEW txID \in TxIDs, NEW tx \in Transactions,
           NEW new, new = Holding(txID, Endorse(SignerOf[a], txID, tx)),
           txID \in generated', signed' = signed \cup NewEndorsements(a, txID, tx),
           \A n \in DOMAIN tx.endorsements : \A k \in DOMAIN tx.endorsements[n] :
              /\ tx.endorsements[n][k] \in signed
              /\ tx.endorsements[n][k].over = <<txID, tx.namespaces[n]>>
    PROVE  Genuine(new)'
<1>1. PICK t : t = Endorse(SignerOf[a], txID, tx)
  OBVIOUS
<1>2. new.txID = txID /\ new.tx = t
  BY <1>1 DEF Holding
<1>3. /\ t.namespaces = tx.namespaces
      /\ DOMAIN t.endorsements = DOMAIN tx.namespaces
      /\ \A n \in DOMAIN tx.namespaces :
            /\ EndorsementsOf(tx, n) \in Seq(Endorsements)
            /\ Endorsement(SignerOf[a], txID, tx.namespaces[n]) \in Endorsements
            /\ t.endorsements[n] = Append(EndorsementsOf(tx, n),
                                          Endorsement(SignerOf[a], txID, tx.namespaces[n]))
  BY <1>1, EndorsedIs
<1>4. ASSUME NEW n \in DOMAIN t.endorsements, NEW k \in DOMAIN t.endorsements[n]
      PROVE  /\ t.endorsements[n][k] \in signed'
             /\ t.endorsements[n][k].over = <<txID, t.namespaces[n]>>
  <2>1. PICK es, e, x : /\ es = EndorsementsOf(tx, n)
                        /\ e = Endorsement(SignerOf[a], txID, tx.namespaces[n])
                        /\ x = t.endorsements[n][k]
    OBVIOUS
  <2>2. es \in Seq(Endorsements) /\ e \in Endorsements /\ t.endorsements[n] = Append(es, e)
    BY <1>3, <2>1
  <2>3. (k \in DOMAIN es /\ x = es[k]) \/ x = e
    <3>1. PICK l : l = Len(es)
      OBVIOUS
    <3>2. /\ l \in Nat /\ DOMAIN es = 1..l /\ k \in 1..(l + 1)
          /\ \A i \in 1..l : Append(es, e)[i] = es[i]
          /\ Append(es, e)[l + 1] = e
      BY <2>2, <3>1
    <3>3. k \in 1..l \/ k = l + 1
      BY <3>2
    <3> QED BY <2>1, <2>2, <3>2, <3>3
  <2>4. CASE x = e
    <3>1. e \in NewEndorsements(a, txID, tx) /\ e.over = <<txID, tx.namespaces[n]>>
      BY <1>3, <2>1 DEF NewEndorsements, Endorsement
    <3> QED BY <1>3, <2>1, <2>4, <3>1
  <2>5. CASE k \in DOMAIN es /\ x = es[k]
    <3>1. n \in DOMAIN tx.endorsements /\ es = tx.endorsements[n]
      BY <2>1, <2>5 DEF EndorsementsOf
    <3> QED BY <1>3, <2>1, <2>5, <3>1
  <2> QED BY <2>3, <2>4, <2>5
<1> QED BY <1>2, <1>4 DEF Genuine

LEMMA GenuineStep ==
    ASSUME TypeInv, TypeInv', EndorsementsAreGenuine, Does
    PROVE  EndorsementsAreGenuine'
<1>1. \A d \in Documents : Genuine(d)
  BY GenuineIs
<1>2. generated \subseteq generated' /\ signed \subseteq signed'
  BY DEF Does, Loses, Creates, Endorses, Merges
<1>3. \A d \in Documents : Genuine(d)'
  BY <1>1, <1>2 DEF Genuine
<1>4. SUFFICES \A d \in Documents' : Genuine(d)'
  BY DEF EndorsementsAreGenuine, Genuine
<1>5. DocumentsAreHeld
  BY DocumentsAre
<1>6. CASE Loses
  BY <1>3, <1>6 DEF Loses
<1>7. ASSUME NEW a \in Admins, NEW txID \in TxIDs, NEW tx \in Transactions,
             NEW endorse \in BOOLEAN, Creates(a, txID, tx, endorse)
      PROVE  \A d \in Documents' : Genuine(d)'
  <2>1. PICK new : new = Holding(txID, IF endorse THEN Endorse(SignerOf[a], txID, tx) ELSE tx)
    OBVIOUS
  <2>2. /\ Documents' \subseteq Documents \cup {new}
        /\ txID \in generated' /\ DOMAIN tx.endorsements = {}
    BY <1>7, <2>1 DEF Creates, Adds
  <2>3. CASE endorse
    <3>1. signed' = signed \cup NewEndorsements(a, txID, tx)
      BY <1>7, <2>3 DEF Creates
    <3>2. Genuine(new)'
      BY <2>1, <2>2, <2>3, <3>1, EndorsingIsGenuine
    <3> QED BY <1>3, <2>2, <3>2
  <2>4. CASE ~endorse
    <3>1. new.txID = txID /\ new.tx = tx
      BY <2>1, <2>4 DEF Holding
    <3>2. Genuine(new)'
      BY <2>2, <3>1 DEF Genuine
    <3> QED BY <1>3, <2>2, <3>2
  <2> QED BY <2>3, <2>4
<1>8. ASSUME NEW a \in Admins, NEW d \in Documents, Endorses(a, d)
      PROVE  \A x \in Documents' : Genuine(x)'
  <2>1. PICK new, txID, tx : /\ new = Holding(txID, Endorse(SignerOf[a], txID, tx))
                             /\ txID = d.txID /\ tx = d.tx
    OBVIOUS
  <2>2. d \in Contents
    BY <1>5 DEF DocumentsAreHeld, Held
  <2>3. txID \in TxIDs /\ tx \in Transactions
    BY <2>1, <2>2, ContentIs
  <2>4. /\ Documents' \subseteq Documents \cup {new}
        /\ signed' = signed \cup NewEndorsements(a, txID, tx)
    BY <1>8, <2>1 DEF Endorses, Adds
  <2>5. /\ txID \in generated'
        /\ \A n \in DOMAIN tx.endorsements : \A k \in DOMAIN tx.endorsements[n] :
              /\ tx.endorsements[n][k] \in signed
              /\ tx.endorsements[n][k].over = <<txID, tx.namespaces[n]>>
    BY <1>1, <1>2, <2>1 DEF Genuine
  <2>6. Genuine(new)'
    BY <2>1, <2>3, <2>4, <2>5, EndorsingIsGenuine
  <2> QED BY <1>3, <2>4, <2>6
<1>9. ASSUME NEW inputs \in Seq(Contents), NEW txs, Merges(inputs, txs)
      PROVE  \A d \in Documents' : Genuine(d)'
  <2>1. PICK new, txID, m : new = Holding(txID, m) /\ txID = inputs[1].txID /\ m = Merge(txs)
    OBVIOUS
  <2>2. /\ Len(inputs) >= 2 /\ DOMAIN inputs = 1..Len(inputs)
        /\ \A i \in DOMAIN inputs : inputs[i] \in Documents /\ inputs[i].txID = txID
        /\ txs = [i \in DOMAIN inputs |-> inputs[i].tx]
        /\ Mergeable(txs)
        /\ UNCHANGED <<generated, signed>>
        /\ Documents' \subseteq Documents \cup {new}
    BY <1>9, <2>1 DEF Merges, Adds, SameTxID
  <2>3. /\ m.namespaces = inputs[1].tx.namespaces
        /\ DOMAIN m.endorsements = DOMAIN inputs[1].tx.namespaces
        /\ \A i \in DOMAIN inputs : inputs[i].tx.namespaces = inputs[1].tx.namespaces
        /\ \A n \in DOMAIN inputs[1].tx.namespaces :
              \A e : In(m.endorsements[n], e)
                        => \E i \in DOMAIN inputs : In(EndorsementsOf(inputs[i].tx, n), e)
    BY <2>1, <2>2, MergedFileIs
  <2>4. new.txID = txID /\ new.tx = m
    BY <2>1 DEF Holding
  <2>5. txID \in generated
    BY <1>1, <2>2 DEF Genuine
  <2>6. ASSUME NEW n \in DOMAIN m.endorsements, NEW k \in DOMAIN m.endorsements[n]
        PROVE  /\ m.endorsements[n][k] \in signed
               /\ m.endorsements[n][k].over = <<txID, m.namespaces[n]>>
    <3>1. PICK e : e = m.endorsements[n][k]
      OBVIOUS
    <3>2. In(m.endorsements[n], e)
      BY <3>1 DEF In
    <3>3. PICK i \in DOMAIN inputs : In(EndorsementsOf(inputs[i].tx, n), e)
      BY <2>3, <3>2
    <3>4. PICK l \in DOMAIN EndorsementsOf(inputs[i].tx, n) : EndorsementsOf(inputs[i].tx, n)[l] = e
      BY <3>3 DEF In
    <3>5. n \in DOMAIN inputs[i].tx.endorsements
             /\ EndorsementsOf(inputs[i].tx, n) = inputs[i].tx.endorsements[n]
      BY <3>4 DEF EndorsementsOf
    <3>6. e \in signed /\ e.over = <<inputs[i].txID, inputs[i].tx.namespaces[n]>>
      <4>1. Genuine(inputs[i])
        BY <1>1, <2>2
      <4> QED BY <3>4, <3>5, <4>1 DEF Genuine
    <3> QED BY <2>2, <2>3, <3>1, <3>6
  <2>7. Genuine(new)'
    BY <2>2, <2>4, <2>5, <2>6 DEF Genuine
  <2> QED BY <1>3, <2>2, <2>7
<1> QED BY <1>6, <1>7, <1>8, <1>9 DEF Does

LEMMA NothingAtFirst == Init => Documents = {}
<1> SUFFICES ASSUME Init PROVE Documents = {}
  OBVIOUS
<1>1. TypeInv
  BY TypeInit
<1>2. NoFile \notin Contents
  <2>1. \A c \in Contents : c.file = "transaction"
    BY ContentIs
  <2> QED BY <2>1 DEF NoFile
<1>3. \A d : ~Held(d)
  BY <1>2, IdleHolds DEF Held, Init
<1> QED BY <1>1, <1>3, DocumentsAre DEF DocumentsAreHeld

\* An endorsement in a file is a signature its organization really made over this
\* namespace of this transaction (tx_merge.go:99-103, merge.go:59-68), whatever files
\* are combined, rewritten or torn meanwhile.
THEOREM EverythingIsGenuine == Spec => []EndorsementsAreGenuine
<1>1. Init => TypeInv /\ EndorsementsAreGenuine
  BY TypeInit, NothingAtFirst DEF EndorsementsAreGenuine
<1>2. TypeInv /\ EndorsementsAreGenuine /\ [Next]_vars => (TypeInv /\ EndorsementsAreGenuine)'
  BY TypeStep, StepDoes, GenuineStep
<1> QED BY <1>1, <1>2, PTL DEF Spec

-----------------------------------------------------------------------------
(* The flow implements Approval                                            *)

Orgs == {SignerOf[a].msp : a \in Admins}

PapersNow == {Paper(d) : d \in Documents}

ConsentsNow == {<<e.over[1], e.over[2], MspOf(e)>> : e \in signed}

\* The approvals of a paper: the MSPs of the sets, with the contents they are over.
LEMMA PaperIs ==
    ASSUME NEW d \in Contents
    PROVE  /\ Paper(d) = [name |-> d.txID, parts |-> Range(d.tx.namespaces),
                          approvals |-> Paper(d).approvals]
           /\ \A x : x \in Paper(d).approvals
                        <=> \E n \in DOMAIN d.tx.namespaces : \E msp :
                               /\ x = <<d.tx.namespaces[n], msp>>
                               /\ HasMsp(EndorsementsOf(d.tx, n), msp)
           /\ Paper(d) \in Abs!Papers
<1>1. PICK p : p = Paper(d)
  OBVIOUS
<1>2. p = [name |-> d.txID, parts |-> Range(d.tx.namespaces), approvals |-> p.approvals]
  BY <1>1 DEF Paper
<1>3. /\ d.txID \in TxIDs
      /\ d.tx.namespaces \in Seq(Namespaces)
      /\ d.tx.endorsements \in Seq(Seq(Endorsements))
      /\ Len(d.tx.endorsements) \in {0, Len(d.tx.namespaces)}
  BY ContentIs DEF WellFormed
<1>4. DOMAIN d.tx.endorsements \subseteq DOMAIN d.tx.namespaces
  BY <1>3
<1>5. ASSUME NEW x
      PROVE  x \in p.approvals
                 <=> \E n \in DOMAIN d.tx.namespaces : \E msp :
                        /\ x = <<d.tx.namespaces[n], msp>>
                        /\ HasMsp(EndorsementsOf(d.tx, n), msp)
  <2>1. x \in p.approvals
            <=> \E n \in DOMAIN d.tx.endorsements : \E k \in DOMAIN d.tx.endorsements[n] :
                    x = <<d.tx.namespaces[n], MspOf(d.tx.endorsements[n][k])>>
    BY <1>1 DEF Paper
  <2>2. ASSUME NEW n \in DOMAIN d.tx.endorsements, NEW k \in DOMAIN d.tx.endorsements[n],
               x = <<d.tx.namespaces[n], MspOf(d.tx.endorsements[n][k])>>
        PROVE  \E m \in DOMAIN d.tx.namespaces : \E msp :
                  /\ x = <<d.tx.namespaces[m], msp>>
                  /\ HasMsp(EndorsementsOf(d.tx, m), msp)
    <3>1. EndorsementsOf(d.tx, n) = d.tx.endorsements[n]
      BY DEF EndorsementsOf
    <3>2. HasMsp(EndorsementsOf(d.tx, n), MspOf(d.tx.endorsements[n][k]))
      BY <3>1 DEF HasMsp
    <3> QED BY <1>4, <2>2, <3>2
  <2>3. ASSUME NEW n \in DOMAIN d.tx.namespaces, NEW msp,
               x = <<d.tx.namespaces[n], msp>>, HasMsp(EndorsementsOf(d.tx, n), msp)
        PROVE  \E m \in DOMAIN d.tx.endorsements : \E k \in DOMAIN d.tx.endorsements[m] :
                  x = <<d.tx.namespaces[m], MspOf(d.tx.endorsements[m][k])>>
    <3>1. PICK k \in DOMAIN EndorsementsOf(d.tx, n) : MspOf(EndorsementsOf(d.tx, n)[k]) = msp
      BY <2>3 DEF HasMsp
    <3>2. n \in DOMAIN d.tx.endorsements /\ EndorsementsOf(d.tx, n) = d.tx.endorsements[n]
      BY <3>1 DEF EndorsementsOf
    <3> QED BY <2>3, <3>1, <3>2
  <2> QED BY <2>1, <2>2, <2>3
<1>6. p.approvals \subseteq Namespaces \X Orgs
  <2>1. SUFFICES ASSUME NEW n \in DOMAIN d.tx.namespaces, NEW msp,
                        HasMsp(EndorsementsOf(d.tx, n), msp)
                 PROVE  d.tx.namespaces[n] \in Namespaces /\ msp \in Orgs
    BY <1>5
  <2>2. EndorsementsOf(d.tx, n) \in Seq(Endorsements)
    BY ContentIs
  <2>3. PICK e \in Endorsements : MspOf(e) = msp
    BY <2>1, <2>2 DEF HasMsp
  <2> QED BY <1>3, <2>3 DEF Endorsements, MspOf, Orgs
<1>7. Range(d.tx.namespaces) \subseteq Namespaces
  BY <1>3 DEF Range
<1>8. p \in Abs!Papers
  BY <1>2, <1>3, <1>6, <1>7 DEF Abs!Papers, Orgs
<1> QED BY <1>1, <1>2, <1>5, <1>8

LEMMA AddsPaper ==
    ASSUME NEW new, Adds(new)
    PROVE  Paper(new) \in PapersNow' /\ PapersNow' \subseteq PapersNow \cup {Paper(new)}
BY DEF Adds, PapersNow

\* Signing a transaction is consenting to each of its parts.
LEMMA SigningConsents ==
    ASSUME NEW a \in Admins, NEW txID, NEW tx, NEW s, s = SignerOf[a].msp,
           signed' = signed \cup NewEndorsements(a, txID, tx)
    PROVE  ConsentsNow' = ConsentsNow \cup {<<txID, part, s>> : part \in Range(tx.namespaces)}
<1>1. \A n \in DOMAIN tx.namespaces :
          LET e == Endorsement(SignerOf[a], txID, tx.namespaces[n]) IN
          e.over[1] = txID /\ e.over[2] = tx.namespaces[n] /\ MspOf(e) = s
  BY DEF Endorsement, MspOf
<1>2. ASSUME NEW x
      PROVE  x \in ConsentsNow'
                 <=> x \in ConsentsNow \/ \E n \in DOMAIN tx.namespaces :
                                             x = <<txID, tx.namespaces[n], s>>
  <2>1. x \in ConsentsNow' <=> \E e \in signed' : x = <<e.over[1], e.over[2], MspOf(e)>>
    BY DEF ConsentsNow
  <2>2. x \in ConsentsNow <=> \E e \in signed : x = <<e.over[1], e.over[2], MspOf(e)>>
    BY DEF ConsentsNow
  <2>3. (\E e \in NewEndorsements(a, txID, tx) : x = <<e.over[1], e.over[2], MspOf(e)>>)
            <=> \E n \in DOMAIN tx.namespaces : x = <<txID, tx.namespaces[n], s>>
    BY <1>1 DEF NewEndorsements
  <2> QED BY <2>1, <2>2, <2>3
<1>3. \A x : x \in {<<txID, part, s>> : part \in Range(tx.namespaces)}
                <=> \E n \in DOMAIN tx.namespaces : x = <<txID, tx.namespaces[n], s>>
  BY DEF Range
<1> QED BY <1>2, <1>3

\* Endorsing adds the own organization to every part.
LEMMA EndorsedPaper ==
    ASSUME NEW a \in Admins, NEW d \in Contents, NEW s, s = SignerOf[a].msp,
           NEW new, new = Holding(d.txID, Endorse(SignerOf[a], d.txID, d.tx))
    PROVE  /\ new \in Contents
           /\ Paper(new).name = Paper(d).name
           /\ Paper(new).parts = Paper(d).parts
           /\ Paper(new).approvals = Paper(d).approvals \cup (Paper(d).parts \X {s})
<1>1. PICK tx, t, txID : tx = d.tx /\ t = Endorse(SignerOf[a], d.txID, tx) /\ txID = d.txID
  OBVIOUS
<1>2. tx \in Transactions /\ txID \in TxIDs
  BY <1>1, ContentIs
<1>3. /\ t \in Transactions
      /\ t.namespaces = tx.namespaces
      /\ DOMAIN t.endorsements = DOMAIN tx.namespaces
      /\ \A n \in DOMAIN tx.namespaces :
            /\ EndorsementsOf(tx, n) \in Seq(Endorsements)
            /\ Endorsement(SignerOf[a], txID, tx.namespaces[n]) \in Endorsements
            /\ t.endorsements[n] = Append(EndorsementsOf(tx, n),
                                          Endorsement(SignerOf[a], txID, tx.namespaces[n]))
  BY <1>1, <1>2, EndorsedIs
<1>4. new.txID = txID /\ new.tx = t
  BY <1>1 DEF Holding
<1>5. new \in Contents
  BY <1>1, <1>2, <1>3 DEF Contents
<1>6. /\ Paper(new).name = txID /\ Paper(new).parts = Range(tx.namespaces)
      /\ Paper(d).name = txID /\ Paper(d).parts = Range(tx.namespaces)
  BY <1>1, <1>3, <1>4 DEF Paper
<1>7. ASSUME NEW n \in DOMAIN tx.namespaces, NEW msp
      PROVE  HasMsp(EndorsementsOf(t, n), msp) <=> HasMsp(EndorsementsOf(tx, n), msp) \/ msp = s
  <2>1. PICK es, e : /\ es = EndorsementsOf(tx, n)
                     /\ e = Endorsement(SignerOf[a], txID, tx.namespaces[n])
    OBVIOUS
  <2>2. es \in Seq(Endorsements) /\ e \in Endorsements /\ EndorsementsOf(t, n) = Append(es, e)
    BY <1>3, <2>1 DEF EndorsementsOf
  <2>3. MspOf(e) = s
    BY <2>1 DEF Endorsement, MspOf
  <2>4. PICK l, longer : l = Len(es) /\ longer = Append(es, e)
    OBVIOUS
  <2>5. /\ l \in Nat /\ DOMAIN es = 1..l /\ DOMAIN longer = 1..(l + 1)
        /\ \A i \in 1..l : longer[i] = es[i] /\ i \in 1..(l + 1)
        /\ longer[l + 1] = e /\ l + 1 \in 1..(l + 1)
        /\ \A i \in 1..(l + 1) : i \in 1..l \/ i = l + 1
    BY <2>2, <2>4
  <2>6. HasMsp(longer, msp) <=> HasMsp(es, msp) \/ msp = s
    BY <2>3, <2>5 DEF HasMsp
  <2> QED BY <2>1, <2>2, <2>4, <2>6
<1>8. ASSUME NEW x
      PROVE  x \in Paper(new).approvals
                 <=> x \in Paper(d).approvals \/ x \in Range(tx.namespaces) \X {s}
  <2>1. x \in Paper(new).approvals
            <=> \E n \in DOMAIN tx.namespaces : \E msp :
                   x = <<tx.namespaces[n], msp>> /\ HasMsp(EndorsementsOf(t, n), msp)
    BY <1>3, <1>4, <1>5, PaperIs
  <2>2. x \in Paper(d).approvals
            <=> \E n \in DOMAIN tx.namespaces : \E msp :
                   x = <<tx.namespaces[n], msp>> /\ HasMsp(EndorsementsOf(tx, n), msp)
    BY <1>1, PaperIs
  <2>3. x \in Range(tx.namespaces) \X {s}
            <=> \E n \in DOMAIN tx.namespaces : x = <<tx.namespaces[n], s>>
    BY DEF Range
  <2> QED BY <1>7, <2>1, <2>2, <2>3
<1> QED BY <1>5, <1>6, <1>8

\* Merging puts together what the inputs say.
LEMMA MergedPaper ==
    ASSUME NEW inputs \in Seq(Contents), Len(inputs) >= 2, SameTxID(inputs),
           NEW txs, txs = [i \in DOMAIN inputs |-> inputs[i].tx], Mergeable(txs),
           NEW new, new = Holding(inputs[1].txID, Merge(txs))
    PROVE  /\ \A i \in DOMAIN inputs : /\ Paper(inputs[i]).name = Paper(inputs[1]).name
                                       /\ Paper(inputs[i]).parts = Paper(inputs[1]).parts
           /\ Paper(new) = [Paper(inputs[1]) EXCEPT
                                !.approvals = UNION {Paper(inputs[i]).approvals :
                                                        i \in DOMAIN inputs}]
<1>1. PICK m, txID, namespaces : /\ m = Merge(txs) /\ txID = inputs[1].txID
                                 /\ namespaces = inputs[1].tx.namespaces
  OBVIOUS
<1>2. /\ m \in Transactions
      /\ m.namespaces = namespaces
      /\ DOMAIN m.endorsements = DOMAIN namespaces
      /\ \A i \in DOMAIN inputs : inputs[i].tx.namespaces = namespaces
      /\ \A n \in DOMAIN namespaces : \A msp :
            HasMsp(m.endorsements[n], msp)
                <=> \E i \in DOMAIN inputs : HasMsp(EndorsementsOf(inputs[i].tx, n), msp)
  BY <1>1, MergedFileIs
<1>3. \A i \in DOMAIN inputs : inputs[i] \in Contents /\ inputs[i].txID = txID
  BY <1>1 DEF SameTxID
<1>4. new.txID = txID /\ new.tx = m /\ 1 \in DOMAIN inputs
  BY <1>1 DEF Holding
<1>5. new \in Contents
  <2>1. txID \in TxIDs
    BY <1>1, <1>3, <1>4, ContentIs
  <2>2. new = Holding(txID, m)
    BY <1>1
  <2>3. Holding(txID, m) \in Contents
    BY <1>2, <2>1 DEF Contents
  <2> QED BY <2>2, <2>3
<1>6. \A i \in DOMAIN inputs :
         Paper(inputs[i]).name = txID /\ Paper(inputs[i]).parts = Range(namespaces)
  BY <1>2, <1>3 DEF Paper
<1>7. Paper(new).name = txID /\ Paper(new).parts = Range(namespaces)
  BY <1>2, <1>4 DEF Paper
<1>8. ASSUME NEW x
      PROVE  x \in Paper(new).approvals <=> \E i \in DOMAIN inputs : x \in Paper(inputs[i]).approvals
  <2>1. x \in Paper(new).approvals
            <=> \E n \in DOMAIN namespaces : \E msp :
                   x = <<namespaces[n], msp>> /\ HasMsp(EndorsementsOf(m, n), msp)
    BY <1>2, <1>4, <1>5, PaperIs
  <2>2. \A n \in DOMAIN namespaces : EndorsementsOf(m, n) = m.endorsements[n]
    BY <1>2 DEF EndorsementsOf
  <2>3. ASSUME NEW i \in DOMAIN inputs
        PROVE  x \in Paper(inputs[i]).approvals
                   <=> \E n \in DOMAIN namespaces : \E msp :
                          x = <<namespaces[n], msp>> /\ HasMsp(EndorsementsOf(inputs[i].tx, n), msp)
    BY <1>2, <1>3, PaperIs
  <2>4. ASSUME NEW n \in DOMAIN namespaces, NEW msp
        PROVE  HasMsp(EndorsementsOf(m, n), msp)
                   <=> \E i \in DOMAIN inputs : HasMsp(EndorsementsOf(inputs[i].tx, n), msp)
    BY <1>2, <2>2
  <2>5. ASSUME x \in Paper(new).approvals
        PROVE  \E i \in DOMAIN inputs : x \in Paper(inputs[i]).approvals
    BY <2>1, <2>3, <2>4, <2>5
  <2>6. ASSUME NEW i \in DOMAIN inputs, x \in Paper(inputs[i]).approvals
        PROVE  x \in Paper(new).approvals
    BY <2>1, <2>3, <2>4, <2>6
  <2> QED BY <2>5, <2>6
<1>9. PICK approvals : approvals = UNION {Paper(inputs[i]).approvals : i \in DOMAIN inputs}
  OBVIOUS
<1>10. Paper(new).approvals = approvals
  BY <1>8, <1>9
<1>11. /\ Paper(new) = [name |-> txID, parts |-> Range(namespaces), approvals |-> approvals]
       /\ Paper(inputs[1]) = [name |-> txID, parts |-> Range(namespaces),
                              approvals |-> Paper(inputs[1]).approvals]
  <2>1. Paper(new) = [name |-> Paper(new).name, parts |-> Paper(new).parts,
                      approvals |-> Paper(new).approvals]
    BY DEF Paper
  <2>2. Paper(inputs[1]) = [name |-> Paper(inputs[1]).name, parts |-> Paper(inputs[1]).parts,
                            approvals |-> Paper(inputs[1]).approvals]
    BY DEF Paper
  <2> QED BY <1>4, <1>6, <1>7, <1>10, <2>1, <2>2
<1>12. Paper(new) = [Paper(inputs[1]) EXCEPT !.approvals = approvals]
  BY <1>11
<1> QED BY <1>4, <1>6, <1>9, <1>12

LEMMA ApprovalStep ==
    ASSUME TypeInv, TypeInv', Does
    PROVE  Abs!AbsNext
<1>1. DocumentsAreHeld
  BY DocumentsAre
<1>2. Documents \subseteq Contents
  BY <1>1 DEF DocumentsAreHeld, Held
<1>3. CASE Loses
  <2>1. ConsentsNow' = ConsentsNow /\ generated' = generated /\ PapersNow' \subseteq PapersNow
    BY <1>3 DEF Loses, ConsentsNow, PapersNow
  <2>2. Abs!Lose
    BY <2>1 DEF Abs!Lose, ConsentsNow, PapersNow
  <2> QED BY <2>2 DEF Abs!AbsNext
<1>4. ASSUME NEW a \in Admins, NEW txID \in TxIDs, NEW tx \in Transactions,
             NEW endorse \in BOOLEAN, Creates(a, txID, tx, endorse)
      PROVE  Abs!AbsNext
  <2>1. PICK new, d, s : /\ new = Holding(txID, IF endorse THEN Endorse(SignerOf[a], txID, tx)
                                                          ELSE tx)
                         /\ d = Holding(txID, tx)
                         /\ s = SignerOf[a].msp
    OBVIOUS
  <2>2. d \in Contents /\ d.txID = txID /\ d.tx = tx
    BY <2>1 DEF Contents, Holding
  <2>3. Paper(d).name = txID /\ Paper(d).parts = Range(tx.namespaces) /\ Paper(d).approvals = {}
    <3>1. \A n : EndorsementsOf(tx, n) = <<>>
      BY <1>4 DEF Creates, EndorsementsOf
    <3>2. \A n, msp : ~HasMsp(EndorsementsOf(tx, n), msp)
      BY <3>1 DEF HasMsp
    <3>3. Paper(d).approvals = {}
      BY <2>2, <3>2, PaperIs
    <3> QED BY <2>2, <3>3 DEF Paper
  <2>4. txID \notin generated /\ generated' = generated \cup {txID}
    BY <1>4 DEF Creates
  <2>5. Paper(new) \in PapersNow' /\ PapersNow' \subseteq PapersNow \cup {Paper(new)}
    BY <1>4, <2>1, AddsPaper DEF Creates
  <2>6. PICK p : p = Paper(new)
    OBVIOUS
  <2>7. CASE endorse
    <3>1. /\ new \in Contents
          /\ p.name = txID
          /\ p.parts = Range(tx.namespaces)
          /\ p.approvals = p.parts \X {s}
      <4>1. new = Holding(d.txID, Endorse(SignerOf[a], d.txID, d.tx))
        BY <2>1, <2>2, <2>7
      <4>2. /\ new \in Contents
            /\ Paper(new).name = Paper(d).name
            /\ Paper(new).parts = Paper(d).parts
            /\ Paper(new).approvals = Paper(d).approvals \cup (Paper(d).parts \X {s})
        BY <2>1, <2>2, <4>1, EndorsedPaper
      <4> QED BY <2>3, <2>6, <4>2
    <3>2. signed' = signed \cup NewEndorsements(a, txID, tx)
      BY <1>4, <2>7 DEF Creates
    <3>3. ConsentsNow' = ConsentsNow \cup {<<txID, part, s>> : part \in Range(tx.namespaces)}
      BY <2>1, <3>2, SigningConsents
    <3>4. UNION {Abs!Consenting(p, org) : org \in {s}}
              = {<<txID, part, s>> : part \in Range(tx.namespaces)}
      BY <3>1 DEF Abs!Consenting
    <3>5. Abs!OneNew(p)
      BY <2>5, <2>6 DEF Abs!OneNew, PapersNow
    <3>6. Abs!Draft(p, {s})
      BY <2>4, <3>1, <3>3, <3>4, <3>5 DEF Abs!Draft, ConsentsNow
    <3>7. p \in PapersNow' /\ p \in Abs!Papers /\ s \in Orgs
      BY <2>1, <2>5, <2>6, <3>1, PaperIs DEF Orgs
    <3> QED BY <3>6, <3>7 DEF Abs!AbsNext, PapersNow, Orgs
  <2>8. CASE ~endorse
    <3>1. new = d
      BY <2>1, <2>8
    <3>2. signed' = signed
      BY <1>4, <2>8 DEF Creates
    <3>3. ConsentsNow' = ConsentsNow \cup UNION {Abs!Consenting(p, org) : org \in {}}
      BY <3>2 DEF ConsentsNow
    <3>4. p.name = txID /\ p.approvals = p.parts \X {}
      BY <2>3, <2>6, <3>1
    <3>5. Abs!OneNew(p)
      BY <2>5, <2>6 DEF Abs!OneNew, PapersNow
    <3>6. Abs!Draft(p, {})
      BY <2>4, <3>3, <3>4, <3>5 DEF Abs!Draft, ConsentsNow
    <3>7. p \in PapersNow' /\ p \in Abs!Papers
      BY <2>2, <2>5, <2>6, <3>1, PaperIs
    <3> QED BY <3>6, <3>7 DEF Abs!AbsNext, PapersNow
  <2> QED BY <2>7, <2>8
<1>5. ASSUME NEW a \in Admins, NEW d \in Documents, Endorses(a, d) PROVE Abs!AbsNext
  <2>1. PICK new, s, q : /\ new = Holding(d.txID, Endorse(SignerOf[a], d.txID, d.tx))
                         /\ s = SignerOf[a].msp
                         /\ q = Paper(d)
    OBVIOUS
  <2>2. d \in Contents
    BY <1>2
  <2>3. /\ new \in Contents
        /\ Paper(new).name = q.name
        /\ Paper(new).parts = q.parts
        /\ Paper(new).approvals = q.approvals \cup (q.parts \X {s})
    BY <2>1, <2>2, EndorsedPaper
  <2>4. Paper(new) = [q EXCEPT !.approvals = @ \cup (q.parts \X {s})]
    <3>1. Paper(new) = [name |-> Paper(new).name, parts |-> Paper(new).parts,
                        approvals |-> Paper(new).approvals]
      BY DEF Paper
    <3>2. q = [name |-> q.name, parts |-> q.parts, approvals |-> q.approvals]
      BY <2>1 DEF Paper
    <3> QED BY <2>3, <3>1, <3>2
  <2>5. Paper(new) \in PapersNow' /\ PapersNow' \subseteq PapersNow \cup {Paper(new)}
    BY <1>5, <2>1, AddsPaper DEF Endorses
  <2>6. signed' = signed \cup NewEndorsements(a, d.txID, d.tx) /\ UNCHANGED generated
    BY <1>5 DEF Endorses
  <2>7. ConsentsNow' = ConsentsNow \cup {<<d.txID, part, s>> : part \in Range(d.tx.namespaces)}
    BY <2>1, <2>6, SigningConsents
  <2>8. Abs!Consenting(q, s) = {<<d.txID, part, s>> : part \in Range(d.tx.namespaces)}
    BY <2>1 DEF Abs!Consenting, Paper
  <2>9. Abs!OneNew([q EXCEPT !.approvals = @ \cup (q.parts \X {s})])
    BY <2>4, <2>5 DEF Abs!OneNew, PapersNow
  <2>10. Abs!Approve(q, s)
    BY <2>6, <2>7, <2>8, <2>9 DEF Abs!Approve, ConsentsNow
  <2>11. q \in PapersNow /\ s \in Orgs
    BY <2>1 DEF PapersNow, Orgs
  <2> QED BY <2>10, <2>11 DEF Abs!AbsNext, PapersNow, Orgs
<1>6. ASSUME NEW inputs \in Seq(Contents), NEW txs, Merges(inputs, txs) PROVE Abs!AbsNext
  <2>1. PICK new, q, others : /\ new = Holding(inputs[1].txID, Merge(txs))
                              /\ q = Paper(inputs[1])
                              /\ others = {Paper(inputs[i]) : i \in DOMAIN inputs}
    OBVIOUS
  <2>2. /\ Len(inputs) >= 2 /\ 1 \in DOMAIN inputs
        /\ \A i \in DOMAIN inputs : inputs[i] \in Documents
        /\ txs = [i \in DOMAIN inputs |-> inputs[i].tx]
        /\ SameTxID(inputs)
        /\ Mergeable(txs)
        /\ UNCHANGED <<generated, signed>>
        /\ Adds(new)
    BY <1>6, <2>1 DEF Merges
  <2>3. /\ \A i \in DOMAIN inputs : Paper(inputs[i]).name = q.name /\ Paper(inputs[i]).parts = q.parts
        /\ Paper(new) = [q EXCEPT !.approvals = UNION {Paper(inputs[i]).approvals :
                                                          i \in DOMAIN inputs}]
    BY <2>1, <2>2, MergedPaper
  <2>4. UNION {r.approvals : r \in others \cup {q}}
            = UNION {Paper(inputs[i]).approvals : i \in DOMAIN inputs}
    <3>1. others \cup {q} = others
      BY <2>1, <2>2
    <3> QED BY <2>1, <3>1
  <2>5. Paper(new) \in PapersNow' /\ PapersNow' \subseteq PapersNow \cup {Paper(new)}
    BY <2>2, AddsPaper
  <2>6. Abs!OneNew([q EXCEPT !.approvals = UNION {r.approvals : r \in others \cup {q}}])
    BY <2>3, <2>4, <2>5 DEF Abs!OneNew, PapersNow
  <2>7. \A r \in others : r.name = q.name /\ r.parts = q.parts
    BY <2>1, <2>3
  <2>8. ConsentsNow' = ConsentsNow
    BY <2>2 DEF ConsentsNow
  <2>9. Abs!Combine(q, others)
    BY <2>2, <2>6, <2>7, <2>8 DEF Abs!Combine, ConsentsNow
  <2>10. q \in PapersNow /\ others \in SUBSET PapersNow
    BY <2>1, <2>2 DEF PapersNow
  <2> QED BY <2>9, <2>10 DEF Abs!AbsNext, PapersNow
<1> QED BY <1>3, <1>4, <1>5, <1>6 DEF Does

\* The flow of files implements Approval: endorsing adds the own organization and
\* keeps everybody else, merging puts together exactly what its inputs say (endorse.go:
\* 27-78, tx_merge.go:80-105, merge.go:20-107); writing, overwriting and dying only lose
\* transactions.
THEOREM FlowImplementsApproval == Spec => ImplementsApproval
<1>1. Init => Abs!AbsInit
  <2> SUFFICES ASSUME Init PROVE Abs!AbsInit
    OBVIOUS
  <2>1. Documents = {} /\ signed = {} /\ generated = {}
    BY NothingAtFirst DEF Init
  <2> QED BY <2>1 DEF Abs!AbsInit
<1>2. TypeInv /\ [Next]_vars => TypeInv' /\ [Abs!AbsNext]_(Abs!absVars)
  BY TypeStep, StepDoes, ApprovalStep
<1> QED BY <1>1, <1>2, TypeInit, PTL DEF Spec, ImplementsApproval, Abs!AbsSpec

(***************************************************************************)
(* What Approval guarantees, and so what the flow inherits from it: every  *)
(* approval stays tied to a consent, whatever papers are drafted,          *)
(* approved, combined and lost.  The papers and the consents are those     *)
(* that the flow stands for, but nothing is used of them.                  *)
(***************************************************************************)

\* A paper approves only parts it has, and its organizations are organizations: the rest
\* of the typing of a paper is needed for nothing here, and names need not be finite.
PaperInv ==
    /\ PapersNow \subseteq Abs!Papers
    /\ \A p \in PapersNow : p.approvals \subseteq p.parts \X Orgs
    /\ \A p \in PapersNow : \A a \in p.approvals : <<p.name, a[1], a[2]>> \in ConsentsNow

\* What Approval's actions do, said of the papers and consents of the flow by name.
LEMMA NewPaper ==
    ASSUME NEW p, Abs!OneNew(p)
    PROVE  p \in PapersNow' /\ PapersNow' \subseteq PapersNow \cup {p}
BY DEF Abs!OneNew, PapersNow

LEMMA DraftIs ==
    ASSUME NEW p, NEW orgs, Abs!Draft(p, orgs)
    PROVE  /\ Abs!OneNew(p)
           /\ p.approvals = p.parts \X orgs
           /\ ConsentsNow' = ConsentsNow \cup UNION {Abs!Consenting(p, org) : org \in orgs}
BY DEF Abs!Draft, ConsentsNow

LEMMA ApproveIs ==
    ASSUME NEW q, NEW org, Abs!Approve(q, org)
    PROVE  /\ Abs!OneNew([q EXCEPT !.approvals = @ \cup (q.parts \X {org})])
           /\ ConsentsNow' = ConsentsNow \cup Abs!Consenting(q, org)
BY DEF Abs!Approve, ConsentsNow

LEMMA CombineIs ==
    ASSUME NEW q, NEW others, Abs!Combine(q, others)
    PROVE  /\ \A r \in others : r.name = q.name /\ r.parts = q.parts
           /\ Abs!OneNew([q EXCEPT !.approvals = UNION {r.approvals : r \in others \cup {q}}])
           /\ ConsentsNow' = ConsentsNow
BY DEF Abs!Combine, ConsentsNow

LEMMA ApprovalStepIs ==
    ASSUME [Abs!AbsNext]_(Abs!absVars)
    PROVE  \/ PapersNow' \subseteq PapersNow /\ ConsentsNow' = ConsentsNow
           \/ \E p \in Abs!Papers, orgs \in {{}} \cup {{o} : o \in Orgs} : Abs!Draft(p, orgs)
           \/ \E q \in PapersNow, org \in Orgs : Abs!Approve(q, org)
           \/ \E q \in PapersNow, others \in SUBSET PapersNow : Abs!Combine(q, others)
<1>1. Abs!Lose \/ UNCHANGED Abs!absVars => PapersNow' \subseteq PapersNow /\ ConsentsNow' = ConsentsNow
  BY DEF Abs!Lose, Abs!absVars, PapersNow, ConsentsNow
<1>2. Abs!AbsNext =>
        \/ Abs!Lose
        \/ \E p \in Abs!Papers, orgs \in {{}} \cup {{o} : o \in Orgs} : Abs!Draft(p, orgs)
        \/ \E q \in PapersNow, org \in Orgs : Abs!Approve(q, org)
        \/ \E q \in PapersNow, others \in SUBSET PapersNow : Abs!Combine(q, others)
  BY Zenon DEF Abs!AbsNext, PapersNow, Orgs
<1> QED BY <1>1, <1>2

LEMMA PaperInvStep == PaperInv /\ [Abs!AbsNext]_(Abs!absVars) => PaperInv'
<1> SUFFICES ASSUME PaperInv, [Abs!AbsNext]_(Abs!absVars) PROVE PaperInv'
  OBVIOUS
\* It is enough to look at the new paper and at what was consented to.
<1>1. ASSUME NEW p \in Abs!Papers, Abs!OneNew(p),
             ConsentsNow \subseteq ConsentsNow',
             p.approvals \subseteq p.parts \X Orgs,
             \A a \in p.approvals : <<p.name, a[1], a[2]>> \in ConsentsNow'
      PROVE  PaperInv'
  BY <1>1, NewPaper DEF PaperInv
<1>2. ASSUME PapersNow' \subseteq PapersNow, ConsentsNow' = ConsentsNow PROVE PaperInv'
  BY <1>2 DEF PaperInv
<1>3. ASSUME NEW p \in Abs!Papers, NEW orgs \in {{}} \cup {{o} : o \in Orgs}, Abs!Draft(p, orgs)
      PROVE  PaperInv'
  <2>1. orgs \subseteq Orgs /\ p.approvals = p.parts \X orgs
    BY <1>3, DraftIs
  <2>2. p.approvals \subseteq p.parts \X Orgs
    BY <2>1
  <2>3. \A a \in p.approvals : <<p.name, a[1], a[2]>> \in ConsentsNow'
    BY <1>3, <2>1, DraftIs DEF Abs!Consenting
  <2> QED BY <1>1, <1>3, <2>2, <2>3, DraftIs
<1>4. ASSUME NEW q \in PapersNow, NEW org \in Orgs, Abs!Approve(q, org) PROVE PaperInv'
  <2> DEFINE p == [q EXCEPT !.approvals = @ \cup (q.parts \X {org})]
  <2>1. q \in Abs!Papers /\ q.approvals \subseteq q.parts \X Orgs
    BY DEF PaperInv
  <2>2. /\ p.name = q.name /\ p.parts = q.parts
        /\ p.approvals = q.approvals \cup (q.parts \X {org})
    BY <2>1 DEF Abs!Papers, Orgs
  <2>3. p \in Abs!Papers
    BY <2>1, <2>2 DEF Abs!Papers, Orgs
  <2>4. p.approvals \subseteq p.parts \X Orgs
    BY <2>1, <2>2
  <2>5. Abs!OneNew(p) /\ ConsentsNow \subseteq ConsentsNow'
    BY <1>4, ApproveIs
  <2> HIDE DEF p
  <2>6. ASSUME NEW a \in p.approvals PROVE <<p.name, a[1], a[2]>> \in ConsentsNow'
    <3>1. CASE a \in q.approvals
      <4>1. <<q.name, a[1], a[2]>> \in ConsentsNow
        BY <3>1 DEF PaperInv
      <4> QED BY <2>2, <2>5, <4>1
    <3>2. CASE a \in q.parts \X {org}
      <4>1. a[1] \in q.parts /\ a[2] = org
        BY <3>2
      <4>2. <<q.name, a[1], a[2]>> \in Abs!Consenting(q, org)
        BY <4>1 DEF Abs!Consenting
      <4>3. Abs!Consenting(q, org) \subseteq ConsentsNow'
        BY <1>4, ApproveIs
      <4> QED BY <2>2, <4>2, <4>3
    <3> QED BY <2>2, <3>1, <3>2
  <2> QED BY <1>1, <2>3, <2>4, <2>5, <2>6
<1>5. ASSUME NEW q \in PapersNow, NEW others \in SUBSET PapersNow, Abs!Combine(q, others)
      PROVE  PaperInv'
  <2> DEFINE all == UNION {r.approvals : r \in others \cup {q}}
             p == [q EXCEPT !.approvals = all]
  <2>1. \A r \in others \cup {q} :
            /\ r \in PapersNow /\ r \in Abs!Papers /\ r.name = q.name /\ r.parts = q.parts
            /\ r.approvals \subseteq q.parts \X Orgs
    BY <1>5, CombineIs DEF PaperInv
  <2>2. all \subseteq q.parts \X Orgs /\ all \in SUBSET (Namespaces \X Orgs)
    BY <2>1 DEF Abs!Papers, Orgs
  <2>3. p.name = q.name /\ p.parts = q.parts /\ p.approvals = all
    BY <2>1 DEF Abs!Papers, Orgs
  <2>4. p \in Abs!Papers
    BY <2>1, <2>2, <2>3 DEF Abs!Papers, Orgs
  <2>5. Abs!OneNew(p) /\ ConsentsNow' = ConsentsNow
    BY <1>5, CombineIs
  <2>6. ASSUME NEW a \in p.approvals PROVE <<p.name, a[1], a[2]>> \in ConsentsNow'
    <3>1. PICK r \in others \cup {q} : a \in r.approvals
      BY <2>3
    <3>2. <<r.name, a[1], a[2]>> \in ConsentsNow
      BY <2>1, <3>1 DEF PaperInv
    <3>3. r.name = p.name
      BY <2>1, <2>3
    <3> QED BY <2>5, <3>2, <3>3
  <2> HIDE DEF p
  <2>7. p.approvals \subseteq p.parts \X Orgs
    BY <2>2, <2>3
  <2> QED BY <1>1, <2>4, <2>6, <2>5, <2>7
<1> QED BY <1>2, <1>3, <1>4, <1>5, ApprovalStepIs

\* Every approval on every paper was consented to: what Approval guarantees by itself.
THEOREM ApprovalsAreConsented == Abs!AbsSpec => []Abs!ApprovedByConsent
<1>1. Abs!AbsInit => PaperInv
  BY DEF Abs!AbsInit, PaperInv, PapersNow
<1>2. PaperInv => Abs!ApprovedByConsent
  BY DEF PaperInv, Abs!ApprovedByConsent, PapersNow, ConsentsNow
<1> QED BY PaperInvStep, <1>1, <1>2, PTL DEF Abs!AbsSpec

\* Whatever files are endorsed, merged, overwritten and lost, an organization is listed on
\* a transaction only for namespaces of that transaction that it has signed under its ID.
THEOREM FlowApprovalsAreConsented == Spec => []Abs!ApprovedByConsent
BY FlowImplementsApproval, ApprovalsAreConsented, PTL DEF ImplementsApproval

=============================================================================
