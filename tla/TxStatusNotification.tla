------------------------ MODULE TxStatusNotification ------------------------
(***************************************************************************)
(* What the notification client promises its callers, with no stream, no   *)
(* goroutine and no channel: a caller is interested in one transaction; an *)
(* answer that is taken resolves, in one step, everybody who is interested *)
(* in the transactions it is about, each with the final status that the    *)
(* answer has of it or, if it has none, with the timeout it reports; a     *)
(* caller may withdraw before it is resolved; and the client may drop all  *)
(* interest when it shuts down.                                            *)
(***************************************************************************)
CONSTANTS
    Callers,      \* the calls of Subscribe that may be made
    TxIds,        \* transaction identifiers
    Status,       \* the final statuses of a transaction
    Unspecified,  \* what a call is told of a transaction that timed out
    NoStatus,     \* the call has been told nothing; the answer has no status
    Answers,      \* records [timeouts, events], of what an answer may hold
    NoAnswer,     \* no answer is being dealt with
    TxOf          \* the transaction each call is about (TxOf \in [Callers -> TxIds])

VARIABLES
    interest,     \* the calls that wait for an answer
    outcome,      \* what each call has been told
    answer        \* the answer that is being dealt with

absVars == <<interest, outcome, answer>>

AbsTypeOK ==
    /\ interest \subseteq Callers
    /\ outcome \in [Callers -> Status \cup {Unspecified, NoStatus}]
    /\ answer \in Answers \cup {NoAnswer}

AbsInit ==
    /\ interest = {}
    /\ outcome = [c \in Callers |-> NoStatus]
    /\ answer = NoAnswer

Join(c) ==
    /\ c \notin interest
    /\ outcome[c] = NoStatus
    /\ interest' = interest \cup {c}
    /\ UNCHANGED <<outcome, answer>>

Withdraw(c) ==
    /\ c \in interest
    /\ interest' = interest \ {c}
    /\ UNCHANGED <<outcome, answer>>

Take(a) ==
    /\ answer = NoAnswer
    /\ answer' = a
    /\ UNCHANGED <<interest, outcome>>

\* The interested calls the answer is about, by status and by timeout: the status wins.
Decided  == {c \in interest : answer.events[TxOf[c]] # NoStatus}
TimedOut == {c \in interest : TxOf[c] \in answer.timeouts} \ Decided

Resolve ==
    /\ answer # NoAnswer
    /\ answer' = NoAnswer
    /\ interest' = interest \ (Decided \cup TimedOut)
    /\ outcome' = [c \in Callers |-> CASE c \in Decided -> answer.events[TxOf[c]]
                                       [] c \in TimedOut -> Unspecified
                                       [] OTHER -> outcome[c]]

DropAll ==
    /\ interest' = {}
    /\ UNCHANGED <<outcome, answer>>

AbsNext ==
    \/ \E c \in Callers : Join(c) \/ Withdraw(c)
    \/ \E a \in Answers : Take(a)
    \/ Resolve
    \/ DropAll

AbsSpec == AbsInit /\ [][AbsNext]_absVars

=============================================================================
