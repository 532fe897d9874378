----------------------------- MODULE Application -----------------------------
(***************************************************************************)
(* The operations of AdminApp: the order in which each asks the providers  *)
(* for clients, calls the services and gives the clients back.  fxconfig   *)
(* calls one operation per process; the application itself can be called   *)
(* again, and by several callers at once, and then they share clients.     *)
(*                                                                         *)
(* An operation is a sequence of steps (Program).  Any of them may fail;   *)
(* whatever the outcome, the deferred calls of Close run last.             *)
(***************************************************************************)
EXTENDS Policies, SequencesExt

CONSTANTS
    Callers,      \* goroutines that call the application
    Menu,         \* Menu[c]: the operations that caller c may call
    MaxCalls,     \* bound: calls of each caller, one after the other
    KeyFiles,     \* what the key file of a threshold policy may hold
    MaxChanges    \* bound: changes of the key file

Services == {"msp", "query", "orderer", "notification"}

\* The signing identity is no client: there is nothing to close.
Clients == Services \ {"msp"}

\* An operation; "policy" is what --policy says.
Operations ==
    [name : {"list", "endorse", "submit", "submitWithWait"}]
    \cup [name : {"deploy"}, policy : [prefixed : BOOLEAN, rest : STRING],
          endorse : BOOLEAN, submit : BOOLEAN, wait : BOOLEAN]

\* What a PEM block can hold, as Policies reads it.
Blocks ==
    [holds : {"certificate", "public key", "other"}, algorithm : STRING,
     key : STRING \ {NoKey}]

ASSUME MenuAssumption == \A c \in Callers : Menu[c] \subseteq Operations
ASSUME KeyFilesAssumption ==
    \A file \in KeyFiles : file = Missing \/ file.blocks \in Seq(Blocks)
ASSUME BoundsAssumption == MaxCalls \in Nat /\ MaxChanges \in Nat

VARIABLES
    op,           \* the operation each caller is in, None between two calls
    rest,         \* the steps it has still to take
    outcome,      \* none as long as it works, then ok or error: it returns
    held,         \* the clients whose Close it has deferred, in this order
    calls,        \* counts the calls of each caller
    provider,     \* per service: new, making (inside once.Do), ready, failed
    maker,        \* per service: the caller inside once.Do, None if nobody is
    client,       \* per service: absent, open, closed
    closedBy,     \* history: the call that closed it, <<caller, number>>
    asked,        \* history: the services the operation has asked for
    policy,       \* what the transaction says of the policy, NoKey before
    keyFile,      \* the key file of threshold policies
    changes,      \* counts its changes
    created,      \* history: the file as createPolicy read it
    sent,         \* history: the calls that sent an envelope to the orderer
    interrupted,  \* the context of the process is cancelled
    zeroWait      \* the configured waitingTimeout is zero

callVars     == <<op, rest, outcome, held, calls>>
serviceVars  == <<provider, maker, client, closedBy>>
policyVars   == <<policy, created>>
fileVars     == <<keyFile, changes>>

vars == <<callVars, serviceVars, asked, policyVars, fileVars, sent, interrupted, zeroWait>>

None == [name |-> "none"]
Nobody == "nobody"

ASSUME NobodyAssumption == Nobody \notin Callers

Do(what, service) == [do |-> what, of |-> service]

-----------------------------------------------------------------------------
(* The operations, step by step                                            *)

\* Variant with a fault: the query service is asked before the policy is made.
CreateStepsQueryFirst ==
    <<Do("get", "query"), Do("call", "query"), Do("close", "query"), Do("createPolicy", "msp")>>

\* CreateNamespace: the policy first, then the query service.
CreateSteps ==
    <<Do("createPolicy", "msp"), Do("get", "query"), Do("call", "query"), Do("close", "query")>>

EndorseSteps == <<Do("get", "msp"), Do("sign", "msp")>>

\* Variant with a fault: the deferred Close runs when prepareSubmission returns.
PrepareStepsClosing == <<Do("get", "msp"), Do("get", "orderer"), Do("close", "orderer")>>

\* prepareSubmission.
PrepareSteps == <<Do("get", "msp"), Do("get", "orderer")>>

\* Broadcast sends the envelope and waits for the orderer's answer.
BroadcastSteps == <<Do("send", "orderer"), Do("receive", "orderer")>>

SubmitSteps == PrepareSteps \o BroadcastSteps

\* Variant with a fault: the broadcast comes first.
SubmitWithWaitStepsSendFirst ==
    PrepareSteps \o BroadcastSteps
                 \o <<Do("get", "notification"), Do("subscribe", "notification"),
                      Do("await", "notification")>>

SubmitWithWaitSteps ==
    PrepareSteps \o <<Do("get", "notification"), Do("subscribe", "notification")>>
                 \o BroadcastSteps \o <<Do("await", "notification")>>

\* What DeployNamespace does with a transaction, by its flags.
DeploySteps(o) ==
    IF ~o.endorse THEN <<>>
    ELSE EndorseSteps \o (IF o.wait THEN SubmitWithWaitSteps
                          ELSE IF o.submit THEN SubmitSteps ELSE <<>>)

Program(o) ==
    CASE o.name = "list" -> <<Do("get", "query"), Do("call", "query")>>
      [] o.name = "endorse" -> EndorseSteps
      [] o.name = "submit" -> SubmitSteps
      [] o.name = "submitWithWait" -> SubmitWithWaitSteps
      [] o.name = "deploy" -> <<Do("validate", "msp")>> \o CreateSteps \o DeploySteps(o)

-----------------------------------------------------------------------------
Init ==
    /\ op = [c \in Callers |-> None]
    /\ rest = [c \in Callers |-> <<>>]
    /\ outcome = [c \in Callers |-> "none"]
    /\ held = [c \in Callers |-> <<>>]
    /\ calls = [c \in Callers |-> 0]
    /\ provider = [s \in Services |-> "new"]
    /\ maker = [s \in Services |-> Nobody]
    /\ client = [s \in Services |-> "absent"]
    /\ closedBy = [s \in Services |-> <<>>]
    /\ asked = [c \in Callers |-> {}]
    /\ policy = [c \in Callers |-> NoKey]
    /\ keyFile \in KeyFiles
    /\ changes = 0
    /\ created = [c \in Callers |-> Missing]
    /\ sent = {}
    /\ interrupted = FALSE
    /\ zeroWait \in BOOLEAN

Active(c) == op[c] # None

\* The operation of c is at a step that does this.
At(c, what) == Active(c) /\ outcome[c] = "none" /\ rest[c] # <<>> /\ rest[c][1].do = what

\* The service of the step, and the number of the call.
Service(c) == rest[c][1].of
ThisCall(c) == <<c, calls[c]>>

\* The step is done; after the last one the operation returns.
Advance(c) ==
    /\ rest' = [rest EXCEPT ![c] = Tail(@)]
    /\ outcome' = [outcome EXCEPT ![c] = IF Len(rest[c]) = 1 THEN "ok" ELSE @]

\* The operation returns an error.
Abort(c) ==
    /\ outcome' = [outcome EXCEPT ![c] = "error"]
    /\ UNCHANGED rest

Call(c, o) ==
    /\ ~Active(c)
    /\ calls[c] < MaxCalls
    /\ op' = [op EXCEPT ![c] = o]
    /\ rest' = [rest EXCEPT ![c] = Program(o)]
    /\ calls' = [calls EXCEPT ![c] = @ + 1]
    /\ asked' = [asked EXCEPT ![c] = {}]
    /\ policy' = [policy EXCEPT ![c] = NoKey]
    /\ UNCHANGED <<outcome, held, serviceVars, created, fileVars, sent, interrupted, zeroWait>>

\* DeployNamespaceInput.Validate; the name and the version may be refused, too.
Validate(c) ==
    /\ At(c, "validate")
    /\ \/ ValidatePolicy(Set(op[c].policy), keyFile) /\ Advance(c)
       \/ Abort(c)
    /\ UNCHANGED <<op, held, calls, serviceVars, asked, policyVars, fileVars, sent,
                   interrupted, zeroWait>>

\* createPolicy: the file is read now, whatever validation has seen.
BuildPolicy(c) ==
    /\ At(c, "createPolicy")
    /\ IF CanCreatePolicy(Set(op[c].policy), keyFile)
       THEN /\ Advance(c)
            /\ policy' = [policy EXCEPT ![c] = CreatePolicy(Set(op[c].policy), keyFile)]
            /\ created' = [created EXCEPT ![c] = keyFile]
       ELSE Abort(c) /\ UNCHANGED policyVars
    /\ UNCHANGED <<op, held, calls, serviceVars, asked, fileVars, sent, interrupted, zeroWait>>

\* Variant with a fault: a client that was closed is made again.
GetAnew(c) ==
    /\ At(c, "get")
    /\ provider[Service(c)] = "new" \/ client[Service(c)] = "closed"
    /\ provider' = [provider EXCEPT ![Service(c)] = "making"]
    /\ maker' = [maker EXCEPT ![Service(c)] = c]
    /\ asked' = [asked EXCEPT ![c] = @ \cup {Service(c)}]
    /\ UNCHANGED <<callVars, client, closedBy, policyVars, fileVars, sent, interrupted, zeroWait>>

\* Provider.Get: the first caller enters once.Do ...
Get(c) ==
    /\ At(c, "get")
    /\ provider[Service(c)] = "new"
    /\ provider' = [provider EXCEPT ![Service(c)] = "making"]
    /\ maker' = [maker EXCEPT ![Service(c)] = c]
    /\ asked' = [asked EXCEPT ![c] = @ \cup {Service(c)}]
    /\ UNCHANGED <<callVars, client, closedBy, policyVars, fileVars, sent, interrupted, zeroWait>>

\* Variant with a fault: the error of the factory is forgotten.
MakeIgnoringError(s, succeeds) ==
    /\ provider[s] = "making"
    /\ provider' = [provider EXCEPT ![s] = "ready"]
    /\ maker' = [maker EXCEPT ![s] = Nobody]
    /\ client' = [client EXCEPT ![s] = IF succeeds /\ s \in Clients THEN "open" ELSE @]
    /\ UNCHANGED <<callVars, closedBy, asked, policyVars, fileVars, sent, interrupted, zeroWait>>

\* ... and leaves it with an instance or an error, for ever.  Validation and
\* dialling do not look at the context.
Make(s, succeeds) ==
    /\ provider[s] = "making"
    /\ provider' = [provider EXCEPT ![s] = IF succeeds THEN "ready" ELSE "failed"]
    /\ maker' = [maker EXCEPT ![s] = Nobody]
    /\ client' = [client EXCEPT ![s] = IF succeeds /\ s \in Clients THEN "open" ELSE @]
    /\ UNCHANGED <<callVars, closedBy, asked, policyVars, fileVars, sent, interrupted, zeroWait>>

\* Variant with a fault: nothing is deferred until every client is there.
GetReturnsOrForgets(c) ==
    /\ At(c, "get")
    /\ provider[Service(c)] \in {"ready", "failed"}
    /\ asked' = [asked EXCEPT ![c] = @ \cup {Service(c)}]
    /\ IF provider[Service(c)] = "ready"
       THEN /\ Advance(c)
            /\ held' = [held EXCEPT ![c] = IF Service(c) \in Clients
                                           THEN Append(@, Service(c)) ELSE @]
       ELSE Abort(c) /\ held' = [held EXCEPT ![c] = <<>>]
    /\ UNCHANGED <<op, calls, serviceVars, policyVars, fileVars, sent, interrupted, zeroWait>>

\* Get returns what once.Do left behind; the caller defers Close.
GetReturns(c) ==
    /\ At(c, "get")
    /\ provider[Service(c)] \in {"ready", "failed"}
    /\ asked' = [asked EXCEPT ![c] = @ \cup {Service(c)}]
    /\ IF provider[Service(c)] = "ready"
       THEN /\ Advance(c)
            /\ held' = [held EXCEPT ![c] = IF Service(c) \in Clients
                                           THEN Append(@, Service(c)) ELSE @]
       ELSE Abort(c) /\ UNCHANGED held
    /\ UNCHANGED <<op, calls, serviceVars, policyVars, fileVars, sent, interrupted, zeroWait>>

\* A call over the client of this step can succeed.
Usable(c) == client[Service(c)] = "open" /\ ~interrupted

\* GetNamespacePolicies, GetConfigVersion, and signing with the local identity.
StepSucceeds(c) ==
    /\ \/ At(c, "call") /\ Usable(c)
       \/ At(c, "sign")
    /\ Advance(c)
    /\ UNCHANGED <<op, held, calls, serviceVars, asked, policyVars, fileVars, sent,
                   interrupted, zeroWait>>

\* Subscribe, which waitingTimeout bounds.  The calls are about different transactions;
\* NotificationClient has calls that share one.
Subscribe(c) ==
    /\ At(c, "subscribe")
    /\ Usable(c)
    /\ ~zeroWait
    /\ Advance(c)
    /\ UNCHANGED <<op, held, calls, serviceVars, asked, policyVars, fileVars, sent,
                   interrupted, zeroWait>>

\* Broadcast: the envelope is on its way ...
Send(c) ==
    /\ At(c, "send")
    /\ Usable(c)
    /\ Advance(c)
    /\ sent' = sent \cup {[call |-> ThisCall(c), op |-> op[c]]}
    /\ UNCHANGED <<op, held, calls, serviceVars, asked, policyVars, fileVars,
                   interrupted, zeroWait>>

\* ... and the orderer answers SUCCESS, or something else.  Recv has no deadline.
OrdererAnswers(c) ==
    /\ At(c, "receive")
    /\ Usable(c)
    /\ Advance(c) \/ Abort(c)
    /\ UNCHANGED <<op, held, calls, serviceVars, asked, policyVars, fileVars, sent,
                   interrupted, zeroWait>>

\* Variant with a fault: the stream is opened with a context of its own.
ReceiveIgnoresContext(c) ==
    /\ At(c, "receive")
    /\ client["orderer"] # "open"
    /\ Abort(c)
    /\ UNCHANGED <<op, held, calls, serviceVars, asked, policyVars, fileVars, sent,
                   interrupted, zeroWait>>

\* Recv ends with an error if the context is cancelled or the client was closed.
ReceiveAborted(c) ==
    /\ At(c, "receive")
    /\ ~Usable(c)
    /\ Abort(c)
    /\ UNCHANGED <<op, held, calls, serviceVars, asked, policyVars, fileVars, sent,
                   interrupted, zeroWait>>

\* WaitForEvent: the status, also one that came before somebody closed the client.
Await(c) ==
    /\ At(c, "await")
    /\ ~interrupted
    /\ Advance(c)
    /\ UNCHANGED <<op, held, calls, serviceVars, asked, policyVars, fileVars, sent,
                   interrupted, zeroWait>>

\* Every other error: a refusal, a deadline, a closed client, an interrupt.
StepFails(c) ==
    /\ \E what \in {"call", "sign", "subscribe", "send", "await"} : At(c, what)
    /\ Abort(c)
    /\ UNCHANGED <<op, held, calls, serviceVars, asked, policyVars, fileVars, sent,
                   interrupted, zeroWait>>

-----------------------------------------------------------------------------
(* Closing and returning                                                   *)

\* Close of the client deferred last; it may have been closed by another call.
CloseLast(c) ==
    LET s == Last(held[c]) IN
    /\ held[c] # <<>>
    /\ held' = [held EXCEPT ![c] = Front(@)]
    /\ client' = [client EXCEPT ![s] = "closed"]
    /\ closedBy' = [closedBy EXCEPT ![s] = IF client[s] = "open" THEN ThisCall(c) ELSE @]

\* configVersion returns: its deferred Close runs in the middle of the operation.
InnerReturn(c) ==
    /\ At(c, "close")
    /\ CloseLast(c)
    /\ Advance(c)
    /\ UNCHANGED <<op, calls, provider, maker, asked, policyVars, fileVars, sent,
                   interrupted, zeroWait>>

\* The deferred calls of an operation that returns, the last one first ...
CloseDeferred(c) ==
    /\ outcome[c] # "none"
    /\ CloseLast(c)
    /\ UNCHANGED <<op, rest, outcome, calls, provider, maker, asked, policyVars, fileVars,
                   sent, interrupted, zeroWait>>

\* ... and it has returned.
Return(c) ==
    /\ outcome[c] # "none"
    /\ held[c] = <<>>
    /\ op' = [op EXCEPT ![c] = None]
    /\ rest' = [rest EXCEPT ![c] = <<>>]
    /\ outcome' = [outcome EXCEPT ![c] = "none"]
    /\ UNCHANGED <<held, calls, serviceVars, asked, policyVars, fileVars, sent,
                   interrupted, zeroWait>>

-----------------------------------------------------------------------------
(* Around the application                                                  *)

\* The signal handler of main cancels the context of all calls.
Interrupt ==
    /\ ~interrupted
    /\ interrupted' = TRUE
    /\ UNCHANGED <<callVars, serviceVars, asked, policyVars, fileVars, sent, zeroWait>>

\* Somebody replaces or removes the key file.
KeyFileChanges ==
    /\ changes < MaxChanges
    /\ changes' = changes + 1
    /\ keyFile' \in KeyFiles
    /\ UNCHANGED <<callVars, serviceVars, asked, policyVars, sent, interrupted, zeroWait>>

\* The steps an operation takes by itself, in bounded time.
Proceed(c) ==
    \/ Validate(c) \/ BuildPolicy(c) \/ Get(c) \/ GetReturns(c)
    \/ StepSucceeds(c) \/ Subscribe(c) \/ Send(c) \/ ReceiveAborted(c) \/ Await(c)
    \/ StepFails(c)
    \/ InnerReturn(c) \/ CloseDeferred(c) \/ Return(c)

Next ==
    \/ \E c \in Callers :
          \/ \E o \in Menu[c] : Call(c, o)
          \/ Proceed(c)
          \/ OrdererAnswers(c)
    \/ \E s \in Services, succeeds \in BOOLEAN : Make(s, succeeds)
    \/ Interrupt
    \/ KeyFileChanges

Spec == Init /\ [][Next]_vars

\* Queries, the subscription and the wait for the status have deadlines, dialling has
\* one, too, and the rest is local.  The orderer need never answer, nobody need ever
\* interrupt.
FairSpec ==
    /\ Spec
    /\ \A c \in Callers : WF_vars(Proceed(c))
    /\ WF_vars(\E s \in Services, succeeds \in BOOLEAN : Make(s, succeeds))

-----------------------------------------------------------------------------
(* Properties                                                              *)

Steps ==
    [do : {"validate", "createPolicy", "get", "call", "sign", "subscribe", "send", "receive",
           "await", "close"},
     of : Services]

\* Type invariant; an operation that works has steps left, and nobody is inside
\* once.Do of a provider that is not being used for the first time.
TypeOK ==
    /\ \A c \in Callers : op[c] \in Menu[c] \cup {None}
    /\ rest \in [Callers -> Seq(Steps)]
    /\ outcome \in [Callers -> {"none", "ok", "error"}]
    /\ held \in [Callers -> Seq(Clients)]
    /\ calls \in [Callers -> 0..MaxCalls]
    /\ provider \in [Services -> {"new", "making", "ready", "failed"}]
    /\ client \in [Services -> {"absent", "open", "closed"}]
    /\ keyFile \in KeyFiles
    /\ interrupted \in BOOLEAN
    /\ zeroWait \in BOOLEAN
    /\ \A c \in Callers :
          /\ Active(c) => outcome[c] # "none" \/ rest[c] # <<>>
          /\ ~Active(c) => outcome[c] = "none" /\ rest[c] = <<>> /\ held[c] = <<>>
    /\ \A s \in Services :
          /\ provider[s] = "making" <=> maker[s] \in Callers
          /\ provider[s] = "making" => At(maker[s], "get") /\ Service(maker[s]) = s
          /\ client[s] # "absent" <=> provider[s] = "ready" /\ s \in Clients

\* Call c will close client s: it has deferred that, or is about to get the client.
Owns(c, s) ==
    \/ s \in ToSet(held[c])
    \/ At(c, "get") /\ Service(c) = s /\ client[s] # "absent"

\* No operation leaves a connection behind (submit.go:31-61, list.go:23-25,
\* create.go:50-52): whatever is open belongs to a call that is still running and will
\* close it, on every way out, also if one of several clients cannot be had.
NoClientLeft ==
    \A s \in Clients : client[s] = "open" => \E c \in Callers : Active(c) /\ Owns(c, s)

\* A call never uses a client that it closed itself; a connection it finds closed was
\* closed by another call that shares the provider (provider.go:41-52), of which a
\* process of fxconfig has none.
ClosedByAnother ==
    \A c \in Callers :
        /\ \E what \in {"call", "subscribe", "send", "receive", "await"} : At(c, what)
        /\ client[Service(c)] = "closed"
        => closedBy[Service(c)] # ThisCall(c)

\* A deployment that asks for a client has its policy (create.go:26-31): an expression
\* that parses, or the first ECDSA key of the file as createPolicy read it, whatever
\* the file held when it was validated.
PolicyBeforeClients ==
    \A c \in Callers :
        Active(c) /\ op[c].name = "deploy" /\ asked[c] # {} =>
            IF op[c].policy.prefixed
            THEN /\ created[c] # Missing
                 /\ LET blocks == created[c].blocks
                        isKey(i) == blocks[i].algorithm = "ECDSA" /\ blocks[i].holds # "other"
                    IN \E i \in DOMAIN blocks :
                          isKey(i) /\ policy[c] = blocks[i].key /\ \A j \in 1..(i - 1) : ~isKey(j)
            ELSE policy[c] \in Expressions

\* With a waitingTimeout of zero, which validation lets pass (config.go:133), an
\* operation that is to wait sends nothing at all: it fails before its broadcast.
ZeroWaitSendsNothing ==
    zeroWait => \A e \in sent : e.op.name = "submit" \/ (e.op.name = "deploy" /\ ~e.op.wait)

\* Every operation ends, except one that waits for the orderer, which has its envelope,
\* over an open connection while nobody interrupts (orderer.go:79-95): behind another
\* caller's once.Do, on a closed client or with a dead service it never hangs, and an
\* interrupt (main.go:32) ends it in any case.
EndsUnlessOrdererSilent ==
    \A c \in Callers :
        []<>~Active(c) \/ <>[](At(c, "receive") /\ client["orderer"] = "open" /\ ~interrupted)

\* The clients under their operations implement ClientLease.
Lease == INSTANCE ClientLease WITH
             Users <- Callers,
             Clients <- Clients,
             state <- [s \in Clients |-> client[s]],
             users <- [s \in Clients |-> {c \in Callers : Active(c) /\ Owns(c, s)}]

\* Every client is made once, is handed to everybody who waits for it, is closed by the
\* first who returns, and never opens again (provider.go:41-52).
ImplementsLease == Lease!LeaseSpec

=============================================================================
