----------------------------- MODULE ClientLease -----------------------------
(***************************************************************************)
(* What the operations of the application promise about the clients of the *)
(* services: a client is made once for all who ask, everybody who got it   *)
(* gives it back, and it is gone as soon as the first does.                *)
(***************************************************************************)
CONSTANTS
    Users,        \* who uses clients
    Clients       \* one per service

VARIABLES
    state,        \* of each client: absent, open, closed
    users         \* who has to give it back

leaseVars == <<state, users>>

LeaseTypeOK ==
    /\ state \in [Clients -> {"absent", "open", "closed"}]
    /\ users \in [Clients -> SUBSET Users]

LeaseInit ==
    /\ state = [s \in Clients |-> "absent"]
    /\ users = [s \in Clients |-> {}]

\* The client is made, for everybody who waits for it.
Open(s, waiting) ==
    /\ state[s] = "absent"
    /\ waiting # {}
    /\ state' = [state EXCEPT ![s] = "open"]
    /\ users' = [users EXCEPT ![s] = waiting]

\* Somebody asks for a client that was made before, and may be closed by now.
Join(u, s) ==
    /\ state[s] # "absent"
    /\ u \notin users[s]
    /\ users' = [users EXCEPT ![s] = @ \cup {u}]
    /\ UNCHANGED state

\* Giving the client back closes it.
GiveBack(u, s) ==
    /\ u \in users[s]
    /\ state' = [state EXCEPT ![s] = "closed"]
    /\ users' = [users EXCEPT ![s] = @ \ {u}]

LeaseNext ==
    \E s \in Clients :
        \/ \E waiting \in SUBSET Users : Open(s, waiting)
        \/ \E u \in Users : Join(u, s) \/ GiveBack(u, s)

LeaseSpec == LeaseInit /\ [][LeaseNext]_leaseVars

\* Whatever is open is in somebody's hands, who will close it.
OpenIsLeased == \A s \in Clients : state[s] = "open" => users[s] # {}

=============================================================================
