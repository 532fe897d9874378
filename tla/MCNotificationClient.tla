------------------------ MODULE MCNotificationClient ------------------------
(* Instances of NotificationClient for TLC: three calls, two of them about   *)
(* the same transaction, so that calls join, overtake and roll back.         *)
EXTENDS NotificationClient, TLC

CONSTANTS c1, c2, c3, t1, t2, committed, aborted

MCTxOf == c1 :> t1 @@ c2 :> t1 @@ c3 :> t2

SameTxOf == c1 :> t1 @@ c2 :> t1 @@ c3 :> t1

\* c1 and c2 are interchangeable; used by safety runs only.
Symmetry == Permutations({c1, c2})

=============================================================================
