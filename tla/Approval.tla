------------------------------ MODULE Approval ------------------------------
(***************************************************************************)
(* What the endorsement flow promises, with no files, no processes and no  *)
(* signatures: papers circulate, each about one transaction and listing    *)
(* who approved which of its parts.  A paper is drafted, approved by an    *)
(* organization that consents at that moment, or combined from papers      *)
(* about the same transaction.  Papers may be lost at any time.            *)
(***************************************************************************)
CONSTANTS
    Names,        \* names of transactions
    Parts,        \* contents of the parts of a transaction
    Orgs          \* organizations

VARIABLES
    papers,       \* the papers in circulation: [name, parts, approvals]
    drawn,        \* the names in use
    consents      \* who has ever consented to what: <<name, part, org>>

absVars == <<papers, drawn, consents>>

Papers == [name : Names, parts : SUBSET Parts, approvals : SUBSET (Parts \X Orgs)]

AbsTypeOK ==
    /\ papers \subseteq Papers
    /\ drawn \subseteq Names
    /\ consents \subseteq (Names \X Parts \X Orgs)

AbsInit ==
    /\ papers = {}
    /\ drawn = {}
    /\ consents = {}

\* At most one paper is new; the others may have been lost.
OneNew(p) == p \in papers' /\ papers' \subseteq papers \cup {p}

Consenting(p, org) == {<<p.name, part, org>> : part \in p.parts}

\* A transaction under an unused name, approved by nobody or by its drafter.
Draft(p, orgs) ==
    /\ p.name \notin drawn
    /\ p.approvals = p.parts \X orgs
    /\ drawn' = drawn \cup {p.name}
    /\ consents' = consents \cup UNION {Consenting(p, org) : org \in orgs}
    /\ OneNew(p)

\* A copy of paper q with the approval of one more organization.
Approve(q, org) ==
    /\ consents' = consents \cup Consenting(q, org)
    /\ UNCHANGED drawn
    /\ OneNew([q EXCEPT !.approvals = @ \cup (q.parts \X {org})])

\* The approvals of several papers about one transaction, put together.
Combine(q, others) ==
    /\ \A r \in others : r.name = q.name /\ r.parts = q.parts
    /\ UNCHANGED <<drawn, consents>>
    /\ OneNew([q EXCEPT !.approvals = UNION {r.approvals : r \in others \cup {q}}])

Lose ==
    /\ UNCHANGED <<drawn, consents>>
    /\ papers' \subseteq papers

AbsNext ==
    \/ Lose
    \/ \E p \in papers', orgs \in {{}} \cup {{o} : o \in Orgs} : p \in Papers /\ Draft(p, orgs)
    \/ \E q \in papers, org \in Orgs : Approve(q, org)
    \/ \E q \in papers, others \in SUBSET papers : Combine(q, others)

AbsSpec == AbsInit /\ [][AbsNext]_absVars

\* An organization is listed as approving a part of a transaction only if it
\* consented to that part of that transaction itself: approvals do not move
\* between transactions or between contents.
ApprovedByConsent ==
    \A p \in papers : \A a \in p.approvals :
        a[1] \in p.parts /\ <<p.name, a[1], a[2]>> \in consents

=============================================================================
