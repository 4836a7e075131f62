-------------------------- MODULE ConsentLifecycle --------------------------
(***************************************************************************)
(* What the Consent Engine promises to its callers: a ledger of consents,  *)
(* each for one owner and one application, that move through the states of *)
(* cmd/ce/CONSENT_LIFECYCLE.md.  Time, requests, transactions and stale    *)
(* reads are below this level.                                             *)
(*                                                                         *)
(* One action is not in that document: Relabel.  The two unconditional     *)
(* Saves of consent_service.go can change which terminal status a consent  *)
(* shows; they never make a terminal consent active again.                 *)
(***************************************************************************)
CONSTANTS
    ConsentIDs,   \* the consents
    Parties,      \* pairs of an owner and an application
    NoParty       \* the parties of a consent that does not exist yet

VARIABLES
    status,       \* of each consent, "none" before it exists
    party         \* whose consent it is, for which application

vars == <<status, party>>

Active   == {"pending", "approved"}
Terminal == {"rejected", "expired", "revoked"}

TypeOK ==
    /\ status \in [ConsentIDs -> {"none"} \cup Active \cup Terminal]
    /\ party \in [ConsentIDs -> Parties \cup {NoParty}]

\* No consent of p is active, leaving aside those in except.
Free(p, except) ==
    \A i \in ConsentIDs \ except : status[i] \in Active => party[i] # p

\* A consent is asked for: only when none is active.
Open(i, p) ==
    /\ status[i] = "none"
    /\ Free(p, {})
    /\ status' = [status EXCEPT ![i] = "pending"]
    /\ party' = [party EXCEPT ![i] = p]

\* A request with other fields: the consent i is revoked and j takes its
\* place in the same step.
Replace(i, j) ==
    /\ status[i] # "none" /\ status[j] = "none"
    /\ Free(party[i], {i})
    /\ status' = [status EXCEPT ![i] = "revoked", ![j] = "pending"]
    /\ party' = [party EXCEPT ![j] = party[i]]

\* The owner decides, or withdraws a grant.
Move(i, from, to) ==
    /\ status[i] = from
    /\ status' = [status EXCEPT ![i] = to]
    /\ UNCHANGED party

Approve(i)  == Move(i, "pending", "approved")
Reject(i)   == Move(i, "pending", "rejected")
Withdraw(i) == Move(i, "approved", "revoked")

\* Deadlines have passed.
Lapse(S) ==
    /\ S # {}
    /\ \A i \in S : status[i] \in Active
    /\ status' = [i \in ConsentIDs |-> IF i \in S THEN "expired" ELSE status[i]]
    /\ UNCHANGED party

\* A terminal consent shows another terminal status.
Relabel(i) ==
    /\ status[i] \in Terminal
    /\ \E s \in {"expired", "revoked"} : status' = [status EXCEPT ![i] = s]
    /\ UNCHANGED party

Init ==
    /\ status = [i \in ConsentIDs |-> "none"]
    /\ party = [i \in ConsentIDs |-> NoParty]

Next ==
    \/ \E i \in ConsentIDs, p \in Parties : Open(i, p)
    \/ \E i, j \in ConsentIDs : Replace(i, j)
    \/ \E i \in ConsentIDs : Approve(i) \/ Reject(i) \/ Withdraw(i) \/ Relabel(i)
    \/ \E S \in SUBSET ConsentIDs : Lapse(S)

Spec == Init /\ [][Next]_vars
=============================================================================
