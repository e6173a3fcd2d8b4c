---------------------------- MODULE PlanContract ----------------------------
(***************************************************************************)
(* What a planning run promises its user: it asks about one proposal at a  *)
(* time, books only the proposal the user accepted and exactly as accepted,*)
(* asks again before it books a changed proposal, and stops by itself      *)
(* after MaxAttempts rounds of booking.  PlanGraph implements it.          *)
(***************************************************************************)
EXTENDS Integers

CONSTANTS
    Proposal,     \* what can be proposed
    NoProposal,   \* no proposal on the table
    MaxAttempts   \* how many rounds of booking one run may make

VARIABLES
    phase,        \* "drafting", "asking", "booking", "repairing", "done" or "stopped"
    proposal,     \* what the user is asked, or accepted
    attempts      \* rounds of booking begun

vars == <<phase, proposal, attempts>>

Init ==
    /\ phase = "drafting"
    /\ proposal = NoProposal
    /\ attempts = 0

\* The proposal is put to the user.
Ask ==
    /\ phase = "drafting"
    /\ phase' = "asking"
    /\ proposal' \in Proposal
    /\ UNCHANGED attempts

\* The user wants another one.
Object ==
    /\ phase = "asking"
    /\ phase' = "drafting"
    /\ proposal' = NoProposal
    /\ UNCHANGED attempts

\* The user accepts what is proposed, and the run begins to book it.
Accept ==
    /\ phase = "asking"
    /\ attempts < MaxAttempts
    /\ phase' = "booking"
    /\ attempts' = attempts + 1
    /\ UNCHANGED proposal

Fulfil ==
    /\ phase = "booking"
    /\ phase' = "done"
    /\ UNCHANGED <<proposal, attempts>>

\* Some of it could not be booked.
Repair ==
    /\ phase = "booking"
    /\ phase' = "repairing"
    /\ UNCHANGED <<proposal, attempts>>

\* The repaired plan is a new proposal the user has not seen.
Redraft ==
    /\ phase = "repairing"
    /\ attempts < MaxAttempts
    /\ phase' = "drafting"
    /\ proposal' = NoProposal
    /\ UNCHANGED attempts

GiveUp ==
    /\ phase \in {"booking", "repairing"}
    /\ phase' = "stopped"
    /\ UNCHANGED <<proposal, attempts>>

Next == Ask \/ Object \/ Accept \/ Fulfil \/ Repair \/ Redraft \/ GiveUp

Spec == Init /\ [][Next]_vars
=============================================================================
