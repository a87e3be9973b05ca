----------------------------- MODULE Customers -----------------------------
(***************************************************************************)
(* The parameters the queue, the CRM database and the notification journal *)
(* share.                                                                  *)
(***************************************************************************)
EXTENDS Naturals, Sequences, FiniteSets

CONSTANTS
    Leads,      \* customer leads; a lead stands for its Telegram recipient too
    Criteria    \* distinguishable need records (criteria_from_payload)

ASSUME CustomersAssumption == IsFiniteSet(Leads) /\ IsFiniteSet(Criteria)
=============================================================================
