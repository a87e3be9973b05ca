-------------------------- MODULE MCSearchWorkflow --------------------------
(***************************************************************************)
(* One customer, two needs and two confirmations, for the model checker.   *)
(***************************************************************************)
EXTENDS SearchWorkflow

CONSTANTS lead, sale, rent, msg1, msg2

MCConfirmations ==
    {[lead |-> lead, crit |-> sale, key |-> msg1],
     [lead |-> lead, crit |-> rent, key |-> msg2]}

OneConfirmation == {[lead |-> lead, crit |-> sale, key |-> msg1]}

SameNeedTwice ==
    OneConfirmation \cup {[lead |-> lead, crit |-> sale, key |-> msg2]}
=============================================================================
