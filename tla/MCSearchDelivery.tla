-------------------------- MODULE MCSearchDelivery --------------------------
(***************************************************************************)
(* One customer and three processes, for the model checker.                *)
(***************************************************************************)
EXTENDS SearchDelivery

CONSTANTS lead, sale, rent, msg1, msg2

OneConfirmation == {[lead |-> lead, crit |-> sale, key |-> msg1]}

TwoConfirmations ==
    OneConfirmation \cup {[lead |-> lead, crit |-> rent, key |-> msg2]}

MCKeys == SearchEvents \cup DailyEvents

\* An hour for a search result, five minutes for a daily notice.
MCTtl == [k \in MCKeys |-> IF k \in SearchEvents THEN 2 ELSE 1]

ShortTtl == [k \in MCKeys |-> 0]
=============================================================================
