------------------------ MODULE MCNotificationStore ------------------------
(***************************************************************************)
(* A search result and a daily notice served by two processes.             *)
(***************************************************************************)
EXTENDS NotificationStore

CONSTANTS search, daily, worker, operations

MCTtl == [k \in {search, daily} |-> IF k = search THEN 2 ELSE 1]
=============================================================================
