---------------------------- MODULE SearchPromise ----------------------------
(***************************************************************************)
(* What the bot promises the customers who confirm a search: a request     *)
(* keeps its customer and its need; it is concluded once, by a search of   *)
(* the live market that is complete; and it is answered in one message, to *)
(* the customer who asked, which says how the request then stands.         *)
(*                                                                         *)
(* Queue, leases, deaths, retries, journal and clock are not seen from     *)
(* here.                                                                   *)
(***************************************************************************)
EXTENDS Naturals

CONSTANTS
    Requests,    \* numbers of the requests
    Needs,       \* who may ask, and for what
    Nothing      \* not asked, not answered

VARIABLES
    asked,       \* the need behind each request
    searched,    \* requests whose current run has searched the market
    verdict,     \* "open", then what the search found
    answer,      \* the message that answered the request
    messages     \* how many messages did

Init ==
    /\ asked = [i \in Requests |-> Nothing]
    /\ searched = {}
    /\ verdict = [i \in Requests |-> "open"]
    /\ answer = [i \in Requests |-> Nothing]
    /\ messages = [i \in Requests |-> 0]

Ask(i, need) ==
    /\ asked[i] = Nothing
    /\ asked' = [asked EXCEPT ![i] = need]
    /\ UNCHANGED <<searched, verdict, answer, messages>>

\* The market is searched for an open request, or its run begins anew.
Search(i) ==
    /\ asked[i] # Nothing /\ verdict[i] = "open"
    /\ searched' \in {searched \cup {i}, searched \ {i}}
    /\ UNCHANGED <<asked, verdict, answer, messages>>

Conclude(i, found) ==
    /\ i \in searched /\ verdict[i] = "open"
    /\ verdict' = [verdict EXCEPT ![i] = found]
    /\ UNCHANGED <<asked, searched, answer, messages>>

Answer(i) ==
    /\ asked[i] # Nothing
    /\ answer[i] = Nothing /\ messages[i] = 0
    /\ answer' = [answer EXCEPT ![i] = [to |-> asked[i], says |-> verdict[i]]]
    /\ messages' = [messages EXCEPT ![i] = 1]
    /\ UNCHANGED <<asked, searched, verdict>>

Next ==
    \E i \in Requests :
        \/ \E need \in Needs : Ask(i, need)
        \/ Search(i)
        \/ \E found \in {"ready", "empty"} : Conclude(i, found)
        \/ Answer(i)

Spec == Init /\ [][Next]_<<asked, searched, verdict, answer, messages>>
=============================================================================
