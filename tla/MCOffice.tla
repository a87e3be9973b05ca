------------------------------ MODULE MCOffice ------------------------------
(***************************************************************************)
(* What goes on behind the bot, for the model checker: the phone           *)
(* verification, the owner's consent, a search run and the watch.  The     *)
(* watch drives its runs by their row alone, and no code joins the tables  *)
(* of the others, so a behaviour moves one of the four only: focus, chosen *)
(* at the start, says which of Parts.                                      *)
(***************************************************************************)
EXTENDS VerificationCase, OwnerConsent, SearchRuns, AuthenticatedWatch, TLC

CONSTANTS
    Parts,  \* the components that a run is about
    ali, sara, print1, print2, a, b, f, w1, w2, rent, wide, narrow

MCStaff == {ali, sara}
MCManagers == {sara}
MCPrints == {print1, print2}
MCWorkers == {w1, w2}
MCListings == {a, b}
MCFresh == {f}
\* A target of two overlapping pages, and one whose only listing the first has,
\* too.
MCSite == << <<{a, b}, {a}>>, <<{b}>> >>
MCDeals == <<rent>>
MCPolicies == {wide, narrow}
MCSymmetry ==
    Permutations(MCPrints) \cup Permutations(MCWorkers) \cup Permutations(MCPolicies)

\* Once the registers are full no form can be recorded any more: such states
\* are followed with the forms closed only.
FormsClosedWhenFull ==
    Len(consents) + Len(reviews) = MaxEvents => \A s \in Staff : sheet[s] = NoForm

VARIABLE focus

MCInit ==
    /\ focus \in Parts
    /\ VerificationInit /\ OwnerConsentInit /\ SearchInit /\ WatchInit

MCNext ==
    /\ \/ /\ focus = "phone" /\ VerificationNext
          /\ UNCHANGED <<consentVars, searchVars, watchVars>>
       \/ /\ focus = "consent" /\ OwnerConsentNext
          /\ UNCHANGED <<verificationVars, searchVars, watchVars>>
       \/ /\ focus = "run" /\ SearchNext
          /\ UNCHANGED <<verificationVars, consentVars, watchVars>>
       \/ /\ focus = "watch" /\ WatchNext
          /\ UNCHANGED <<verificationVars, consentVars, searchVars>>
    /\ UNCHANGED focus

MCSpec ==
    MCInit /\ [][MCNext]_<<verificationVars, consentVars, searchVars, watchVars, focus>>
=============================================================================
