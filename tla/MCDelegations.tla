---------------------------- MODULE MCDelegations ----------------------------
(***************************************************************************)
(* The three chains of delegated work, and the memories that come of them, *)
(* share no state in this model.  TLC explores them in one run: one of     *)
(* them moves in a behaviour, the others rest in an initial state of their *)
(* own.  Of the memory center either the review moves or the store.        *)
(***************************************************************************)
EXTENDS AsyncResults, FollowUp, Proactive, MemoryCenter

VARIABLE part   \* which of them moves

MCInit ==
    /\ AsyncInit /\ FollowInit /\ ProactiveInit /\ CenterInit
    /\ part \in {"async", "followup", "proactive", "review", "store"}
    /\ part # "async" => preflights = [t \in Tasks |-> "missing"]
    /\ part # "followup" => request = "blocked"

\* A boundary and a preference proposed after one that stage 115P recommends nothing for.
MCProposals == {[kind |-> "boundary", order |-> 1], [kind |-> "none", order |-> 2], [kind |-> "preference", order |-> 3]}

MCNext ==
    \/ part = "async" /\ AsyncNext /\ UNCHANGED <<followVars, proactiveVars, centerVars, part>>
    \/ part = "followup" /\ FollowNext /\ UNCHANGED <<asyncVars, proactiveVars, centerVars, part>>
    \/ part = "proactive" /\ ProactiveNext /\ UNCHANGED <<asyncVars, followVars, centerVars, part>>
    \/ part = "review" /\ ReviewNext /\ UNCHANGED <<asyncVars, followVars, proactiveVars, part>>
    \/ part = "store" /\ StoreNext /\ UNCHANGED <<asyncVars, followVars, proactiveVars, part>>

MCSpec == MCInit /\ [][MCNext]_<<asyncVars, followVars, proactiveVars, centerVars, part>>

\* The type invariants of the four: every record a stage keeps is about records
\* there are, and handles stand where their delegations stand.
TypesOK == AsyncTypeOK /\ FollowTypeOK /\ ProactiveTypeOK /\ CenterTypeOK
=============================================================================
