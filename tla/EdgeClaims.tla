----------------------------- MODULE EdgeClaims -----------------------------
(***************************************************************************)
(* What the evidence graph of a case promises of a relationship: it is     *)
(* never without a claim that somebody stands by, a claim is only ever     *)
(* withdrawn by the one claim that replaces it, and what has been retired  *)
(* stays retired.  CaseGraph keeps the promise with rows nothing edits.    *)
(***************************************************************************)
CONSTANTS Edges, Assertions

VARIABLES
    standing,   \* the claims that stand, for each relationship
    made,       \* every claim ever made
    retired     \* relationships no longer asserted to hold

claimVars == <<standing, made, retired>>

ClaimInit ==
    /\ standing = [e \in Edges |-> {}]
    /\ made = {}
    /\ retired = {}

\* Adding a claim to a relationship; its first claim brings it into being.
Claim(e, a) ==
    /\ a \notin made
    /\ standing' = [standing EXCEPT ![e] = @ \cup {a}]
    /\ made' = made \cup {a}
    /\ UNCHANGED retired

\* Replacing a claim that stands by one that has not been made before.
Replace(e, old, new) ==
    /\ old \in standing[e]
    /\ new \notin made
    /\ standing' = [standing EXCEPT ![e] = (@ \ {old}) \cup {new}]
    /\ made' = made \cup {new}
    /\ UNCHANGED retired

\* Retiring a relationship that somebody has claimed.
Retire(e) ==
    /\ standing[e] # {}
    /\ e \notin retired
    /\ retired' = retired \cup {e}
    /\ UNCHANGED <<standing, made>>

ClaimNext ==
    \E e \in Edges :
        \/ \E a \in Assertions : Claim(e, a)
        \/ \E old, new \in Assertions : Replace(e, old, new)
        \/ Retire(e)

ClaimSpec == ClaimInit /\ [][ClaimNext]_claimVars
=============================================================================
