---------------------------- MODULE UploadTokens ----------------------------
(***************************************************************************)
(* What the upload tokens promise: a token that was issued grants one      *)
(* upload, to whoever redeems it first, and a restart of the server        *)
(* withdraws those not redeemed yet.                                       *)
(***************************************************************************)
EXTENDS Integers

CONSTANT Tokens

VARIABLES
    valid,    \* tokens issued and not redeemed
    granted   \* per token, the uploads it has granted

Init ==
    /\ valid = {}
    /\ granted = [t \in Tokens |-> 0]

Issue(t) ==
    /\ t \notin valid
    /\ granted[t] = 0
    /\ valid' = valid \cup {t}
    /\ UNCHANGED granted

Redeem(t) ==
    /\ t \in valid
    /\ valid' = valid \ {t}
    /\ granted' = [granted EXCEPT ![t] = 1]

Withdraw ==
    /\ valid' = {}
    /\ UNCHANGED granted

Next == (\E t \in Tokens : Issue(t) \/ Redeem(t)) \/ Withdraw

Spec == Init /\ [][Next]_<<valid, granted>>
=============================================================================
