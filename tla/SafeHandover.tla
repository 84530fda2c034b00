---------------------------- MODULE SafeHandover ----------------------------
(***************************************************************************)
(* What a transfer to another wallet promises of each account, however its *)
(* steps are cut, lost or repeated: the right to sign for it is shared     *)
(* before it is given up, so that somebody always has it.                  *)
(***************************************************************************)
CONSTANT Accounts
VARIABLE holders   \* account -> who can sign for it

Init == holders = [a \in Accounts |-> {"wallet"}]

\* Meteor has secured the account under a key that is on it.
Join(a) == holders' = [holders EXCEPT ![a] = @ \union {"meteor"}]

\* This wallet takes Meteor's key off, with its own.
Leave(a) ==
    /\ "wallet" \in holders[a]
    /\ holders' = [holders EXCEPT ![a] = @ \ {"meteor"}]

\* Meteor takes this wallet's key off, with its own.
Release(a) ==
    /\ "meteor" \in holders[a]
    /\ holders' = [holders EXCEPT ![a] = @ \ {"wallet"}]

Next == \E a \in Accounts : Join(a) \/ Leave(a) \/ Release(a)

Spec == Init /\ [][Next]_holders
=============================================================================
