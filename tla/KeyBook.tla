------------------------------ MODULE KeyBook -------------------------------
(***************************************************************************)
(* What the key vault promises of the keys it keeps, however its methods   *)
(* overlap, are cut or refused: one account's key is written or erased on  *)
(* behalf of that account alone, nothing else changes any key, and a key   *)
(* that the user was told is saved stays until the user saves another one  *)
(* or removes the account.                                                 *)
(***************************************************************************)
CONSTANTS
    Accounts, Keys, NoKey,
    Resurfaces   \* whether the key of a removed account may come back

VARIABLES
    book,   \* account -> the key that can be read back, or NoKey
    told    \* account -> the keys one of which the user may count on

vars == <<book, told>>

Init ==
    /\ book = [a \in Accounts |-> NoKey]
    /\ told = [a \in Accounts |-> {}]

\* Next to a key the user counts on, another one is to be saved.
Offer(a, k) ==
    /\ told[a] # {}
    /\ told' = [told EXCEPT ![a] = @ \union {k}]
    /\ UNCHANGED book

Write(a, k) ==
    /\ book' = [book EXCEPT ![a] = k]
    /\ told' = IF told[a] = {} THEN told ELSE [told EXCEPT ![a] = @ \union {k}]

\* The save is reported.
Tell(a) ==
    /\ book[a] # NoKey
    /\ told' = [told EXCEPT ![a] = {book[a]}]
    /\ UNCHANGED book

\* The user removes the account; its key goes now or later.
Withdraw(a) ==
    /\ told' = [told EXCEPT ![a] = {}]
    /\ UNCHANGED book

Erase(a) ==
    /\ book' = [book EXCEPT ![a] = NoKey]
    /\ told' = [told EXCEPT ![a] = {}]

\* Keys of accounts that the user counts on no more come back.
Resurface ==
    /\ Resurfaces
    /\ book' \in [Accounts -> Keys \union {NoKey}]
    /\ \A a \in Accounts : told[a] # {} \/ book[a] # NoKey => book'[a] = book[a]
    /\ UNCHANGED told

Next ==
    \/ \E a \in Accounts :
          \/ \E k \in Keys : Offer(a, k) \/ Write(a, k)
          \/ Tell(a) \/ Withdraw(a) \/ Erase(a)
    \/ Resurface

Spec == Init /\ [][Next]_vars

\* What the user was told is what can be read back.
KeepsItsWord == \A a \in Accounts : told[a] # {} => book[a] \in told[a]
=============================================================================
