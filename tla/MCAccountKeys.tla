--------------------------- MODULE MCAccountKeys ----------------------------
(* AccountKeys on small instances: accounts brought in with one phrase,     *)
(* some with a Ledger that this browser need not know yet.                 *)
EXTENDS AccountKeys, TLC

CONSTANTS phrase1, phrase2

MCInit ==
    /\ full \in [Accounts -> {{phrase1}, {phrase1, Device}}]
    /\ limited = [a \in Accounts |-> {}]
    /\ methods = full
    /\ store = [a \in Accounts |-> phrase1]
    /\ Init

MCSpec == MCInit /\ [][Next]_vars

\* A bound: one account at a time has more than one key or listed method.
OneAtATime == \E a \in Accounts : Cardinality(OnChain(a) \union methods[a]) <= 1

\* A bound: nothing but adding a Ledger and removing the other keys.
RemovalOnly == op'.kind \in {"none", "addLedger", "removeOthers"}

Symmetric == Permutations(Accounts) \union Permutations(Fresh)

=============================================================================
