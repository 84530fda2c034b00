----------------------------- MODULE MCKeyVault -----------------------------
(* Instances of KeyVault for TLC. *)
EXTENDS KeyVault, TLC

\* Accounts with a local key are alike, and so are Ledger accounts, keys, passwords and lanes.
Symmetric ==
    UNION {Permutations(S) : S \in {Accounts \ LedgerAccounts, LedgerAccounts,
                                    Keys, Passwords, Lanes}}
=============================================================================
