\* Three accounts and a Ledger account, two calls in parallel; the password, once on,
\* stays on.
CONSTANTS
    Accounts = {alice, bob, carol, dora}
    Keys = {k1, k2}
    Passwords = {p1, p2}
    Tabs = {t1}
    Lanes = {first, second}
    LedgerAccounts = {dora}
    Operations = {"save", "switch", "remove", "unlock", "enable", "change"}
    StorageFills = FALSE
    NoKey = NoKey
    NoAccount = NoAccount
    NoPassword = NoPassword
SPECIFICATION CarefulSpec
SYMMETRY Symmetric
INVARIANTS SettledStoreHoldsSavedKeys RemovedKeysAreNotRecoverable
PROPERTIES RemovalTakesItsOwnKey KeepsTheBook
