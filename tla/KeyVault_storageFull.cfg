\* One tab, one call at a time, reloads anywhere; localStorage may refuse any write
\* that grows it; no Ledger account.
CONSTANTS
    Accounts = {alice, bob}
    Keys = {k1, k2}
    Passwords = {p1, p2}
    Tabs = {t1}
    Lanes = {main}
    LedgerAccounts = {}
    Operations = {"save", "switch", "remove", "unlock", "enable", "disable", "change"}
    StorageFills = TRUE
    NoKey = NoKey
    NoPassword = NoPassword
    NoAccount = NoAccount
SPECIFICATION Spec
SYMMETRY Symmetric
INVARIANTS TypeOK SavedKeysAreRecoverable SavedAccountsAreListed BlobHasLastPassword
PROPERTY KeepsTheBook
