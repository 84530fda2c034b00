\* Two accounts are imported by one Promise.all while the password is on.
CONSTANTS
    Accounts = {alice, bob}
    Keys = {k1}
    Passwords = {p1}
    Tabs = {t1}
    Lanes = {first, second}
    LedgerAccounts = {}
    Operations = {"save", "enable"}
    StorageFills = FALSE
    NoKey = NoKey
    NoPassword = NoPassword
    NoAccount = NoAccount
SPECIFICATION Spec
INVARIANT SettledStoreHoldsSavedKeys
