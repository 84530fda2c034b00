\* An account without a local key is removed while the password is on.
CONSTANTS
    Accounts = {alice, bob}
    Keys = {k1}
    Passwords = {p1}
    Tabs = {t1}
    Lanes = {main}
    LedgerAccounts = {bob}
    Operations = {"save", "remove", "unlock", "enable"}
    StorageFills = FALSE
    NoKey = NoKey
    NoPassword = NoPassword
    NoAccount = NoAccount
SPECIFICATION Spec
PROPERTY RemovalTakesItsOwnKey
