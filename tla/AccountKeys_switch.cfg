\* Another account is chosen on the page that follows the adding of a Ledger.
SPECIFICATION MCSpec
CONSTANTS
    Accounts = {account1, account2}
    phrase1 = phrase1
    phrase2 = phrase2
    Phrases = {phrase1, phrase2}
    Fresh = {fresh1, fresh2}
    Device = device
    NoKey = noKey
    NoAccount = noAccount
    Faulty = {}
    Faults = {"switch"}
ACTION_CONSTRAINT RemovalOnly
INVARIANT RecoveryRemains
