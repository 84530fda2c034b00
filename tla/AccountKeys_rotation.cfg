\* The safety of CarefulSpec: two accounts of one phrase, one of them at a time being
\* changed; every operation may fail at any await and lose an answer.
SPECIFICATION MCSpec
CONSTANTS
    Accounts = {account1, account2}
    phrase1 = phrase1
    phrase2 = phrase2
    Phrases = {phrase1, phrase2}
    Fresh = {fresh1, fresh2}
    Device = device
    NoKey = noKey
    NoAccount = noAccount
    Faulty = {"addLedger", "reconnect", "removeOthers", "disableLedger", "deletePhrase",
              "deauthorize", "addPhrase", "importLedger"}
    Faults = {"reload", "switch", "back"}
CONSTRAINT OneAtATime
ACTION_CONSTRAINT Careful
SYMMETRY Symmetric
INVARIANT TypeOK RecoveryRemains
PROPERTY SignerKept RemovalIsComplete
