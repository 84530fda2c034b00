\* Two accounts that are asked for one by one, two transfers, everything that can go wrong.
\* No deadlock check: with every transfer id used the wallet really stops.
CONSTANTS
    Accounts = {alice, bob}
    Transfers = {x1, x2}
    Source = Source
    NoKey = NoKey
    NoTransfer = NoTransfer
    NoAccount = NoAccount
    Selections <- OneByOne
    Operations = {"startOver", "orphan", "reload", "refuse", "lose", "confuse"}
SPECIFICATION Spec
SYMMETRY Symmetric
INVARIANTS TypeOK AccountsKeepAHolder FenceHasAWayOut
PROPERTY HandsOverSafely
CHECK_DEADLOCK FALSE
