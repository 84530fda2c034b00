\* Starts that fail and are tried again, without a reload or a start-over.
\* No deadlock check: with every transfer id used the wallet really stops.
CONSTANTS
    Accounts = {alice}
    Transfers = {x1, x2, x3}
    Source = Source
    NoKey = NoKey
    NoTransfer = NoTransfer
    NoAccount = NoAccount
    Selections <- OneSelection
    Operations = {"lose"}
SPECIFICATION Spec
PROPERTY InterruptedStartIsReplayed
CHECK_DEADLOCK FALSE
