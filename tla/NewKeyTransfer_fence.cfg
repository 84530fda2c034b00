\* A start result that is lost fences the device; no reload, no record cleared by half.
\* No deadlock check: with every transfer id used the wallet really stops.
CONSTANTS
    Accounts = {alice}
    Transfers = {x1, x2}
    Source = Source
    NoKey = NoKey
    NoTransfer = NoTransfer
    NoAccount = NoAccount
    Selections <- OneSelection
    Operations = {"startOver", "refuse", "lose"}
SPECIFICATION FairSpec
INVARIANT AnswersHaveASlot
PROPERTY FenceIsLifted
CHECK_DEADLOCK FALSE
