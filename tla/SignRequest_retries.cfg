\* Four transactions: two calls, a transfer, one call, three calls; up to three approvals.
SPECIFICATION FairSpec
CONSTANTS
    Size = 4
    Nonce <- DistinctNonces
    Calls <- Batch
    Gas <- LittleGas
    Diff = 2
    MaxGas = 4
    MaxStarts = 3
INVARIANTS TypeOK RunInOrderOnce RetryHelpsTheOneThatFailed SuccessIsComplete
PROPERTIES EveryRetryGivesMore RetriesEnd
