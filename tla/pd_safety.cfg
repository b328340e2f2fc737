SPECIFICATION Spec
CONSTANTS
    a = a
    b = b
    c = c
    r1 = r1
    r2 = r2
    r3 = r3
    t1 = t1
    t2 = t2
    t3 = t3
    Seqs = {a, b, c}
    Prompt <- MCPrompt
    MaxTokens <- MCMaxTokens
    Requests = {r1, r2}
    RequestId <- MCRequestId
    Transfers = {t1, t2, t3}
    Attempt <- MCAttempt
    NoSeq = NoSeq
    NoRequest = NoRequest
    Token = {1, 2}
    Eos = 2
    NumBlocks = 4
    BlockSize = 2
    MaxModelLen = 8
    Configs <- SafetyConfigs
INVARIANTS
    TypeOK
    TransfersKeepBlocks
    OnlyLiveRequestsOwnBlocks
    CancelledNeverRuns
    HandoffIsComplete
PROPERTIES
    NoLateAllocation
    TokensFromFullContext
CHECK_DEADLOCK FALSE
