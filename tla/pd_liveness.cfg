SPECIFICATION FairSpec
CONSTANTS
    a = a
    b = b
    c = c
    r1 = r1
    r2 = r2
    r3 = r3
    t1 = t1
    t2 = t2
    t3 = t3
    Seqs = {a, b, c}
    Prompt <- LivePrompt
    MaxTokens <- LiveMaxTokens
    Requests = {r1, r2, r3}
    RequestId <- LiveRequestId
    Transfers = {t1, t2, t3}
    Attempt <- MCAttempt
    NoSeq = NoSeq
    NoRequest = NoRequest
    Token = {1}
    Eos = 2
    NumBlocks = 4
    BlockSize = 2
    MaxModelLen = 8
    Configs <- LivenessConfigs
PROPERTY
    EveryRequestEnds
CHECK_DEADLOCK FALSE
