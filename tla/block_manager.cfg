SPECIFICATION BlockSpec
CONSTANTS
    a = a
    b = b
    c = c
    Seqs <- MCSeqs
    Token = {1, 2}
    NumBlocks = 4
    BlockSize = 2
    Prompt <- MCPrompt
    MaxTokens <- MCMaxTokens
INVARIANTS
    BlocksAccounted
    HashesAgree
CHECK_DEADLOCK FALSE
