SPECIFICATION Spec
CONSTANTS
    a = a
    b = b
    c = c
    l = l
    m = m
    Seqs = {a, b, c, l, m}
    Prompt <- MCPrompt
    MaxTokens <- MCMaxTokens
    Token = {1, 2}
    Eos = 2
    NumBlocks = 5
    BlockSize = 2
    SmallGraphs = {1}
    GraphStride = 3
    MaxGraphBatch = 6
    Configs <- SplitConfigs
PROPERTY
    TokensFromFullContext
CHECK_DEADLOCK FALSE
