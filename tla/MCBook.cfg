SPECIFICATION BookSpec
CONSTANTS
    None = None
    LastDay = 4
    Sessions <- MCSessions
    Quote <- MCQuote
    Ratio <- MCRatio
    Purse = 3
    Sleeve <- MCSleeve
    ByHand <- MCByHand
    ExitsOn <- MCExitsOn
    Judgments <- MCJudgments
    Horizon = 1
    MaxRuns <- MCMaxRuns
    MaxFaults = 1
CHECK_DEADLOCK FALSE
INVARIANTS
    BookInv
    MarksAreTheBook
    ReturnsChain
