SPECIFICATION CSpec
CONSTANTS
    R <- MCR
    zero <- MCZero
    Plus <- MCPlus
    Minus <- MCMinus
    Times <- MCTimes
    Image <- MCImage
    w <- MCGadget
    N = 2
    Secrets <- MCSecrets
    Randoms <- MCRandoms
    Messages <- MCMessages
    GalEls <- MCGalEls
    MaxLevel = 1
INVARIANTS
    EachShareOnce
    DecryptsToTheMessage
    ServerTimeIsSeparated
    ReportFollowsTheRun
PROPERTIES
    ActsAsDealer
CHECK_DEADLOCK FALSE
