SPECIFICATION FairSpec
CONSTANTS
    Nil = Nil
    Peers = {p1, p2, p3}
    Honest = {p1, p2}
    Retry = 2
    MaxDelay = 6
    Prompt = FALSE
INVARIANTS
    StillAsking
PROPERTY Obtained
