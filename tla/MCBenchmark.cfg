SPECIFICATION FairSpec
CONSTANTS
    Calls = {c1, c2}
    N = 2
    MaxTokens = 2
INVARIANTS NeverSendsNull RejectedForgotten StatisticsSound
PROPERTY EveryCallAnswered
