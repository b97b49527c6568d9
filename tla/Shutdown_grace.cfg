SPECIFICATION FairSpec
CONSTANTS
    QueueDepth = 3
    HttpTimeout = 4
    RetryCount = 3
    RetryBackoff = 1
    ShutdownGrace = 6
    Slack = 2
INVARIANTS
    ReturnsWithinOnePost
PROPERTIES
    NoPostStartsLate
    Returns
