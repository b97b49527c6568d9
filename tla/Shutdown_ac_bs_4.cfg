SPECIFICATION Spec
CONSTANTS
    QueueDepth = 2
    HttpTimeout = 20
    RetryCount = 3
    RetryBackoff = 1
    ShutdownGrace = 50
    Slack = 2
INVARIANTS
    ReturnsWithinGracePlusSlack
