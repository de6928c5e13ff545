CONSTANTS
    MaxSize = 2
    InlineMax = 1
    MaxWrites = 0
    PullRequests <- MCToNothing
SPECIFICATION Spec
INVARIANT FaithfulPullVerifies
