\* A handler with two tail clauses, the second of which performs the first one's operation.
CONSTANTS
    Labels = {"a"}
    Handlers <- SiblingHandlers
    ResIds = {1}
    Granted = {"print"}
    SampleOps = {"sample"}
    InstanceOps = {"scoped"}
    MaxStk = 3
    MaxFrames = 3
    MaxDepth = 0
SPECIFICATION Spec
INVARIANT SearchAgrees
