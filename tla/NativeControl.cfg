\* Room for a captured slice of three frames and its clone, or two nested
\* captures; two inference runs, which may start anywhere in the program, the
\* second inside the first as well.
CONSTANTS
    Labels = {"a"}
    Handlers <- MixedHandlers
    ResIds = {1}
    Granted = {"print"}
    SampleOps = {"sample"}
    InstanceOps = {"scoped"}
    MaxStk = 3
    MaxFrames = 6
    MaxDepth = 2
SPECIFICATION FairSpec
INVARIANT StacksAgree
INVARIANT SearchAgrees
PROPERTY Arrives
PROPERTY Refinement
