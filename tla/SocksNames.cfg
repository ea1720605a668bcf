SPECIFICATION MCSpec
INVARIANT DotNetGoesToDotNet
CHECK_DEADLOCK FALSE
