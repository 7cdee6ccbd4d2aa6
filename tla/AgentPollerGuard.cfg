SPECIFICATION Spec
CONSTANT MaxBuild = 2
INVARIANT RejectedForFallbacks
