SPECIFICATION SignInSpec
INVARIANT ResumesWhatIsPending
