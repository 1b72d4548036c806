CONSTANT Files <- MCFiles
SPECIFICATION Spec
INVARIANT FreedOnce
