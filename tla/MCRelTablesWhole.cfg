CONSTANT Files <- MCFiles
SPECIFICATION Spec
INVARIANT RelTablesWhole
