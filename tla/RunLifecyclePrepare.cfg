CONSTANT Paths <- MCPaths
SPECIFICATION Spec
INVARIANT PreparedOutputsAreNoDirectories
CHECK_DEADLOCK FALSE
