SPECIFICATION ShellSpec
CONSTANTS
  Kinds = {"juniperex"}
  MaxTasks = 2
  MaxAhead = 0
  Late = TRUE
  Passwords = {"right"}
INVARIANT RunsWhereAsked
CHECK_DEADLOCK FALSE
