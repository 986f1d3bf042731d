SPECIFICATION AgentSpec
CONSTANTS
  Kinds = {"arista", "chaitin", "maipu", "venustech", "asa", "nexus", "array", "ce", "usg", "secpath", "vsr", "dptech", "hillstone", "juniperex", "junipersrx", "paloalto", "qianxin", "checkpoint", "topsec", "fortigate"}
  MaxTasks = 2
  MaxAhead = 1
  Late = FALSE
  Passwords = {"right", "wrong"}
  Templates <- AllTemplates
  Texts <- LongTexts
INVARIANTS AgentTypeOK RunsWhereAsked NoGaps NothingLost
PROPERTIES OwnAnswer SecretOnlyAsked NeverRescans RowsByHistory
CHECK_DEADLOCK FALSE
