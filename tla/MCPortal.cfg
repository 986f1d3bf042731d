SPECIFICATION PortalSpec
CONSTANTS
  Names = {a, b}
  Passwords = {p, q}
  Roles = {"admin", "viewer"}
  Browsers = {x, y}
  EnvPass = p
  MaxFailures = 2
  Window = 1
  Lockout = 3
  MaxUsers = 2
  MaxTime = 3
  MaxRestarts = 1
  Threads = {x, y}
  Scopes = {"inventory", "switchmap"}
  Interval = 3
  Patience = 1
  Lifetimes = {5}
  MaxTokens = 2
  MaxSeconds = 6
  MaxReboots = 1
  Hosts = {x, y}
  OtherKeys = 1
  TTL = 1
  MaxDrafts = 2
  MaxPlans = 2
  MaxHours = 2
  MaxStarts = 1
  NDevices = 2
  HostNames = {a, b}
  LocalPorts = {near}
  RemotePorts = {far}
  Slots = {0, 1, 2}
  Subjects = {1}
  MaxEntries = 2
SYMMETRY PortalSymmetry
INVARIANTS PortalTypeOK AdminRemains ForcedChangeHolds GuessesBounded RevokedRefused UseRecorded WrittenOnce DecryptsOwn LinksAsPrinted MembersAsPrinted
PROPERTIES KeepsPasswords
CHECK_DEADLOCK FALSE
