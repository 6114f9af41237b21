SPECIFICATION FairIdentitySpec
CONSTANTS
  server = server
  command = command
  Absent = Absent
  Empty = Empty
  Procs = {server, command}
  MaxKeys = 3
  MaxCrashes = 2
INVARIANTS IdentityTypeOK IdentityKept
PROPERTIES Recovers
CHECK_DEADLOCK FALSE
