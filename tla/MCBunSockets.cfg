\* Three sockets of one address, two of which may be connected.
SPECIFICATION BunSpec
CONSTANTS
  Sockets = {s1, s2, s3}
  Clients = {"a"}
  PerAddress = 1
  MaxFrames = 1
INVARIANT CapHolds
CHECK_DEADLOCK FALSE
