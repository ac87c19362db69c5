SPECIFICATION HandshakeSpec
CONSTANTS
  Psks = {"bench", "other"}
  Copies = 2
  MaxKeys = 5
INVARIANTS Agreement KeysUnshared ResponderHeard
CHECK_DEADLOCK FALSE
