SPECIFICATION Spec
CONSTANTS
  Backends = {"posix", "mmsg", "uring", "uring-sqpoll"}
  Batch = 2
  Entries = 4
  MaxArrivals = 3
INVARIANTS RingCountsRight WaitsAreCovered
PROPERTIES ContractKept CallsReturn
