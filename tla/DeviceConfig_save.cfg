SPECIFICATION FairSpec
CONSTANTS
  Addrs = {"a", "b"}
  DefAddr = "a"
  MacBases = {"this", "other"}
  DefBase = "this"
  IapFails = {FALSE, TRUE}
  Crashes = 3
INVARIANTS RamAgrees IdentityKept
PROPERTY SetApplied
