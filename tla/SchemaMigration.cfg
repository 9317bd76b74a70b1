SPECIFICATION FairSpec
CONSTANTS
  Openers = {o1, o2}
  Users = {u1}
  Lacks <- MCLacks
  MaxFailures = 2
INVARIANTS VersionHonest ReadyIsComplete 
PROPERTIES StartsEnd
