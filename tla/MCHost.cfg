SPECIFICATION HostSpec
CONSTANTS
  Parts = {"identity", "agent", "shared agent", "cgroup", "serial cgroup", "launcher", "closing launcher", "asked launcher"}
  a1 = a1
  a2 = a2
  w1 = w1
  w2 = w2
  Users = {"u1", "u2"}
  Closers = {"c1", "c2"}
  MaxBorns = 2
  MaxUses = 3
INVARIANTS IdentityPinned ProcessesOwned LeavesGuarded ShardsExclusive
CHECK_DEADLOCK FALSE
SYMMETRY Symmetry
