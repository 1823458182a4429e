SPECIFICATION Spec
CONSTANTS
  a = a
  b = b
  p = p
  q = q
  s1 = s1
  s2 = s2
  Did = {a, b}
  Post = {p, q}
  Author <- MCAuthor
  Shard = {s1, s2}
  ShardOf <- MCShardOf
  Files <- MCFiles
  MaxCalls = 2
  MaxCompactions = 1
  MaxSaves = 0
  MaxCrashes = 0
INVARIANT ImpressionsIntact
CHECK_DEADLOCK FALSE
