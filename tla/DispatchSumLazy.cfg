\* Every kernel stays within the lazy-mod bound on its own,
\* 2 * (Q - 1) = 12 < 2^W = 16; a Sum feeding another node is not.
CONSTANTS
  Graphs <- MCSumGraphs
  Q = 7
  W = 4
  Terms = 2
  Values = {1, 3, 6}
SPECIFICATION Spec
INVARIANT LazyEquivalence
CHECK_DEADLOCK FALSE
