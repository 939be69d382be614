\* LAZY_MOD on and off, graphs whose Sums feed a multiplication, and a
\* word with headroom for Terms canonical limbs: 2 * (Q - 1) < 2^W.
CONSTANTS
  Graphs <- MCSafeGraphs
  Q = 3
  W = 3
  Terms = 2
  Values = {1, 2}
SPECIFICATION Spec
INVARIANTS TypeOK LazyEquivalence ScaleNominal TensorsFreed ResultDelivered
\* A call stops after its last node or after a throw.
CHECK_DEADLOCK FALSE
