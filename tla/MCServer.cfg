CONSTANTS
  Conns = {c1, c2}
  Bufs = {b1, b2, b3}
  Lens = {1, 3}
  MTU = 1
  QLen = 2
  MaxUnacked = 2
  DirectReplies = TRUE
  None = None
SPECIFICATION Spec
SYMMETRY Symmetry
PROPERTIES SendsInOrder
INVARIANTS TypeOK ControlOK OwnedOnce WakeupPending RxAccounted
