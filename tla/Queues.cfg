SPECIFICATION Spec
CONSTANTS
  Users = {p1, p2}
  Nodes = 3
  Requests = 2
  Releases = 2
  Interruptible = {"node", "request"}
  Ordered = {"sleeping"}
  Fifo = {"ready"}
  Keys = {1, 2}
  Data = {d1, d2}
  Shared = {"ready"}
CONSTRAINT Undamaged
VIEW Seen
SYMMETRY Permuted
INVARIANT ItemsAccountedFor
PROPERTY ImplementsQueues
