SPECIFICATION Spec
CONSTANTS
  main = main
  outbound = outbound
  route = route
  node = node
  other = other
  c1 = c1
  c2 = c2
  c3 = c3
  Files = {main, outbound, route}
  Main = main
  FileLists <- Xray
  Contents = {c1, c2, c3}
  NewestFirst = TRUE
  MaxTx = 1
  MaxTroubles = 2
SYMMETRY ContentSymmetry
CHECK_DEADLOCK FALSE
INVARIANTS
  HalfConfigStaysStopped
