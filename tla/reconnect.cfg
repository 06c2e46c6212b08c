SPECIFICATION Spec
CONSTANTS
  NULL = NULL
  Junk = Junk
  main = main
  t1 = t1
  t2 = t2
  t3 = t3
  o1 = o1
  o2 = o2
  c1 = c1
  c2 = c2
  m1 = m1
  m2 = m2
  Threads = {main, t1, t2}
  Ins = {c1}
  Outs = {o1}
  Messages = {m1, m2}
  Owner <- PairOwner
  TypeSize <- SameSize
  Program <- ReconnectProgram
  SpuriousWakeups = FALSE
INVARIANTS OneToken DataStable Symmetric
PROPERTIES UnbindDisconnects
CHECK_DEADLOCK FALSE
