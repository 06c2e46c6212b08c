SPECIFICATION Spec
CONSTANTS
  NULL = NULL
  Junk = Junk
  main = main
  t1 = t1
  t2 = t2
  t3 = t3
  o1 = o1
  o2 = o2
  c1 = c1
  c2 = c2
  m1 = m1
  m2 = m2
  Threads = {main, t1, t2, t3}
  Ins = {c1, c2}
  Outs = {o1}
  Messages = {m1}
  Owner <- FanoutOwner
  TypeSize <- SameSize
  Program <- FanoutProgram
  SpuriousWakeups = FALSE
INVARIANTS TypeOK OneToken NoMissedMatch DataStable
PROPERTIES ImplementsRendezvous SendsReturn
