SPECIFICATION Spec
CONSTANTS
  NULL = NULL
  main = main
  a = a
  b = b
  c = c
  d = d
  x = x
  Main = main
  Components = {main, a, b, c, d, x}
  Missing = {x}
  Program <- LifecycleProgram
INVARIANTS TypeOK EndsLast InTime NoUseAfterFree AllFreed
PROPERTIES MachineEnds
