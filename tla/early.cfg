SPECIFICATION Spec
CONSTANTS
  NULL = NULL
  main = main
  a = a
  b = b
  c = c
  d = d
  x = x
  Main = main
  Components = {main, a}
  Missing = {}
  Program <- EarlyProgram
INVARIANTS NoUseAfterFree
