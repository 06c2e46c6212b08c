SPECIFICATION Spec
CONSTANTS
  NULL = NULL
  main = main
  a = a
  b = b
  c = c
  d = d
  x = x
  Main = main
  Components = {main, a, c, x}
  Missing = {x}
  Program <- MissingProgram
INVARIANTS EndsLast
