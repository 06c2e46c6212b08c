SPECIFICATION Spec
CONSTANTS
  NULL = NULL
  Absent = Absent
  Elements = {e1, e2, e3}
  Nodes = {n1, n2, n3}
  Threads = {t1, t2}
  Usages <- MCUsages
INVARIANTS TypeOK NodesAccounted NoWildWrite IteratorSettles AloneFinds NamesRead
PROPERTIES ImplementsList SearchEnds
