\* Two threads, two objects in the heap, one in the caller's memory.
CONSTANTS
  compiled = compiled
  foreign = foreign
  untyped = untyped
  empty = empty
  area = area
  Images <- MCImages
  Valid <- MCValid
  Compiled <- MCCompiled
  Empty = empty
  Size <- MCSize
  Heap = {h1, h2}
  Areas <- MCAreas
  Capacity <- MCCapacity
  Blocks = {b1, b2, b3}
  Threads = {t1, t2}
  Absent = Absent
  NoBlock = NoBlock
SYMMETRY Symmetry
SPECIFICATION Spec
INVARIANTS
  TypeOK
  VerdictFresh
  RunsOnlyValid
  MemoryOwnedOnce
  AnswersAgree
