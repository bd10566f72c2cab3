SPECIFICATION Spec
CONSTANTS
  NULL = NULL
  t1 = t1
  t2 = t2
  i1 = i1
  i2 = i2
  i3 = i3
  i4 = i4
  source = source
  log = log
  code = code
  out1 = out1
  out2 = out2
  Tasks = {t1, t2}
  Keys = {source, log}
  Payloads = {code, out1, out2}
  MayHold <- Holdings
  Chunks = 2
  Inodes = {i1, i2, i3, i4}
  MaxWriters = 1
SYMMETRY Symmetry
INVARIANTS NeverTorn SecondPutSucceeds
PROPERTIES NeverLost PutsAndGetsAreAtomic
