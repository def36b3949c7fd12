SPECIFICATION Spec
CONSTANTS
  f1 = f1
  f2 = f2
  f3 = f3
  i1 = i1
  i2 = i2
  i3 = i3
  NoFile = NoFile
  NoId = NoId
  File = {f1, f2, f3}
  Id = {i1, i2, i3}
  Registered = {f1, f2}
  Mishaps = {}
INVARIANTS
  KeysAreIds
  ThreadsAreOwn
  MappedAreListed
  NothingSurvives
