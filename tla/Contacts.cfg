SPECIFICATION FairSpec
CONSTANTS
  t1 = t1
  t2 = t2
  Thread = {t1, t2}
  Nobody = Nobody
  MaxVersion = 2
INVARIANTS
  QuietIsFresh
PROPERTIES
  CallsReturn
