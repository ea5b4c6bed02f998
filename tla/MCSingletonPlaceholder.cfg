SPECIFICATION MCSpec
CONSTANTS
  Threads = {t1, t2}
  Providers = {base, mid}
  Onces = {base, mid}
  Deps <- Chain
  MaxGets = 2
  PortedMutex = FALSE
  PortedOnce = FALSE
  NoThread = NoThread
  NoProvider = NoProvider
  base = base
  mid = mid
  side = side
  top = top
INVARIANTS
  NeverNull
  SequentialKeepsPromises
PROPERTIES
  SequentialScope
