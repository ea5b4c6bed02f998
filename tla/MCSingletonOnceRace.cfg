SPECIFICATION MCSpec
CONSTANTS
  Threads = {t1, t2}
  Providers = {base, mid}
  Onces = {base, mid}
  Deps <- Chain
  MaxGets = 1
  PortedMutex = TRUE
  PortedOnce = FALSE
  NoThread = NoThread
  NoProvider = NoProvider
  base = base
  mid = mid
  side = side
  top = top
INVARIANTS
  InstantiatedOnce
