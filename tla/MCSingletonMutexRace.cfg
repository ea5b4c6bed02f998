SPECIFICATION MCSpec
CONSTANTS
  Threads = {t1, t2}
  Providers = {base, mid}
  Onces = {base, mid}
  Deps <- Apart
  MaxGets = 1
  PortedMutex = FALSE
  PortedOnce = TRUE
  NoThread = NoThread
  NoProvider = NoProvider
  base = base
  mid = mid
  side = side
  top = top
INVARIANTS
  NeverCrashes
