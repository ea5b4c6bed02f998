SPECIFICATION MCFairSpec
CONSTANTS
  Threads = {t1, t2}
  Providers = {base, mid, side, top}
  Onces = {base, mid, side, top}
  Deps <- Diamond
  MaxGets = 1
  PortedMutex = TRUE
  PortedOnce = TRUE
  NoThread = NoThread
  NoProvider = NoProvider
  base = base
  mid = mid
  side = side
  top = top
INVARIANTS
  TypeOK
  InstantiatedOnce
  SameInstance
  DependenciesOutlive
  AllDestroyed
  NeverCrashes
  SomebodyGoesOn
PROPERTIES
  ImplementsScope
  ImplementsOwner
  GetReturns
  TeardownEnds
