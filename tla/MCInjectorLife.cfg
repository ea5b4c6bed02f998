SPECIFICATION MCFairSpec
CONSTANTS
  app = app
  store = store
  conf = conf
  Context = Context
  Types = {app, store, conf}
  Defaults = {store}
  TypeIds = {app, store, conf, Context}
  NoType = NoType
  NULL = NULL
  Needs <- AppNeeds
  MaxCalls = 5
  Entries <- AllEntries
  Callbacks = {app, conf}
INVARIANTS
  TypeOK
  LookupsReachOwnedEntries
  NothingLeaks
  HandedOutMeansAllBound
  ContextOutlivesUsers
  NeedsOutlive
  OnlyLateInstancesRemain
  RoomForEveryInstance
PROPERTIES
  FirstBindingWins
  ImplementsOwner
  DeletionEnds
