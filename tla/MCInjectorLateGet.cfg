SPECIFICATION MCSpec
CONSTANTS
  app = app
  store = store
  conf = conf
  Context = Context
  Types = {app, store, conf}
  Defaults = {store}
  TypeIds = {app, store, conf, Context}
  NoType = NoType
  NULL = NULL
  Needs <- AppNeeds
  MaxCalls = 3
  Entries <- AllEntries
  Callbacks = {app, conf}
INVARIANTS
  ProvidersDieEmpty
