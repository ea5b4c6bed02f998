SPECIFICATION MCSpec
CONSTANTS
  store = store
  iface = iface
  num = num
  injector = injector
  red = red
  Assisted = Assisted
  Classes = {store}
  Abstract = {iface}
  Primitives = {num}
  Internals = {injector}
  Labels = {red}
  Calls <- SomeCalls
  ParameterLists <- SomeParameters
  Wants <- SomeWants
  MaxCalls = 2
INVARIANTS
  LookupTypeOK
  ReadsWhatIsWritten
  RefusedOnlyIfUnlisted
  ConstAndIdentityKept
