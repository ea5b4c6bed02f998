SPECIFICATION MCSpec
CONSTANTS
  dispatcher = dispatcher
  desk = desk
  handlers = handlers
  handler = handler
  request = request
  sender = sender
  sms = sms
  log = log
  unscoped = unscoped
  Keys = {dispatcher, desk, handlers, handler, request, sender, sms, log, unscoped}
  Bindings <- Examples
  MaxRequests = 2
  MaxCalls = 2
INVARIANTS
  TypeOK
  ContextIsInnermostCall
  SingletonsHoldNoArguments
  FreshHasOneOwner
  OutcomeIsAsBound
  RecursionIsBounded
PROPERTIES
  SingletonsAreCreatedOnce
