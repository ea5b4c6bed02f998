SPECIFICATION MCSpec
CONSTANTS
  Clients = {c1, c2}
  NoClient = NoClient
  kBufferSize = 21
  Cuts = {1, 7, 9, 14}
  Texts <- SomeTexts
  Files <- SomeFiles
  Forms <- SomeForms
INVARIANTS
  NothingLeftOver
  MessagesAsSubmitted
PROPERTIES
  ConnectionsAreServed
