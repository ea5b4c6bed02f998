SPECIFICATION MCSpec
CONSTANTS
  Clients = {c1}
  NoClient = NoClient
  kBufferSize = 21
  Cuts = {1}
  Texts <- TomCatTexts
  Files <- TomCatFiles
  Forms <- SomeForms
INVARIANTS
  MessagesAsFilledIn
