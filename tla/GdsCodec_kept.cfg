SPECIFICATION Spec
CONSTANTS
  Depth = 2
  Names = {"k", "f"}
  Indexes = {1, 4}
  GdsIsOurs = FALSE
  Memory = {0, 6}
  User = "user"
  Uuid = "uuid"
  Messages <- AllMessages
INVARIANTS TypeOK RoundTrip SentIsReadable ContextReturned
