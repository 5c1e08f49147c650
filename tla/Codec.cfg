SPECIFICATION Spec
CONSTANTS
  Messages <- MCMessages
  Chained <- MCChained
  Headers <- MCHeaders
  MaxParts = 3
INVARIANTS
  WithinBuffer
  FieldsIntact
  FrameCutExact
  FieldsReturned
  ListsReturned
