SPECIFICATION Spec
CONSTANT Inputs <- MCInputs
INVARIANTS
  WithinBytes
  RoomForItem
  ParsedExactly
  MsgRoundTrip
  FieldsInRange
PROPERTY
  UnpackReturns
