SPECIFICATION Spec
CONSTANTS
  IntBits = 4
  FieldMarshalers <- MCFieldMarshalers
  Sources <- RequiredSources
  RowsOf <- MCRowsOf
CHECK_DEADLOCK FALSE
INVARIANT RequiredNeverNull
