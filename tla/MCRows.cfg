SPECIFICATION Spec
CONSTANTS
  IntBits = 4
  FieldMarshalers <- MCFieldMarshalers
  Sources <- AllSources
  RowsOf <- MCRowsOf
INVARIANTS
  IntegersExact
  RowsComplete
  RequiredRefused
  TransportsAgree
  SchemaDescribesRow
  LayoutSettled
CHECK_DEADLOCK FALSE
