SPECIFICATION Spec
CHECK_DEADLOCK FALSE
CONSTANTS
  Delimiter <- MCDelimiter
  NullString <- MCNullString
  CopyRows <- MCCopyRows
  CopyTexts <- MCCopyTexts
  RecordRows <- MCRecordRows
  RecordTexts <- MCRecordTexts
  BinaryRows <- MCBinaryRows
  BinaryTexts <- MCBinaryTexts
  ArrayDelimiter <- MCArrayDelimiter
  ArrayCoders <- MCArrayCoders
  ArrayValues <- MCArrayValues
  ArrayTexts <- MCArrayTexts
  ElemOid <- MCElemOid
  BinArrayCoders <- MCBinArrayCoders
  BinArrayValues <- MCBinArrayValues
  BinArrayTexts <- MCBinArrayTexts
  Identifiers <- MCIdentifiers
  IdentifierTexts <- MCIdentifierTexts
INVARIANTS
  ValuesComeBack
  BinaryArraysFit
  CodersInBounds
  TextsReadExactly
