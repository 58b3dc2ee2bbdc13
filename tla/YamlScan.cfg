SPECIFICATION ScanSpec
CONSTANTS
    Words = {"QUJD"}
    MaxNodes = 2
    MaxContent = 3
    MaxIndent = 1
INVARIANT OnlyBinaryScalarsExtracted
CHECK_DEADLOCK FALSE
