SPECIFICATION Spec
CONSTANTS
  Printable <- MCPrintable
  Digits <- MCDigits
  MaxNull <- MCMaxNull
  Texts <- MCTexts
  Calls <- MCCalls
  Inputs <- MCInputs
  MaxChanges = 2
INVARIANTS
  ExitIsTrue
  OutputIsTrue
  StorageIsRead
