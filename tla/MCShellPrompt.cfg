SPECIFICATION Spec
CONSTANTS
  Symbols <- MCSymbols
  Flags <- MCFlags
  Strings = {"d"}
  Permute = TRUE
  FirmwareNames <- MCFirmwareNames
  PathNames <- MCPathNames
  Numbers <- MCNumbers
  NoCommand = NoCommand
  Lines <- MCLines
  HalfLines = {}
  HalfCommands <- MCHalfCommands
  Answers <- MCAnswers
  SizeLimit = 256
  DefaultDir = DefaultDir
  Batches <- MCNothing
  ProgramOptions <- MCNothing
  Styles = {"quotes"}
INVARIANT PromptOffersArgument
CHECK_DEADLOCK FALSE
