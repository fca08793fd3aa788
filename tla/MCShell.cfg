SPECIFICATION FairSpec
CONSTANTS
  Symbols <- MCSymbols
  Flags <- MCFlags
  Strings = {"d"}
  Permute = TRUE
  FirmwareNames <- MCFirmwareNames
  PathNames <- MCPathNames
  Numbers <- MCNumbers
  NoCommand = NoCommand
  Lines <- MCLines
  HalfLines <- MCHalfLines
  HalfCommands <- MCHalfCommands
  Answers <- MCAnswers
  SizeLimit = 256
  DefaultDir = DefaultDir
  Batches <- MCBatches
  ProgramOptions <- MCProgramOptions
  Styles = {"quotes", "backslashes"}
INVARIANTS TypeOK GetsItsWords CompletesItsArgument CrashesExplained
PROPERTIES BatchRunsAll RunEnds
CHECK_DEADLOCK FALSE
