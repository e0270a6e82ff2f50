SPECIFICATION Spec
CONSTANTS
  Builtins = {"sizeof"}
  Classes = {"class", "other"}
  KnownClasses = {"class"}
  MaxErrors = 15
  Vars <- VarsDef
  AttrOf <- AttrOfDef
  Memory <- MemoryDef
  LocalAttr = "o"
  News = {0, 3}
  Depth = 40
  Programs <- ProgramsDef
INVARIANTS
  RunsAsWritten
  RefusedIfWrong
  RefsLive
  WordsArrive
PROPERTY
  EventuallyDone
CHECK_DEADLOCK FALSE
