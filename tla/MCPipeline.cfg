CONSTANTS
  Run = {r1, r2}
  Text <- MCText
  Line <- MCLine
  Content <- MCContent
  BaseName <- MCBaseName
  Folded <- MCFolded
  SampleLines = 30
  NormalizedEvent <- Events
  NoEvent <- Unparsed
  ParseLine <- Parse
  Ioc <- AllIocs
  Iocs <- EventIocs
  Matched <- EventScores
  Broken <- MCBroken
  FormatOrder <- MCFormatOrder
  ModuleOrder <- MCModuleOrder
  Whole <- CommonTotal
  Score <- TextScores
  Forced = {"none", "windows_event", "nginx_access"}
  MaxEvents = 3
  MaxIocs = 4
  Faults = {"import"}
SPECIFICATION Spec
SYMMETRY Symmetry
INVARIANTS TypeOK ParsersComplete StatsDescribeResult BadLinesIsolated OneIocPerKey
  AttackLinesAreThreats IocConfidence FieldsBeforeRawLine
CHECK_DEADLOCK FALSE
