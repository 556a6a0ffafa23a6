SPECIFICATION Spec
CONSTANTS
  Mono = {}
  Generic = {"g", "t"}
  Types = {"A", "B"}
  NoType = "none"
  AnyType = "any"
  Nothing = Nothing
  Callee <- CalleeGeneric
  CallType = "A"
  Redefinable = {"g"}
  Script <- NoScript
  StdTemplates = 12
  MaxItems = 2
  MaxLines = 4
INVARIANT UsesReachLatest
CHECK_DEADLOCK FALSE
