SPECIFICATION Spec
CONSTANTS
  Mono = {"f", "h"}
  Generic = {"g"}
  Types = {"A", "B"}
  NoType = "none"
  AnyType = "any"
  Nothing = Nothing
  Callee <- CalleeChain
  CallType = "A"
  Redefinable = {"h"}
  Script <- BindingScript
  StdTemplates = 12
  MaxItems = 2
  MaxLines = 4
INVARIANTS CallsReach SessionsAgree
PROPERTY ReloadRebuilds
CHECK_DEADLOCK FALSE
