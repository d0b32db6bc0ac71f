CONSTANTS
  Proc <- MCProc
  Options <- MCOptions
  Yaml <- MCYaml
  Relative = {"pid"}
  MaxClients = 2
SPECIFICATION Spec
INVARIANTS ConfigFileChosen
CHECK_DEADLOCK FALSE
