CONSTANTS
  Proc <- MCProc
  Options <- MCStarts
  Yaml <- MCYaml
  Relative = {"pid"}
  MaxClients = 2
SPECIFICATION Spec
INVARIANTS TypeOK OneServer CleanEnd
PROPERTIES StopEnds
CHECK_DEADLOCK FALSE
