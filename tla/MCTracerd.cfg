SPECIFICATION MCSpec
CONSTANTS
  Client = {"a", "b"}
  Control = {"a"}
  Data = {"b"}
  Stamp = {9, 10}
  StringOf <- Strings
  NEvents = 2
  NTasks = 2
  NSignals = 1
INVARIANTS
  LogComplete
  ForwardedInOrder
  TasksFirst
PROPERTIES
  StopEnds
  ReadIsLogged
\* the daemon exits, or stays behind with a dead main thread
CHECK_DEADLOCK FALSE
