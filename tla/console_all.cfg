\* One delivery that raises up to two alarms, a queue and a channel of one,
\* one browser, a shutdown at any time.  Fairness.
CONSTANTS
  Topic = {"grid.state"}
  Berth = {b1}
  QueueSize = 1
  MaxEvents = 1
  MaxAcks = 1
  WsClient = {w1}
  BufferSize = 1
SPECIFICATION ConsoleFairSpec
CHECK_DEADLOCK FALSE
INVARIANTS
  ConsoleTypeOK
  DispatchAccounted
  HandlersNeverWait
  OpenWhileListed
PROPERTIES
  FramesForward
  ShutdownCompletes
  BroadcastGoesOn
  AlarmReachesConsole
