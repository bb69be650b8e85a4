SPECIFICATION Spec
CONSTANTS
  Ports = {p, q}
  CallbackPort = c
  Nameless = x
  Nothing = none
  MostAtOnce = 1
  Blocks = {{}, {p}, {p, q, c}}
  MaxPosts = 3
  MaxWaits = 2
  MaxSlices = 1
INVARIANTS TypeOK EveryCallbackIsAnswered
PROPERTIES WakesMeanWhatTheySay DeliveriesSpec EveryWaitEnds EveryPostIsHandled
CHECK_DEADLOCK FALSE
