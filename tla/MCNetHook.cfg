CONSTANTS
  HOOK_RX_BUFSIZE = 3
  Windows <- MCWindows
  MaxFrames = 7
  MaxInstalls = 2
  Reinstall = FALSE
SPECIFICATION FairSpec
PROPERTIES
  RingIsQueue
  NothingForgotten
  RingReopens
CHECK_DEADLOCK FALSE
