CONSTANTS
  boot = boot
  app = app
  speed = speed
  torque = torque
  device = device
  axis = axis
  name = name
  load = load
  mode = mode
  unit = unit
  MaxCalls = 2
  MaxFaults = 2
  Sessions <- MCSessions
  Files = {boot, app}
  Delivered <- MCDelivered
  Sizes = {0, 2, 3}
  Buffers = {3}
  maxdata = 2
  MaxBusy = 1
  BLOCK = 2
  Stamp = 1
  fragmentsize = 3
  FrameSizes = {3}
  SendSizes = {4}
  FrameBuffers = {4}
  FrameNos = 3
  Ports = {1}
  Params = {"ip"}
  MaxFrames = 2
  Elements = {speed, torque}
  Drive <- MCDrive
  Delivery <- MCDelivery
  ValueSizes = {1, 3}
  ValueBuffers = {2}
  maxvalue = 2
  Dictionary <- MCDictionary
  MaxSub <- MCMaxSub
  PerFragment = 2
  EC_MAXODLIST = 3
  MaxFragments = 2
  PDOnumbers = {1, 2}
  PDOsizes = {3}
  PDObuffers = {1, 3}
  maxpdo = 2
SPECIFICATION Spec
INVARIANTS
  FOETrue
  EOETrue
  SOETrue
  DictionaryTrue
CHECK_DEADLOCK FALSE
