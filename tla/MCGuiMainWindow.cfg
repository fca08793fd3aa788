SPECIFICATION FairWindowSpec
CONSTANTS
  app = app
  fw = fw
  Applications <- MCApplications
  PoolDevices <- MCApplications
  FirmwareNames <- MCFirmwareNames
  UsbId <- MCUsbId
  Boards = {b1, b2}
  MaxAddress = 3
  NoDevice = NoDevice
  ReentrantSleep = TRUE
  MaxDepth = 2
  MaxTimers = 2
INVARIANTS AloneWritesRight CrashesNested PartWrittenNested
PROPERTIES AssertsWhenStale BoxRefreshed
CHECK_DEADLOCK FALSE
