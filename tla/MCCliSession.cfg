SPECIFICATION FairSessionSpec
CONSTANTS
  app = app
  Applications <- MCApplications
  PoolDevices <- MCApplications
  UsbId <- MCUsbId
  Boards = {b1, b2}
  MaxAddress = 4
  NoDevice = NoDevice
  ReentrantSleep = FALSE
INVARIANTS WritesReachBootloaders ChosenIsUsed UpdaterDeviceAlive
PROPERTIES CommandReturns
