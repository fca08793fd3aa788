SPECIFICATION FairSpec
CONSTANTS
  app = app
  Applications <- MCApplications
  UsbId <- MCUsbId
  Boards = {b1, b2}
  MaxAddress = 4
  NoDevice = NoDevice
  Timeout = 3
  ReentrantSleep = TRUE
INVARIANT HandleClosed
PROPERTIES SelectionKeepsItsDevice SwitchedToUpdateMode SwitchReturns ImplementsUpdateDevices
