SPECIFICATION Spec
CONSTANTS
  app = app
  Applications <- MCApplications
  UsbId <- MCUsbId
  Boards = {b1, b2}
  MaxAddress = 8
  NoDevice = NoDevice
  Timeout = 6
  ReentrantSleep = FALSE
PROPERTY SwitchKeepsBoard
