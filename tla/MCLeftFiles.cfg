SPECIFICATION MCSpec
CONSTANTS
  Processes = {p1, p2, p3}
  NoProcess = NoProcess
  u1 = u1
  u2 = u2
  Programs = {u1, u2}
  MaxNames <- MCMaxNames
INVARIANTS AssistantTypeOK OpenerHasLock LeftOnlyIfKilled FilesKept TempdirRemoved
