SPECIFICATION Spec
CONSTANTS
  a = a
  b = b
  Names = {a, b}
  Checked = {a}
  NoName = NoName
  AllNames = AllNames
  NoFile = NoFile
  MaxVersion = 2
  MaxDepth = 2
INVARIANT IndexDownloaded
