SPECIFICATION Spec
CONSTANTS
  Event = {a, b}
  NoFile = NoFile
  MaxLen = 2
  MaxCrashes = 3
  MaxErrors = 2
INVARIANT FilesInPlace
 
