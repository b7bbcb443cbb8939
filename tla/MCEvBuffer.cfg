SPECIFICATION FairSpec
CONSTANTS
  cr = cr
  lf = lf
  Byte = {cr, lf}
  Sep <- CrLf
  MinBufferSize = 1
  MaxBufferSize = 3
  MaxBytes = 3
  MaxWrite = 2
  MaxBuf = 3
CHECK_DEADLOCK FALSE
INVARIANTS
  InputIsStream
  FirstLine
  OutputIsStream
PROPERTIES
  OutputDrains
