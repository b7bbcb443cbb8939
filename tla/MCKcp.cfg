SPECIFICATION FairSpec
CONSTANTS
  short = short
  long = long
  Left = Left
  Right = Right
  Msg = {short, long}
  Frags <- FragsOf
  SndWnd <- SndWndOf
  RcvWnd <- RcvWndOf
  NoCwnd <- NoCwndOf
  Resend = 1
  WndRcv = 2
  ThreshMin = 2
  Script <- ScriptOf
  OneWay = TRUE
  NetMax = 2
  NoSeg = NoSeg
INVARIANTS
  AckedIsHeld
  WindowKept
PROPERTIES
  LinkIsFifo
  EveryMessageArrives
