SPECIFICATION FairSpec
CONSTANTS
  Base = 2
  LengthFieldSize = 2
  TypeFieldSize = 1
  MaxPacketSize = 3
  MsgType = {0, 1}
  Body <- Bodies
  MaxSent = 3
INVARIANTS TypeOK ReadsWhatWasSent FailsOnlyWhenBroken
PROPERTY Delivered
