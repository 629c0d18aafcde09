\* Banks of 2 bytes, writes of up to 2, two looks for space.
CONSTANTS
  CDC_RX = 2
  CDC_TX = 3
  HID_TX = 4
  AnyEP = AnyEP
  BankSize = 2
  MaxWrite = 2
  SendTries = 2
SPECIFICATION FairSpec
INVARIANTS TypeOK InOrder AnswersHold ReportsWhole
PROPERTIES Sent CallsReturn
