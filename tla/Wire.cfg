\* A device with two-byte buffers, used by another master once.
CONSTANTS
  zero = zero w1 = w1 w2 = w2 r1 = r1 r2 = r2 r3 = r3
  f1 = f1 f2 = f2 f3 = f3 f4 = f4 a1 = a1 a2 = a2
  BUFFER_LENGTH = 2
  Byte <- MCByte
  Zero = zero
  Message <- MCMessage
  Remote <- MCRemote
  Incoming <- MCIncoming
  MaxForeign = 1
  Untimely = {}
  Quantities = {1, 3}
  Callbacks = {{"receive", "request"}}
  Answers <- MCAnswers
SPECIFICATION FairSpec
INVARIANTS TypeOK AnswerHonest NeverDeaf
PROPERTIES CallsReturn WriteHonest ReadHonest ReceiveHonest
\* A device made deaf leaves a call waiting: the system may stop then.
CHECK_DEADLOCK FALSE
