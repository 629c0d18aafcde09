\* Another master may come during the receive callback.
CONSTANTS
  zero = zero w1 = w1 w2 = w2 r1 = r1 r2 = r2 r3 = r3
  f1 = f1 f2 = f2 f3 = f3 f4 = f4 a1 = a1 a2 = a2
  BUFFER_LENGTH = 2
  Byte <- MCByte
  Zero = zero
  Message <- MCMessage
  Remote <- MCRemote
  Incoming <- MCIncoming
  MaxForeign = 2
  Untimely = {"callback"}
  Quantities = {1, 3}
  Callbacks = {{"receive", "request"}}
  Answers <- MCAnswers
SPECIFICATION Spec
INVARIANT AnswerHonest
