\* One caller is enough for reset() to miss its answer.
CONSTANTS
  Callers = {c1}
  Registers = {g1}
  Reset = Reset
  SeqMax = 1
  MaxFrames = 1
  Nobody = Nobody
  NoFrame = NoFrame
  NoSeq = NoSeq
SPECIFICATION Spec
INVARIANT ResetAnswerNotMissed
