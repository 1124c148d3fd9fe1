\* Two callers, two numbers: a number comes round again while an answer is late or
\* never comes.
CONSTANTS
  Callers = {c1, c2}
  Registers = {g1}
  Reset = Reset
  SeqMax = 1
  MaxFrames = 1
  Nobody = Nobody
  NoFrame = NoFrame
  NoSeq = NoSeq
SPECIFICATION FairSpec
INVARIANTS
  TypeOK
  PromiseSafe
  AnswerIsForCall
  RegisterAnswerNotMissed
PROPERTIES
  CallReturns
