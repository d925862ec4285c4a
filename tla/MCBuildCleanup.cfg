SPECIFICATION Spec
CONSTANTS
  Originals = {a}
  Local = Local
  NoFile = NoFile
  Devices = {d1, d2}
  NoDev = NoDev
  Runs = 2
SYMMETRY Symmetry
INVARIANTS RemovedOverNothing FinishedImageSurvives ReapedOrReported
CHECK_DEADLOCK FALSE
