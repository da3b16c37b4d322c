\* Liveness under fair scheduling; a reset of the idle ring lets the stream go on
\* for ever although each epoch is bounded.
CONSTANTS
  Readers = {r1}
  Writers = {w1}
  Controllers = {c1}
  Size = 4
  ReadLens = {1, 6}
  WriteLens = {6}
  Waits = {TRUE}
  Controls = {"unblock", "abort", "reset"}
  ResetWhileBusy = FALSE
  NoTask = NoTask
  MaxBytes = 6
SPECIFICATION FairSpec
PROPERTIES ReaderWakes WriterWakes UnblockReturns AbortReturns
