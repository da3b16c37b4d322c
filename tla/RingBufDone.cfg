\* The end of the stream is declared while the reader looks at the flags.
CONSTANTS
  Readers = {r1}
  Writers = {w1}
  Controllers = {w1}
  Size = 5
  ReadLens = {1, 6}
  WriteLens = {2, 3}
  Waits = {TRUE, FALSE}
  Controls = {"done"}
  ResetWhileBusy = FALSE
  NoTask = NoTask
  MaxBytes = 6
SPECIFICATION Spec
PROPERTIES DoneMeansDrained
