\* One reader and one writer with a third task that ends the stream, unblocks the
\* reader and resets the idle ring.
CONSTANTS
  Readers = {r1}
  Writers = {w1}
  Controllers = {c1}
  Size = 5
  ReadLens = {1, 6}
  WriteLens = {2, 6}
  Waits = {TRUE, FALSE}
  Controls = {"done", "unblock", "reset"}
  ResetWhileBusy = FALSE
  NoTask = NoTask
  MaxBytes = 6
SPECIFICATION Spec
INVARIANTS CopyInv ReaderNotForgotten WriterNotForgotten ShortReadsAligned
