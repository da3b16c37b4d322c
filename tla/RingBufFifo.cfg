\* Two writers and one reader racing for the ring; 8 bytes through a ring of 5, so
\* every pointer wraps.  A finite wait may or may not time out: it has every
\* behaviour of an infinite one.  Once all bytes are offered the writers stop.
CONSTANTS
  Readers = {r1}
  Writers = {w1, w2}
  Controllers = {}
  Size = 5
  ReadLens = {1, 6}
  WriteLens = {2}
  Waits = {FALSE}
  Controls = {}
  ResetWhileBusy = FALSE
  NoTask = NoTask
  MaxBytes = 4
SPECIFICATION Spec
INVARIANTS TypeOK BytesInOrder NoMutualWait
PROPERTIES ImplementsByteStream
SYMMETRY WriterSymmetry
CHECK_DEADLOCK FALSE
