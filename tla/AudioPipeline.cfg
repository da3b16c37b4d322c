\* Chunks smaller and larger than a frame through a ring of two frames; app_main
\* polls for ever.  Deadlock is not checked: when no more chunks come, app_main
\* sleeps in rb_read for good.
CONSTANTS
  Readers = {app_main}
  Writers = {dram_task}
  Controllers = {}
  Size = 8
  ReadLens = {}
  WriteLens = {}
  Waits = {TRUE}
  Controls = {}
  ResetWhileBusy = FALSE
  NoTask = NoTask
  MaxBytes = 15
  Send = 4
  ChunkSizes = {0, 1, 3, 6}
SPECIFICATION PFairSpec
INVARIANTS PlayedOnce
PROPERTIES WholeFrames WriterReturns FramesArePlayed StallIsFinal
CHECK_DEADLOCK FALSE
