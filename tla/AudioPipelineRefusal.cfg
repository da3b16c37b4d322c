\* The guard of read_audio.
CONSTANTS
  Readers = {app_main}
  Writers = {dram_task}
  Controllers = {}
  Size = 8
  ReadLens = {}
  WriteLens = {}
  Waits = {TRUE}
  Controls = {}
  ResetWhileBusy = FALSE
  NoTask = NoTask
  MaxBytes = 15
  Send = 4
  ChunkSizes = {1, 3, 6}
SPECIFICATION PSpec
PROPERTIES RefusedOnlyWhenShort
