---------------------------- MODULE AudioPipeline ----------------------------
(***************************************************************************)
(* audio_network_buffer between its two users: app_main, which polls       *)
(* read_audio for frames of Send bytes and plays them, and dram_task,      *)
(* which hands every received chunk to write_audio.  app_main starts       *)
(* dram_task before it has an interface to play to.  Both calls run the    *)
(* steps of RingBuf, with portMAX_DELAY; nobody ends, aborts or resets the *)
(* stream.  The interface (audio_out_interface) is outside the repository: *)
(* it can fail to be created, and is the count of bytes played.            *)
(***************************************************************************)
EXTENDS RingBuf

CONSTANTS
  Send,        \* METRONOME_ADF_BUFFER_SEND, the frame app_main asks for
  ChunkSizes   \* data_size values of write_audio

ASSUME PipelineAssumption ==
  /\ \E r \in Readers : Readers = {r}
  /\ \E w \in Writers : Writers = {w}
  /\ Controllers = {}
  /\ Send \in 1..Size
  /\ ChunkSizes \subseteq Nat

VARIABLES
  at,      \* app_main: "boot", "create" the interface or "halt", then
           \* "poll" the buffer, "reading" in rb_read, "write" out
  read,    \* app_main: what the last read_audio returned
  played   \* bytes handed to the interface

main  == <<at, read, played>>
pvars == <<vars, main>>

PInit ==
  /\ Init
  /\ at = "boot" /\ read = 0 /\ played = 0

-------------------------------------------------------------------------------
(***************************************************************************)
(* audio_network_buffer                                                    *)
(***************************************************************************)
Room_ForNothing(n) == fill_cnt >= n          \* fault: the other counter is asked
Room(n) == BytesAvailable >= n

read_audio_Impatient(r) == rb_read(r, Send, FALSE)   \* fault: a finite wait
read_audio(r) == rb_read(r, Send, TRUE)

write_audio(w, n) == rb_write(w, n, TRUE)

-------------------------------------------------------------------------------
(***************************************************************************)
(* app_main before its loop: dram_task is started, then the interface is   *)
(* created; if it cannot be, app_main spins for ever.                      *)
(***************************************************************************)
Boot ==
  /\ at = "boot" /\ at' = "create"
  /\ UNCHANGED <<vars, read, played>>

CreateInterface ==
  /\ at = "create" /\ at' \in {"poll", "halt"}
  /\ UNCHANGED <<vars, read, played>>

(***************************************************************************)
(* The loop of app_main.  read_audio looks at the counter without the      *)
(* mutex, then reads or returns 0; a return of 0 is written out all the    *)
(* same, as no bytes.                                                      *)
(***************************************************************************)
StartRead(r) ==
  /\ at = "poll"
  /\ Room(Send)
  /\ read_audio(r)
  /\ at' = "reading"
  /\ UNCHANGED <<read, played>>

Decline_Stale ==                             \* fault: read keeps the last count
  /\ at = "poll"
  /\ ~ Room(Send)
  /\ at' = "write"
  /\ UNCHANGED <<vars, read, played>>

Decline ==
  /\ at = "poll"
  /\ ~ Room(Send)
  /\ at' = "write" /\ read' = 0
  /\ UNCHANGED <<vars, played>>

Reading(r) ==
  /\ at = "reading"
  /\ ReaderStep(r)
  /\ IF pc'[r] = "idle" THEN at' = "write" /\ read' = ret'[r] ELSE UNCHANGED <<at, read>>
  /\ UNCHANGED played

WriteOut ==
  /\ at = "write"
  /\ played' = played + read
  /\ at' = "poll"
  /\ UNCHANGED <<vars, read>>

MainStep(r) ==
  Boot \/ CreateInterface \/ StartRead(r) \/ Decline \/ Reading(r) \/ WriteOut

(***************************************************************************)
(* dram_task: one chunk after the other, once it is started.               *)
(***************************************************************************)
Chunk(w, n) ==
  /\ at # "boot"
  /\ sent[w] + n =< MaxBytes
  /\ write_audio(w, n)
  /\ UNCHANGED main

Writing(w) == WriterStep(w) /\ UNCHANGED main

PNext ==
  \/ \E r \in Readers : MainStep(r)
  \/ \E w \in Writers : Writing(w) \/ \E n \in ChunkSizes : Chunk(w, n)

PSpec == PInit /\ [][PNext]_pvars

(***************************************************************************)
(* Both tasks keep running; dram_task need not receive anything.  The      *)
(* mutex is handed to its waiters in turn.                                 *)
(***************************************************************************)
PFairness ==
  /\ \A r \in Readers : WF_pvars(MainStep(r)) /\ SF_pvars(Reading(r) /\ RLock(r))
  /\ \A w \in Writers : WF_pvars(Writing(w)) /\ SF_pvars(Writing(w) /\ WLock(w))

PFairSpec == PSpec /\ PFairness

-------------------------------------------------------------------------------
(***************************************************************************)
(* Every byte that leaves the ring is played exactly once: what app_main   *)
(* has played, and what it holds, is all that was read.                    *)
(***************************************************************************)
Holding ==
  IF at = "write" THEN read
  ELSE IF at = "reading" THEN moved[CHOOSE r \in Readers : TRUE] ELSE 0

PlayedOnce == played + Holding = Len(out)

(***************************************************************************)
(* The interface gets whole frames or nothing (48 kHz stereo words): a     *)
(* read that was started comes back with all Send bytes, however the       *)
(* chunks arrive, since it waits for ever and nobody aborts it.            *)
(***************************************************************************)
WholeFrames ==
  [][at = "reading" /\ at' = "write" => read' = Send]_pvars

(***************************************************************************)
(* dram_task leaves write_audio again, unless the ring has become too full *)
(* for app_main to read from it.                                           *)
(***************************************************************************)
TooFullToRead == ~ Room(Send)

WriterReturns ==
  \A w \in Writers : pc[w] # "idle" ~> pc[w] = "idle" \/ TooFullToRead

(***************************************************************************)
(* A whole frame in the ring is not forgotten: app_main plays one, unless  *)
(* the ring is too full to read from or there is no interface.             *)
(***************************************************************************)
FramesArePlayed ==
  fill_cnt >= Send ~> \/ at = "write" /\ read = Send
                     \/ TooFullToRead \/ at = "halt"

(***************************************************************************)
(* The stall that the guard of read_audio makes possible is final: once    *)
(* the ring is full, dram_task asleep and app_main polling, no step of     *)
(* either changes that.  It may come before the first frame, while the     *)
(* interface is created.                                                   *)
(***************************************************************************)
Stalled ==
  /\ \A w \in Writers : pc[w] = "w_wait" /\ ~ can_write
  /\ fill_cnt = Size
  /\ at \in {"create", "halt", "poll"} \/ (at = "write" /\ read = 0)

StallIsFinal == [][Stalled => Stalled']_pvars

(***************************************************************************)
(* "wait ... until enough bytes to read if the ringbuffer bytes available  *)
(* is less than len" (include/ringbuf.h): a frame is refused only when     *)
(* fewer than Send bytes are there.                                        *)
(***************************************************************************)
RefusedOnlyWhenShort ==
  [][at = "poll" /\ at' = "write" => fill_cnt < Send]_pvars
===============================================================================
