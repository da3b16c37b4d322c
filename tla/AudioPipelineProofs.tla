-------------------------- MODULE AudioPipelineProofs --------------------------
(***************************************************************************)
(* Theorems about AudioPipeline, for any frame, any chunks and any ring.   *)
(*                                                                         *)
(* What app_main holds while it reads is local to its call of rb_read, so  *)
(* the invariant follows that call: it wants exactly what is missing of a  *)
(* frame, no flag ends it early, and it leaves its loop only when nothing  *)
(* is missing.  The ring itself is safe by the lemmas of RingBufProofs.    *)
(***************************************************************************)
EXTENDS AudioPipeline, RingBufProofs

(* The task of app_main. *)
AppMain == CHOOSE r \in Readers : TRUE

LEMMA OneReader ==
  /\ Readers = {AppMain} /\ AppMain \in Readers /\ AppMain \notin Writers
  /\ AppMain \in Callers /\ AppMain \in Tasks
BY PipelineAssumption, RingAssumption DEF AppMain, Callers, Tasks

(* Nobody ends, aborts or unblocks the stream. *)
NoFlags == ~ abort_read /\ ~ abort_write /\ ~ is_done_write /\ ~ unblock_reader_flag

(* The call of rb_read: it is there while app_main is in read_audio. *)
CallOfMain ==
  /\ at # "reading" => pc[AppMain] = "idle"
  /\ pc[AppMain] = "idle" => moved[AppMain] = 0
  /\ at = "reading" =>
       /\ pc[AppMain] \in ReaderLabels /\ forever[AppMain] /\ ret[AppMain] = 0
       /\ buf_len[AppMain] + moved[AppMain] = Send
       /\ pc[AppMain] \in {"r_end", "r_ret"} => buf_len[AppMain] = 0

(* dram_task waits for ever. *)
WritersPatient == \A w \in Writers : pc[w] # "idle" => forever[w]

MainType ==
  /\ at \in {"boot", "create", "halt", "poll", "reading", "write"}
  /\ read \in Nat /\ played \in Nat

PlayInv == MainType /\ NoFlags /\ CallOfMain /\ WritersPatient /\ PlayedOnce

-------------------------------------------------------------------------------
(* Each step is one of the ring's, or leaves it alone. *)
LEMMA RingStays ==
  ASSUME RingInv, [PNext]_pvars
  PROVE  RingInv'
<1>1. ASSUME NEW r \in Readers, MainStep(r)
      PROVE  RingInv'
  <2>1. CASE StartRead(r)
    <3>1. Enter(r, Send, TRUE, "r_lock", "r_end")
      BY <2>1 DEF StartRead, read_audio, rb_read
    <3>2. Send \in Nat /\ r \in Callers /\ TRUE \in BOOLEAN
      BY RingAssumption, PipelineAssumption DEF Callers
    <3> QED
      BY <3>1, <3>2, EnterStep
  <2>2. CASE Reading(r)
    BY <2>2, ReaderStepInv DEF Reading
  <2>3. CASE Boot \/ CreateInterface \/ Decline \/ WriteOut
    BY <2>3, StutterInv DEF Boot, CreateInterface, Decline, WriteOut
  <2> QED
    BY <1>1, <2>1, <2>2, <2>3 DEF MainStep
<1>2. ASSUME NEW w \in Writers, Writing(w)
      PROVE  RingInv'
  BY <1>2, WriterStepInv DEF Writing
<1>3. ASSUME NEW w \in Writers, NEW n \in ChunkSizes, Chunk(w, n)
      PROVE  RingInv'
  <2>1. Enter(w, n, TRUE, "w_lock", "w_end")
    BY <1>3 DEF Chunk, write_audio, rb_write
  <2> QED
    BY <2>1, EnterStep, RingAssumption, PipelineAssumption DEF Callers
<1>4. CASE UNCHANGED pvars
  BY <1>4, StutterInv DEF pvars
<1> QED
  BY <1>1, <1>2, <1>3, <1>4 DEF PNext

-------------------------------------------------------------------------------
(* Before anything happens. *)
LEMMA PlayInit == PInit => PlayInv
BY OneReader, RingAssumption
   DEF PInit, Init, PlayInv, MainType, NoFlags, CallOfMain, WritersPatient, PlayedOnce, Holding, Callers, Tasks

(* A step of dram_task leaves app_main and its call alone. *)
LEMMA WriterKeeps ==
  ASSUME RingInv, PlayInv, UNCHANGED main, NEW w \in Writers,
         WriterStep(w) \/ \E n \in Nat : rb_write(w, n, TRUE)
  PROVE  PlayInv'
<1>0. w \in Callers /\ w \in Tasks /\ w # AppMain /\ pc \in [Tasks -> Labels] /\ forever \in [Callers -> BOOLEAN]
  BY OneReader DEF Callers, Tasks, RingInv, TypeOK, CallType
<1>1. WriteStep(w)
  BY DEF WriteStep
<1>2. NoCallOf(AppMain) /\ pc'[AppMain] = pc[AppMain]
  BY <1>0, <1>1, OneReader, OthersAlone
<1>3. UNCHANGED <<abort_read, abort_write, is_done_write, unblock_reader_flag, out>>
  BY DEF rb_write, Enter, flags, hist, WriterStep, WLock, Acquire, WEmpty, ReleaseEmpty, WCopy, Count, WDone, WAbort,
     CheckFlag, WGive, GiveRead, WWake, WTimeout, TimedOut, WEnd, Return
<1>4. WritersPatient'
  <2> SUFFICES ASSUME NEW v \in Writers, pc'[v] # "idle" PROVE forever'[v]
    BY DEF WritersPatient
  <2>0. v \in Callers /\ v \in Tasks
    BY DEF Callers, Tasks
  <2>1. CASE v # w
    BY <1>0, <1>1, <2>0, <2>1, OthersAlone DEF NoCallOf, PlayInv, WritersPatient
  <2>2. CASE v = w /\ \E n \in Nat : rb_write(w, n, TRUE)
    BY <1>0, <2>2 DEF rb_write, Enter
  <2>3. CASE v = w /\ WriterStep(w)
    <3>1. pc[w] # "idle"
      BY <1>0, <2>3 DEF WriterStep, WLock, Acquire, WEmpty, ReleaseEmpty, WCopy, WDone, WAbort,
         CheckFlag, WGive, GiveRead, WWake, WTimeout, TimedOut, WEnd, Return, Goto
    <3>2. forever'[w] = forever[w] \/ pc'[w] = "idle"
      BY <1>0, <2>3 DEF WriterStep, WLock, Acquire, WEmpty, ReleaseEmpty, WCopy, Count, WDone, WAbort,
         CheckFlag, WGive, GiveRead, WWake, WTimeout, TimedOut, WEnd, Return, Goto, call
    <3> QED
      BY <2>3, <3>1, <3>2 DEF PlayInv, WritersPatient
  <2> QED
    BY <2>1, <2>2, <2>3
<1>5. MainType' /\ NoFlags' /\ CallOfMain'
  BY <1>2, <1>3 DEF PlayInv, MainType, NoFlags, CallOfMain, NoCallOf, main
<1>6. PlayedOnce'
  BY <1>2, <1>3 DEF PlayInv, PlayedOnce, Holding, AppMain, NoCallOf, main
<1> QED
  BY <1>4, <1>5, <1>6 DEF PlayInv

(* A step of app_main that is not in read_audio. *)
LEMMA MainKeeps ==
  ASSUME RingInv, PlayInv, Boot \/ CreateInterface \/ Decline \/ WriteOut
  PROVE  PlayInv'
<1>1. UNCHANGED vars
  BY DEF Boot, CreateInterface, Decline, WriteOut
<1>2. NoFlags' /\ WritersPatient'
  BY <1>1 DEF vars, flags, call, PlayInv, NoFlags, WritersPatient
<1>3. at # "reading" /\ at' # "reading"
  BY DEF Boot, CreateInterface, Decline, WriteOut
<1>4. CallOfMain'
  BY <1>1, <1>3 DEF vars, call, PlayInv, CallOfMain
<1>5. out' = out
  BY <1>1 DEF vars, hist
<1>6. MainType' /\ PlayedOnce'
  BY <1>5 DEF PlayInv, MainType, PlayedOnce, Holding, Boot, CreateInterface, Decline, WriteOut
<1> QED
  BY <1>2, <1>4, <1>6 DEF PlayInv

(* read_audio calls rb_read for one frame. *)
LEMMA StartKeeps ==
  ASSUME RingInv, PlayInv, StartRead(AppMain)
  PROVE  PlayInv'
<1>0. /\ pc \in [Tasks -> Labels] /\ AppMain \in Callers /\ AppMain \in Tasks /\ AppMain \notin Writers
      /\ buf_len \in [Callers -> Nat] /\ forever \in [Callers -> BOOLEAN] /\ ret \in [Callers -> Int]
      /\ Send \in Nat \ {0}
  BY OneReader, PipelineAssumption, RingAssumption DEF RingInv, TypeOK, CallType
<1>1. /\ at = "poll" /\ at' = "reading" /\ read' = read /\ played' = played
      /\ Enter(AppMain, Send, TRUE, "r_lock", "r_end")
  BY DEF StartRead, read_audio, rb_read
<1>2. /\ pc' = [pc EXCEPT ![AppMain] = "r_lock"] /\ buf_len'[AppMain] = Send /\ forever'[AppMain]
      /\ \A w \in Writers : forever'[w] = forever[w]
      /\ ret'[AppMain] = 0 /\ moved' = moved /\ out' = out
      /\ UNCHANGED <<abort_read, abort_write, is_done_write, unblock_reader_flag>>
  BY <1>0, <1>1 DEF Enter, Goto, flags, hist, Callers
<1>3. moved[AppMain] = 0
  BY <1>1 DEF PlayInv, CallOfMain
<1>4. CallOfMain'
  BY <1>0, <1>1, <1>2, <1>3 DEF CallOfMain, ReaderLabels
<1>5. WritersPatient'
  BY <1>0, <1>2 DEF PlayInv, WritersPatient, Tasks, Callers
<1>6. PlayedOnce'
  BY <1>1, <1>2, <1>3 DEF PlayInv, PlayedOnce, Holding, AppMain
<1> QED
  BY <1>1, <1>2, <1>4, <1>5, <1>6 DEF PlayInv, MainType, NoFlags

(* What a copy takes out of the ring is as long as its chunk. *)
LEMMA CopyTakes ==
  ASSUME RingInv, NEW r \in Readers, RCopy(r)
  PROVE  Len(out') = Len(out) + chunk[r] /\ chunk[r] \in Nat
<1>1. chunk[r] \in 1..fill_cnt /\ out \in Seq(Byte)
  BY RingAssumption DEF RCopy, RingInv, TypeOK, CopyInv, ChunksFit, CallType, RingType, HistType, Callers
<1>2. \A j \in 1..chunk[r] : mem[Slot(p_r, j - 1)] \in Byte
  BY <1>1, RingAssumption DEF RingInv, TypeOK, RingType, CopyInv, Initialised
<1>3. chunk[r] \in Nat /\ Held(chunk[r]) \in Seq(Byte) /\ Len(Held(chunk[r])) = chunk[r]
  BY <1>1, <1>2 DEF Held
<1>4. out' = out \o Held(chunk[r])
  BY DEF RCopy
<1> DEFINE h == Held(chunk[r])
<1>5. h \in Seq(Byte) /\ Len(h) = chunk[r] /\ out' = out \o h
  BY <1>3, <1>4
<1> HIDE DEF h
<1>6. Len(out \o h) = Len(out) + Len(h)
  BY <1>1, <1>5
<1> QED
  BY <1>3, <1>5, <1>6

(* What a step of rb_read does to the call: a copy moves bytes from what is missing to
   what was moved, the end of the call reports a whole frame, and the rest changes
   neither; no step is taken that gives up. *)
LEMMA ReadingSteps ==
  ASSUME RingInv, PlayInv, at = "reading", ReaderStep(AppMain)
  PROVE  LET m == AppMain IN
         \/ /\ RCopy(m) /\ pc'[m] \in ReaderLabels /\ ret' = ret /\ forever' = forever
            /\ buf_len'[m] = buf_len[m] - chunk[m] /\ moved'[m] = moved[m] + chunk[m]
            /\ pc'[m] \in {"r_end", "r_ret"} => buf_len'[m] = 0
         \/ /\ RRet(m) /\ pc'[m] = "idle" /\ moved'[m] = 0
            /\ moved[m] = Send /\ ret'[m] = Send /\ out' = out
         \/ /\ pc'[m] \in ReaderLabels /\ UNCHANGED <<buf_len, moved, forever, ret, out>>
            /\ pc'[m] \in {"r_end", "r_ret"} => buf_len[m] = 0
<1> DEFINE m == AppMain
<1>0. /\ m \in Tasks /\ m \in Callers /\ pc \in [Tasks -> Labels] /\ Send \in Nat \ {0}
      /\ buf_len \in [Callers -> Nat] /\ moved \in [Callers -> Nat] /\ chunk \in [Callers -> Nat]
      /\ forever \in [Callers -> BOOLEAN] /\ ret \in [Callers -> Int]
  BY OneReader, PipelineAssumption, RingAssumption DEF RingInv, TypeOK, CallType
<1>1. /\ pc[m] \in ReaderLabels /\ forever[m] /\ ret[m] = 0
      /\ buf_len[m] + moved[m] = Send
      /\ pc[m] \in {"r_end", "r_ret"} => buf_len[m] = 0
      /\ NoFlags
  BY DEF PlayInv, CallOfMain
<1> HIDE DEF m
<1>2. CASE RCopy(m)
  <2>1. /\ pc'[m] = IF buf_len[m] = chunk[m] THEN "r_end" ELSE "r_lock"
        /\ buf_len'[m] = buf_len[m] - chunk[m] /\ moved'[m] = moved[m] + chunk[m]
        /\ ret' = ret /\ forever' = forever
    BY <1>0, <1>2 DEF RCopy, Count, Goto
  <2>2. pc'[m] \in ReaderLabels /\ (pc'[m] \in {"r_end", "r_ret"} => buf_len'[m] = 0)
    BY <1>0, <2>1 DEF ReaderLabels
  <2> QED
    BY <1>2, <2>1, <2>2 DEF m
<1>3. CASE RRet(m)
  <2>1. pc[m] = "r_ret" /\ pc'[m] = "idle" /\ moved'[m] = 0 /\ ret'[m] = Result(m) /\ out' = out
    BY <1>0, <1>3 DEF RRet, Return, Goto, hist
  <2>2. moved[m] = Send
    BY <1>0, <1>1, <2>1
  <2>3. Result(m) = Send
    BY <1>0, <1>1, <2>2 DEF Result, RB_ABORT
  <2> QED
    BY <1>3, <2>1, <2>2, <2>3 DEF m
<1>4. CASE RLock(m) \/ REmpty(m) \/ RGive(m) \/ RWake(m)
  <2>1. pc'[m] \in {"r_copy", "r_done", "r_wait", "r_lock"} /\ UNCHANGED <<buf_len, moved, forever, ret, out>>
    BY <1>0, <1>4 DEF RLock, Acquire, REmpty, ReleaseEmpty, RGive, GiveWrite, RWake, Goto, call, hist
  <2> QED
    BY <2>1 DEF ReaderLabels, m
<1>5. CASE RDone(m) \/ RAbort(m) \/ RUnblock(m)
  <2>1. pc'[m] \in {"r_abort", "r_unblock", "r_give"} /\ UNCHANGED <<buf_len, moved, forever, out>>
    BY <1>0, <1>1, <1>5 DEF RDone, RAbort, RUnblock, CheckFlag, Goto, hist, NoFlags
  <2>2. ret' = [ret EXCEPT ![m] = ret[m]]
    BY <1>0, <1>1, <1>5 DEF RDone, RAbort, RUnblock, CheckFlag, NoFlags
  <2>3. ret' = ret
    BY <1>0, <2>2
  <2> QED
    BY <2>1, <2>3 DEF ReaderLabels, m
<1>6. CASE RTimeout(m)
  BY <1>1, <1>6 DEF RTimeout, TimedOut
<1>7. CASE REnd(m)
  <2>1. pc[m] = "r_end" /\ pc'[m] = "r_ret" /\ UNCHANGED <<buf_len, moved, forever, ret, out>>
    BY <1>0, <1>7 DEF REnd, Goto, call, hist
  <2> QED
    BY <1>1, <2>1 DEF ReaderLabels, m
<1> QED
  BY <1>2, <1>3, <1>4, <1>5, <1>6, <1>7 DEF ReaderStep, m

(* A step of read_audio keeps the invariant. *)
LEMMA ReadingKeeps ==
  ASSUME RingInv, PlayInv, Reading(AppMain)
  PROVE  PlayInv'
<1> DEFINE m == AppMain
<1>0. /\ m \in Callers /\ Send \in Nat \ {0} /\ out \in Seq(Byte)
      /\ buf_len \in [Callers -> Nat] /\ moved \in [Callers -> Nat]
  BY OneReader, PipelineAssumption, RingAssumption DEF RingInv, TypeOK, CallType, HistType
<1>1. /\ at = "reading" /\ ReaderStep(m) /\ played' = played
      /\ pc'[m] = "idle" => at' = "write" /\ read' = ret'[m]
      /\ pc'[m] # "idle" => at' = at /\ read' = read
  BY DEF Reading
<1>2. NoFlags'
  BY <1>1 DEF PlayInv, NoFlags, flags, ReaderStep, RLock, Acquire, REmpty, ReleaseEmpty, RCopy, Count, RDone,
     RAbort, RUnblock, CheckFlag, RGive, GiveWrite, RWake, RTimeout, TimedOut, REnd, RRet, Return
<1>3. WritersPatient'
  <2> SUFFICES ASSUME NEW w \in Writers, pc'[w] # "idle" PROVE forever'[w]
    BY DEF WritersPatient
  <2>1. w \in Callers /\ w # AppMain
    BY OneReader DEF Callers
  <2>2. ReadStep(m)
    BY <1>1, OneReader DEF ReadStep
  <2>3. NoCallOf(w) /\ pc'[w] = pc[w]
    BY <2>1, <2>2, OneReader, OthersAlone
  <2> QED
    BY <2>3 DEF PlayInv, WritersPatient, NoCallOf
<1>4. /\ forever[m] /\ ret[m] = 0 /\ buf_len[m] + moved[m] = Send
      /\ played + moved[m] = Len(out) /\ played \in Nat /\ read \in Nat
  BY <1>1 DEF PlayInv, MainType, CallOfMain, PlayedOnce, Holding, AppMain
<1>5. \/ /\ RCopy(m) /\ pc'[m] \in ReaderLabels /\ ret' = ret /\ forever' = forever
         /\ buf_len'[m] = buf_len[m] - chunk[m] /\ moved'[m] = moved[m] + chunk[m]
         /\ pc'[m] \in {"r_end", "r_ret"} => buf_len'[m] = 0
      \/ /\ RRet(m) /\ pc'[m] = "idle" /\ moved'[m] = 0
         /\ moved[m] = Send /\ ret'[m] = Send /\ out' = out
      \/ /\ pc'[m] \in ReaderLabels /\ UNCHANGED <<buf_len, moved, forever, ret, out>>
         /\ pc'[m] \in {"r_end", "r_ret"} => buf_len[m] = 0
  BY <1>1, ReadingSteps
<1>6. "idle" \notin ReaderLabels
  BY DEF ReaderLabels
<1>m. m = AppMain
  OBVIOUS
<1> HIDE DEF m
<1>7. CASE /\ RCopy(m) /\ pc'[m] \in ReaderLabels /\ ret' = ret /\ forever' = forever
           /\ buf_len'[m] = buf_len[m] - chunk[m] /\ moved'[m] = moved[m] + chunk[m]
           /\ pc'[m] \in {"r_end", "r_ret"} => buf_len'[m] = 0
  <2>1. at' = "reading" /\ read' = read
    BY <1>1, <1>6, <1>7
  <2>2. Len(out') = Len(out) + chunk[m] /\ chunk[m] \in Nat
    BY <1>7, <1>m, OneReader, CopyTakes
  <2>3. /\ played' + moved'[m] = Len(out') /\ buf_len'[m] + moved'[m] = Send
    BY <1>0, <1>1, <1>4, <1>7, <2>2
  <2>4. CallOfMain'
    BY <1>4, <1>6, <1>7, <1>m, <2>1, <2>3 DEF CallOfMain
  <2>5. PlayedOnce' /\ MainType'
    BY <1>1, <1>4, <1>m, <2>1, <2>3 DEF PlayedOnce, Holding, AppMain, MainType
  <2> QED
    BY <1>2, <1>3, <2>4, <2>5 DEF PlayInv
<1>8. CASE /\ RRet(m) /\ pc'[m] = "idle" /\ moved'[m] = 0
           /\ moved[m] = Send /\ ret'[m] = Send /\ out' = out
  <2>1. at' = "write" /\ read' = Send
    BY <1>1, <1>8
  <2>2. CallOfMain'
    BY <1>8, <1>m, <2>1 DEF CallOfMain
  <2>3. PlayedOnce' /\ MainType'
    BY <1>0, <1>1, <1>4, <1>8, <2>1 DEF PlayedOnce, Holding, MainType
  <2> QED
    BY <1>2, <1>3, <2>2, <2>3 DEF PlayInv
<1>9. CASE /\ pc'[m] \in ReaderLabels /\ UNCHANGED <<buf_len, moved, forever, ret, out>>
           /\ pc'[m] \in {"r_end", "r_ret"} => buf_len[m] = 0
  <2>1. at' = "reading" /\ read' = read
    BY <1>1, <1>6, <1>9
  <2>2. CallOfMain'
    BY <1>4, <1>6, <1>9, <1>m, <2>1 DEF CallOfMain
  <2>3. PlayedOnce' /\ MainType'
    BY <1>1, <1>4, <1>9, <1>m, <2>1 DEF PlayedOnce, Holding, AppMain, MainType
  <2> QED
    BY <1>2, <1>3, <2>2, <2>3 DEF PlayInv
<1> QED
  BY <1>5, <1>7, <1>8, <1>9

(* Every step keeps the invariant. *)
LEMMA PlayStep ==
  ASSUME RingInv, PlayInv, [PNext]_pvars
  PROVE  PlayInv'
<1>1. ASSUME NEW r \in Readers, MainStep(r)
      PROVE  PlayInv'
  <2>1. r = AppMain
    BY OneReader
  <2> QED
    BY <1>1, <2>1, StartKeeps, ReadingKeeps, MainKeeps DEF MainStep
<1>2. ASSUME NEW w \in Writers, Writing(w)
      PROVE  PlayInv'
  BY <1>2, WriterKeeps DEF Writing
<1>3. ASSUME NEW w \in Writers, NEW n \in ChunkSizes, Chunk(w, n)
      PROVE  PlayInv'
  <2>1. UNCHANGED main /\ n \in Nat /\ rb_write(w, n, TRUE)
    BY <1>3, PipelineAssumption DEF Chunk, write_audio
  <2> QED
    BY <2>1, WriterKeeps
<1>4. CASE UNCHANGED pvars
  BY <1>4 DEF pvars, vars, main, flags, call, hist, PlayInv, MainType, NoFlags, CallOfMain, WritersPatient,
     PlayedOnce, Holding, AppMain
<1> QED
  BY <1>1, <1>2, <1>3, <1>4 DEF PNext

(* So both invariants hold. *)
LEMMA PlayHolds == PSpec => [](RingInv /\ PlayInv)
<1>1. PInit => RingInv /\ PlayInv
  BY InitInv, PlayInit DEF PInit
<1>2. RingInv /\ PlayInv /\ [PNext]_pvars => RingInv' /\ PlayInv'
  BY RingStays, PlayStep
<1> QED
  BY <1>1, <1>2, PTL DEF PSpec

-------------------------------------------------------------------------------
(* For any frame that fits the ring and any chunks: every byte that leaves the ring is
   played exactly once (read_audio, and the loop of app_main). *)
THEOREM EveryByteIsPlayedOnce == PSpec => []PlayedOnce
<1>1. PlayInv => PlayedOnce
  BY DEF PlayInv
<1> QED
  BY <1>1, PlayHolds, PTL

(* A read that was started comes back with a whole frame, in however many rounds and
   between however many chunks (rb_read with portMAX_DELAY, from read_audio). *)
THEOREM FramesAreWhole == PSpec => WholeFrames
<1>1. ASSUME RingInv, PlayInv, [PNext]_pvars, at = "reading", at' = "write"
      PROVE  read' = Send
  <2>1. Reading(AppMain)
    BY <1>1, OneReader DEF PNext, MainStep, Boot, CreateInterface, StartRead, Decline, WriteOut, Writing, Chunk,
       main, pvars
  <2>2. ReaderStep(AppMain) /\ pc'[AppMain] = "idle" /\ read' = ret'[AppMain]
    BY <1>1, <2>1 DEF Reading
  <2>3. "idle" \notin ReaderLabels
    BY DEF ReaderLabels
  <2> QED
    BY <1>1, <2>2, <2>3, ReadingSteps
<1>2. RingInv /\ PlayInv /\ [PNext]_pvars => [at = "reading" /\ at' = "write" => read' = Send]_pvars
  BY <1>1
<1> QED
  BY <1>2, PlayHolds, PTL DEF PSpec, WholeFrames

(* Once the ring is full, dram_task sleeps on it and app_main polls, this stays so:
   read_audio declines for ever, and nobody gives the token dram_task waits for. *)
THEOREM StallsAreFinal == PSpec => StallIsFinal
<1>1. ASSUME RingInv, PlayInv, [PNext]_pvars, Stalled
      PROVE  Stalled'
  <2>1. ~ Room(Send)
    BY <1>1, PipelineAssumption, RingAssumption DEF Stalled, Room, BytesAvailable
  <2>2. ASSUME NEW w \in Writers
        PROVE  ~ Writing(w) /\ \A n \in ChunkSizes : ~ Chunk(w, n)
    <3>1. pc[w] = "w_wait" /\ ~ can_write /\ forever[w]
      BY <1>1 DEF Stalled, PlayInv, WritersPatient
    <3> QED
      BY <3>1 DEF Writing, WriterStep, WLock, Acquire, WEmpty, ReleaseEmpty, WCopy, WDone, WAbort, CheckFlag,
         WGive, GiveRead, WWake, WTimeout, TimedOut, WEnd, Return, Goto, Chunk, write_audio, rb_write, Enter
  <2>3. UNCHANGED vars
    BY <1>1, <2>1, <2>2 DEF PNext, MainStep, Boot, CreateInterface, StartRead, Decline, Reading, WriteOut,
       pvars, Stalled
  <2>4. at' \in {"create", "halt", "poll"} \/ (at' = "write" /\ read' = 0)
    BY <1>1, <2>1, <2>2 DEF PNext, MainStep, Boot, CreateInterface, StartRead, Decline, Reading, WriteOut,
       pvars, main, Stalled
  <2> QED
    BY <1>1, <2>3, <2>4 DEF Stalled, vars, ring, sems
<1>2. RingInv /\ PlayInv /\ [PNext]_pvars => [Stalled => Stalled']_pvars
  BY <1>1
<1> QED
  BY <1>2, PlayHolds, PTL DEF PSpec, StallIsFinal
===============================================================================
