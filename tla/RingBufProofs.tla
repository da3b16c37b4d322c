---------------------------- MODULE RingBufProofs ----------------------------
(***************************************************************************)
(* The ring buffer is safe, for any tasks and any size.                    *)
(*                                                                         *)
(* TypeOK alone is not inductive: a reader that copies trusts the chunk it *)
(* computed when it took the mutex, so the invariant must say that nobody  *)
(* else can change fill_cnt meanwhile (LockHeld, ChunksFit) and that the   *)
(* bytes counted by fill_cnt are really there (Initialised).  RingInv adds *)
(* these, and one lemma per kind of step shows that it is kept.            *)
(***************************************************************************)
EXTENDS RingBuf, TLAPS

(* The inductive invariant. *)
RingInv == TypeOK /\ CopyInv

(* Everything holds when rb_create returns. *)
LEMMA InitInv == Init => RingInv
<1> SUFFICES ASSUME Init PROVE RingInv
  OBVIOUS
<1> USE RingAssumption DEF Init, Callers, Tasks, Labels
<1>1. RingType
  BY DEF RingType
<1>2. SyncType
  BY DEF SyncType
<1>3. CallType
  BY DEF CallType
<1>4. HistType
  BY DEF HistType
<1>5. LabelsFit
  BY DEF LabelsFit, ReaderLabels, WriterLabels, ControllerLabels
<1>6. LockHeld
  BY DEF LockHeld, CopyLabels
<1>7. ChunksFit
  BY DEF ChunksFit, BytesAvailable
<1>8. Initialised /\ PointersAgree
  BY DEF Initialised, PointersAgree
<1> QED
  BY <1>1, <1>2, <1>3, <1>4, <1>5, <1>6, <1>7, <1>8 DEF RingInv, TypeOK, CopyInv

(* A task that moves to a label of its own kind keeps every label in place. *)
LEMMA GotoFits ==
  ASSUME CallType, LabelsFit, NEW t \in Tasks, NEW from, NEW to \in Labels,
         to \in ReaderLabels => t \in Readers,
         to \in WriterLabels => t \in Writers,
         to \in ControllerLabels => t \in Controllers,
         Goto(t, from, to)
  PROVE  LabelsFit' /\ pc' \in [Tasks -> Labels]
BY DEF CallType, LabelsFit, Goto

(* A step outside the critical sections that leaves the ring alone: nothing the
   copies rely on changes. *)
LEMMA QuietStep ==
  ASSUME RingInv, NEW t \in Tasks, NEW from, NEW to \in Labels,
         to \in ReaderLabels => t \in Readers,
         to \in WriterLabels => t \in Writers,
         to \in ControllerLabels => t \in Controllers,
         from \notin CopyLabels, to \notin CopyLabels,
         Goto(t, from, to), UNCHANGED <<ring, lock, chunk>>,
         \A s \in Callers : buf_len'[s] >= chunk[s]
  PROVE  CopyInv' /\ pc' \in [Tasks -> Labels] /\ RingType'
<1> USE DEF RingInv, TypeOK, CopyInv, ring
<1>1. LabelsFit' /\ pc' \in [Tasks -> Labels]
  BY GotoFits
<1>2. LockHeld'
  BY DEF LockHeld, Goto, CallType, Callers, Tasks
<1>3. ChunksFit'
  BY DEF ChunksFit, Goto, CallType, Callers, Tasks, BytesAvailable
<1>4. RingType' /\ Initialised' /\ PointersAgree'
  BY DEF RingType, Initialised, PointersAgree, Slot
<1> QED
  BY <1>1, <1>2, <1>3, <1>4

(* Where a copy that starts at p and takes k bytes lands: inside the memory, and the
   bytes behind it are the old ones k places further on. *)
LEMMA SlotFacts ==
  ASSUME NEW p \in 0..Size, NEW k \in 0..Size
  PROVE  /\ Advance(p, k) \in 0..Size
         /\ \A j \in 0..(Size - 1) : Slot(p, j) \in 0..(Size - 1)
         /\ \A j \in 0..(Size - 1) : j + k < Size => Slot(Advance(p, k), j) = Slot(p, j + k)
         /\ \A i \in 0..(Size - 1) : Offset(p, i) \in 0..Size
BY RingAssumption DEF Advance, Slot, Offset

(* The writer's next byte goes to the first slot behind the bytes held, wherever the
   wrap-around is. *)
LEMMA FreshSlot ==
  ASSUME NEW p \in 0..Size, NEW f \in 0..Size, NEW k \in 1..(Size - f),
         NEW q \in {p + f, p + f - Size}, q \in 0..Size,
         NEW j \in f..(f + k - 1)
  PROVE  Offset(q, Slot(p, j)) = j - f
BY RingAssumption DEF Offset, Slot

(* Moving either pointer by k, with fill_cnt, keeps the two pointers in agreement. *)
LEMMA AdvanceAgrees ==
  ASSUME NEW p \in 0..Size, NEW q \in 0..Size, NEW f \in 0..Size,
         q \in {p + f, p + f - Size}
  PROVE  /\ \A k \in 1..f : q \in {Advance(p, k) + (f - k), Advance(p, k) + (f - k) - Size}
         /\ \A k \in 1..(Size - f) : Advance(q, k) \in {p + (f + k), p + (f + k) - Size}
BY RingAssumption DEF Advance

(* The bookkeeping after a memcpy gives the mutex back with no chunk left over. *)
LEMMA CopyStep ==
  ASSUME RingInv, NEW t \in Callers, NEW from \in CopyLabels, NEW to \in Labels \ CopyLabels,
         to \in ReaderLabels => t \in Readers,
         to \in WriterLabels => t \in Writers,
         to \in ControllerLabels => t \in Controllers,
         Goto(t, from, to), Count(t, chunk[t]),
         fill_cnt' \in 0..Size
  PROVE  /\ LabelsFit' /\ LockHeld' /\ ChunksFit'
         /\ SyncType' /\ CallType'
<1> USE DEF RingInv, TypeOK, CopyInv
<1>1. LabelsFit' /\ pc' \in [Tasks -> Labels]
  BY GotoFits DEF Tasks
<1>2. LockHeld'
  BY RingAssumption DEF LockHeld, Goto, Count, CallType, Callers, Tasks
<1>3. CallType'
  BY <1>1 DEF CallType, Count, ChunksFit
<1>4. \A s \in Callers : chunk'[s] = 0
  BY DEF Count, ChunksFit, LockHeld, Goto, CallType, Callers, Tasks
<1>5. ChunksFit'
  BY <1>3, <1>4, RingAssumption DEF ChunksFit, CallType, BytesAvailable, Callers
<1>6. SyncType'
  BY DEF SyncType, Count, sems, flags
<1> QED
  BY <1>1, <1>2, <1>3, <1>5, <1>6

(* The copy of rb_read, with both its memcpy branches. *)
LEMMA ReaderCopy ==
  ASSUME RingInv, NEW r \in Readers, RCopy(r)
  PROVE  RingInv'
<1> DEFINE k == chunk[r]
<1> USE DEF RingInv, TypeOK, CopyInv
<1>1. k \in 1..fill_cnt /\ r \in Callers /\ fill_cnt \in 0..Size /\ Size \in Nat \ {0}
  BY RingAssumption DEF RCopy, ChunksFit, CallType, RingType, Callers
<1>2. fill_cnt' \in 0..Size
  BY <1>1 DEF RCopy
<1>3. LabelsFit' /\ LockHeld' /\ ChunksFit' /\ SyncType' /\ CallType'
  <2>1. PICK to \in {"r_end", "r_lock"} : Goto(r, "r_copy", to)
    BY DEF RCopy
  <2>2. to \in Labels \ CopyLabels /\ "r_copy" \in CopyLabels /\ to \notin WriterLabels /\ to \notin ControllerLabels
    BY DEF Labels, CopyLabels, ReaderLabels, WriterLabels, ControllerLabels
  <2> QED
    BY <1>1, <1>2, <2>1, <2>2, CopyStep DEF RCopy
<1>4. RingType' /\ PointersAgree'
  <2>1. p_r' = Advance(p_r, k) /\ fill_cnt' = fill_cnt - k /\ UNCHANGED <<mem, p_w>>
    BY DEF RCopy
  <2>2. p_r' \in 0..Size
    BY <1>1, <2>1 DEF RingType, Advance
  <2>3. PointersAgree'
    BY <1>1, <2>1, AdvanceAgrees DEF RingType, PointersAgree
  <2> QED
    BY <1>2, <2>1, <2>2, <2>3 DEF RingType
<1>5. Initialised'
  <2> SUFFICES ASSUME NEW j \in 0..(fill_cnt' - 1) PROVE mem[Slot(Advance(p_r, k), j)] \in Byte
    BY DEF Initialised, RCopy, Slot
  <2>1. j + k \in 0..(fill_cnt - 1) /\ p_r \in 0..Size
    BY <1>1 DEF RCopy, RingType
  <2>2. Slot(Advance(p_r, k), j) = Slot(p_r, j + k)
    BY <1>1, <2>1 DEF Slot, Advance
  <2> QED
    BY <2>1, <2>2 DEF Initialised
<1>6. HistType'
  <2>1. Held(k) \in Seq(Byte)
    BY <1>1 DEF Held, Initialised
  <2> QED
    BY <2>1 DEF HistType, RCopy
<1> QED
  BY <1>3, <1>4, <1>5, <1>6

(* The copy of rb_write: the bytes it stores are initialised, the ones held stay so. *)
LEMMA WriterCopy ==
  ASSUME RingInv, NEW w \in Writers, WCopy(w)
  PROVE  RingInv'
<1> DEFINE k == chunk[w]
<1> USE DEF RingInv, TypeOK, CopyInv
<1>1. k \in 1..BytesAvailable /\ w \in Callers /\ fill_cnt \in 0..Size /\ Size \in Nat \ {0}
  BY RingAssumption DEF WCopy, ChunksFit, CallType, RingType, Callers, BytesAvailable
<1>2. fill_cnt' \in 0..Size
  BY <1>1 DEF WCopy, BytesAvailable
<1>3. LabelsFit' /\ LockHeld' /\ ChunksFit' /\ SyncType' /\ CallType'
  <2>1. PICK to \in {"w_end", "w_lock"} : Goto(w, "w_copy", to)
    BY DEF WCopy
  <2>2. to \in Labels \ CopyLabels /\ "w_copy" \in CopyLabels /\ to \notin ReaderLabels /\ to \notin ControllerLabels
    BY DEF Labels, CopyLabels, ReaderLabels, WriterLabels, ControllerLabels
  <2> QED
    BY <1>1, <1>2, <2>1, <2>2, CopyStep DEF WCopy
<1>4. \A i \in 0..(Size - 1) : Offset(p_w, i) \in Nat /\ NextByte(w, Offset(p_w, i)) \in Byte
  <2> SUFFICES ASSUME NEW i \in 0..(Size - 1)
               PROVE  Offset(p_w, i) \in Nat /\ NextByte(w, Offset(p_w, i)) \in Byte
    OBVIOUS
  <2>1. Offset(p_w, i) \in Nat
    BY <1>1 DEF Offset, RingType
  <2> QED
    BY <2>1 DEF NextByte, Byte, HistType
<1>5. RingType' /\ PointersAgree'
  <2>1. mem' \in [0..(Size - 1) -> Byte \cup {Blank}]
    BY <1>4 DEF RingType, WCopy
  <2> QED
    <3>1. p_w' = Advance(p_w, k) /\ fill_cnt' = fill_cnt + k /\ p_r' = p_r
      BY DEF WCopy
    <3>2. p_w' \in 0..Size
      BY <1>1, <3>1 DEF RingType, Advance, BytesAvailable
    <3>3. PointersAgree'
      BY <1>1, <3>1, AdvanceAgrees DEF RingType, PointersAgree, BytesAvailable
    <3> QED
      BY <1>2, <2>1, <3>1, <3>2, <3>3 DEF RingType
<1>6. Initialised'
  <2> SUFFICES ASSUME NEW j \in 0..(fill_cnt + k - 1) PROVE mem'[Slot(p_r, j)] \in Byte
    <3>1. fill_cnt' = fill_cnt + k /\ p_r' = p_r
      BY DEF WCopy
    <3> QED
      BY <1>1, <3>1 DEF Initialised, Slot
  <2>0. j \in 0..(Size - 1) /\ p_r \in 0..Size
    BY <1>1 DEF RingType, BytesAvailable
  <2>1. Slot(p_r, j) \in 0..(Size - 1)
    BY <1>1, <2>0, SlotFacts
  <2>2. CASE Offset(p_w, Slot(p_r, j)) < k
    BY <1>4, <2>1, <2>2 DEF WCopy
  <2>3. CASE ~ (Offset(p_w, Slot(p_r, j)) < k)
    <3>1. j < fill_cnt
      <4> SUFFICES ASSUME j >= fill_cnt PROVE FALSE
        BY <1>1
      <4>2. j \in fill_cnt..(fill_cnt + k - 1) /\ k \in 1..(Size - fill_cnt)
        BY <1>1 DEF BytesAvailable
      <4>3. Offset(p_w, Slot(p_r, j)) = j - fill_cnt
        BY <1>1, <4>2, FreshSlot DEF PointersAgree, RingType
      <4> QED
        BY <2>3, <4>2, <4>3, <1>1
    <3> QED
      BY <1>1, <2>1, <2>3, <3>1 DEF Initialised, WCopy, RingType
  <2> QED
    BY <2>2, <2>3
<1>7. HistType'
  BY <1>1 DEF HistType, WCopy, BytesAvailable
<1> QED
  BY <1>3, <1>5, <1>6, <1>7

(* Taking the mutex makes the taker its only holder, with a chunk that fits. *)
LEMMA AcquireStep ==
  ASSUME RingInv, NEW t \in Callers, NEW from \in Labels \ CopyLabels, NEW to \in CopyLabels,
         to \in ReaderLabels => t \in Readers,
         to \in WriterLabels => t \in Writers,
         NEW n \in Nat, n =< buf_len[t],
         t \in Readers => n =< fill_cnt,
         t \in Writers => n =< BytesAvailable,
         Acquire(t, from, to, n)
  PROVE  RingInv'
<1> USE DEF RingInv, TypeOK, CopyInv
<1>1. to \in Labels /\ to \notin ControllerLabels
  BY DEF CopyLabels, Labels, ReaderLabels, WriterLabels, ControllerLabels
<1>2. LabelsFit' /\ pc' \in [Tasks -> Labels]
  BY <1>1, GotoFits DEF Acquire, Tasks
<1>3. CallType' /\ SyncType'
  BY <1>2 DEF CallType, SyncType, Acquire, sems, flags
<1>4. LockHeld'
  BY RingAssumption DEF LockHeld, Acquire, Goto, CallType, Tasks, Callers
<1>5. ChunksFit'
  BY DEF ChunksFit, Acquire, Goto, CallType, Tasks, Callers, ring, BytesAvailable
<1>6. RingType' /\ Initialised' /\ PointersAgree' /\ HistType'
  BY DEF RingType, Initialised, PointersAgree, HistType, Acquire, ring, hist, Slot
<1> QED
  BY <1>2, <1>3, <1>4, <1>5, <1>6

(* Giving the mutex back after finding nothing to move. *)
LEMMA ReleaseStep ==
  ASSUME RingInv, NEW t \in Callers, NEW from \in CopyLabels, NEW to \in Labels \ CopyLabels,
         to \in ReaderLabels => t \in Readers,
         to \in WriterLabels => t \in Writers,
         to \in ControllerLabels => t \in Controllers,
         ReleaseEmpty(t, from, to)
  PROVE  RingInv'
<1> USE DEF RingInv, TypeOK, CopyInv
<1>1. LabelsFit' /\ pc' \in [Tasks -> Labels]
  BY GotoFits DEF ReleaseEmpty, Tasks
<1>2. CallType' /\ SyncType'
  BY <1>1 DEF CallType, SyncType, ReleaseEmpty, call, sems, flags
<1>3. LockHeld'
  BY RingAssumption DEF LockHeld, ReleaseEmpty, Goto, CallType, Tasks, Callers
<1>4. ChunksFit'
  BY DEF ChunksFit, LockHeld, ReleaseEmpty, Goto, CallType, Tasks, Callers, ring, call, BytesAvailable
<1>5. RingType' /\ Initialised' /\ PointersAgree' /\ HistType'
  BY DEF RingType, Initialised, PointersAgree, HistType, ReleaseEmpty, ring, hist, Slot
<1> QED
  BY <1>1, <1>2, <1>3, <1>4, <1>5

(* A step outside the critical sections that leaves the ring and the histories alone. *)
LEMMA OutsideStep ==
  ASSUME RingInv, NEW t \in Tasks, NEW from \in Labels \ CopyLabels, NEW to \in Labels \ CopyLabels,
         to \in ReaderLabels => t \in Readers,
         to \in WriterLabels => t \in Writers,
         to \in ControllerLabels => t \in Controllers,
         Goto(t, from, to), UNCHANGED <<ring, lock, chunk, hist>>,
         SyncType', CallType', \A s \in Callers : buf_len'[s] >= chunk[s]
  PROVE  RingInv'
<1>1. CopyInv' /\ RingType'
  BY QuietStep
<1>2. HistType'
  BY DEF RingInv, TypeOK, HistType, hist
<1> QED
  BY <1>1, <1>2 DEF RingInv, TypeOK

(* A call starts: rb_read and rb_write up to their loop condition. *)
LEMMA EnterStep ==
  ASSUME RingInv, NEW t \in Callers, NEW n \in Nat, NEW f \in BOOLEAN,
         NEW loop \in {"r_lock", "w_lock"}, NEW end \in {"r_end", "w_end"},
         loop = "r_lock" => t \in Readers, loop = "w_lock" => t \in Writers,
         end = "r_end" => t \in Readers, end = "w_end" => t \in Writers,
         Enter(t, n, f, loop, end)
  PROVE  RingInv'
<1>1. PICK to \in {"r_lock", "w_lock", "r_end", "w_end"} : Goto(t, "idle", to) /\ to \in {loop, end}
  BY DEF Enter
<1>2. t \in Tasks /\ "idle" \in Labels \ CopyLabels /\ to \in Labels \ CopyLabels
  BY DEF Labels, CopyLabels, ReaderLabels, WriterLabels, Tasks
<1>3. /\ to \in ReaderLabels => t \in Readers
      /\ to \in WriterLabels => t \in Writers
      /\ to \in ControllerLabels => t \in Controllers
  BY <1>1 DEF ReaderLabels, WriterLabels, ControllerLabels
<1>4. chunk[t] = 0 /\ \A s \in Callers : chunk[s] =< buf_len[s]
  BY <1>1 DEF RingInv, CopyInv, ChunksFit, Goto, CopyLabels, TypeOK, CallType
<1>5. SyncType'
  BY DEF RingInv, TypeOK, SyncType, Enter, sems, flags
<1>6. CallType'
  <2>1. pc' \in [Tasks -> Labels]
    BY <1>1, <1>2 DEF Goto, RingInv, TypeOK, CallType
  <2> QED
    BY <2>1 DEF RingInv, TypeOK, CallType, Enter
<1>7. \A s \in Callers : buf_len'[s] >= chunk[s]
  BY <1>4 DEF Enter, RingInv, TypeOK, CallType
<1> QED
  BY <1>1, <1>2, <1>3, <1>5, <1>6, <1>7, OutsideStep DEF Enter

(* A step that moves a task and touches at most semaphores, flags and the result. *)
LEMMA MoveStep ==
  ASSUME RingInv, NEW t \in Tasks, NEW from \in Labels \ CopyLabels, NEW to \in Labels \ CopyLabels,
         to \in ReaderLabels => t \in Readers,
         to \in WriterLabels => t \in Writers,
         to \in ControllerLabels => t \in Controllers,
         Goto(t, from, to), UNCHANGED <<ring, lock, buf_len, moved, chunk, forever, hist>>,
         SyncType', ret' \in [Callers -> Int]
  PROVE  RingInv'
<1>1. pc' \in [Tasks -> Labels]
  BY DEF RingInv, TypeOK, CallType, Goto
<1>2. CallType'
  BY <1>1 DEF RingInv, TypeOK, CallType
<1>3. \A s \in Callers : buf_len'[s] >= chunk[s]
  BY DEF RingInv, CopyInv, ChunksFit, TypeOK, CallType
<1> QED
  BY <1>2, <1>3, OutsideStep

(* rb_read never asks for more than it wants or than there is. *)
LEMMA ReadSizeFits ==
  ASSUME RingInv, NEW n \in Nat
  PROVE  ReadSize(n) \in Nat /\ ReadSize(n) =< n /\ ReadSize(n) =< fill_cnt
BY RingAssumption DEF RingInv, TypeOK, RingType, ReadSize, Words, WordSize

(* rb_write never asks for more than it wants or than is free. *)
LEMMA WriteSizeFits ==
  ASSUME RingInv, NEW n \in Nat
  PROVE  WriteSize(n) \in Nat /\ WriteSize(n) =< n /\ WriteSize(n) =< BytesAvailable
BY RingAssumption DEF RingInv, TypeOK, RingType, WriteSize, BytesAvailable

(* The error codes are integers. *)
LEMMA Codes == RB_DONE \in Int /\ RB_ABORT \in Int /\ RB_TIMEOUT \in Int
BY DEF RB_DONE, RB_ABORT, RB_TIMEOUT

(* A call returns: its locals are cleared. *)
LEMMA ReturnStep ==
  ASSUME RingInv, NEW t \in Callers, NEW from \in Labels \ CopyLabels,
         Return(t, from), SyncType'
  PROVE  RingInv'
<1> USE DEF Return
<1>1. "idle" \in Labels \ CopyLabels
  BY DEF Labels, CopyLabels
<1>2. "idle" \notin ReaderLabels \cup WriterLabels \cup ControllerLabels
  BY DEF ReaderLabels, WriterLabels, ControllerLabels
<1>3. Result(t) \in Int
  BY Codes DEF Result, RingInv, TypeOK, CallType
<1>4. pc' \in [Tasks -> Labels]
  BY <1>1 DEF RingInv, TypeOK, CallType, Goto
<1>5. CallType'
  BY <1>3, <1>4 DEF RingInv, TypeOK, CallType
<1>6. chunk[t] = 0 /\ \A s \in Callers : chunk[s] =< buf_len[s]
  BY DEF RingInv, CopyInv, ChunksFit, Goto, TypeOK, CallType
<1>7. \A s \in Callers : buf_len'[s] >= chunk[s]
  BY <1>6 DEF RingInv, TypeOK, CallType
<1> QED
  BY <1>1, <1>2, <1>5, <1>7, OutsideStep DEF Tasks

(* Every step of rb_read keeps the invariant. *)
LEMMA ReaderStepInv ==
  ASSUME RingInv, NEW r \in Readers, ReaderStep(r)
  PROVE  RingInv'
<1>0. r \in Tasks /\ r \in Callers /\ r \notin Writers
  BY RingAssumption DEF Tasks, Callers
<1> USE DEF Labels, CopyLabels, ReaderLabels, WriterLabels, ControllerLabels
<1>1. CASE RLock(r)
  BY <1>0, <1>1, ReadSizeFits, AcquireStep DEF RLock, RingInv, TypeOK, CallType
<1>2. CASE REmpty(r)
  BY <1>0, <1>2, ReleaseStep DEF REmpty
<1>3. CASE RCopy(r)
  BY <1>3, ReaderCopy
<1>4. ASSUME NEW flag, NEW v \in Int, NEW from \in Labels \ CopyLabels, NEW next \in ReaderLabels \ CopyLabels,
             CheckFlag(r, from, flag, v, "r_end", next)
      PROVE  RingInv'
  <2>1. PICK to \in ReaderLabels \ CopyLabels : Goto(r, from, to)
    BY <1>4 DEF CheckFlag
  <2>2. SyncType' /\ ret' \in [Callers -> Int]
    BY <1>4 DEF CheckFlag, RingInv, TypeOK, CallType, SyncType, sems, flags
  <2> QED
    BY <1>0, <1>4, <2>1, <2>2, MoveStep DEF CheckFlag
<1>5. CASE RDone(r) \/ RAbort(r) \/ RUnblock(r)
  BY <1>4, <1>5, Codes DEF RDone, RAbort, RUnblock
<1>6. CASE RGive(r)
  <2>1. SyncType' /\ ret' \in [Callers -> Int]
    BY <1>6 DEF RGive, GiveWrite, RingInv, TypeOK, CallType, SyncType, flags, call
  <2> QED
    BY <1>0, <1>6, <2>1, MoveStep DEF RGive, GiveWrite, call
<1>7. CASE RWake(r)
  <2>1. SyncType' /\ ret' \in [Callers -> Int]
    BY <1>7 DEF RWake, RingInv, TypeOK, CallType, SyncType, flags, call
  <2> QED
    BY <1>0, <1>7, <2>1, MoveStep DEF RWake, call
<1>8. CASE RTimeout(r)
  <2>1. SyncType' /\ ret' \in [Callers -> Int]
    BY <1>8, Codes DEF RTimeout, TimedOut, RingInv, TypeOK, CallType, SyncType, flags, sems
  <2> QED
    BY <1>0, <1>8, <2>1, MoveStep DEF RTimeout, TimedOut
<1>9. CASE REnd(r)
  <2>1. SyncType' /\ ret' \in [Callers -> Int]
    BY <1>9 DEF REnd, RingInv, TypeOK, CallType, SyncType, flags, call
  <2> QED
    BY <1>0, <1>9, <2>1, MoveStep DEF REnd, call
<1>10. CASE RRet(r)
  <2>1. SyncType'
    BY <1>10 DEF RRet, Return, RingInv, TypeOK, SyncType, sems
  <2> QED
    BY <1>0, <1>10, <2>1, ReturnStep DEF RRet
<1> QED
  BY <1>1, <1>2, <1>3, <1>5, <1>6, <1>7, <1>8, <1>9, <1>10 DEF ReaderStep

(* Every step of rb_write keeps the invariant. *)
LEMMA WriterStepInv ==
  ASSUME RingInv, NEW w \in Writers, WriterStep(w)
  PROVE  RingInv'
<1>0. w \in Tasks /\ w \in Callers /\ w \notin Readers
  BY RingAssumption DEF Tasks, Callers
<1> USE DEF Labels, CopyLabels, ReaderLabels, WriterLabels, ControllerLabels
<1>1. CASE WLock(w)
  BY <1>0, <1>1, WriteSizeFits, AcquireStep DEF WLock, RingInv, TypeOK, CallType
<1>2. CASE WEmpty(w)
  BY <1>0, <1>2, ReleaseStep DEF WEmpty
<1>3. CASE WCopy(w)
  BY <1>3, WriterCopy
<1>4. ASSUME NEW flag, NEW v \in Int, NEW from \in Labels \ CopyLabels, NEW next \in WriterLabels \ CopyLabels,
             CheckFlag(w, from, flag, v, "w_end", next)
      PROVE  RingInv'
  <2>1. PICK to \in WriterLabels \ CopyLabels : Goto(w, from, to)
    BY <1>4 DEF CheckFlag
  <2>2. SyncType' /\ ret' \in [Callers -> Int]
    BY <1>4 DEF CheckFlag, RingInv, TypeOK, CallType, SyncType, sems, flags
  <2> QED
    BY <1>0, <1>4, <2>1, <2>2, MoveStep DEF CheckFlag
<1>5. CASE WDone(w) \/ WAbort(w)
  BY <1>4, <1>5, Codes DEF WDone, WAbort
<1>6. CASE WGive(w)
  <2>1. SyncType' /\ ret' \in [Callers -> Int]
    BY <1>6 DEF WGive, GiveRead, RingInv, TypeOK, CallType, SyncType, flags, call
  <2> QED
    BY <1>0, <1>6, <2>1, MoveStep DEF WGive, GiveRead, call
<1>7. CASE WWake(w)
  <2>1. SyncType' /\ ret' \in [Callers -> Int]
    BY <1>7 DEF WWake, RingInv, TypeOK, CallType, SyncType, flags, call
  <2> QED
    BY <1>0, <1>7, <2>1, MoveStep DEF WWake, call
<1>8. CASE WTimeout(w)
  <2>1. SyncType' /\ ret' \in [Callers -> Int]
    BY <1>8, Codes DEF WTimeout, TimedOut, RingInv, TypeOK, CallType, SyncType, flags, sems
  <2> QED
    BY <1>0, <1>8, <2>1, MoveStep DEF WTimeout, TimedOut
<1>9. CASE WEnd(w)
  <2>1. SyncType'
    BY <1>9 DEF WEnd, Return, RingInv, TypeOK, SyncType, flags
  <2> QED
    BY <1>0, <1>9, <2>1, ReturnStep DEF WEnd
<1> QED
  BY <1>1, <1>2, <1>3, <1>5, <1>6, <1>7, <1>8, <1>9 DEF WriterStep

(* The calls that change a flag and give a semaphore keep the invariant. *)
LEMMA ControllerStepInv ==
  ASSUME RingInv, NEW c \in Controllers,
         ControllerStep(c) \/ rb_done_write(c) \/ rb_unblock_reader(c) \/ rb_abort(c)
  PROVE  RingInv'
<1>0. c \in Tasks
  BY DEF Tasks
<1> USE DEF Labels, CopyLabels, ReaderLabels, WriterLabels, ControllerLabels
<1>1. CASE ControllerStep(c)
  <2>1. PICK from \in ControllerLabels, to \in ControllerLabels \cup {"idle"} : Goto(c, from, to)
    BY <1>1 DEF ControllerStep, GiveRead, GiveWrite, rb_abort_write
  <2>2. SyncType' /\ ret' \in [Callers -> Int]
    BY <1>1 DEF ControllerStep, GiveRead, GiveWrite, rb_abort_write, RingInv, TypeOK, CallType, SyncType, sems, flags, call
  <2> QED
    BY <1>0, <1>1, <2>1, <2>2, MoveStep DEF ControllerStep, GiveRead, GiveWrite, rb_abort_write, call
<1>2. CASE rb_done_write(c) \/ rb_unblock_reader(c) \/ rb_abort(c)
  <2>1. PICK to \in ControllerLabels : Goto(c, "idle", to)
    BY <1>2 DEF rb_done_write, rb_unblock_reader, rb_abort
  <2>2. SyncType' /\ ret' \in [Callers -> Int]
    BY <1>2 DEF rb_done_write, rb_unblock_reader, rb_abort, RingInv, TypeOK, CallType, SyncType, sems, flags, call
  <2> QED
    BY <1>0, <1>2, <2>1, <2>2, MoveStep DEF rb_done_write, rb_unblock_reader, rb_abort, call
<1> QED
  BY <1>1, <1>2

(* rb_reset keeps the invariant when no call is running. *)
LEMMA ResetInv ==
  ASSUME RingInv, ~ ResetWhileBusy, NEW c \in Controllers, rb_reset(c)
  PROVE  RingInv'
<1> USE DEF RingInv, TypeOK, CopyInv, rb_reset
<1>1. RingType' /\ HistType' /\ PointersAgree' /\ Initialised'
  BY RingAssumption DEF RingType, HistType, PointersAgree, Initialised
<1>2. SyncType' /\ CallType' /\ LabelsFit' /\ LockHeld'
  BY DEF SyncType, CallType, sems, call, LabelsFit, LockHeld
<1>3. \A t \in Callers : chunk[t] = 0
  <2>1. \A t \in Tasks : pc[t] = "idle"
    OBVIOUS
  <2>2. \A t \in Callers : pc[t] \notin CopyLabels
    BY <2>1 DEF Tasks, CopyLabels
  <2> SUFFICES ASSUME NEW t \in Callers PROVE chunk[t] = 0
    OBVIOUS
  <2>3. chunk[t] \in Nat
    BY DEF CallType
  <2>4. ~ (chunk[t] > 0)
    BY <2>2 DEF ChunksFit
  <2> QED
    BY <2>3, <2>4
<1>4. ChunksFit'
  BY <1>3, RingAssumption DEF ChunksFit, call, BytesAvailable, Callers
<1> QED
  BY <1>1, <1>2, <1>4

(* So does every step that leaves the ring alone. *)
LEMMA StutterInv ==
  ASSUME RingInv, UNCHANGED vars
  PROVE  RingInv'
BY DEF vars, ring, sems, flags, call, hist, RingInv, TypeOK, CopyInv, RingType, SyncType,
   CallType, HistType, LabelsFit, LockHeld, ChunksFit, Initialised, PointersAgree, BytesAvailable, Slot

(* Every step of every task keeps the invariant. *)
LEMMA StepInv ==
  ASSUME RingInv, ~ ResetWhileBusy, [Next]_vars
  PROVE  RingInv'
<1>1. CASE ReadCall
  BY <1>1, RingAssumption, EnterStep DEF ReadCall, rb_read, Callers
<1>2. CASE WriteCall
  BY <1>2, RingAssumption, EnterStep DEF WriteCall, rb_write, Callers
<1>3. CASE ControlCall
  BY <1>3, ControllerStepInv, ResetInv DEF ControlCall
<1>4. CASE \E r \in Readers : ReaderStep(r)
  BY <1>4, ReaderStepInv
<1>5. CASE \E w \in Writers : WriterStep(w)
  BY <1>5, WriterStepInv
<1>6. CASE \E c \in Controllers : ControllerStep(c)
  BY <1>6, ControllerStepInv
<1>7. CASE UNCHANGED vars
  BY <1>7, StutterInv
<1> QED
  BY <1>1, <1>2, <1>3, <1>4, <1>5, <1>6, <1>7 DEF Next

(* For any number of readers, writers and other tasks and any ring size, as long as
   rb_reset waits for an idle ring: all variables keep their types, the mutex owner
   is alone in its critical section, chunks computed under the mutex still fit when
   they are copied, the pointers agree with fill_cnt and no byte is handed out that no
   writer stored (src/ringbuf.c, rb_read and rb_write). *)
THEOREM RingIsSafe ==
  ASSUME ~ ResetWhileBusy
  PROVE  Spec => [](TypeOK /\ CopyInv)
<1>1. RingInv /\ [Next]_vars => RingInv'
  BY StepInv
<1>2. RingInv => TypeOK /\ CopyInv
  BY DEF RingInv
<1> QED
  BY InitInv, <1>1, <1>2, PTL DEF Spec

(* Every variable keeps its type: the counter stays in 0..Size and both pointers in
   the memory block, however the calls interleave (struct ringbuf). *)
COROLLARY RingIsTyped ==
  ASSUME ~ ResetWhileBusy
  PROVE  Spec => []TypeOK
BY RingIsSafe, PTL

-------------------------------------------------------------------------------
(* Nothing happens in a call of task s; it may make a call that changes a flag. *)
NoCallOf(s) ==
  /\ UNCHANGED <<buf_len[s], moved[s], chunk[s], forever[s], ret[s]>>
  /\ pc'[s] = pc[s] \/ {pc[s], pc'[s]} \subseteq {"idle"} \cup ControllerLabels

(* The steps of a task that calls rb_read, and of one that calls rb_write. *)
ReadStep(r)  == r \in Readers /\ (ReaderStep(r) \/ \E n \in Nat, f \in BOOLEAN : rb_read(r, n, f))
WriteStep(w) == w \in Writers /\ (WriterStep(w) \/ \E n \in Nat, f \in BOOLEAN : rb_write(w, n, f))

(* The steps of a task that calls anything else. *)
ControlStep(c) ==
  /\ c \in Controllers
  /\ ControllerStep(c) \/ rb_done_write(c) \/ rb_unblock_reader(c) \/ rb_abort(c) \/ rb_reset(c)

(* A call of one task is out of reach of the others. *)
LEMMA OthersAlone ==
  ASSUME RingInv, NEW s \in Callers, NEW t \in Tasks, s # t,
         ReadStep(t) \/ WriteStep(t)
  PROVE  NoCallOf(s) /\ pc'[s] = pc[s]
<1> USE DEF RingInv, TypeOK, CallType, Goto, NoCallOf
<1>0. s \in Tasks
  BY DEF Tasks
<1>1. CASE ReaderStep(t)
  BY <1>0, <1>1 DEF ReaderStep, RLock, Acquire, REmpty, ReleaseEmpty, RCopy, Count, RDone, RAbort, RUnblock,
     CheckFlag, RGive, GiveWrite, RWake, RTimeout, TimedOut, REnd, RRet, Return, call
<1>2. CASE WriterStep(t)
  BY <1>0, <1>2 DEF WriterStep, WLock, Acquire, WEmpty, ReleaseEmpty, WCopy, Count, WDone, WAbort,
     CheckFlag, WGive, GiveRead, WWake, WTimeout, TimedOut, WEnd, Return, call
<1>3. CASE \E n \in Nat, f \in BOOLEAN : rb_read(t, n, f) \/ rb_write(t, n, f)
  BY <1>0, <1>3 DEF rb_read, rb_write, Enter
<1> QED
  BY <1>1, <1>2, <1>3 DEF ReadStep, WriteStep

(* Flags are changed between calls, also by a task that has calls. *)
LEMMA ControlAlone ==
  ASSUME RingInv, NEW s \in Callers, NEW c \in Tasks, ControlStep(c)
  PROVE  NoCallOf(s)
<1> USE DEF RingInv, TypeOK, CallType, Goto, NoCallOf
<1>0. s \in Tasks
  BY DEF Tasks
<1>1. CASE c = s
  BY <1>0, <1>1 DEF ControlStep, ControllerStep, GiveRead, GiveWrite, rb_abort_write, rb_done_write,
     rb_unblock_reader, rb_abort, rb_reset, call, ControllerLabels
<1>2. CASE c # s
  BY <1>0, <1>2 DEF ControlStep, ControllerStep, GiveRead, GiveWrite, rb_abort_write, rb_done_write,
     rb_unblock_reader, rb_abort, rb_reset, call
<1> QED
  BY <1>1, <1>2

(* So a step is one of the task's own call or leaves it alone. *)
LEMMA StepsOfACall ==
  ASSUME RingInv, [Next]_vars, NEW s \in Callers
  PROVE  ReadStep(s) \/ WriteStep(s) \/ NoCallOf(s)
<1>1. CASE UNCHANGED vars
  BY <1>1 DEF vars, call, NoCallOf
<1>2. ASSUME NEW t \in Callers, ReadStep(t) \/ WriteStep(t)
      PROVE  ReadStep(s) \/ WriteStep(s) \/ NoCallOf(s)
  <2>1. CASE t = s
    BY <1>2, <2>1
  <2>2. CASE t # s
    BY <1>2, <2>2, OthersAlone DEF Tasks
  <2> QED
    BY <2>1, <2>2
<1>3. CASE ReadCall
  <2>1. PICK t \in Readers, n \in Nat, f \in BOOLEAN : rb_read(t, n, f)
    BY <1>3, RingAssumption DEF ReadCall
  <2> QED
    BY <1>2, <2>1 DEF ReadStep, Callers
<1>4. CASE WriteCall
  <2>1. PICK t \in Writers, n \in Nat, f \in BOOLEAN : rb_write(t, n, f)
    BY <1>4, RingAssumption DEF WriteCall
  <2> QED
    BY <1>2, <2>1 DEF WriteStep, Callers
<1>5. CASE \E r \in Readers : ReaderStep(r)
  BY <1>2, <1>5 DEF ReadStep, Callers
<1>6. CASE \E w \in Writers : WriterStep(w)
  BY <1>2, <1>6 DEF WriteStep, Callers
<1>7. CASE ControlCall \/ \E c \in Controllers : ControllerStep(c)
  <2>1. PICK c \in Controllers : ControlStep(c)
    BY <1>7 DEF ControlCall, ControlStep
  <2> QED
    BY <2>1, ControlAlone DEF Tasks
<1> QED
  BY <1>1, <1>3, <1>4, <1>5, <1>6, <1>7 DEF Next

-------------------------------------------------------------------------------
(* Before the end of the stream is declared a reader that still wants bytes has moved
   whole words, and the round it is in moves whole words or all it wants. *)
RoundsAligned ==
  \A r \in Readers :
    /\ pc[r] \in {"idle"} \cup ControllerLabels => moved[r] = 0
    /\ ~ is_done_write =>
         /\ buf_len[r] > 0 => moved[r] % WordSize = 0
         /\ chunk[r] = buf_len[r] \/ chunk[r] % WordSize = 0

(* The mask leaves whole words, and words make words. *)
LEMMA WordsAligned ==
  /\ \A n \in Nat : Words(n) % WordSize = 0
  /\ \A m, n \in Nat : m % WordSize = 0 /\ n % WordSize = 0 => (m + n) % WordSize = 0
  /\ 0 % WordSize = 0
BY DEF Words, WordSize

(* Only a reset of the idle ring takes the end of the stream back. *)
LEMMA DoneStays ==
  ASSUME RingInv, [Next]_vars, ~ ResetWhileBusy, is_done_write, ~ is_done_write'
  PROVE  \A t \in Tasks : pc[t] = "idle" /\ pc'[t] = "idle"
<1>1. PICK c \in Controllers : rb_reset(c)
  BY DEF Next, vars, flags, ReadCall, WriteCall, ControlCall, rb_read, rb_write, Enter, rb_done_write,
     rb_unblock_reader, rb_abort, ControllerStep, GiveRead, GiveWrite, rb_abort_write,
     ReaderStep, RLock, Acquire, REmpty, ReleaseEmpty, RCopy, Count, RDone, RAbort, RUnblock,
     CheckFlag, RGive, RWake, RTimeout, TimedOut, REnd, RRet, Return, WriterStep, WLock, WEmpty,
     WCopy, WDone, WAbort, WGive, WWake, WTimeout, WEnd
<1> QED
  BY <1>1 DEF rb_reset

(* A task between calls is in no round. *)
LEMMA IdleIsEmpty ==
  ASSUME RingInv, NEW t \in Callers, pc[t] \notin CopyLabels
  PROVE  chunk[t] = 0
<1>1. chunk[t] \in Nat /\ ~ (chunk[t] > 0)
  BY DEF RingInv, TypeOK, CallType, CopyInv, ChunksFit
<1> QED
  BY <1>1

(* What the steps of rb_read make of it. *)
LEMMA ReadKeepsAligned ==
  ASSUME RingInv, RoundsAligned, NEW r \in Readers, ReadStep(r), is_done_write => is_done_write'
  PROVE  /\ pc'[r] \in {"idle"} \cup ControllerLabels => moved'[r] = 0
         /\ ~ is_done_write' =>
              /\ buf_len'[r] > 0 => moved'[r] % WordSize = 0
              /\ chunk'[r] = buf_len'[r] \/ chunk'[r] % WordSize = 0
<1>0. /\ r \in Callers /\ r \in Tasks
      /\ pc[r] \in Labels /\ pc \in [Tasks -> Labels]
      /\ buf_len \in [Callers -> Nat] /\ moved \in [Callers -> Nat] /\ chunk \in [Callers -> Nat]
      /\ fill_cnt \in Nat
  BY RingAssumption DEF RingInv, TypeOK, CallType, RingType, Callers, Tasks
<1> DEFINE Good == /\ pc'[r] \in {"idle"} \cup ControllerLabels => moved'[r] = 0
                   /\ ~ is_done_write' =>
                        /\ buf_len'[r] > 0 => moved'[r] % WordSize = 0
                        /\ chunk'[r] = buf_len'[r] \/ chunk'[r] % WordSize = 0
<1>1. CASE \E n \in Nat, f \in BOOLEAN : rb_read(r, n, f)
  <2>1. PICK n \in Nat : /\ pc[r] = "idle" /\ pc'[r] \in {"r_lock", "r_end"}
                         /\ buf_len'[r] = n /\ moved' = moved /\ chunk' = chunk
    BY <1>0, <1>1 DEF rb_read, Enter, Goto
  <2>2. moved'[r] = 0 /\ chunk'[r] = 0
    BY <1>0, <2>1, IdleIsEmpty DEF RoundsAligned, CopyLabels
  <2> QED
    BY <2>2, WordsAligned
<1>2. CASE RLock(r)
  <2>1. /\ pc'[r] = "r_copy" /\ buf_len' = buf_len /\ moved' = moved
        /\ chunk'[r] = ReadSize(buf_len[r]) /\ is_done_write' = is_done_write
    BY <1>0, <1>2 DEF RLock, Acquire, Goto, flags
  <2>2. ~ is_done_write => chunk'[r] = buf_len[r] \/ chunk'[r] = Words(fill_cnt)
    BY <2>1 DEF ReadSize
  <2> QED
    BY <1>0, <2>1, <2>2, WordsAligned DEF RoundsAligned, ControllerLabels
<1>3. CASE RCopy(r)
  <2> DEFINE k == chunk[r]
  <2>1. /\ pc'[r] \in {"r_end", "r_lock"} /\ buf_len'[r] = buf_len[r] - k /\ moved'[r] = moved[r] + k
        /\ chunk'[r] = 0 /\ is_done_write' = is_done_write
    BY <1>0, <1>3 DEF RCopy, Count, Goto, flags
  <2>2. ASSUME ~ is_done_write, buf_len'[r] > 0
        PROVE  moved'[r] % WordSize = 0
    <3>1. k # buf_len[r] /\ buf_len[r] > 0
      BY <1>0, <2>1, <2>2
    <3>2. k % WordSize = 0 /\ moved[r] % WordSize = 0
      BY <2>2, <3>1 DEF RoundsAligned
    <3> QED
      BY <1>0, <2>1, <3>2, WordsAligned
  <2> QED
    BY <2>1, <2>2, WordsAligned DEF ControllerLabels
<1>4. CASE RRet(r)
  <2>1. buf_len'[r] = 0 /\ moved'[r] = 0 /\ chunk' = chunk /\ pc[r] = "r_ret"
    BY <1>0, <1>4 DEF RRet, Return, Goto
  <2>2. chunk'[r] = 0
    BY <1>0, <2>1, IdleIsEmpty DEF CopyLabels
  <2> QED
    BY <2>1, <2>2, WordsAligned
<1>5. CASE REmpty(r) \/ RDone(r) \/ RAbort(r) \/ RUnblock(r) \/ RGive(r) \/ RWake(r) \/ RTimeout(r) \/ REnd(r)
  <2>1. /\ pc'[r] \in ReaderLabels /\ UNCHANGED <<buf_len, moved, chunk, is_done_write>>
    BY <1>0, <1>5 DEF REmpty, ReleaseEmpty, RDone, RAbort, RUnblock, CheckFlag, RGive, GiveWrite, RWake,
       RTimeout, TimedOut, REnd, Goto, flags, call, ReaderLabels
  <2> QED
    BY <2>1 DEF RoundsAligned, ReaderLabels, ControllerLabels
<1> QED
  BY <1>1, <1>2, <1>3, <1>4, <1>5 DEF ReadStep, ReaderStep

(* And all other steps. *)
LEMMA NextKeepsAligned ==
  ASSUME RingInv, RoundsAligned, ~ ResetWhileBusy, [Next]_vars
  PROVE  RoundsAligned'
<1> SUFFICES ASSUME NEW r \in Readers
             PROVE  /\ pc'[r] \in {"idle"} \cup ControllerLabels => moved'[r] = 0
                    /\ ~ is_done_write' =>
                         /\ buf_len'[r] > 0 => moved'[r] % WordSize = 0
                         /\ chunk'[r] = buf_len'[r] \/ chunk'[r] % WordSize = 0
  BY DEF RoundsAligned
<1>0. r \in Callers /\ r \in Tasks /\ r \notin Writers
  BY RingAssumption DEF Callers, Tasks
<1>1. CASE is_done_write /\ ~ is_done_write'
  <2>1. pc[r] = "idle" /\ pc'[r] = "idle"
    BY <1>0, <1>1, DoneStays
  <2>2. moved[r] = 0 /\ chunk[r] = 0
    BY <1>0, <2>1, IdleIsEmpty DEF RoundsAligned, CopyLabels
  <2>3. NoCallOf(r)
    <3>1. ~ ReadStep(r)
      BY <1>0, <1>1 DEF ReadStep, rb_read, Enter, flags, ReaderStep, RLock, Acquire, REmpty, ReleaseEmpty, RCopy,
         Count, RDone, RAbort, RUnblock, CheckFlag, RGive, GiveWrite, RWake, RTimeout, TimedOut, REnd, RRet, Return
    <3> QED
      BY <1>0, <3>1, StepsOfACall DEF WriteStep
  <2> QED
    BY <2>2, <2>3, WordsAligned DEF NoCallOf
<1>2. CASE ReadStep(r) /\ (is_done_write => is_done_write')
  BY <1>2, ReadKeepsAligned
<1>3. CASE ~ ReadStep(r) /\ (is_done_write => is_done_write')
  <2>1. NoCallOf(r)
    BY <1>0, <1>3, StepsOfACall DEF WriteStep
  <2> QED
    BY <1>3, <2>1 DEF NoCallOf, RoundsAligned
<1> QED
  BY <1>1, <1>2, <1>3

(* For any number of tasks, any lengths and any size, if rb_reset waits for an idle
   ring: until the end of the stream is declared a read that comes back short has moved
   whole words over all its rounds (the mask in rb_read). *)
THEOREM ShortReadsAreWhole ==
  ASSUME ~ ResetWhileBusy
  PROVE  Spec => []ShortReadsAligned
<1>1. Init => RoundsAligned
  BY WordsAligned, RingAssumption DEF Init, RoundsAligned, Callers
<1>2. RingInv /\ RoundsAligned /\ [Next]_vars => RingInv' /\ RoundsAligned'
  BY StepInv, NextKeepsAligned
<1>3. RoundsAligned => ShortReadsAligned
  BY DEF RoundsAligned, ShortReadsAligned
<1> QED
  BY InitInv, <1>1, <1>2, <1>3, PTL DEF Spec

===============================================================================
