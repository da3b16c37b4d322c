------------------------------- MODULE RingBuf -------------------------------
(***************************************************************************)
(* The blocking ring buffer of src/ringbuf.c, shared by any number of      *)
(* FreeRTOS tasks.                                                         *)
(*                                                                         *)
(* One step of a task is what it does between two points where another     *)
(* task can change something it reads next: the mutex acquire with the     *)
(* computation of the chunk, the copy with the mutex release, the read of  *)
(* one unprotected flag, one semaphore operation.  rb_read runs r_lock,    *)
(* r_copy, (r_done, r_abort, r_unblock, r_give, r_wait)*, r_end, r_ret;    *)
(* rb_write runs the w_ labels; the c_ labels are the calls that change a  *)
(* flag and then give a semaphore.  Memory is a function from offsets to   *)
(* bytes; a byte is <<writer, position in that writer's data>>.            *)
(***************************************************************************)
EXTENDS Integers, Sequences, FiniteSets

CONSTANTS
  Readers,         \* tasks that call rb_read
  Writers,         \* tasks that call rb_write
  Controllers,     \* tasks that call the other entry points
  Size,            \* block_size * n_blocks of rb_create
  ReadLens,        \* the buf_len values rb_read is called with
  WriteLens,       \* the buf_len values rb_write is called with
  Waits,           \* is ticks_to_wait portMAX_DELAY? a set of BOOLEANs
  Controls,        \* which of "done", "unblock", "abort", "reset" are called
  ResetWhileBusy,  \* may rb_reset be called while other calls are running?
  NoTask,          \* the owner of a free mutex
  MaxBytes         \* bound: bytes each writer may offer between two resets

ASSUME RingAssumption ==
  /\ Readers \cap Writers = {}
  /\ NoTask \notin Readers \cup Writers \cup Controllers
  /\ Size \in Nat \ {0}
  /\ ReadLens \subseteq Nat /\ WriteLens \subseteq Nat
  /\ Waits \subseteq BOOLEAN
  /\ ResetWhileBusy \in BOOLEAN
  /\ MaxBytes \in Nat

VARIABLES
  mem, p_r, p_w, fill_cnt,      \* struct ringbuf; pointers as offsets from p_o
  lock,                         \* owner of the mutex
  can_read, can_write,          \* binary semaphores: is the token there?
  abort_read, abort_write, is_done_write, unblock_reader_flag,
  pc,                           \* where each task is
  buf_len, moved, chunk,        \* locals: bytes wanted, total so far, this round
  forever,                      \* local: ticks_to_wait = portMAX_DELAY
  ret,                          \* ret_val of the running call, then its result
  sent,                         \* per writer, bytes copied in (the buf pointer)
  out                           \* history: bytes copied out, in order

ring  == <<mem, p_r, p_w, fill_cnt>>
sems  == <<can_read, can_write>>
flags == <<abort_read, abort_write, is_done_write, unblock_reader_flag>>
call  == <<buf_len, moved, chunk, forever, ret>>
hist  == <<sent, out>>
vars  == <<ring, lock, sems, flags, pc, call, hist>>

Callers == Readers \cup Writers
Tasks   == Callers \cup Controllers

RB_DONE    == -2
RB_ABORT   == -3
RB_TIMEOUT == -4

(***************************************************************************)
(* Four-byte words: read_size & 0xfffffffc.                                *)
(***************************************************************************)
WordSize == 4
Words_Unmasked(n) == n                       \* fault: the mask is left out
Words(n) == n - (n % WordSize)

(***************************************************************************)
(* A copy of k bytes at pointer p touches Slot(p, 0) .. Slot(p, k-1): up   *)
(* to the end of the memory, then from its start.  A pointer may rest one  *)
(* past the last byte.                                                     *)
(***************************************************************************)
Slot(p, j)    == IF p + j < Size THEN p + j ELSE p + j - Size
Offset(p, i)  == IF i >= p THEN i - p ELSE i + Size - p
Advance_Short(p, k) ==                       \* fault: rlen1 one too large
  IF p + k > Size THEN p + k - Size - 1 ELSE p + k
Advance(p, k) == IF p + k > Size THEN p + k - Size ELSE p + k

Blank    == <<"calloc", 0>>
Byte     == Writers \X (Nat \ {0})
Held(k)  == [j \in 1..k |-> mem[Slot(p_r, j - 1)]]
Contents == Held(fill_cnt)

BytesAvailable == Size - fill_cnt

Init ==
  /\ mem = [i \in 0..(Size - 1) |-> Blank]
  /\ p_r = 0 /\ p_w = 0 /\ fill_cnt = 0
  /\ lock = NoTask
  /\ can_read = FALSE /\ can_write = FALSE
  /\ abort_read = FALSE /\ abort_write = FALSE
  /\ is_done_write = FALSE /\ unblock_reader_flag = FALSE
  /\ pc = [t \in Tasks |-> "idle"]
  /\ buf_len = [t \in Callers |-> 0]
  /\ moved = [t \in Callers |-> 0]
  /\ chunk = [t \in Callers |-> 0]
  /\ forever = [t \in Callers |-> FALSE]
  /\ ret = [t \in Callers |-> 0]
  /\ sent = [w \in Writers |-> 0]
  /\ out = << >>

-------------------------------------------------------------------------------
(***************************************************************************)
(* Steps shared by the two calls.                                          *)
(***************************************************************************)
Goto(t, from, to) ==
  /\ pc[t] = from
  /\ pc' = [pc EXCEPT ![t] = to]

(* Entry: a call for n bytes enters its loop, or skips it when n = 0. *)
Enter(t, n, f, loop, end) ==
  /\ Goto(t, "idle", IF n = 0 THEN end ELSE loop)
  /\ buf_len' = [buf_len EXCEPT ![t] = n]
  /\ forever' = [forever EXCEPT ![t] = f]
  /\ ret' = [ret EXCEPT ![t] = 0]
  /\ UNCHANGED <<ring, lock, sems, flags, moved, chunk, hist>>

(* Fault: the size of the round is taken without waiting for the mutex. *)
Acquire_Barging(t, from, to, n) ==
  /\ Goto(t, from, to)
  /\ lock' = t
  /\ chunk' = [chunk EXCEPT ![t] = n]
  /\ UNCHANGED <<ring, sems, flags, buf_len, moved, forever, ret, hist>>

(* rb_block(rb->lock, portMAX_DELAY), then the size of this round. *)
Acquire(t, from, to, n) ==
  /\ lock = NoTask
  /\ Goto(t, from, to)
  /\ lock' = t
  /\ chunk' = [chunk EXCEPT ![t] = n]
  /\ UNCHANGED <<ring, sems, flags, buf_len, moved, forever, ret, hist>>

(* Nothing can be moved: release the mutex and look at the flags. *)
ReleaseEmpty(t, from, to) ==
  /\ chunk[t] = 0
  /\ Goto(t, from, to)
  /\ lock' = NoTask
  /\ UNCHANGED <<ring, sems, flags, call, hist>>

(* Fault: the mutex is not released after the copy. *)
Count_KeepsMutex(t, n) ==
  /\ buf_len' = [buf_len EXCEPT ![t] = @ - n]
  /\ moved' = [moved EXCEPT ![t] = @ + n]
  /\ chunk' = [chunk EXCEPT ![t] = 0]
  /\ UNCHANGED <<lock, sems, flags, forever, ret>>

(* The bookkeeping after a memcpy of n bytes, up to the mutex release. *)
Count(t, n) ==
  /\ buf_len' = [buf_len EXCEPT ![t] = @ - n]
  /\ moved' = [moved EXCEPT ![t] = @ + n]
  /\ chunk' = [chunk EXCEPT ![t] = 0]
  /\ lock' = NoTask
  /\ UNCHANGED <<sems, flags, forever, ret>>

(* One flag: leave the loop with code v when it is set. *)
CheckFlag(t, from, flag, v, end, next) ==
  /\ Goto(t, from, IF flag THEN end ELSE next)
  /\ ret' = [ret EXCEPT ![t] = IF flag THEN v ELSE @]
  /\ UNCHANGED <<ring, lock, sems, flags, buf_len, moved, chunk, forever, hist>>

GiveRead(t, from, to) ==
  /\ Goto(t, from, to)
  /\ can_read' = TRUE
  /\ UNCHANGED <<ring, lock, can_write, flags, call, hist>>

GiveWrite(t, from, to) ==
  /\ Goto(t, from, to)
  /\ can_write' = TRUE
  /\ UNCHANGED <<ring, lock, can_read, flags, call, hist>>

(* xSemaphoreTake that ran out of ticks without seeing the token. *)
TimedOut(t, token, from, end) ==
  /\ ~ token
  /\ ~ forever[t]
  /\ Goto(t, from, end)
  /\ ret' = [ret EXCEPT ![t] = RB_TIMEOUT]
  /\ UNCHANGED <<ring, lock, sems, flags, buf_len, moved, chunk, forever, hist>>

(* What a call returns: an abort hides the bytes it has moved. *)
Result(t) ==
  IF ret[t] = RB_ABORT THEN RB_ABORT
  ELSE IF moved[t] > 0 THEN moved[t] ELSE ret[t]

(* Return: the locals of the call are gone, ret is its result. *)
Return(t, from) ==
  /\ Goto(t, from, "idle")
  /\ ret' = [ret EXCEPT ![t] = Result(t)]
  /\ buf_len' = [buf_len EXCEPT ![t] = 0]
  /\ moved' = [moved EXCEPT ![t] = 0]
  /\ forever' = [forever EXCEPT ![t] = FALSE]
  /\ UNCHANGED <<ring, lock, chunk, hist>>

-------------------------------------------------------------------------------
(***************************************************************************)
(* rb_read                                                                 *)
(***************************************************************************)
ReadSize(n) ==
  IF fill_cnt >= n THEN n
  ELSE IF Words(fill_cnt) = 0 /\ is_done_write THEN fill_cnt
  ELSE Words(fill_cnt)

rb_read(r, n, f) == Enter(r, n, f, "r_lock", "r_end")

RLock(r)  == Acquire(r, "r_lock", "r_copy", ReadSize(buf_len[r]))
REmpty(r) == ReleaseEmpty(r, "r_copy", "r_done")

RCopy(r) ==
  LET k == chunk[r] IN
  /\ k > 0
  /\ Goto(r, "r_copy", IF buf_len[r] = k THEN "r_end" ELSE "r_lock")
  /\ out' = out \o Held(k)
  /\ p_r' = Advance(p_r, k)
  /\ fill_cnt' = fill_cnt - k
  /\ Count(r, k)
  /\ UNCHANGED <<mem, p_w, sent>>

RDone(r)    == CheckFlag(r, "r_done", is_done_write, RB_DONE, "r_end", "r_abort")
RAbort_Ignored(r) == CheckFlag(r, "r_abort", FALSE, RB_ABORT, "r_end", "r_unblock")
RAbort(r)   == CheckFlag(r, "r_abort", abort_read, RB_ABORT, "r_end", "r_unblock")
RUnblock_Ignored(r) == CheckFlag(r, "r_unblock", FALSE, RB_TIMEOUT, "r_end", "r_give")
RUnblock(r) == CheckFlag(r, "r_unblock", unblock_reader_flag, RB_TIMEOUT, "r_end", "r_give")
RGive_Missing(r) ==                          \* fault: the writer is not woken
  Goto(r, "r_give", "r_wait") /\ UNCHANGED <<ring, lock, sems, flags, call, hist>>
RGive(r)    == GiveWrite(r, "r_give", "r_wait")

RWake(r) ==
  /\ can_read
  /\ Goto(r, "r_wait", "r_lock")
  /\ can_read' = FALSE
  /\ UNCHANGED <<ring, lock, can_write, flags, call, hist>>

RTimeout(r) == TimedOut(r, can_read, "r_wait", "r_end")

REnd_Silent(r) ==                            \* fault: freed space is not announced
  Goto(r, "r_end", "r_ret") /\ UNCHANGED <<ring, lock, sems, flags, call, hist>>

REnd(r) ==
  /\ Goto(r, "r_end", "r_ret")
  /\ can_write' = (can_write \/ moved[r] > 0)
  /\ UNCHANGED <<ring, lock, can_read, flags, call, hist>>

RRet(r) ==
  /\ Return(r, "r_ret")
  /\ unblock_reader_flag' = FALSE
  /\ UNCHANGED <<sems, abort_read, abort_write, is_done_write>>

ReaderStep(r) ==
  \/ RLock(r) \/ REmpty(r) \/ RCopy(r)
  \/ RDone(r) \/ RAbort(r) \/ RUnblock(r) \/ RGive(r)
  \/ RWake(r) \/ RTimeout(r) \/ REnd(r) \/ RRet(r)

-------------------------------------------------------------------------------
(***************************************************************************)
(* rb_write                                                                *)
(***************************************************************************)
WriteSize_Greedy(n) == n                     \* fault: the free space is not asked for
WriteSize(n) == IF n < BytesAvailable THEN n ELSE BytesAvailable

rb_write(w, n, f) == Enter(w, n, f, "w_lock", "w_end")

WLock(w)  == Acquire(w, "w_lock", "w_copy", WriteSize(buf_len[w]))
WEmpty(w) == ReleaseEmpty(w, "w_copy", "w_done")

(* The byte that lands i places after p_w: buf has been advanced so far. *)
NextByte_Rewound(w, i) == <<w, sent[w] - moved[w] + i + 1>>   \* fault: buf stays
NextByte(w, i) == <<w, sent[w] + i + 1>>

WCopy(w) ==
  LET k == chunk[w] IN
  /\ k > 0
  /\ Goto(w, "w_copy", IF buf_len[w] = k THEN "w_end" ELSE "w_lock")
  /\ mem' = [i \in 0..(Size - 1) |->
               IF Offset(p_w, i) < k THEN NextByte(w, Offset(p_w, i))
               ELSE mem[i]]
  /\ p_w' = Advance(p_w, k)
  /\ fill_cnt' = fill_cnt + k
  /\ sent' = [sent EXCEPT ![w] = @ + k]
  /\ Count(w, k)
  /\ UNCHANGED <<p_r, out>>

WDone(w)  == CheckFlag(w, "w_done", is_done_write, RB_DONE, "w_end", "w_abort")
WAbort(w) == CheckFlag(w, "w_abort", abort_write, RB_ABORT, "w_end", "w_give")
WGive(w)  == GiveRead(w, "w_give", "w_wait")

WWake(w) ==
  /\ can_write
  /\ Goto(w, "w_wait", "w_lock")
  /\ can_write' = FALSE
  /\ UNCHANGED <<ring, lock, can_read, flags, call, hist>>

WTimeout(w) == TimedOut(w, can_write, "w_wait", "w_end")

WEnd_Silent(w) ==                            \* fault: new bytes are not announced
  Return(w, "w_end") /\ UNCHANGED <<sems, flags>>

WEnd(w) ==
  /\ Return(w, "w_end")
  /\ can_read' = (can_read \/ moved[w] > 0)
  /\ UNCHANGED <<can_write, flags>>

WriterStep(w) ==
  \/ WLock(w) \/ WEmpty(w) \/ WCopy(w)
  \/ WDone(w) \/ WAbort(w) \/ WGive(w)
  \/ WWake(w) \/ WTimeout(w) \/ WEnd(w)

-------------------------------------------------------------------------------
(***************************************************************************)
(* The calls that change a flag.  None of them takes the mutex.            *)
(***************************************************************************)
rb_done_write(c) ==
  /\ Goto(c, "idle", "c_give")
  /\ is_done_write' = TRUE
  /\ UNCHANGED <<ring, lock, sems, abort_read, abort_write, unblock_reader_flag, call, hist>>

rb_unblock_reader(c) ==
  /\ Goto(c, "idle", "c_give")
  /\ unblock_reader_flag' = TRUE
  /\ UNCHANGED <<ring, lock, sems, abort_read, abort_write, is_done_write, call, hist>>

rb_abort(c) ==
  /\ Goto(c, "idle", "c_abort_give_read")
  /\ abort_read' = TRUE
  /\ UNCHANGED <<ring, lock, sems, abort_write, is_done_write, unblock_reader_flag, call, hist>>

rb_abort_write(c) ==
  /\ Goto(c, "c_abort_write", "c_abort_give_write")
  /\ abort_write' = TRUE
  /\ UNCHANGED <<ring, lock, sems, abort_read, is_done_write, unblock_reader_flag, call, hist>>

ControllerStep(c) ==
  \/ GiveRead(c, "c_give", "idle")
  \/ GiveRead(c, "c_abort_give_read", "c_abort_write")
  \/ rb_abort_write(c)
  \/ GiveWrite(c, "c_abort_give_write", "idle")

(***************************************************************************)
(* rb_reset stores the initial values without taking the mutex and leaves  *)
(* the semaphores alone.  Callers that reset only an idle ring             *)
(* (~ResetWhileBusy) see one step.  The histories start again with it.     *)
(***************************************************************************)
rb_reset(c) ==
  /\ ResetWhileBusy \/ \A t \in Tasks : pc[t] = "idle"
  /\ pc[c] = "idle"
  /\ p_r' = 0 /\ p_w' = 0 /\ fill_cnt' = 0
  /\ is_done_write' = FALSE /\ unblock_reader_flag' = FALSE
  /\ abort_read' = FALSE /\ abort_write' = FALSE
  /\ sent' = [w \in Writers |-> 0] /\ out' = << >>
  /\ UNCHANGED <<mem, lock, sems, pc, call>>

-------------------------------------------------------------------------------
ReadCall  == \E r \in Readers, n \in ReadLens, f \in Waits : rb_read(r, n, f)

WriteCall ==
  \E w \in Writers, n \in WriteLens, f \in Waits :
    /\ sent[w] + n =< MaxBytes
    /\ rb_write(w, n, f)

ControlCall ==
  \E c \in Controllers :
    \/ "done" \in Controls /\ rb_done_write(c)
    \/ "unblock" \in Controls /\ rb_unblock_reader(c)
    \/ "abort" \in Controls /\ rb_abort(c)
    \/ "reset" \in Controls /\ rb_reset(c)

Next ==
  \/ ReadCall \/ WriteCall \/ ControlCall
  \/ \E r \in Readers : ReaderStep(r)
  \/ \E w \in Writers : WriterStep(w)
  \/ \E c \in Controllers : ControllerStep(c)

Spec == Init /\ [][Next]_vars

(***************************************************************************)
(* A task that can run does run, and a task that asks for the mutex gets   *)
(* it if it is free again and again: FreeRTOS queues the waiters of a      *)
(* mutex by priority and wakes the first when it is given.  Nobody is      *)
(* obliged to make a call.                                                 *)
(***************************************************************************)
Fairness ==
  /\ \A r \in Readers : WF_vars(ReaderStep(r)) /\ SF_vars(RLock(r))
  /\ \A w \in Writers : WF_vars(WriterStep(w)) /\ SF_vars(WLock(w))
  /\ \A c \in Controllers : WF_vars(ControllerStep(c))

FairSpec == Spec /\ Fairness
-------------------------------------------------------------------------------
(***************************************************************************)
(* Every variable keeps its type; in particular fill_cnt never leaves      *)
(* 0..Size and both pointers stay inside the memory block.                 *)
(***************************************************************************)
ReaderLabels ==
  {"r_lock", "r_copy", "r_done", "r_abort", "r_unblock", "r_give", "r_wait",
   "r_end", "r_ret"}
WriterLabels ==
  {"w_lock", "w_copy", "w_done", "w_abort", "w_give", "w_wait", "w_end"}
ControllerLabels ==
  {"c_give", "c_abort_give_read", "c_abort_write", "c_abort_give_write"}
Labels == {"idle"} \cup ReaderLabels \cup WriterLabels \cup ControllerLabels

RingType ==
  /\ mem \in [0..(Size - 1) -> Byte \cup {Blank}]
  /\ p_r \in 0..Size /\ p_w \in 0..Size /\ fill_cnt \in 0..Size

SyncType ==
  /\ lock \in Callers \cup {NoTask}
  /\ can_read \in BOOLEAN /\ can_write \in BOOLEAN
  /\ abort_read \in BOOLEAN /\ abort_write \in BOOLEAN
  /\ is_done_write \in BOOLEAN /\ unblock_reader_flag \in BOOLEAN

CallType ==
  /\ pc \in [Tasks -> Labels]
  /\ buf_len \in [Callers -> Nat]
  /\ moved \in [Callers -> Nat]
  /\ chunk \in [Callers -> Nat]
  /\ forever \in [Callers -> BOOLEAN]
  /\ ret \in [Callers -> Int]

HistType ==
  /\ sent \in [Writers -> Nat]
  /\ out \in Seq(Byte)

TypeOK == RingType /\ SyncType /\ CallType /\ HistType

(***************************************************************************)
(* The ring implements the abstract byte stream: copies under the mutex    *)
(* append and take, whatever the interleaving, the wrap-around and the     *)
(* number of partial rounds; all other steps change nothing a caller sees. *)
(***************************************************************************)
Stream == INSTANCE ByteStream
            WITH Sources <- Writers, Capacity <- Size, q <- Contents

ImplementsByteStream == Stream!Spec

(***************************************************************************)
(* The bytes of each writer come out in the order they were handed in,     *)
(* none missing and none twice, even when writers interleave inside one    *)
(* rb_write and a call returns early.                                      *)
(***************************************************************************)
BytesInOrder == Stream!InOrder

(***************************************************************************)
(* A reader that could make progress is never left asleep: if the bytes it *)
(* waits for are there and its token is not, some task is on its way to    *)
(* give the token.  This is what the order "release the mutex, look at the *)
(* flags, give, take" has to guarantee; it needs a single reader.          *)
(***************************************************************************)
Readable(r) == ReadSize(buf_len[r]) > 0

ReadSignalDue ==
  \/ \E w \in Writers :
       /\ moved[w] > 0
       /\ pc[w] \in {"w_lock", "w_copy", "w_done", "w_abort", "w_give", "w_end"}
  \/ \E c \in Controllers : pc[c] \in {"c_give", "c_abort_give_read"}

ReaderNotForgotten ==
  \A r \in Readers :
    pc[r] = "r_wait" /\ Readable(r) /\ ~ can_read => ReadSignalDue

(***************************************************************************)
(* The same for a writer waiting for space; it needs a single writer.      *)
(***************************************************************************)
WriteSignalDue ==
  \/ \E r \in Readers :
       /\ moved[r] > 0
       /\ pc[r] \in {"r_lock", "r_copy", "r_done", "r_abort", "r_unblock", "r_give", "r_end"}
  \/ \E c \in Controllers : pc[c] = "c_abort_give_write"

WriterNotForgotten ==
  \A w \in Writers :
    pc[w] = "w_wait" /\ fill_cnt < Size /\ ~ can_write => WriteSignalDue

(***************************************************************************)
(* A reader and a writer never sleep on each other: when every task is     *)
(* waiting or idle, and some wait for bytes and some for space, a token is *)
(* there to wake one.  A ring smaller than a word breaks this: it can be   *)
(* full and still hold no whole word to read.                              *)
(***************************************************************************)
AllAsleep == \A t \in Tasks : pc[t] \in {"idle", "r_wait", "w_wait"}

NoMutualWait ==
  \A r \in Readers, w \in Writers :
    AllAsleep /\ pc[r] = "r_wait" /\ pc[w] = "w_wait" => can_read \/ can_write

(***************************************************************************)
(* "non-multiple of 4(word size) bytes ... there is noise": a read that    *)
(* comes back with fewer bytes than asked for has moved whole words, over  *)
(* all its rounds, unless the writer has declared the end of the stream.   *)
(***************************************************************************)
ShortReadsAligned ==
  \A r \in Readers :
    pc[r] = "r_ret" /\ buf_len[r] > 0 /\ ~ is_done_write => moved[r] % WordSize = 0

(***************************************************************************)
(* A reader is told that the writer is done only when there is "no data to *)
(* read" (src/ringbuf.c:184) any more.                                     *)
(***************************************************************************)
DoneMeansDrained ==
  [][\A r \in Readers : pc[r] = "r_done" /\ ret'[r] = RB_DONE => fill_cnt = 0]_vars

(***************************************************************************)
(* Why the types hold: an inductive strengthening.  The owner of the mutex *)
(* is the one task in its critical section; a chunk computed there still   *)
(* fits when the memory is copied, and covers only bytes a writer has      *)
(* stored; the two pointers agree with the counter.                        *)
(***************************************************************************)
CopyLabels == {"r_copy", "w_copy"}

LabelsFit ==
  \A t \in Tasks :
    /\ pc[t] \in ReaderLabels => t \in Readers
    /\ pc[t] \in WriterLabels => t \in Writers
    /\ pc[t] \in ControllerLabels => t \in Controllers

LockHeld == \A t \in Callers : lock = t <=> pc[t] \in CopyLabels

ChunksFit ==
  /\ \A t \in Callers :
       /\ chunk[t] =< buf_len[t]
       /\ chunk[t] > 0 => pc[t] \in CopyLabels
  /\ \A r \in Readers : chunk[r] =< fill_cnt
  /\ \A w \in Writers : chunk[w] =< BytesAvailable

Initialised == \A j \in 0..(fill_cnt - 1) : mem[Slot(p_r, j)] \in Byte

(***************************************************************************)
(* The write pointer is fill_cnt bytes ahead of the read pointer, around   *)
(* the end of the memory if need be: the two pointers and the counter,     *)
(* which rb_read and rb_write update one after the other, never disagree.  *)
(***************************************************************************)
PointersAgree == p_w \in {p_r + fill_cnt, p_r + fill_cnt - Size}

CopyInv == LabelsFit /\ LockHeld /\ ChunksFit /\ Initialised /\ PointersAgree

(***************************************************************************)
(* Liveness, for one reader and one writer.  A waiting reader whose bytes  *)
(* are there gets some of them or returns; a waiting writer with space     *)
(* likewise; rb_unblock_reader and rb_abort end the calls they interrupt.  *)
(***************************************************************************)
ReaderWakes ==
  \A r \in Readers :
    pc[r] = "r_wait" /\ Readable(r)
      ~> pc[r] = "idle" \/ (pc[r] = "r_copy" /\ chunk[r] > 0)

WriterWakes ==
  \A w \in Writers :
    pc[w] = "w_wait" /\ fill_cnt < Size
      ~> pc[w] = "idle" \/ (pc[w] = "w_copy" /\ chunk[w] > 0)

UnblockReturns ==
  \A r \in Readers : unblock_reader_flag /\ pc[r] # "idle" ~> pc[r] = "idle"

AbortReturns ==
  \A t \in Callers : abort_read /\ abort_write /\ pc[t] # "idle" ~> pc[t] = "idle"
===============================================================================
