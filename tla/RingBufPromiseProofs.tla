---------------------------- MODULE RingBufPromiseProofs ----------------------------
(***************************************************************************)
(* What the ring buffer promises, for any callers and any size.  First the *)
(* bytes: a copy under the mutex is one Put or one Take of ByteStream, a   *)
(* reset is a Restart, all other steps stutter, and each writer's bytes    *)
(* are read in the order he wrote them.  Then the sleepers: no wake-up is  *)
(* lost.  ReaderWakeInv and WriterWakeInv say of each point between        *)
(* "nothing to move" and "asleep" that a change of the ring since then has *)
(* been announced or is about to be; the proof follows every way an        *)
(* announcement could disappear.                                           *)
(***************************************************************************)
EXTENDS RingBufProofs, SequenceTheorems, FiniteSetTheorems

(* What the ring holds is a sequence of fill_cnt bytes that writers stored. *)
LEMMA ContentsFacts ==
  ASSUME RingInv
  PROVE  /\ Contents \in Seq(Byte) /\ Len(Contents) = fill_cnt
         /\ \A j \in 1..fill_cnt : Contents[j] = mem[Slot(p_r, j - 1)]
<1>1. fill_cnt \in Nat
  BY RingAssumption DEF RingInv, TypeOK, RingType
<1>2. \A j \in 1..fill_cnt : mem[Slot(p_r, j - 1)] \in Byte
  BY <1>1 DEF RingInv, CopyInv, Initialised
<1>3. Contents = [j \in 1..fill_cnt |-> mem[Slot(p_r, j - 1)]]
  BY DEF Contents, Held
<1> QED
  BY <1>1, <1>2, <1>3

(* A copy of rb_read takes the oldest bytes of the stream. *)
LEMMA TakeStep ==
  ASSUME RingInv, NEW r \in Readers, RCopy(r)
  PROVE  Stream!Take(chunk[r]) /\ chunk[r] \in 1..Size
<1> DEFINE k == chunk[r]
<1>1. k \in 1..fill_cnt /\ fill_cnt \in 0..Size /\ Size \in Nat \ {0} /\ r \in Callers /\ p_r \in 0..Size
  BY RingAssumption DEF RCopy, RingInv, TypeOK, CopyInv, ChunksFit, CallType, RingType, Callers
<1>2. Contents \in Seq(Byte) /\ Len(Contents) = fill_cnt
  BY ContentsFacts
<1>3. Held(k) = SubSeq(Contents, 1, k)
  BY <1>1, <1>2, ContentsFacts DEF Held
<1>4. Contents' = SubSeq(Contents, k + 1, Len(Contents))
  <2>1. Contents' = [j \in 1..(fill_cnt - k) |-> mem[Slot(Advance(p_r, k), j - 1)]]
    BY DEF Contents, Held, RCopy, Slot
  <2>2. SubSeq(Contents, k + 1, fill_cnt) = [j \in 1..(fill_cnt - k) |-> Contents[j + k]]
    BY <1>1, <1>2
  <2>3. ASSUME NEW j \in 1..(fill_cnt - k)
        PROVE  Contents[j + k] = mem[Slot(Advance(p_r, k), j - 1)]
    <3> DEFINE i == j + k
    <3>1. i \in 1..fill_cnt
      BY <1>1
    <3>2. Slot(Advance(p_r, k), j - 1) = Slot(p_r, i - 1)
      BY <1>1 DEF Slot, Advance
    <3> HIDE DEF i
    <3>3. Contents[i] = mem[Slot(p_r, i - 1)]
      BY <3>1, ContentsFacts
    <3> QED
      BY <3>2, <3>3 DEF i
  <2> QED
    BY <1>2, <2>1, <2>2, <2>3
<1>5. out' = out \o Held(k) /\ sent' = sent
  BY DEF RCopy
<1> QED
  BY <1>1, <1>2, <1>3, <1>4, <1>5 DEF Stream!Take

(* A copy of rb_write appends the writer's next bytes to the stream. *)
LEMMA PutStep ==
  ASSUME RingInv, NEW w \in Writers, WCopy(w)
  PROVE  Stream!Put(w, chunk[w]) /\ chunk[w] \in 1..Size
<1> DEFINE k == chunk[w]
<1>1. k \in 1..(Size - fill_cnt) /\ fill_cnt \in 0..Size /\ Size \in Nat \ {0} /\ p_r \in 0..Size /\ p_w \in 0..Size
  BY RingAssumption DEF WCopy, RingInv, TypeOK, CopyInv, ChunksFit, CallType, RingType, Callers, BytesAvailable
<1>2. Contents \in Seq(Byte) /\ Len(Contents) = fill_cnt
  BY ContentsFacts
<1>3. Contents' = [j \in 1..(fill_cnt + k) |-> mem'[Slot(p_r, j - 1)]]
  BY DEF Contents, Held, WCopy, Slot
<1>4. ASSUME NEW j \in 1..fill_cnt
      PROVE  mem'[Slot(p_r, j - 1)] = Contents[j]
  <2>1. Slot(p_r, j - 1) \in 0..(Size - 1) /\ ~ (Offset(p_w, Slot(p_r, j - 1)) < k)
    BY <1>1 DEF Slot, Offset, RingInv, CopyInv, PointersAgree
  <2> QED
    BY <2>1, ContentsFacts DEF WCopy
<1>5. ASSUME NEW j \in 1..k
      PROVE  mem'[Slot(p_r, fill_cnt + j - 1)] = Stream!NextBytes(w, k)[j]
  <2>1. Slot(p_r, fill_cnt + j - 1) \in 0..(Size - 1) /\ fill_cnt + j - 1 \in fill_cnt..(fill_cnt + k - 1)
    BY <1>1 DEF Slot
  <2>2. Offset(p_w, Slot(p_r, fill_cnt + j - 1)) = fill_cnt + j - 1 - fill_cnt
    <3>1. p_w \in {p_r + fill_cnt, p_r + fill_cnt - Size}
      BY DEF RingInv, CopyInv, PointersAgree
    <3> QED
      BY <1>1, <2>1, <3>1 DEF Offset, Slot
  <2>3. Offset(p_w, Slot(p_r, fill_cnt + j - 1)) = j - 1
    BY <1>1, <2>2
  <2>4. mem'[Slot(p_r, fill_cnt + j - 1)] = NextByte(w, j - 1)
    BY <1>1, <2>1, <2>3 DEF WCopy
  <2>5. sent[w] + (j - 1) + 1 = sent[w] + j
    BY <1>1 DEF RingInv, TypeOK, HistType
  <2> QED
    BY <2>4, <2>5 DEF NextByte, Stream!NextBytes
<1>6. Contents' = Contents \o Stream!NextBytes(w, k)
  <2> DEFINE new == Stream!NextBytes(w, k)
  <2>1. \A j \in 1..k : <<w, sent[w] + j>> \in Byte
    BY <1>1 DEF Byte, RingInv, TypeOK, HistType
  <2>2. new \in Seq(Byte) /\ Len(new) = k
    <3>1. k \in Nat
      BY <1>1
    <3>2. new = [j \in 1..k |-> <<w, sent[w] + j>>]
      BY DEF Stream!NextBytes
    <3> HIDE DEF new
    <3>3. new \in [1..k -> Byte]
      BY <2>1, <3>2
    <3>4. new \in Seq(Byte)
      BY <3>1, <3>3, SeqDef
    <3> QED
      BY <3>1, <3>3, <3>4, LenProperties
  <2> HIDE DEF new
  <2>3. Contents \o new = [j \in 1..(fill_cnt + k) |->
                            IF j =< fill_cnt THEN Contents[j] ELSE new[j - fill_cnt]]
    <3>1. Contents \o new \in [1..(fill_cnt + k) -> Byte]
      <4>1. Contents \o new \in Seq(Byte) /\ Len(Contents \o new) = fill_cnt + k
        <5>1. Contents \in Seq(Byte) /\ new \in Seq(Byte)
          BY <1>2, <2>2
        <5>2. Contents \o new \in Seq(Byte) /\ Len(Contents \o new) = Len(Contents) + Len(new)
          BY <5>1, ConcatProperties
        <5> QED
          BY <1>2, <2>2, <5>2
      <4> QED
        BY <4>1, LenProperties
    <3>2. \A j \in 1..(fill_cnt + k) :
            (Contents \o new)[j] = IF j =< fill_cnt THEN Contents[j] ELSE new[j - fill_cnt]
      BY <1>1, <1>2, <2>2, ConcatProperties
    <3> QED
      BY <3>1, <3>2
  <2>4. ASSUME NEW j \in 1..(fill_cnt + k)
        PROVE  mem'[Slot(p_r, j - 1)] = IF j =< fill_cnt THEN Contents[j] ELSE new[j - fill_cnt]
    <3>1. CASE j =< fill_cnt
      BY <1>1, <1>4, <3>1
    <3>2. CASE ~ (j =< fill_cnt)
      <4>1. j - fill_cnt \in 1..k /\ fill_cnt + (j - fill_cnt) - 1 = j - 1
        BY <1>1, <3>2
      <4> QED
        BY <1>5, <3>2, <4>1 DEF new
    <3> QED
      BY <3>1, <3>2
  <2> QED
    BY <1>3, <2>3, <2>4 DEF new
<1> QED
  BY <1>1, <1>2, <1>6 DEF Stream!Put, WCopy

(* A step that leaves the ring and the histories alone is invisible in the stream. *)
LEMMA UntouchedStream ==
  ASSUME UNCHANGED <<ring, hist>>
  PROVE  UNCHANGED Stream!svars
BY DEF ring, hist, Stream!svars, Contents, Held, Slot

(* rb_reset starts the stream again. *)
LEMMA RestartStep ==
  ASSUME NEW c \in Controllers, rb_reset(c)
  PROVE  Stream!Restart
<1>1. Contents' = << >>
  BY DEF rb_reset, Contents, Held
<1> QED
  BY <1>1 DEF rb_reset, Stream!Restart

(* Every step of the ring is a step of the byte stream or leaves it alone. *)
LEMMA StreamStep ==
  ASSUME RingInv, [Next]_vars
  PROVE  [Stream!Next]_(Stream!svars)
<1> USE DEF ring, hist
<1>1. CASE ReadCall \/ WriteCall
  BY <1>1, UntouchedStream DEF ReadCall, WriteCall, rb_read, rb_write, Enter
<1>2. CASE ControlCall
  <2>1. PICK c \in Controllers : rb_reset(c) \/ UNCHANGED <<ring, hist>>
    BY <1>2 DEF ControlCall, rb_done_write, rb_unblock_reader, rb_abort
  <2> QED
    BY <2>1, RestartStep, UntouchedStream DEF Stream!Next
<1>3. ASSUME NEW r \in Readers, ReaderStep(r)
      PROVE  [Stream!Next]_(Stream!svars)
  <2>1. CASE RCopy(r)
    BY <2>1, TakeStep DEF Stream!Next
  <2>2. CASE ~ RCopy(r)
    BY <1>3, <2>2, UntouchedStream DEF ReaderStep, RLock, Acquire, REmpty, ReleaseEmpty, RDone,
       RAbort, RUnblock, CheckFlag, RGive, GiveWrite, RWake, RTimeout, TimedOut, REnd, RRet, Return
  <2> QED
    BY <2>1, <2>2
<1>4. ASSUME NEW w \in Writers, WriterStep(w)
      PROVE  [Stream!Next]_(Stream!svars)
  <2>1. CASE WCopy(w)
    BY <2>1, PutStep DEF Stream!Next
  <2>2. CASE ~ WCopy(w)
    BY <1>4, <2>2, UntouchedStream DEF WriterStep, WLock, Acquire, WEmpty, ReleaseEmpty, WDone,
       WAbort, CheckFlag, WGive, GiveRead, WWake, WTimeout, TimedOut, WEnd, Return
  <2> QED
    BY <2>1, <2>2
<1>5. CASE \E c \in Controllers : ControllerStep(c)
  BY <1>5, UntouchedStream DEF ControllerStep, GiveRead, GiveWrite, rb_abort_write
<1>6. CASE UNCHANGED vars
  BY <1>6, UntouchedStream DEF vars
<1> QED
  BY <1>1, <1>2, <1>3, <1>4, <1>5, <1>6 DEF Next

(* The ring implements the bounded byte stream of module ByteStream, for every number
   of tasks, every size and every interleaving, as long as rb_reset waits for an idle
   ring (rb_read, rb_write, rb_reset). *)
THEOREM RingIsAStream ==
  ASSUME ~ ResetWhileBusy
  PROVE  Spec => ImplementsByteStream
<1>1. Init => Stream!Init
  BY DEF Init, Stream!Init, Contents, Held
<1>2. RingInv /\ [Next]_vars => [Stream!Next]_(Stream!svars)
  BY StreamStep
<1>3. RingInv /\ [Next]_vars => RingInv'
  BY StepInv
<1> QED
  BY InitInv, <1>1, <1>2, <1>3, PTL DEF Spec, ImplementsByteStream, Stream!Spec

-------------------------------------------------------------------------------
(* The places among the first n of a sequence that hold a byte of writer w. *)
PlacesOf(s, w, n) == {j \in 1..n : s[j][1] = w}

(* Each byte carries the number of its writer's bytes up to it. *)
Numbered(s) ==
  \A i \in 1..Len(s) : s[i][2] = Cardinality(PlacesOf(s, s[i][1], i - 1)) + 1

(* The stream holds what its writers have sent, in order. *)
StreamInv ==
  /\ Numbered(out \o Contents)
  /\ \A w \in Writers :
       Cardinality(PlacesOf(out \o Contents, w, Len(out \o Contents))) = sent[w]

(* There are finitely many places. *)
LEMMA PlacesFinite ==
  ASSUME NEW s, NEW w, NEW n \in Nat
  PROVE  IsFiniteSet(PlacesOf(s, w, n)) /\ Cardinality(PlacesOf(s, w, n)) \in Nat
<1>1. IsFiniteSet(1..n)
  BY FS_Interval
<1>2. PlacesOf(s, w, n) \in SUBSET (1..n)
  BY DEF PlacesOf
<1>3. IsFiniteSet(PlacesOf(s, w, n))
  BY <1>1, <1>2, FS_Subset
<1> QED
  BY <1>3, FS_CardinalityType

(* Up to place n, t is the first m of s and then bytes of w. *)
Follows(s, t, w, m, n) ==
  (\A j \in 1..m : t[j] = s[j]) /\ (\A j \in (m + 1)..n : t[j][1] = w)

(* A run of bytes of writer w that is put behind a sequence: the places of the other
   writers stay, those of w grow by the run. *)
LEMMA PlacesOthers ==
  ASSUME NEW s, NEW t, NEW w, NEW v, NEW m \in Nat, NEW n \in Nat, m =< n, v # w,
         Follows(s, t, w, m, n)
  PROVE  PlacesOf(t, v, n) = PlacesOf(s, v, m)
BY DEF PlacesOf, Follows

LEMMA PlacesGrow ==
  ASSUME NEW s, NEW t, NEW w, NEW m \in Nat, NEW n \in Nat, m =< n,
         Follows(s, t, w, m, n)
  PROVE  Cardinality(PlacesOf(t, w, n)) = Cardinality(PlacesOf(s, w, m)) + (n - m)
<1>1. PlacesOf(t, w, n) = PlacesOf(s, w, m) \cup ((m + 1)..n)
  BY DEF PlacesOf, Follows
<1>2. PlacesOf(s, w, m) \cap ((m + 1)..n) = {}
  BY DEF PlacesOf
<1>3. IsFiniteSet((m + 1)..n) /\ Cardinality((m + 1)..n) = n - m
  <2>1. m + 1 \in Int /\ n \in Int
    OBVIOUS
  <2>2. IsFiniteSet((m + 1)..n) /\ Cardinality((m + 1)..n) = IF m + 1 > n THEN 0 ELSE n - (m + 1) + 1
    BY <2>1, FS_Interval, Zenon
  <2> QED
    BY <2>2
<1>4. IsFiniteSet(PlacesOf(s, w, m)) /\ Cardinality(PlacesOf(s, w, m)) \in Nat
  BY PlacesFinite
<1>5. Cardinality(PlacesOf(t, w, n)) = Cardinality(PlacesOf(s, w, m)) + Cardinality((m + 1)..n) - Cardinality({})
  BY <1>1, <1>2, <1>3, <1>4, FS_Union, Zenon
<1>6. Cardinality({}) = 0
  BY FS_EmptySet
<1> QED
  BY <1>3, <1>4, <1>5, <1>6

(* A prefix has the same places. *)
LEMMA PlacesSame ==
  ASSUME NEW s, NEW t, NEW w, NEW m \in Nat, \A j \in 1..m : t[j] = s[j]
  PROVE  PlacesOf(t, w, m) = PlacesOf(s, w, m)
BY DEF PlacesOf

(* Behind s, t has the bytes c + 1 .. c + k of w. *)
RunBehind(s, t, w, k, c) ==
  /\ Len(t) = Len(s) + k
  /\ \A j \in 1..Len(s) : t[j] = s[j]
  /\ \A j \in (Len(s) + 1)..(Len(s) + k) : t[j] = <<w, c + (j - Len(s))>>

(* Putting the next k bytes of w behind a stream keeps its bytes numbered. *)
LEMMA RunKeepsNumbers ==
  ASSUME NEW s \in Seq(Byte), NEW t \in Seq(Byte), NEW w, NEW k \in Nat, NEW c \in Nat,
         RunBehind(s, t, w, k, c),
         Numbered(s), Cardinality(PlacesOf(s, w, Len(s))) = c
  PROVE  /\ Numbered(t)
         /\ Cardinality(PlacesOf(t, w, Len(t))) = c + k
<1> DEFINE m == Len(s)
<1>0. m \in Nat
  OBVIOUS
<1> HIDE DEF m
<1>a. /\ Len(s) = m /\ Len(t) = m + k
      /\ \A j \in 1..m : t[j] = s[j]
      /\ \A j \in (m + 1)..(m + k) : t[j] = <<w, c + (j - m)>>
      /\ Cardinality(PlacesOf(s, w, m)) = c
  BY DEF m, RunBehind
<1>1. ASSUME NEW n \in m..(m + k)
      PROVE  Cardinality(PlacesOf(t, w, n)) = c + (n - m)
  <2>1. n \in Nat /\ m =< n
    BY <1>0, <1>1
  <2>2. Follows(s, t, w, m, n)
    BY <1>0, <1>1, <1>a DEF Follows
  <2>4. Cardinality(PlacesOf(t, w, n)) = Cardinality(PlacesOf(s, w, m)) + (n - m)
    BY <1>0, <2>1, <2>2, PlacesGrow
  <2> QED
    BY <1>a, <2>4
<1>2. ASSUME NEW i \in 1..Len(t)
      PROVE  t[i][2] = Cardinality(PlacesOf(t, t[i][1], i - 1)) + 1
  <2>1. CASE i \in 1..m
    <3>1. t[i] = s[i]
      BY <1>a, <2>1
    <3>2. i - 1 \in Nat /\ \A j \in 1..(i - 1) : t[j] = s[j]
      BY <1>0, <1>a, <2>1
    <3>3. PlacesOf(t, t[i][1], i - 1) = PlacesOf(s, s[i][1], i - 1)
      BY <3>1, <3>2, PlacesSame
    <3>4. s[i][2] = Cardinality(PlacesOf(s, s[i][1], i - 1)) + 1
      BY <1>a, <2>1 DEF Numbered
    <3> QED
      BY <3>1, <3>3, <3>4
  <2>2. CASE i \notin 1..m
    <3>1. i \in (m + 1)..(m + k) /\ i - 1 \in m..(m + k)
      BY <1>0, <1>a, <2>2
    <3>2. t[i][1] = w /\ t[i][2] = c + (i - m)
      BY <1>a, <3>1
    <3>3. Cardinality(PlacesOf(t, w, i - 1)) = c + (i - 1 - m)
      BY <1>1, <3>1
    <3> QED
      BY <1>0, <3>1, <3>2, <3>3
  <2> QED
    BY <2>1, <2>2
<1>3. m + k \in m..(m + k) /\ (m + k) - m = k
  BY <1>0
<1>4. Cardinality(PlacesOf(t, w, m + k)) = c + k
  BY <1>1, <1>3
<1> QED
  BY <1>2, <1>4, <1>a DEF Numbered

(* Brackets in a stream do not matter. *)
LEMMA StreamsJoin == \A a, b, c \in Seq(Byte) : (a \o b) \o c = a \o (b \o c)
BY ConcatAssociative

(* A Put does that to the stream. *)
LEMMA PutKeepsNumbers ==
  ASSUME RingInv, RingInv', StreamInv, NEW w \in Writers, NEW k \in 1..Size, Stream!Put(w, k)
  PROVE  StreamInv'
<1> DEFINE new == Stream!NextBytes(w, k)
           s == out \o Contents
           t == out \o (Contents \o new)
<1>0. k \in Nat /\ sent \in [Writers -> Nat] /\ out \in Seq(Byte) /\ Contents \in Seq(Byte)
  BY RingAssumption, ContentsFacts DEF RingInv, TypeOK, HistType
<1>1. new \in Seq(Byte) /\ Len(new) = k /\ \A j \in 1..k : new[j] = <<w, sent[w] + j>>
  <2>1. \A j \in 1..k : <<w, sent[w] + j>> \in Byte
    BY <1>0 DEF Byte
  <2>2. new = [j \in 1..k |-> <<w, sent[w] + j>>]
    BY DEF Stream!NextBytes
  <2> HIDE DEF new
  <2>3. new \in [1..k -> Byte]
    BY <2>1, <2>2
  <2>4. new \in Seq(Byte)
    BY <1>0, <2>3, SeqDef
  <2> QED
    BY <1>0, <2>2, <2>3, <2>4, LenProperties
<1>2. Contents' = Contents \o new /\ sent' = [sent EXCEPT ![w] = @ + k] /\ out' = out
  BY DEF Stream!Put
<1> HIDE DEF new
<1>3. t = s \o new
  <2>1. (out \o Contents) \o new = out \o (Contents \o new)
    BY <1>0, <1>1, StreamsJoin, Zenon
  <2> QED
    BY <2>1
<1>4. s \in Seq(Byte)
  BY <1>0, ConcatProperties
<1> HIDE DEF s, t
<1>5. /\ t \in Seq(Byte) /\ Len(t) = Len(s) + k
      /\ \A j \in 1..(Len(s) + k) : t[j] = IF j <= Len(s) THEN s[j] ELSE new[j - Len(s)]
  BY <1>1, <1>3, <1>4, ConcatProperties
<1>6. Len(s) \in Nat
  BY <1>4
<1>7. \A j \in 1..Len(s) : t[j] = s[j]
  BY <1>0, <1>5, <1>6
<1>8. \A j \in (Len(s) + 1)..(Len(s) + k) : t[j] = <<w, sent[w] + (j - Len(s))>>
  <2> SUFFICES ASSUME NEW j \in (Len(s) + 1)..(Len(s) + k)
               PROVE  t[j] = <<w, sent[w] + (j - Len(s))>>
    OBVIOUS
  <2>1. j \in 1..(Len(s) + k) /\ ~ (j <= Len(s)) /\ j - Len(s) \in 1..k
    BY <1>0, <1>6
  <2>2. t[j] = new[j - Len(s)]
    BY <1>5, <2>1
  <2> QED
    BY <1>1, <2>1, <2>2
<1>9. Numbered(s) /\ Cardinality(PlacesOf(s, w, Len(s))) = sent[w] /\ sent[w] \in Nat
  BY <1>0 DEF StreamInv, s
<1>b. RunBehind(s, t, w, k, sent[w])
  BY <1>5, <1>7, <1>8 DEF RunBehind
<1>10. Numbered(t) /\ Cardinality(PlacesOf(t, w, Len(t))) = sent[w] + k
  <2>1. t \in Seq(Byte) /\ sent[w] \in Nat
    BY <1>5, <1>9
  <2> QED
    BY <1>0, <1>4, <1>9, <1>b, <2>1, RunKeepsNumbers, SMTT(60)
<1>11. out' \o Contents' = t
  BY <1>2 DEF t
<1>12. ASSUME NEW v \in Writers
       PROVE  Cardinality(PlacesOf(t, v, Len(t))) = sent'[v]
  <2>1. CASE v = w
    BY <1>0, <1>2, <1>10, <2>1
  <2>2. CASE v # w
    <3>1. Follows(s, t, w, Len(s), Len(t)) /\ Len(s) =< Len(t) /\ Len(t) \in Nat
      BY <1>0, <1>5, <1>6, <1>7, <1>8 DEF Follows
    <3>2. PlacesOf(t, v, Len(t)) = PlacesOf(s, v, Len(s))
      BY <1>6, <2>2, <3>1, PlacesOthers
    <3> QED
      BY <1>0, <1>2, <2>2, <3>2 DEF StreamInv, s
  <2> QED
    BY <2>1, <2>2
<1> QED
  BY <1>10, <1>11, <1>12 DEF StreamInv

(* A Take moves bytes from what is held to what is out, and the stream stays. *)
LEMMA TakeKeepsNumbers ==
  ASSUME RingInv, StreamInv, NEW k \in 1..Size, Stream!Take(k)
  PROVE  StreamInv'
<1>0. k \in 1..Len(Contents) /\ out \in Seq(Byte) /\ Contents \in Seq(Byte)
  BY RingAssumption, ContentsFacts DEF RingInv, TypeOK, HistType, Stream!Take
<1>1. /\ out' = out \o SubSeq(Contents, 1, k) /\ sent' = sent
      /\ Contents' = SubSeq(Contents, k + 1, Len(Contents))
  BY DEF Stream!Take
<1> DEFINE q == Contents
<1>2. k \in 1..Len(q) /\ q \in Seq(Byte)
  BY <1>0
<1> HIDE DEF q
<1>3. SubSeq(q, 1, k) \o SubSeq(q, k + 1, Len(q)) = q
  <2>1. Len(q) \in Nat /\ 1 \in 1..(Len(q) + 1) /\ k \in (1 - 1)..Len(q) /\ Len(q) \in k..Len(q)
    BY <1>2
  <2>2. SubSeq(q, 1, k) \o SubSeq(q, k + 1, Len(q)) = SubSeq(q, 1, Len(q))
    BY <1>2, <2>1, ConcatAdjacentSubSeq, Zenon
  <2> QED
    BY <1>2, <2>2, SubSeqFull, Zenon
<1>4. SubSeq(q, 1, k) \in Seq(Byte) /\ SubSeq(q, k + 1, Len(q)) \in Seq(Byte)
  BY <1>2
<1>5. (out \o SubSeq(q, 1, k)) \o SubSeq(q, k + 1, Len(q)) = out \o q
  <2>1. (out \o SubSeq(q, 1, k)) \o SubSeq(q, k + 1, Len(q))
          = out \o (SubSeq(q, 1, k) \o SubSeq(q, k + 1, Len(q)))
    BY <1>0, <1>4, StreamsJoin, Zenon
  <2> QED
    BY <1>3, <2>1, Zenon
<1>6. out' \o Contents' = out \o Contents
  BY <1>1, <1>5 DEF q
<1> QED
  BY <1>1, <1>6 DEF StreamInv

(* An empty stream is in order. *)
LEMMA EmptyIsNumbered ==
  ASSUME NEW s, s = << >>
  PROVE  Numbered(s) /\ \A w : Cardinality(PlacesOf(s, w, Len(s))) = 0
<1>1. Len(s) = 0 /\ 1..0 = {}
  OBVIOUS
<1>2. \A w : PlacesOf(s, w, Len(s)) = {}
  BY <1>1 DEF PlacesOf
<1> QED
  BY <1>1, <1>2, FS_EmptySet DEF Numbered

(* For any number of readers and writers that interleave in the middle of their calls,
   any lengths and any size, if rb_reset waits for an idle ring: the bytes of each
   writer leave the ring in the order they were handed in, none missing and none twice
   (rb_read, rb_write). *)
THEOREM BytesStayInOrder ==
  ASSUME ~ ResetWhileBusy
  PROVE  Spec => []BytesInOrder
<1>1. Init => StreamInv
  <2> SUFFICES ASSUME Init PROVE StreamInv
    OBVIOUS
  <2>1. out = << >> /\ Contents = << >> /\ sent = [w \in Writers |-> 0]
    BY DEF Init, Contents, Held
  <2>2. out \o Contents = << >>
    BY <2>1
  <2> QED
    BY <2>1, <2>2, EmptyIsNumbered DEF StreamInv
<1>2. ASSUME RingInv, RingInv', StreamInv, [Next]_vars
      PROVE  StreamInv'
  <2>1. [Stream!Next]_(Stream!svars)
    BY <1>2, StreamStep
  <2>2. CASE \E w \in Writers, k \in 1..Size : Stream!Put(w, k)
    BY <1>2, <2>2, PutKeepsNumbers
  <2>3. CASE \E k \in 1..Size : Stream!Take(k)
    BY <1>2, <2>3, TakeKeepsNumbers
  <2>4. CASE Stream!Restart
    <3>1. out' = << >> /\ Contents' = << >> /\ sent' = [w \in Writers |-> 0]
      BY <2>4 DEF Stream!Restart
    <3>2. out' \o Contents' = << >>
      BY <3>1
    <3> QED
      BY <3>1, <3>2, EmptyIsNumbered DEF StreamInv
  <2>5. CASE UNCHANGED Stream!svars
    BY <1>2, <2>5 DEF Stream!svars, StreamInv
  <2> QED
    BY <2>1, <2>2, <2>3, <2>4, <2>5 DEF Stream!Next
<1>3. RingInv /\ [Next]_vars => RingInv'
  BY StepInv
<1>4. StreamInv => BytesInOrder
  <2>1. \A S : Stream!Cardinality(S) = Cardinality(S)
    BY DEF Stream!Cardinality, Cardinality
  <2> SUFFICES ASSUME StreamInv, NEW i \in 1..Len(out \o Contents)
               PROVE  (out \o Contents)[i][2]
                        = Cardinality({j \in 1..(i - 1) : (out \o Contents)[j][1] = (out \o Contents)[i][1]}) + 1
    BY <2>1 DEF BytesInOrder, Stream!InOrder, Stream!Stream
  <2> QED
    BY DEF StreamInv, Numbered, PlacesOf
<1> QED
  BY InitInv, <1>1, <1>2, <1>3, <1>4, PTL DEF Spec

--------------------------------------------------------------------------------

(***************************************************************************)
(* From the moment a task has found nothing to move, through the           *)
(* flags it looks at, until it sleeps, the token it is going to take is    *)
(* there or due if the ring has changed meanwhile.                         *)
(***************************************************************************)
FoundNoData(r) ==
  \/ pc[r] \in {"r_done", "r_abort", "r_unblock", "r_give", "r_wait"}
  \/ pc[r] = "r_copy" /\ chunk[r] = 0

FoundNoSpace(w) ==
  \/ pc[w] \in {"w_done", "w_abort", "w_give", "w_wait"}
  \/ pc[w] = "w_copy" /\ chunk[w] = 0

ReaderWakeInv ==
  \A r \in Readers :
    FoundNoData(r) /\ Readable(r) /\ ~ can_read => ReadSignalDue

WriterWakeInv ==
  \A w \in Writers :
    FoundNoSpace(w) /\ fill_cnt < Size /\ ~ can_write => WriteSignalDue

(* A call stays in its loop only as long as bytes are wanted: while (buf_len). *)
LoopLabels == (ReaderLabels \cup WriterLabels) \ {"r_end", "r_ret", "w_end"}
StillWanted == \A t \in Callers : pc[t] \in LoopLabels => buf_len[t] > 0

--------------------------------------------------------------------------------

(* What the reader can see is unchanged and no announcement is lost. *)
LEMMA ReaderFrame ==
  ASSUME ReaderWakeInv,
         \A r \in Readers : pc'[r] = pc[r] /\ buf_len'[r] = buf_len[r] /\ chunk'[r] = chunk[r],
         UNCHANGED <<fill_cnt, is_done_write>>,
         can_read => can_read',
         ReadSignalDue => ReadSignalDue' \/ can_read'
  PROVE  ReaderWakeInv'
BY DEF ReaderWakeInv, FoundNoData, Readable, ReadSize, Words, WordSize

(* A writer never takes an announced wake-up away from the reader. *)
LEMMA WriterKeepsReader ==
  ASSUME RingInv, ReaderWakeInv, NEW w \in Writers, WriterStep(w)
  PROVE  ReaderWakeInv'
<1>0. w \in Tasks /\ w \in Callers /\ w \notin Readers /\ \A r \in Readers : r \in Callers /\ r \in Tasks /\ r # w
  BY RingAssumption DEF Tasks, Callers
<1>1. CASE WCopy(w)
  <2>1. moved'[w] > 0 /\ pc'[w] \in {"w_lock", "w_end"}
    BY <1>0, <1>1 DEF WCopy, Goto, Count, RingInv, TypeOK, CallType
  <2> QED
    BY <2>1 DEF ReadSignalDue, ReaderWakeInv
<1>2. CASE WGive(w)
  BY <1>2 DEF WGive, GiveRead, ReaderWakeInv
<1>3. CASE WEnd(w)
  <2>1. CASE moved[w] > 0
    BY <1>3, <2>1 DEF WEnd, ReaderWakeInv
  <2>2. CASE ~ (moved[w] > 0)
    <3>1. ReadSignalDue => ReadSignalDue'
      BY <1>0, <1>3, <2>2 DEF WEnd, Return, Goto, ReadSignalDue, RingInv, TypeOK, CallType
    <3> QED
      BY <1>0, <1>3, <3>1, ReaderFrame DEF WEnd, Return, Goto, ring, flags, RingInv, TypeOK, CallType
  <2> QED
    BY <2>1, <2>2
<1>4. CASE WLock(w) \/ WEmpty(w) \/ WDone(w) \/ WAbort(w) \/ WWake(w) \/ WTimeout(w)
  <2>1. PICK from \in WriterLabels, to \in {"w_lock", "w_copy", "w_done", "w_abort", "w_give", "w_end"} : Goto(w, from, to)
    BY <1>4 DEF WLock, Acquire, WEmpty, ReleaseEmpty, WDone, WAbort, CheckFlag, WWake, WTimeout, TimedOut, WriterLabels
  <2>2. UNCHANGED <<moved, buf_len, fill_cnt, is_done_write, can_read>>
    BY <1>4 DEF WLock, Acquire, WEmpty, ReleaseEmpty, WDone, WAbort, CheckFlag, WWake, WTimeout, TimedOut, ring, sems, flags, call
  <2>3. \A r \in Readers : chunk'[r] = chunk[r]
    BY <1>0, <1>4 DEF WLock, Acquire, WEmpty, ReleaseEmpty, WDone, WAbort, CheckFlag, WWake, WTimeout, TimedOut, call, RingInv, TypeOK, CallType
  <2>4. \A r \in Readers : pc'[r] = pc[r]
    BY <1>0, <2>1 DEF Goto, RingInv, TypeOK, CallType
  <2>5. ReadSignalDue => ReadSignalDue'
    BY <1>0, <2>1, <2>2 DEF Goto, RingInv, TypeOK, CallType, ReadSignalDue, WriterLabels
  <2> QED
    BY <2>2, <2>3, <2>4, <2>5, ReaderFrame
<1> QED
  BY <1>1, <1>2, <1>3, <1>4 DEF WriterStep

(* The reader, alone, finds nothing only when nothing is there, and gives up its
   token only when it looks again. *)
LEMMA ReaderKeepsReader ==
  ASSUME RingInv, ReaderWakeInv, NEW r \in Readers, Readers = {r}, ReaderStep(r)
  PROVE  ReaderWakeInv'
<1>0. r \in Tasks /\ r \in Callers /\ r \notin Writers
  BY RingAssumption DEF Tasks, Callers
<1>1. CASE RLock(r)
  <2>1. chunk'[r] = ReadSize(buf_len[r]) /\ UNCHANGED <<fill_cnt, is_done_write, buf_len>> /\ pc'[r] = "r_copy"
    BY <1>0, <1>1 DEF RLock, Acquire, Goto, ring, flags, RingInv, TypeOK, CallType
  <2>2. Readable(r)' => chunk'[r] > 0
    BY <2>1 DEF Readable, ReadSize, Words, WordSize
  <2> QED
    BY <2>1, <2>2 DEF ReaderWakeInv, FoundNoData
<1>2. CASE RCopy(r) \/ RWake(r) \/ RTimeout(r) \/ REnd(r) \/ RRet(r)
  <2>1. pc'[r] \in {"r_lock", "r_end", "r_ret", "idle"}
    BY <1>0, <1>2 DEF RCopy, RWake, RTimeout, TimedOut, REnd, RRet, Return, Goto, RingInv, TypeOK, CallType
  <2> QED
    BY <2>1 DEF ReaderWakeInv, FoundNoData
<1>3. CASE REmpty(r) \/ RDone(r) \/ RAbort(r) \/ RUnblock(r) \/ RGive(r)
  <2>1. FoundNoData(r)
    BY <1>3 DEF REmpty, ReleaseEmpty, RDone, RAbort, RUnblock, CheckFlag, RGive, GiveWrite, Goto, FoundNoData
  <2>2. UNCHANGED <<fill_cnt, is_done_write, buf_len, moved, can_read>>
    BY <1>3 DEF REmpty, ReleaseEmpty, RDone, RAbort, RUnblock, CheckFlag, RGive, GiveWrite, ring, sems, flags, call
  <2>3. Readable(r)' = Readable(r)
    BY <2>2 DEF Readable, ReadSize, Words, WordSize
  <2>4. \A t \in Tasks : t # r => pc'[t] = pc[t]
    BY <1>3 DEF REmpty, ReleaseEmpty, RDone, RAbort, RUnblock, CheckFlag, RGive, GiveWrite, Goto, RingInv, TypeOK, CallType
  <2>5. ReadSignalDue => ReadSignalDue'
    <3>1. pc[r] \notin ControllerLabels
      BY <2>1 DEF FoundNoData, ControllerLabels
    <3> QED
      BY <1>0, <2>2, <2>4, <3>1 DEF ReadSignalDue, Tasks, Callers, ControllerLabels
  <2> QED
    BY <2>1, <2>2, <2>3, <2>5 DEF ReaderWakeInv
<1> QED
  BY <1>1, <1>2, <1>3 DEF ReaderStep

(* The flag-changing calls announce themselves to the reader. *)
LEMMA ControlKeepsReader ==
  ASSUME RingInv, ~ ResetWhileBusy, ReaderWakeInv, NEW c \in Controllers,
         ControllerStep(c) \/ rb_done_write(c) \/ rb_unblock_reader(c) \/ rb_abort(c) \/ rb_reset(c)
  PROVE  ReaderWakeInv'
<1>0. c \in Tasks
  BY DEF Tasks
<1>1. CASE GiveRead(c, "c_give", "idle") \/ GiveRead(c, "c_abort_give_read", "c_abort_write")
  BY <1>1 DEF GiveRead, ReaderWakeInv
<1>2. CASE rb_done_write(c) \/ rb_unblock_reader(c) \/ rb_abort(c)
  <2>1. pc'[c] \in {"c_give", "c_abort_give_read"}
    BY <1>0, <1>2 DEF rb_done_write, rb_unblock_reader, rb_abort, Goto, RingInv, TypeOK, CallType
  <2> QED
    BY <2>1 DEF ReaderWakeInv, ReadSignalDue
<1>3. CASE rb_abort_write(c) \/ GiveWrite(c, "c_abort_give_write", "idle")
  <2>1. PICK from \in {"c_abort_write", "c_abort_give_write"}, to \in {"c_abort_give_write", "idle"} : Goto(c, from, to)
    BY <1>3 DEF rb_abort_write, GiveWrite
  <2>2. UNCHANGED <<fill_cnt, is_done_write, buf_len, chunk, moved, can_read>>
    BY <1>3 DEF rb_abort_write, GiveWrite, ring, sems, flags, call
  <2>3. ReadSignalDue => ReadSignalDue'
    BY <1>0, <2>1, <2>2 DEF Goto, RingInv, TypeOK, CallType, ReadSignalDue
  <2>4. \A r \in Readers : FoundNoData(r)' => FoundNoData(r)
    BY <1>0, <2>1, <2>2 DEF Goto, RingInv, TypeOK, CallType, FoundNoData, Tasks, Callers
  <2>5. \A r \in Readers : Readable(r)' = Readable(r)
    BY <2>2 DEF Readable, ReadSize
  <2> QED
    BY <2>2, <2>3, <2>4, <2>5 DEF ReaderWakeInv
<1>4. CASE rb_reset(c)
  <2>1. \A t \in Tasks : pc'[t] = "idle"
    BY <1>4 DEF rb_reset
  <2> QED
    BY <2>1 DEF ReaderWakeInv, FoundNoData, Tasks, Callers
<1> QED
  BY <1>1, <1>2, <1>3, <1>4 DEF ControllerStep

(* Starting a call loses no announcement. *)
LEMMA CallKeepsReader ==
  ASSUME RingInv, ReaderWakeInv, ReadCall \/ WriteCall
  PROVE  ReaderWakeInv'
<1>1. PICK t \in Callers, n \in ReadLens \cup WriteLens, f \in Waits,
         loop \in {"r_lock", "w_lock"}, end \in {"r_end", "w_end"} : Enter(t, n, f, loop, end)
  <2>1. CASE ReadCall
    BY <2>1 DEF ReadCall, rb_read, Callers
  <2>2. CASE WriteCall
    BY <2>2 DEF WriteCall, rb_write, Callers
  <2> QED
    BY <2>1, <2>2
<1>2. UNCHANGED <<fill_cnt, is_done_write, chunk, moved, can_read>>
  BY <1>1 DEF Enter, ring, sems, flags
<1>3. PICK to \in {"r_lock", "w_lock", "r_end", "w_end"} : Goto(t, "idle", to)
  BY <1>1 DEF Enter
<1>4. ReadSignalDue => ReadSignalDue'
  BY <1>2, <1>3 DEF Goto, RingInv, TypeOK, CallType, ReadSignalDue
<1>5. \A r \in Readers : FoundNoData(r)' => r # t /\ FoundNoData(r)
  BY <1>2, <1>3 DEF Goto, RingInv, TypeOK, CallType, FoundNoData, Tasks, Callers
<1>6. \A r \in Readers : r # t => buf_len'[r] = buf_len[r]
  BY <1>1 DEF Enter, RingInv, TypeOK, CallType, Callers
<1>7. \A r \in Readers : r # t => Readable(r)' = Readable(r)
  BY <1>2, <1>6 DEF Readable, ReadSize
<1> QED
  BY <1>2, <1>4, <1>5, <1>7 DEF ReaderWakeInv

(* Every step of every task keeps the single reader's invariant. *)
LEMMA ReaderWakeStep ==
  ASSUME ~ ResetWhileBusy, NEW r \in Readers, Readers = {r},
         RingInv, ReaderWakeInv, [Next]_vars
  PROVE  ReaderWakeInv'
<1>1. CASE ReadCall \/ WriteCall
  BY <1>1, CallKeepsReader
<1>2. CASE ControlCall \/ \E c \in Controllers : ControllerStep(c)
  BY <1>2, ControlKeepsReader DEF ControlCall
<1>3. CASE \E s \in Readers : ReaderStep(s)
  BY <1>3, ReaderKeepsReader
<1>4. CASE \E w \in Writers : WriterStep(w)
  BY <1>4, WriterKeepsReader
<1>5. CASE UNCHANGED vars
  BY <1>5, ReaderFrame DEF vars, ring, sems, flags, call, ReadSignalDue
<1> QED
  BY <1>1, <1>2, <1>3, <1>4, <1>5 DEF Next

(* With a single reader, no wake-up of rb_read is lost: a reader asleep although there is
   something to read always has its token, or a task on its way to give it. *)
THEOREM ReaderIsWoken ==
  ASSUME ~ ResetWhileBusy, NEW r \in Readers, Readers = {r}
  PROVE  Spec => []ReaderNotForgotten
<1>1. Init => ReaderWakeInv
  BY DEF Init, ReaderWakeInv, FoundNoData, Tasks, Callers
<1>2. RingInv /\ [Next]_vars => RingInv'
  BY StepInv
<1>3. RingInv /\ ReaderWakeInv /\ [Next]_vars => ReaderWakeInv'
  BY ReaderWakeStep
<1>4. ReaderWakeInv => ReaderNotForgotten
  BY DEF ReaderWakeInv, ReaderNotForgotten, FoundNoData
<1> QED
  BY InitInv, <1>1, <1>2, <1>3, <1>4, PTL DEF Spec

-------------------------------------------------------------------------------
(* What the writer can see is unchanged and no announcement is lost. *)
LEMMA WriterFrame ==
  ASSUME WriterWakeInv,
         \A w \in Writers : pc'[w] = pc[w] /\ chunk'[w] = chunk[w],
         UNCHANGED fill_cnt,
         can_write => can_write',
         WriteSignalDue => WriteSignalDue' \/ can_write'
  PROVE  WriterWakeInv'
BY DEF WriterWakeInv, FoundNoSpace

(* A reader never takes an announced wake-up away from the writer. *)
LEMMA ReaderKeepsWriter ==
  ASSUME RingInv, WriterWakeInv, NEW r \in Readers, ReaderStep(r)
  PROVE  WriterWakeInv'
<1>0. r \in Tasks /\ r \in Callers /\ r \notin Writers /\ \A w \in Writers : w \in Callers /\ w \in Tasks /\ w # r
  BY RingAssumption DEF Tasks, Callers
<1>1. CASE RCopy(r)
  <2>1. moved'[r] > 0 /\ pc'[r] \in {"r_lock", "r_end"}
    BY <1>0, <1>1 DEF RCopy, Goto, Count, RingInv, TypeOK, CallType
  <2> QED
    BY <2>1 DEF WriteSignalDue, WriterWakeInv
<1>2. CASE RGive(r)
  BY <1>2 DEF RGive, GiveWrite, WriterWakeInv
<1>3. CASE REnd(r)
  <2>1. CASE moved[r] > 0
    BY <1>3, <2>1 DEF REnd, WriterWakeInv
  <2>2. CASE ~ (moved[r] > 0)
    <3>1. WriteSignalDue => WriteSignalDue'
      BY <1>0, <1>3, <2>2 DEF REnd, Goto, WriteSignalDue, call, RingInv, TypeOK, CallType
    <3> QED
      BY <1>0, <1>3, <3>1, WriterFrame DEF REnd, Goto, ring, call, RingInv, TypeOK, CallType
  <2> QED
    BY <2>1, <2>2
<1>4. CASE RRet(r)
  <2>1. WriteSignalDue => WriteSignalDue'
    BY <1>0, <1>4 DEF RRet, Return, Goto, WriteSignalDue, RingInv, TypeOK, CallType
  <2> QED
    BY <1>0, <1>4, <2>1, WriterFrame DEF RRet, Return, Goto, ring, sems, RingInv, TypeOK, CallType
<1>5. CASE RLock(r) \/ REmpty(r) \/ RDone(r) \/ RAbort(r) \/ RUnblock(r) \/ RWake(r) \/ RTimeout(r)
  <2>1. PICK from \in ReaderLabels,
             to \in {"r_lock", "r_copy", "r_done", "r_abort", "r_unblock", "r_give", "r_end"} : Goto(r, from, to)
    BY <1>5 DEF RLock, Acquire, REmpty, ReleaseEmpty, RDone, RAbort, RUnblock, CheckFlag, RWake, RTimeout, TimedOut, ReaderLabels
  <2>2. UNCHANGED <<moved, fill_cnt, can_write>>
    BY <1>5 DEF RLock, Acquire, REmpty, ReleaseEmpty, RDone, RAbort, RUnblock, CheckFlag, RWake, RTimeout, TimedOut, ring, sems, call
  <2>3. \A w \in Writers : chunk'[w] = chunk[w]
    BY <1>0, <1>5 DEF RLock, Acquire, REmpty, ReleaseEmpty, RDone, RAbort, RUnblock, CheckFlag, RWake, RTimeout, TimedOut, call,
       RingInv, TypeOK, CallType
  <2>4. \A w \in Writers : pc'[w] = pc[w]
    BY <1>0, <2>1 DEF Goto, RingInv, TypeOK, CallType
  <2>5. WriteSignalDue => WriteSignalDue'
    BY <1>0, <2>1, <2>2 DEF Goto, RingInv, TypeOK, CallType, WriteSignalDue, ReaderLabels
  <2> QED
    BY <2>2, <2>3, <2>4, <2>5, WriterFrame
<1> QED
  BY <1>1, <1>2, <1>3, <1>4, <1>5 DEF ReaderStep

(* A task inside the loop of rb_read or rb_write still wants bytes. *)
LEMMA LoopInv ==
  ASSUME RingInv, StillWanted, [Next]_vars
  PROVE  StillWanted'
<1> USE DEF StillWanted
<1>1. ASSUME NEW t \in Callers, NEW n \in Nat, NEW f, NEW loop, NEW end \in {"r_end", "w_end"}, Enter(t, n, f, loop, end)
      PROVE  StillWanted'
  BY <1>1 DEF Enter, Goto, LoopLabels, RingInv, TypeOK, CallType, Callers, Tasks
<1>2. ASSUME NEW t \in Callers, NEW loop, NEW end \in {"r_end", "w_end"}, NEW from,
             Goto(t, from, IF buf_len[t] = chunk[t] THEN end ELSE loop), Count(t, chunk[t])
      PROVE  StillWanted'
  <2>1. chunk[t] \in Nat /\ buf_len[t] \in Nat /\ chunk[t] =< buf_len[t]
    BY DEF RingInv, TypeOK, CallType, CopyInv, ChunksFit
  <2>2. buf_len[t] # chunk[t] => buf_len'[t] > 0
    BY <1>2, <2>1 DEF Count, RingInv, TypeOK, CallType
  <2>3. \A s \in Callers : s # t => buf_len'[s] = buf_len[s] /\ pc'[s] = pc[s]
    BY <1>2 DEF Goto, Count, RingInv, TypeOK, CallType, Callers, Tasks
  <2>4. buf_len[t] = chunk[t] => pc'[t] \notin LoopLabels
    BY <1>2 DEF Goto, LoopLabels, RingInv, TypeOK, CallType, Callers, Tasks
  <2> QED
    BY <2>2, <2>3, <2>4
<1>3. ASSUME NEW t \in Tasks, NEW from \in Labels, NEW to \in Labels, Goto(t, from, to), UNCHANGED buf_len,
             to \in LoopLabels => from \in LoopLabels
      PROVE  StillWanted'
  BY <1>3 DEF Goto, RingInv, TypeOK, CallType, Callers, Tasks
<1>4. ASSUME NEW t \in Callers, NEW from, Return(t, from)
      PROVE  StillWanted'
  BY <1>4 DEF Return, Goto, LoopLabels, ReaderLabels, WriterLabels, RingInv, TypeOK, CallType, Callers, Tasks
<1>5. CASE ReadCall
  BY <1>1, <1>5, RingAssumption DEF ReadCall, rb_read, Callers
<1>6. CASE WriteCall
  BY <1>1, <1>6, RingAssumption DEF WriteCall, rb_write, Callers
<1>7. CASE ControlCall \/ \E c \in Controllers : ControllerStep(c)
  <2>1. PICK c \in Controllers : rb_reset(c) \/ rb_done_write(c) \/ rb_unblock_reader(c) \/ rb_abort(c) \/ ControllerStep(c)
    BY <1>7 DEF ControlCall
  <2>2. CASE rb_reset(c)
    BY <2>2 DEF rb_reset, call
  <2>3. CASE ~ rb_reset(c)
    <3>1. PICK from \in {"idle"} \cup ControllerLabels, to \in {"idle"} \cup ControllerLabels : Goto(c, from, to)
      BY <2>1, <2>3 DEF rb_done_write, rb_unblock_reader, rb_abort, ControllerStep, GiveRead, GiveWrite, rb_abort_write, ControllerLabels
    <3>2. UNCHANGED buf_len
      BY <2>1, <2>3 DEF rb_done_write, rb_unblock_reader, rb_abort, ControllerStep, GiveRead, GiveWrite, rb_abort_write, call
    <3> QED
      BY <1>3, <3>1, <3>2 DEF Labels, LoopLabels, ReaderLabels, WriterLabels, ControllerLabels, Tasks
  <2> QED
    BY <2>2, <2>3
<1>8. ASSUME NEW r \in Readers, ReaderStep(r)
      PROVE  StillWanted'
  <2>0. r \in Callers /\ r \in Tasks
    BY DEF Callers, Tasks
  <2>1. CASE RCopy(r)
    BY <1>2, <2>0, <2>1 DEF RCopy
  <2>2. CASE RRet(r)
    BY <1>4, <2>0, <2>2 DEF RRet
  <2>3. CASE REnd(r)
    BY <1>3, <2>0, <2>3 DEF REnd, call, Labels, LoopLabels, ReaderLabels, WriterLabels
  <2>4. CASE RLock(r) \/ REmpty(r) \/ RDone(r) \/ RAbort(r) \/ RUnblock(r) \/ RGive(r) \/ RWake(r) \/ RTimeout(r)
    <3>1. PICK from \in ReaderLabels \cap LoopLabels, to \in ReaderLabels : Goto(r, from, to)
      BY <2>4 DEF RLock, Acquire, REmpty, ReleaseEmpty, RDone, RAbort, RUnblock, CheckFlag, RGive, GiveWrite, RWake, RTimeout, TimedOut,
         LoopLabels, ReaderLabels, WriterLabels
    <3>2. UNCHANGED buf_len
      BY <2>4 DEF RLock, Acquire, REmpty, ReleaseEmpty, RDone, RAbort, RUnblock, CheckFlag, RGive, GiveWrite, RWake, RTimeout, TimedOut, call
    <3> QED
      BY <1>3, <2>0, <3>1, <3>2 DEF Labels
  <2> QED
    BY <1>8, <2>1, <2>2, <2>3, <2>4 DEF ReaderStep
<1>9. ASSUME NEW w \in Writers, WriterStep(w)
      PROVE  StillWanted'
  <2>0. w \in Callers /\ w \in Tasks
    BY DEF Callers, Tasks
  <2>1. CASE WCopy(w)
    BY <1>2, <2>0, <2>1 DEF WCopy
  <2>2. CASE WEnd(w)
    BY <1>4, <2>0, <2>2 DEF WEnd
  <2>3. CASE WLock(w) \/ WEmpty(w) \/ WDone(w) \/ WAbort(w) \/ WGive(w) \/ WWake(w) \/ WTimeout(w)
    <3>1. PICK from \in WriterLabels \cap LoopLabels, to \in WriterLabels : Goto(w, from, to)
      BY <2>3 DEF WLock, Acquire, WEmpty, ReleaseEmpty, WDone, WAbort, CheckFlag, WGive, GiveRead, WWake, WTimeout, TimedOut,
         LoopLabels, ReaderLabels, WriterLabels
    <3>2. UNCHANGED buf_len
      BY <2>3 DEF WLock, Acquire, WEmpty, ReleaseEmpty, WDone, WAbort, CheckFlag, WGive, GiveRead, WWake, WTimeout, TimedOut, call
    <3> QED
      BY <1>3, <2>0, <3>1, <3>2 DEF Labels
  <2> QED
    BY <1>9, <2>1, <2>2, <2>3 DEF WriterStep
<1>10. CASE UNCHANGED vars
  BY <1>10 DEF vars, call
<1> QED
  BY <1>5, <1>6, <1>7, <1>8, <1>9, <1>10 DEF Next

(* The writer, alone, finds no space only when the ring is full. *)
LEMMA WriterKeepsWriter ==
  ASSUME RingInv, StillWanted, WriterWakeInv, NEW w \in Writers, Writers = {w}, WriterStep(w)
  PROVE  WriterWakeInv'
<1>0. w \in Tasks /\ w \in Callers /\ w \notin Readers
  BY RingAssumption DEF Tasks, Callers
<1>1. CASE WLock(w)
  <2>1. chunk'[w] = WriteSize(buf_len[w]) /\ fill_cnt' = fill_cnt /\ pc'[w] = "w_copy" /\ buf_len[w] \in Nat
    BY <1>0, <1>1 DEF WLock, Acquire, Goto, ring, RingInv, TypeOK, CallType
  <2>2. chunk'[w] = 0 => buf_len[w] = 0 \/ fill_cnt' = Size
    BY <2>1, RingAssumption DEF WriteSize, BytesAvailable, RingInv, TypeOK, RingType
  <2>3. buf_len[w] > 0
    BY <1>0, <1>1 DEF StillWanted, LoopLabels, WriterLabels, WLock, Acquire, Goto
  <2>4. ~ (FoundNoSpace(w)' /\ fill_cnt' < Size)
    BY <2>1, <2>2, <2>3, RingAssumption DEF FoundNoSpace, RingInv, TypeOK, RingType
  <2> QED
    BY <2>4 DEF WriterWakeInv
<1>2. CASE WCopy(w) \/ WWake(w) \/ WTimeout(w) \/ WEnd(w)
  <2>1. pc'[w] \in {"w_lock", "w_end", "idle"}
    BY <1>0, <1>2 DEF WCopy, WWake, WTimeout, TimedOut, WEnd, Return, Goto, RingInv, TypeOK, CallType
  <2> QED
    BY <2>1 DEF WriterWakeInv, FoundNoSpace
<1>3. CASE WEmpty(w) \/ WDone(w) \/ WAbort(w) \/ WGive(w)
  <2>1. FoundNoSpace(w)
    BY <1>3 DEF WEmpty, ReleaseEmpty, WDone, WAbort, CheckFlag, WGive, GiveRead, Goto, FoundNoSpace
  <2>2. UNCHANGED <<fill_cnt, moved, can_write>>
    BY <1>3 DEF WEmpty, ReleaseEmpty, WDone, WAbort, CheckFlag, WGive, GiveRead, ring, sems, call
  <2>4. \A t \in Tasks : t # w => pc'[t] = pc[t]
    BY <1>3 DEF WEmpty, ReleaseEmpty, WDone, WAbort, CheckFlag, WGive, GiveRead, Goto, RingInv, TypeOK, CallType
  <2>5. WriteSignalDue => WriteSignalDue'
    <3>1. pc[w] \notin ControllerLabels
      BY <2>1 DEF FoundNoSpace, ControllerLabels
    <3> QED
      BY <1>0, <2>2, <2>4, <3>1 DEF WriteSignalDue, Tasks, Callers, ControllerLabels
  <2> QED
    BY <2>1, <2>2, <2>5 DEF WriterWakeInv
<1> QED
  BY <1>1, <1>2, <1>3 DEF WriterStep

(* The flag-changing calls never take a wake-up away from the writer. *)
LEMMA ControlKeepsWriter ==
  ASSUME RingInv, ~ ResetWhileBusy, WriterWakeInv, NEW c \in Controllers,
         ControllerStep(c) \/ rb_done_write(c) \/ rb_unblock_reader(c) \/ rb_abort(c) \/ rb_reset(c)
  PROVE  WriterWakeInv'
<1>0. c \in Tasks
  BY DEF Tasks
<1>1. CASE GiveWrite(c, "c_abort_give_write", "idle")
  BY <1>1 DEF GiveWrite, WriterWakeInv
<1>2. CASE \/ rb_done_write(c) \/ rb_unblock_reader(c) \/ rb_abort(c) \/ rb_abort_write(c)
           \/ GiveRead(c, "c_give", "idle") \/ GiveRead(c, "c_abort_give_read", "c_abort_write")
  <2>1. PICK from \in {"idle", "c_give", "c_abort_give_read", "c_abort_write"},
             to \in {"idle"} \cup ControllerLabels : Goto(c, from, to)
    BY <1>2 DEF rb_done_write, rb_unblock_reader, rb_abort, rb_abort_write, GiveRead, ControllerLabels
  <2>2. UNCHANGED <<fill_cnt, chunk, moved, can_write>>
    BY <1>2 DEF rb_done_write, rb_unblock_reader, rb_abort, rb_abort_write, GiveRead, ring, sems, call
  <2>3. WriteSignalDue => WriteSignalDue'
    BY <1>0, <2>1, <2>2 DEF Goto, RingInv, TypeOK, CallType, WriteSignalDue
  <2>4. \A w \in Writers : FoundNoSpace(w)' => FoundNoSpace(w)
    BY <1>0, <2>1, <2>2 DEF Goto, RingInv, TypeOK, CallType, FoundNoSpace, ControllerLabels, Tasks, Callers
  <2> QED
    BY <2>2, <2>3, <2>4 DEF WriterWakeInv
<1>3. CASE rb_reset(c)
  <2>1. \A t \in Tasks : pc'[t] = "idle"
    BY <1>3 DEF rb_reset
  <2> QED
    BY <2>1 DEF WriterWakeInv, FoundNoSpace, Tasks, Callers
<1> QED
  BY <1>1, <1>2, <1>3 DEF ControllerStep

(* Starting a call loses no announcement to the writer. *)
LEMMA CallKeepsWriter ==
  ASSUME RingInv, WriterWakeInv, ReadCall \/ WriteCall
  PROVE  WriterWakeInv'
<1>1. PICK t \in Callers, to \in {"r_lock", "w_lock", "r_end", "w_end"} : Goto(t, "idle", to)
  <2>1. CASE ReadCall
    BY <2>1 DEF ReadCall, rb_read, Enter, Callers
  <2>2. CASE WriteCall
    BY <2>2 DEF WriteCall, rb_write, Enter, Callers
  <2> QED
    BY <2>1, <2>2
<1>2. UNCHANGED <<fill_cnt, chunk, moved, can_write>>
  BY DEF ReadCall, WriteCall, rb_read, rb_write, Enter, ring, sems
<1>3. WriteSignalDue => WriteSignalDue'
  BY <1>1, <1>2 DEF Goto, RingInv, TypeOK, CallType, WriteSignalDue
<1>4. \A w \in Writers : FoundNoSpace(w)' => FoundNoSpace(w)
  BY <1>1, <1>2 DEF Goto, RingInv, TypeOK, CallType, FoundNoSpace, Tasks, Callers
<1> QED
  BY <1>2, <1>3, <1>4 DEF WriterWakeInv

(* Every step of every task keeps the single writer's invariant. *)
LEMMA WriterWakeStep ==
  ASSUME ~ ResetWhileBusy, NEW w \in Writers, Writers = {w},
         RingInv, StillWanted, WriterWakeInv, [Next]_vars
  PROVE  WriterWakeInv'
<1>1. CASE ReadCall \/ WriteCall
  BY <1>1, CallKeepsWriter
<1>2. CASE ControlCall \/ \E c \in Controllers : ControllerStep(c)
  BY <1>2, ControlKeepsWriter DEF ControlCall
<1>3. CASE \E r \in Readers : ReaderStep(r)
  BY <1>3, ReaderKeepsWriter
<1>4. CASE \E s \in Writers : WriterStep(s)
  BY <1>4, WriterKeepsWriter
<1>5. CASE UNCHANGED vars
  BY <1>5, WriterFrame DEF vars, ring, sems, flags, call, WriteSignalDue
<1> QED
  BY <1>1, <1>2, <1>3, <1>4, <1>5 DEF Next

(* With a single writer, no wake-up of rb_write is lost: a writer asleep although there is
   space always has its token, or a reader on its way to give it. *)
THEOREM WriterIsWoken ==
  ASSUME ~ ResetWhileBusy, NEW w \in Writers, Writers = {w}
  PROVE  Spec => []WriterNotForgotten
<1>1. Init => StillWanted /\ WriterWakeInv
  BY DEF Init, StillWanted, WriterWakeInv, FoundNoSpace, LoopLabels, ReaderLabels, WriterLabels, Tasks, Callers
<1>2. RingInv /\ [Next]_vars => RingInv'
  BY StepInv
<1>3. RingInv /\ StillWanted /\ [Next]_vars => StillWanted'
  BY LoopInv
<1>4. RingInv /\ StillWanted /\ WriterWakeInv /\ [Next]_vars => WriterWakeInv'
  BY WriterWakeStep
<1>5. WriterWakeInv => WriterNotForgotten
  BY DEF WriterWakeInv, WriterNotForgotten, FoundNoSpace
<1> QED
  BY InitInv, <1>1, <1>2, <1>3, <1>4, <1>5, PTL DEF Spec

-------------------------------------------------------------------------------
(* A writer that found no space at all, and still holds the mutex, sees a full ring. *)
FullIfEmptyHanded ==
  \A w \in Writers : pc[w] = "w_copy" /\ chunk[w] = 0 => fill_cnt = Size

LEMMA FullStays ==
  ASSUME RingInv, StillWanted, FullIfEmptyHanded, ~ ResetWhileBusy, [Next]_vars
  PROVE  FullIfEmptyHanded'
<1> SUFFICES ASSUME NEW w \in Writers, pc'[w] = "w_copy", chunk'[w] = 0
             PROVE  fill_cnt' = Size
  BY DEF FullIfEmptyHanded
<1>0. w \in Callers /\ w \in Tasks /\ w \notin Readers /\ pc \in [Tasks -> Labels] /\ chunk \in [Callers -> Nat]
  BY RingAssumption DEF Callers, Tasks, RingInv, TypeOK, CallType
<1>1. CASE WLock(w)
  <2>1. chunk'[w] = WriteSize(buf_len[w]) /\ fill_cnt' = fill_cnt /\ buf_len[w] \in Nat
    BY <1>0, <1>1 DEF WLock, Acquire, ring, RingInv, TypeOK, CallType
  <2>2. buf_len[w] > 0
    BY <1>0, <1>1 DEF StillWanted, LoopLabels, WriterLabels, WLock, Acquire, Goto
  <2> QED
    BY <2>1, <2>2, RingAssumption DEF WriteSize, BytesAvailable, RingInv, TypeOK, RingType
<1>2. CASE ~ WLock(w)
  <2>1. NoCallOf(w)
    <3>1. ~ ReadStep(w)
      BY <1>0 DEF ReadStep
    <3>2. ~ WriteStep(w)
      BY <1>0, <1>2 DEF WriteStep, rb_write, Enter, WriterStep, WEmpty, ReleaseEmpty, WCopy, WDone, WAbort,
         CheckFlag, WGive, GiveRead, WWake, WTimeout, TimedOut, WEnd, Return, Goto
    <3> QED
      BY <1>0, <3>1, <3>2, StepsOfACall
  <2>2. pc[w] = "w_copy" /\ chunk[w] = 0
    BY <2>1 DEF NoCallOf, ControllerLabels
  <2>3. fill_cnt = Size
    BY <2>2 DEF FullIfEmptyHanded
  <2>4. lock = w
    BY <1>0, <2>2 DEF RingInv, CopyInv, LockHeld, CopyLabels
  <2>5. \A t \in Callers : ~ RCopy(t) /\ ~ WCopy(t)
    <3> SUFFICES ASSUME NEW t \in Callers, RCopy(t) \/ WCopy(t) PROVE FALSE
      OBVIOUS
    <3>1. pc[t] \in CopyLabels /\ chunk[t] > 0
      BY DEF RCopy, WCopy, Goto, CopyLabels
    <3>2. t = w
      BY <2>4, <3>1 DEF RingInv, CopyInv, LockHeld
    <3> QED
      BY <2>2, <3>1, <3>2
  <2>6. ~ \E c \in Controllers : rb_reset(c)
    BY <1>0, <2>2 DEF rb_reset
  <2>7. fill_cnt' = fill_cnt
    <3>1. \A t \in Readers \cup Writers : t \in Callers
      BY DEF Callers
    <3> QED
      BY <2>5, <2>6, <3>1 DEF Next, vars, ring, ReadCall, WriteCall, ControlCall, rb_read, rb_write, Enter,
         rb_done_write, rb_unblock_reader, rb_abort, ControllerStep, GiveRead, GiveWrite, rb_abort_write,
         ReaderStep, RLock, Acquire, REmpty, ReleaseEmpty, RDone, RAbort, RUnblock, CheckFlag, RGive, RWake,
         RTimeout, TimedOut, REnd, RRet, Return, WriterStep, WLock, WEmpty, WDone, WAbort, WGive,
         WWake, WTimeout, WEnd
  <2> QED
    BY <2>3, <2>7
<1> QED
  BY <1>1, <1>2

(* The reader gives the writers' token before it sleeps.  Once a writer has taken it,
   that writer is up until it has announced bytes, or it has found the ring full, and
   then the reader's own token is due. *)
WriterUp == \E w \in Writers : pc[w] \in {"w_lock", "w_copy", "w_give"}

SomeoneUp ==
  \A r \in Readers :
    pc[r] = "r_wait" /\ ~ can_read /\ ~ can_write => WriterUp \/ ReadSignalDue

(* A writer that goes out of the way leaves an announcement. *)
LEMMA WriterStaysUp ==
  ASSUME RingInv, StillWanted, ReaderWakeInv, FullIfEmptyHanded, SomeoneUp, Size >= WordSize,
         NEW w \in Writers, WriterStep(w)
  PROVE  SomeoneUp'
<1> SUFFICES ASSUME NEW r \in Readers, pc'[r] = "r_wait", ~ can_read', ~ can_write'
             PROVE  WriterUp' \/ ReadSignalDue'
  BY DEF SomeoneUp
<1>0. /\ w \in Callers /\ w \in Tasks /\ r \in Callers /\ r \in Tasks /\ r # w
      /\ pc \in [Tasks -> Labels] /\ moved \in [Callers -> Nat] /\ buf_len \in [Callers -> Nat]
  BY RingAssumption DEF Callers, Tasks, RingInv, TypeOK, CallType
<1>1. CASE WLock(w) \/ WWake(w)
  BY <1>0, <1>1 DEF WLock, Acquire, WWake, Goto, WriterUp
<1>2. CASE WCopy(w)
  <2>1. moved'[w] > 0 /\ pc'[w] \in {"w_lock", "w_end"}
    BY <1>0, <1>2 DEF WCopy, Goto, Count, RingInv, TypeOK, CallType
  <2> QED
    BY <2>1 DEF ReadSignalDue
<1>3. CASE WEmpty(w)
  <2>1. /\ pc'[r] = pc[r] /\ can_read' = can_read /\ fill_cnt' = fill_cnt /\ buf_len' = buf_len
        /\ is_done_write' = is_done_write
    BY <1>0, <1>3 DEF WEmpty, ReleaseEmpty, Goto, sems, ring, call, flags
  <2>2. fill_cnt = Size
    BY <1>3 DEF WEmpty, ReleaseEmpty, Goto, FullIfEmptyHanded
  <2>3. buf_len[r] > 0
    BY <1>0, <2>1 DEF StillWanted, LoopLabels, ReaderLabels
  <2>4. Words(Size) > 0
    BY RingAssumption DEF Words, WordSize
  <2>5. Readable(r)
    BY <1>0, <2>2, <2>3, <2>4, RingAssumption DEF Readable, ReadSize
  <2>6. Readable(r)' /\ FoundNoData(r)' /\ ReaderWakeInv'
    <3>1. ReaderWakeInv'
      BY WriterKeepsReader
    <3>2. Readable(r)'
      BY <2>1, <2>5 DEF Readable, ReadSize, Words, WordSize
    <3> QED
      BY <3>1, <3>2 DEF FoundNoData
  <2> QED
    BY <2>6 DEF ReaderWakeInv
<1>4. CASE WGive(w)
  BY <1>4 DEF WGive, GiveRead
<1>5. CASE WEnd(w)
  <2>1. /\ pc[w] = "w_end" /\ \A v \in Tasks \ {w} : pc'[v] = pc[v]
        /\ \A v \in Callers \ {w} : moved'[v] = moved[v]
        /\ ~ can_read /\ can_write' = can_write /\ ~ (moved[w] > 0)
    BY <1>0, <1>5 DEF WEnd, Return, Goto
  <2>2. WriterUp \/ ReadSignalDue
    BY <1>0, <2>1 DEF SomeoneUp
  <2>3. WriterUp => WriterUp'
    BY <1>0, <2>1 DEF WriterUp, Tasks, Callers
  <2>4. ReadSignalDue => ReadSignalDue'
    BY <1>0, <2>1 DEF ReadSignalDue, Tasks, Callers
  <2> QED
    BY <2>2, <2>3, <2>4
<1>6. CASE WDone(w) \/ WAbort(w) \/ WTimeout(w)
  <2>1. PICK from \in {"w_done", "w_abort", "w_wait"} :
          Goto(w, from, "w_abort") \/ Goto(w, from, "w_give") \/ Goto(w, from, "w_end")
    BY <1>6 DEF WDone, WAbort, CheckFlag, WTimeout, TimedOut
  <2>2. /\ pc[w] \in {"w_done", "w_abort", "w_wait"} /\ pc'[w] \in {"w_abort", "w_give", "w_end"}
        /\ \A v \in Tasks \ {w} : pc'[v] = pc[v]
    BY <1>0, <2>1 DEF Goto
  <2>3. moved' = moved /\ ~ can_read /\ ~ can_write
    BY <1>6 DEF WDone, WAbort, CheckFlag, WTimeout, TimedOut, sems
  <2>4. WriterUp \/ ReadSignalDue
    BY <1>0, <2>2, <2>3 DEF SomeoneUp
  <2>5. WriterUp => WriterUp'
    BY <1>0, <2>2 DEF WriterUp, Tasks, Callers
  <2>6. ReadSignalDue => ReadSignalDue'
    BY <1>0, <2>2, <2>3 DEF ReadSignalDue, Tasks, Callers
  <2> QED
    BY <2>4, <2>5, <2>6
<1> QED
  BY <1>1, <1>2, <1>3, <1>4, <1>5, <1>6 DEF WriterStep

(* The other steps. *)
LEMMA SomeoneStaysUp ==
  ASSUME RingInv, StillWanted, ReaderWakeInv, FullIfEmptyHanded, SomeoneUp,
         ~ ResetWhileBusy, Size >= WordSize, NEW r \in Readers, Readers = {r}, [Next]_vars
  PROVE  SomeoneUp'
<1>0. r \in Callers /\ r \in Tasks /\ r \notin Writers /\ pc \in [Tasks -> Labels]
  BY RingAssumption DEF Callers, Tasks, RingInv, TypeOK, CallType
<1>1. CASE \E w \in Writers : WriterStep(w)
  BY <1>1, WriterStaysUp
<1>2. CASE ReaderStep(r)
  <2>1. pc'[r] # "r_wait" \/ can_write'
    BY <1>0, <1>2 DEF ReaderStep, RLock, Acquire, REmpty, ReleaseEmpty, RCopy, RDone, RAbort, RUnblock, CheckFlag,
       RGive, GiveWrite, RWake, RTimeout, TimedOut, REnd, RRet, Return, Goto
  <2> QED
    BY <2>1 DEF SomeoneUp
<1>3. CASE ReadCall
  <2>1. pc'[r] # "r_wait"
    BY <1>0, <1>3 DEF ReadCall, rb_read, Enter, Goto
  <2> QED
    BY <2>1 DEF SomeoneUp
<1>4. ASSUME NEW t \in Tasks, t # r, pc[t] \in {"idle", "c_abort_write", "c_abort_give_write"},
             \A s \in Tasks \ {t} : pc'[s] = pc[s],
             UNCHANGED <<moved, can_read>>, can_write => can_write'
      PROVE  SomeoneUp'
  <2>1. WriterUp => WriterUp'
    BY <1>4 DEF WriterUp, Tasks, Callers
  <2>2. ReadSignalDue => ReadSignalDue'
    BY <1>4 DEF ReadSignalDue, Tasks, Callers
  <2> QED
    BY <1>0, <1>4, <2>1, <2>2 DEF SomeoneUp
<1>5. CASE WriteCall
  <2>1. PICK w \in Writers, n \in WriteLens, f \in Waits : rb_write(w, n, f)
    BY <1>5 DEF WriteCall
  <2>2. /\ w \in Tasks /\ w # r /\ pc[w] = "idle" /\ \A s \in Tasks \ {w} : pc'[s] = pc[s]
        /\ UNCHANGED <<moved, can_read, can_write>>
    BY <1>0, <2>1 DEF rb_write, Enter, Goto, Tasks, Callers, sems
  <2> QED
    BY <1>4, <2>2
<1>6. CASE ControlCall \/ \E c \in Controllers : ControllerStep(c)
  <2>1. PICK c \in Controllers : ControlStep(c)
    BY <1>6 DEF ControlCall, ControlStep
  <2>2. c \in Tasks
    BY DEF Tasks
  <2>3. CASE GiveRead(c, "c_give", "idle") \/ GiveRead(c, "c_abort_give_read", "c_abort_write")
    BY <2>3 DEF GiveRead, SomeoneUp
  <2>4. CASE rb_reset(c)
    <3>1. pc'[r] = "idle"
      BY <1>0, <2>4 DEF rb_reset
    <3> QED
      BY <3>1 DEF SomeoneUp
  <2>5. CASE GiveWrite(c, "c_abort_give_write", "idle")
    BY <2>5 DEF GiveWrite, SomeoneUp
  <2>6. CASE rb_abort_write(c) \/ rb_done_write(c) \/ rb_unblock_reader(c) \/ rb_abort(c)
    <3>1. /\ pc[c] \in {"idle", "c_abort_write"} /\ pc'[c] \in ControllerLabels
          /\ \A s \in Tasks \ {c} : pc'[s] = pc[s]
          /\ UNCHANGED <<moved, can_read, can_write>>
      BY <1>0, <2>2, <2>6 DEF rb_abort_write, rb_done_write, rb_unblock_reader, rb_abort, Goto, sems, call, ControllerLabels
    <3>2. CASE c = r
      BY <3>1, <3>2 DEF SomeoneUp, ControllerLabels
    <3>3. CASE c # r
      BY <1>4, <2>2, <3>1, <3>3
    <3> QED
      BY <3>2, <3>3
  <2> QED
    BY <2>1, <2>3, <2>4, <2>5, <2>6 DEF ControlStep, ControllerStep
<1>7. CASE UNCHANGED vars
  BY <1>7 DEF vars, sems, call, SomeoneUp, WriterUp, ReadSignalDue
<1> QED
  BY <1>1, <1>2, <1>3, <1>5, <1>6, <1>7 DEF Next

(* With one reader, any number of writers and a ring of at least one word, the reader
   and the writers never sleep on each other with nobody left to wake one of them. *)
THEOREM NobodyWaitsForever ==
  ASSUME ~ ResetWhileBusy, Size >= WordSize, NEW r \in Readers, Readers = {r}
  PROVE  Spec => []NoMutualWait
<1>1. Init => StillWanted /\ ReaderWakeInv /\ FullIfEmptyHanded /\ SomeoneUp
  BY RingAssumption DEF Init, StillWanted, ReaderWakeInv, FoundNoData, FullIfEmptyHanded, SomeoneUp, LoopLabels,
     ReaderLabels, WriterLabels, Tasks, Callers
<1>2. RingInv /\ StillWanted /\ ReaderWakeInv /\ FullIfEmptyHanded /\ SomeoneUp /\ [Next]_vars
        => RingInv' /\ StillWanted' /\ ReaderWakeInv' /\ FullIfEmptyHanded' /\ SomeoneUp'
  BY StepInv, LoopInv, ReaderWakeStep, FullStays, SomeoneStaysUp
<1>3. SomeoneUp => NoMutualWait
  <2> SUFFICES ASSUME SomeoneUp, AllAsleep, pc[r] = "r_wait", ~ can_read, ~ can_write
               PROVE  FALSE
    BY DEF NoMutualWait
  <2>1. ~ WriterUp /\ ~ ReadSignalDue
    BY DEF AllAsleep, WriterUp, ReadSignalDue, Tasks, Callers
  <2> QED
    BY <2>1 DEF SomeoneUp
<1> QED
  BY InitInv, <1>1, <1>2, <1>3, PTL DEF Spec
====================================================================================
