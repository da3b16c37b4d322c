------------------------------ MODULE ByteStream ------------------------------
(***************************************************************************)
(* What the ring buffer promises its callers (include/ringbuf.h): a        *)
(* bounded first-in first-out stream of bytes.  There is no memory, no     *)
(* lock and no semaphore here; ring writes append, ring reads take from    *)
(* the front, a reset starts the stream again.                             *)
(*                                                                         *)
(* A byte is the pair of the writer it came from and its position in what  *)
(* that writer has handed in, so a lost, repeated or reordered byte shows. *)
(***************************************************************************)
EXTENDS Integers, Sequences, FiniteSets

CONSTANTS
  Sources,   \* the tasks that write
  Capacity   \* how many bytes the stream holds

VARIABLES
  q,     \* the bytes held, oldest first
  out,   \* every byte handed to a reader since the last reset, in order
  sent   \* per writer, how many of its bytes have been accepted

svars == <<q, out, sent>>

Byte == Sources \X (Nat \ {0})

(***************************************************************************)
(* The next k bytes of writer w.                                           *)
(***************************************************************************)
NextBytes(w, k) == [j \in 1..k |-> <<w, sent[w] + j>>]

Init ==
  /\ q = << >>
  /\ out = << >>
  /\ sent = [w \in Sources |-> 0]

Put(w, k) ==
  /\ Len(q) + k =< Capacity
  /\ q' = q \o NextBytes(w, k)
  /\ sent' = [sent EXCEPT ![w] = @ + k]
  /\ UNCHANGED out

Take(k) ==
  /\ k =< Len(q)
  /\ out' = out \o SubSeq(q, 1, k)
  /\ q' = SubSeq(q, k + 1, Len(q))
  /\ UNCHANGED sent

Restart ==
  /\ q' = << >>
  /\ out' = << >>
  /\ sent' = [w \in Sources |-> 0]

Next ==
  \/ \E w \in Sources, k \in 1..Capacity : Put(w, k)
  \/ \E k \in 1..Capacity : Take(k)
  \/ Restart

Spec == Init /\ [][Next]_svars

-------------------------------------------------------------------------------
(***************************************************************************)
(* Everything accepted since the last reset: first what the readers have,  *)
(* then what is still held.                                                *)
(***************************************************************************)
Stream == out \o q

(***************************************************************************)
(* In the stream the bytes of each writer are numbered 1, 2, 3, ...: none  *)
(* is lost, repeated or overtaken on its way through the ring.             *)
(***************************************************************************)
InOrder ==
  \A i \in 1..Len(Stream) :
    LET earlier == {j \in 1..(i - 1) : Stream[j][1] = Stream[i][1]}
    IN  Stream[i][2] = Cardinality(earlier) + 1
===============================================================================
