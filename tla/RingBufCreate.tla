---------------------------- MODULE RingBufCreate ----------------------------
(***************************************************************************)
(* rb_create and rb_destroy of src/ringbuf.c on a heap that may run out.   *)
(* rb_create allocates five things in a row and stops at the first that    *)
(* fails; rb_destroy then releases what it finds in the fields.  malloc    *)
(* does not clear memory: a field that was not assigned yet is a null      *)
(* pointer, junk, or the stale address of something that is in use.        *)
(* Releasing what is not allocated stops the program.  Rings are numbered  *)
(* by the calls of rb_create.                                              *)
(***************************************************************************)
EXTENDS Integers, Sequences, FiniteSets

CONSTANTS
  MaxRings   \* bound: calls of rb_create

ASSUME CreateAssumption == MaxRings \in Nat

VARIABLES
  heap,      \* live allocations, pairs <<what, ring>>
  rings,     \* the handles rb_create has returned and nobody has destroyed
  created,   \* calls of rb_create
  failed,    \* the calls that failed after their first allocation
  halted,    \* something that is not allocated has been released
  stale      \* history: what these calls found in fields they had not assigned

cvars == <<heap, rings, created, failed, halted, stale>>

CInit ==
  /\ heap = {} /\ rings = {} /\ created = 0 /\ failed = {} /\ halted = FALSE
  /\ stale = {}

(* In the order rb_create allocates them. *)
Parts == <<"rb", "p_o", "can_read", "lock", "can_write">>
PartsOf(n, k) == {<<Parts[i], n>> : i \in 1..k}

Pointers == {"p_o", "can_read", "lock", "can_write"}
Place(x) == CHOOSE i \in DOMAIN Parts : Parts[i] = x
NULL == <<"null", 0>>
Junk == <<"junk", 0>>

(***************************************************************************)
(* The pointer fields after k allocations.  p_o is assigned only when all  *)
(* have succeeded (the block is in a local variable until then); the first *)
(* semaphore that failed is NULL; those behind it hold what u says.        *)
(***************************************************************************)
Unassigned(k) == {x \in Pointers : k < 5 /\ (x = "p_o" \/ Place(x) > k + 1)}

Fields(n, k, u) ==
  [x \in Pointers |->
     IF x \in Unassigned(k) THEN u[x]
     ELSE IF Place(x) =< k THEN <<x, n>> ELSE NULL]

(***************************************************************************)
(* rb_destroy on ring n with fields f, when live is allocated.  It asks    *)
(* for NULL and for nothing else; the ring itself goes last.  Two fields   *)
(* with one address release it twice, and so does a field with that of the *)
(* ring.                                                                   *)
(***************************************************************************)
Freed_NullToo(f, ptrs) == {f[x] : x \in ptrs}   \* fault: NULL is not asked for
Freed(f, ptrs) == {f[x] : x \in ptrs} \ {NULL}

Safe(n, f, live) ==
  /\ Freed(f, Pointers) \subseteq live \ {<<"rb", n>>}
  /\ \A x, y \in Pointers : f[x] = f[y] => x = y \/ f[x] = NULL

rb_destroy_KeepsLock(n, f, live) ==          \* fault: the mutex is not deleted
  /\ heap' = live \ (Freed(f, Pointers \ {"lock"}) \cup {<<"rb", n>>})
  /\ halted' = ~ Safe(n, f, live)

rb_destroy(n, f, live) ==
  /\ heap' = live \ (Freed(f, Pointers) \cup {<<"rb", n>>})
  /\ halted' = ~ Safe(n, f, live)

(***************************************************************************)
(* rb_create, when k allocations succeed and the next one fails.  With     *)
(* k = 0 there is no structure, and rb_destroy(NULL) returns at once; a    *)
(* block_size below 2 ends the same way.                                   *)
(***************************************************************************)
rb_create(k) ==
  LET n == created + 1 IN
  /\ ~ halted
  /\ created < MaxRings
  /\ created' = n
  /\ \/ /\ k = 5
        /\ heap' = heap \cup PartsOf(n, 5)
        /\ rings' = rings \cup {n}
        /\ UNCHANGED <<failed, halted, stale>>
     \/ k = 0 /\ UNCHANGED <<heap, rings, failed, halted, stale>>
     \/ /\ k \in 1..4
        /\ \E u \in [Unassigned(k) -> {NULL, Junk} \cup heap \cup PartsOf(n, k)] :
             /\ rb_destroy(n, Fields(n, k, u), heap \cup PartsOf(n, k))
             /\ stale' = stale \cup ({u[x] : x \in Unassigned(k)} \ {NULL})
        /\ failed' = failed \cup {n}
        /\ UNCHANGED rings

Destroy(n) ==
  /\ ~ halted
  /\ n \in rings
  /\ rb_destroy(n, Fields(n, 5, [x \in Pointers |-> NULL]), heap)
  /\ rings' = rings \ {n}
  /\ UNCHANGED <<created, failed, stale>>

CNext ==
  \/ \E k \in 0..5 : rb_create(k)
  \/ \E n \in rings : Destroy(n)

CSpec == CInit /\ [][CNext]_cvars

-------------------------------------------------------------------------------
(***************************************************************************)
(* A call of rb_create that fails halfway harms a ring in use by nothing   *)
(* but the stale addresses in the fields it had not assigned: a ring that  *)
(* was handed out and not destroyed lacks no other part, and the program   *)
(* stops only after there was one.  Over cleared memory a failure, at any  *)
(* of the allocations and however often, is harmless.                      *)
(***************************************************************************)
DamageIsStale ==
  /\ \A n \in rings : PartsOf(n, 5) \ heap \subseteq stale
  /\ halted => stale # {}

(***************************************************************************)
(* What a destroyed ring was made of is gone, and a call of rb_create that *)
(* failed leaves at most its data block behind.                            *)
(***************************************************************************)
OnlyBlocksLeak ==
  \A a \in heap : a[2] \in rings \/ (a[2] \in failed /\ a[1] = "p_o")
===============================================================================
