------------------------- MODULE RingBufCreateProofs -------------------------
(***************************************************************************)
(* Theorems about RingBufCreate, for any number of calls and any contents  *)
(* of the memory that malloc hands out.                                    *)
(***************************************************************************)
EXTENDS RingBufCreate, TLAPS

Names == {"rb", "p_o", "can_read", "lock", "can_write"}

(* What is allocated, and the numbers of the rings. *)
CTypeOK ==
  /\ created \in Nat
  /\ rings \subseteq 1..created /\ failed \subseteq 1..created
  /\ rings \cap failed = {}
  /\ heap \subseteq Names \X (1..created)
  /\ halted \in BOOLEAN

CInv == CTypeOK /\ DamageIsStale /\ OnlyBlocksLeak

-----------------------------------------------------------------------------
LEMMA PartsAre ==
  /\ DOMAIN Parts = 1..5
  /\ Parts[1] = "rb" /\ Parts[2] = "p_o" /\ Parts[3] = "can_read"
  /\ Parts[4] = "lock" /\ Parts[5] = "can_write"
  BY DEF Parts

LEMMA Places ==
  /\ Place("p_o") = 2 /\ Place("can_read") = 3
  /\ Place("lock") = 4 /\ Place("can_write") = 5
  <1>1. \A x \in Names : \E i \in DOMAIN Parts : Parts[i] = x
    BY PartsAre DEF Names
  <1>2. \A x \in Names : Place(x) \in 1..5 /\ Parts[Place(x)] = x
    BY <1>1, PartsAre DEF Place
  <1>. QED
    BY <1>2, PartsAre DEF Names

(* The parts of a whole ring are all there can be with its number. *)
LEMMA WholeRing ==
  ASSUME NEW n
  PROVE  PartsOf(n, 5) = {<<x, n>> : x \in Names}
  BY PartsAre DEF PartsOf, Names

LEMMA SomeParts ==
  ASSUME NEW n, NEW k \in 1..5
  PROVE  PartsOf(n, k) \subseteq {<<x, n>> : x \in Names}
  BY PartsAre DEF PartsOf, Names

(* A ring that was handed out has its own parts in all its fields. *)
LEMMA WholeFields ==
  ASSUME NEW n, NEW u
  PROVE  /\ \A x \in Pointers : Fields(n, 5, u)[x] = <<x, n>>
         /\ Freed(Fields(n, 5, u), Pointers) = {<<x, n>> : x \in Pointers}
  <1>1. \A x \in Pointers : Fields(n, 5, u)[x] = <<x, n>>
    BY Places DEF Fields, Unassigned, Pointers
  <1>2. \A x \in Pointers : <<x, n>> # NULL
    BY DEF Pointers, NULL
  <1>. QED
    BY <1>1, <1>2 DEF Freed

(* A field of a call that failed after k allocations: what it holds. *)
LEMMA FailedField ==
  ASSUME NEW n, NEW k \in 1..4, NEW u, NEW x \in Pointers
  PROVE  \/ x \in Unassigned(k) /\ Fields(n, k, u)[x] = u[x]
         \/ x # "p_o" /\ Place(x) =< k /\ Fields(n, k, u)[x] = <<x, n>>
         \/ x # "p_o" /\ Place(x) = k + 1 /\ Fields(n, k, u)[x] = NULL
  <1>1. Place(x) \in 2..5 /\ (x = "p_o" <=> Place(x) = 2)
    BY Places DEF Pointers
  <1>. QED
    BY <1>1 DEF Fields, Unassigned

(* A call that failed after k allocations releases all but the block. *)
LEMMA HalfFields ==
  ASSUME NEW n, NEW k \in 1..4, NEW u, NEW a \in PartsOf(n, k)
  PROVE  a[2] = n /\ (a[1] = "p_o" \/ a \in Freed(Fields(n, k, u), Pointers) \cup {<<"rb", n>>})
  <1>1. PICK i \in 1..k : a = <<Parts[i], n>>
    BY DEF PartsOf
  <1>2. CASE i \in 1..2
    BY <1>1, <1>2, PartsAre
  <1>3. CASE i \in 3..5
    <2>1. Parts[i] \in Pointers /\ Parts[i] # "p_o" /\ Place(Parts[i]) = i
      BY <1>3, PartsAre, Places DEF Pointers
    <2>2. Fields(n, k, u)[Parts[i]] = a
      BY <1>1, <1>3, <2>1 DEF Fields, Unassigned
    <2>3. a # NULL
      BY <1>1, <2>1 DEF NULL, Pointers
    <2>. QED
      BY <1>1, <2>1, <2>2, <2>3 DEF Freed
  <1>. QED
    BY <1>1, <1>2, <1>3

(* Over fields that were cleared, it releases its own parts, each once. *)
LEMMA ClearedFieldsAreSafe ==
  ASSUME NEW n, NEW k \in 1..4, NEW u, \A x \in Unassigned(k) : u[x] = NULL,
         NEW live, PartsOf(n, k) \subseteq live
  PROVE  Safe(n, Fields(n, k, u), live)
  <1> DEFINE f == Fields(n, k, u)
  <1>1. \A x \in Pointers : f[x] = NULL \/ (f[x] = <<x, n>> /\ Place(x) =< k)
    <2>. TAKE x \in Pointers
    <2>1. \/ x \in Unassigned(k) /\ f[x] = u[x]
          \/ Place(x) =< k /\ f[x] = <<x, n>>
          \/ f[x] = NULL
      BY FailedField, Zenon
    <2>. QED
      BY <2>1
  <1> HIDE DEF f
  <1>2. \A x \in Pointers : Place(x) =< k => <<x, n>> \in PartsOf(n, k)
    <2>. TAKE x \in Pointers
    <2>1. Place(x) \in 2..5 /\ Parts[Place(x)] = x
      BY Places, PartsAre DEF Pointers
    <2>. QED
      BY <2>1 DEF PartsOf
  <1>3. Freed(f, Pointers) \subseteq live \ {<<"rb", n>>}
    BY <1>1, <1>2 DEF Freed, Pointers
  <1>4. \A x, y \in Pointers : f[x] = f[y] => x = y \/ f[x] = NULL
    BY <1>1 DEF NULL
  <1>. QED
    BY <1>3, <1>4 DEF Safe, f

(* Of what was allocated before, it releases only what was stale. *)
LEMMA StaleIsReleased ==
  ASSUME NEW n, NEW k \in 1..4, NEW u, NEW a \in Freed(Fields(n, k, u), Pointers), a[2] # n
  PROVE  a \in {u[x] : x \in Unassigned(k)} \ {NULL}
  <1>1. PICK x \in Pointers : a = Fields(n, k, u)[x] /\ a # NULL
    BY DEF Freed
  <1>2. \/ x \in Unassigned(k) /\ a = u[x]
        \/ a = <<x, n>>
        \/ a = NULL
    BY <1>1, FailedField, Zenon
  <1>. QED
    BY <1>1, <1>2

-----------------------------------------------------------------------------
LEMMA InitWhole == CInit => CInv
  <1>. SUFFICES ASSUME CInit PROVE CInv
    OBVIOUS
  <1>1. CTypeOK
    BY DEF CInit, CTypeOK
  <1>2. DamageIsStale /\ OnlyBlocksLeak
    BY DEF CInit, DamageIsStale, OnlyBlocksLeak
  <1>. QED
    BY <1>1, <1>2 DEF CInv

LEMMA CreateWhole ==
  ASSUME CInv, NEW k \in 0..5, rb_create(k)
  PROVE  CInv'
  <1> DEFINE n == created + 1
  <1>0. /\ CTypeOK /\ DamageIsStale /\ OnlyBlocksLeak
        /\ n \in Nat /\ created' = n /\ n \notin rings \cup failed /\ n \in 1..n
        /\ 1..created \subseteq 1..n
        /\ ~ halted
    BY DEF CInv, CTypeOK, rb_create
  <1> HIDE DEF n
  <1>1. CASE k = 5
    <2>1. heap' = heap \cup PartsOf(n, 5) /\ rings' = rings \cup {n}
          /\ UNCHANGED <<failed, halted, stale>>
      BY <1>1 DEF rb_create, n
    <2>2. CTypeOK'
      BY <1>0, <2>1, WholeRing DEF CTypeOK
    <2>3. DamageIsStale' /\ OnlyBlocksLeak'
      BY <1>0, <2>1, WholeRing DEF DamageIsStale, OnlyBlocksLeak
    <2>. QED
      BY <2>2, <2>3 DEF CInv
  <1>2. CASE UNCHANGED <<heap, rings, failed, halted, stale>>
    BY <1>0, <1>2 DEF CInv, CTypeOK, DamageIsStale, OnlyBlocksLeak
  <1>3. CASE k \in 1..4
    <2>1. PICK u \in [Unassigned(k) -> {NULL, Junk} \cup heap \cup PartsOf(n, k)] :
            /\ rb_destroy(n, Fields(n, k, u), heap \cup PartsOf(n, k))
            /\ stale' = stale \cup ({u[x] : x \in Unassigned(k)} \ {NULL})
      BY <1>3 DEF rb_create, n
    <2>2. failed' = failed \cup {n} /\ rings' = rings
      BY <1>3 DEF rb_create, n
    <2> DEFINE gone == Freed(Fields(n, k, u), Pointers)
    <2>3. heap' = (heap \cup PartsOf(n, k)) \ (gone \cup {<<"rb", n>>})
          /\ halted' = ~ Safe(n, Fields(n, k, u), heap \cup PartsOf(n, k))
      BY <2>1 DEF rb_destroy
    <2>4. \A a \in heap' : a \in heap \/ (a[2] = n /\ a[1] = "p_o")
      BY <1>3, <2>3, HalfFields
    <2>5. CTypeOK'
      <3>1. heap' \subseteq Names \X (1..created')
        BY <1>0, <1>3, <2>3, SomeParts DEF CTypeOK
      <3>2. halted' \in BOOLEAN
        BY <2>3
      <3>. QED
        BY <1>0, <2>2, <3>1, <3>2 DEF CTypeOK
    <2>6. OnlyBlocksLeak'
      BY <1>0, <2>2, <2>4 DEF OnlyBlocksLeak
    <2>7. \A m \in rings' : PartsOf(m, 5) \ heap' \subseteq stale'
      <3>. SUFFICES ASSUME NEW m \in rings', NEW a \in PartsOf(m, 5), a \notin heap'
                    PROVE  a \in stale'
        OBVIOUS
      <3>1. m \in rings /\ a[2] = m /\ m # n
        BY <1>0, <2>2, WholeRing
      <3>2. CASE a \notin heap
        BY <1>0, <2>1, <3>1, <3>2 DEF DamageIsStale
      <3>3. CASE a \in heap
        <4>1. a \in gone
          BY <2>3, <3>1, <3>3
        <4>. QED
          BY <1>3, <2>1, <3>1, <4>1, StaleIsReleased
      <3>. QED
        BY <3>2, <3>3
    <2>8. halted' => stale' # {}
      <3>. SUFFICES ASSUME stale' = {} PROVE ~ halted'
        OBVIOUS
      <3>1. \A x \in Unassigned(k) : u[x] = NULL
        BY <2>1
      <3>2. Safe(n, Fields(n, k, u), heap \cup PartsOf(n, k))
        BY <1>3, <3>1, ClearedFieldsAreSafe
      <3>. QED
        BY <2>3, <3>2
    <2>. QED
      BY <2>5, <2>6, <2>7, <2>8 DEF CInv, DamageIsStale
  <1>. QED
    BY <1>1, <1>2, <1>3 DEF rb_create

LEMMA DestroyWhole ==
  ASSUME CInv, NEW n \in rings, Destroy(n)
  PROVE  CInv'
  <1> DEFINE f == Fields(n, 5, [x \in Pointers |-> NULL])
  <1>0. /\ CTypeOK /\ DamageIsStale /\ OnlyBlocksLeak
        /\ rb_destroy(n, f, heap) /\ rings' = rings \ {n} /\ UNCHANGED <<created, failed, stale>>
    BY DEF CInv, Destroy
  <1>1. /\ \A x \in Pointers : f[x] = <<x, n>>
        /\ Freed(f, Pointers) = {<<x, n>> : x \in Pointers}
    BY WholeFields
  <1> HIDE DEF f
  <1>2. Freed(f, Pointers) \cup {<<"rb", n>>} = PartsOf(n, 5)
    BY <1>1, WholeRing DEF Names, Pointers
  <1>3. heap' = heap \ PartsOf(n, 5) /\ halted' = ~ Safe(n, f, heap)
    BY <1>0, <1>2 DEF rb_destroy
  <1>4. CTypeOK'
    BY <1>0, <1>3 DEF CTypeOK
  <1>5. DamageIsStale'
    <2>1. \A m \in rings' : PartsOf(m, 5) \ heap' \subseteq stale'
      <3>1. \A m \in rings' : m \in rings /\ PartsOf(m, 5) \cap PartsOf(n, 5) = {}
        BY <1>0, WholeRing
      <3>. QED
        BY <1>0, <1>3, <3>1 DEF DamageIsStale
    <2>2. halted' => stale' # {}
      <3>. SUFFICES ASSUME stale' = {} PROVE ~ halted'
        OBVIOUS
      <3>1. PartsOf(n, 5) \subseteq heap
        BY <1>0 DEF DamageIsStale
      <3>2. Freed(f, Pointers) \subseteq heap \ {<<"rb", n>>}
        BY <1>1, <1>2, <3>1 DEF Pointers
      <3>3. Safe(n, f, heap)
        BY <1>1, <3>2 DEF Safe
      <3>. QED
        BY <1>3, <3>3
    <2>. QED
      BY <2>1, <2>2 DEF DamageIsStale
  <1>6. OnlyBlocksLeak'
    <2>1. SUFFICES ASSUME NEW a \in heap'
                   PROVE  a[2] \in rings' \/ (a[2] \in failed' /\ a[1] = "p_o")
      BY DEF OnlyBlocksLeak
    <2>2. a \in heap /\ a \notin PartsOf(n, 5) /\ a = <<a[1], a[2]>> /\ a[1] \in Names
      BY <1>0, <1>3 DEF CTypeOK
    <2>3. a[2] # n
      BY <2>2, WholeRing
    <2>. QED
      BY <1>0, <2>2, <2>3 DEF OnlyBlocksLeak
  <1>. QED
    BY <1>4, <1>5, <1>6 DEF CInv

LEMMA NextWhole == CInv /\ [CNext]_cvars => CInv'
  <1>1. ASSUME CInv, UNCHANGED cvars PROVE CInv'
    BY <1>1 DEF CInv, CTypeOK, DamageIsStale, OnlyBlocksLeak, cvars
  <1>. QED
    BY <1>1, CreateWhole, DestroyWhole DEF CNext

LEMMA CInvHolds == CSpec => []CInv
  BY InitWhole, NextWhole, PTL DEF CSpec

(***************************************************************************)
(* For any number of calls of rb_create, each failing at any allocation,   *)
(* over any contents of the memory: a ring in use lacks only parts whose   *)
(* address was left in an unassigned field of a failed call, and the       *)
(* program stops only after there was such an address.                     *)
(***************************************************************************)
THEOREM FailuresHarmByStaleFields == CSpec => []DamageIsStale
  <1>1. CInv => DamageIsStale
    BY DEF CInv
  <1>. QED
    BY <1>1, CInvHolds, PTL

(***************************************************************************)
(* Whatever junk the fields hold when a call of rb_create fails, and in    *)
(* any order of calls, nothing but the data blocks of failed calls is left *)
(* of a ring that is not in use.                                           *)
(***************************************************************************)
THEOREM NothingElseLeaks == CSpec => []OnlyBlocksLeak
  <1>1. CInv => OnlyBlocksLeak
    BY DEF CInv
  <1>. QED
    BY <1>1, CInvHolds, PTL
=============================================================================
