------------------------------- MODULE IpAddress -------------------------------
(***************************************************************************)
(* ip4_address (src/ip_address.cpp): an address is its four bytes in the   *)
(* order of the network.  A text is a sequence of characters: the digits   *)
(* 0 to 9, Dot, and Letter for all the others.                             *)
(***************************************************************************)
EXTENDS Naturals, Sequences, FiniteSets, FiniteSetsExt, SequencesExt

Dot        == 10
Letter     == 11
Characters == (0..9) \cup {Dot, Letter}

Byte       == 0..255
Address    == [1..4 -> Byte]
AddressAny == <<0, 0, 0, 0>>

-------------------------------------------------------------------------------
(***************************************************************************)
(* The constructor from a string goes through it once, with the part it is *)
(* in (acc) and the bytes that are complete; an early return clears all.   *)
(***************************************************************************)
Start == [acc |-> 0, bytes |-> << >>, returned |-> FALSE]

digit(s, c) ==
  LET acc == 10 * s.acc + c IN [s EXCEPT !.acc = acc, !.returned = acc > 255]

digit_Unchecked(s, c) ==        \* fault: acc > 255 is not asked, the byte wraps
  [s EXCEPT !.acc = (10 * s.acc + c) % 256]

dot_KeepsAcc(s) ==              \* fault: acc is not reset
  IF Len(s.bytes) = 3 THEN [s EXCEPT !.returned = TRUE]
  ELSE [s EXCEPT !.bytes = Append(@, s.acc)]

dot(s) ==
  IF Len(s.bytes) = 3 THEN [s EXCEPT !.returned = TRUE]
  ELSE [s EXCEPT !.bytes = Append(@, s.acc), !.acc = 0]

character(s, c) ==
  CASE s.returned -> s
    [] ~s.returned /\ c \in 0..9 -> digit(s, c)
    [] ~s.returned /\ c = Dot    -> dot(s)
    [] ~s.returned /\ c = Letter -> [s EXCEPT !.returned = TRUE]

ip4_address(text) ==
  LET s == FoldLeft(character, Start, text) IN
  IF s.returned \/ Len(s.bytes) # 3 THEN AddressAny ELSE Append(s.bytes, s.acc)

(***************************************************************************)
(* What a text says, defined without going through it: four parts between  *)
(* dots, each a decimal number that fits a byte.  A part may be empty and  *)
(* is then 0; every other text means 0.0.0.0.                              *)
(***************************************************************************)
Dots(text) == {i \in 1..Len(text) : text[i] = Dot}
DotBefore(text, k) ==
  IF k = 1 THEN 0
  ELSE CHOOSE i \in Dots(text) : Cardinality({j \in Dots(text) : j =< i}) = k - 1
DotAfter(text, k) ==
  IF k = 4 THEN Len(text) + 1 ELSE DotBefore(text, k + 1)
Part(text, k) == SubSeq(text, DotBefore(text, k) + 1, DotAfter(text, k) - 1)
TenTo[k \in Nat] == IF k = 0 THEN 1 ELSE 10 * TenTo[k - 1]
Number(part)     ==
  MapThenSumSet(LAMBDA i : part[i] * TenTo[Len(part) - i], 1..Len(part))

WellFormed(text) ==
  /\ Letter \notin Range(text)
  /\ Cardinality(Dots(text)) = 3
  /\ \A k \in 1..4 : Number(Part(text, k)) \in Byte

Says(text) ==
  IF WellFormed(text) THEN [k \in 1..4 |-> Number(Part(text, k))] ELSE AddressAny

(***************************************************************************)
(* to_string: four decimal numbers without leading zeros.                  *)
(***************************************************************************)
Decimal(n) ==
  (IF n >= 100 THEN <<n \div 100>> ELSE << >>) \o
  (IF n >= 10 THEN <<(n \div 10) % 10>> ELSE << >>) \o <<n % 10>>

Printed(p, q, r, s) ==
  Decimal(p) \o <<Dot>> \o Decimal(q) \o <<Dot>> \o Decimal(r) \o <<Dot>> \o Decimal(s)

to_string_HostOrder(a) == Printed(a[4], a[3], a[2], a[1])   \* fault: the word's order
to_string(a)           == Printed(a[1], a[2], a[3], a[4])

-------------------------------------------------------------------------------
(***************************************************************************)
(* as_int32 + (n << 24): as_int32 is the same four bytes read as a little  *)
(* endian word, so its highest byte is the last one of the address; what   *)
(* does not fit in 32 bits is dropped.                                     *)
(***************************************************************************)
Plus_Shift16(a, n)   == [a EXCEPT ![3] = (@ + n) % 256]      \* fault: n << 16
Plus(a, n)           == [a EXCEPT ![4] = (@ + n) % 256]
===============================================================================
