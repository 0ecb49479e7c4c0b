-------------------------------- MODULE Text --------------------------------
(****************************************************************************)
(* Numbers and strings, as src/common/utils.c, kmain.c, rtc.c and the       *)
(* window API write and compare them.  A string is a sequence of characters *)
(* without its NUL; a digit is its value.                                   *)
(****************************************************************************)
EXTENDS Integers, SequencesExt

CONSTANTS
  Bits,    \* the width of u64_div's numbers: 64
  Room     \* what strncpy and strcmp take for the size of every buffer: 64

\* itoa, uint32_to_str and uint64_to_str: the digits of n, the first one first.
Digits(n, base) ==
  LET d[m \in 0..n] == IF m = 0 THEN <<>> ELSE Append(d[m \div base], m % base)
  IN  IF n = 0 THEN <<0>> ELSE d[n]

\* int_to_str: the last digits that fit into width - 1 places, and zeros in front.
int_to_str(n, width) ==
  [i \in 1..(width - 1) |-> (n \div 10 ^ (width - 1 - i)) % 10]

\* digit_count, with a place for the sign.
digit_count(n) == IF n < 0 THEN 1 + Len(Digits(-n, 10)) ELSE Len(Digits(n, 10))

(* u64_div and u64_mod: one bit after the other, from the highest down; the *)
(* shifted remainder loses its highest bit.                                 *)
DivMod(n, d) ==
  LET Bit(i) == (n \div 2 ^ i) % 2
      Step(s, i) ==
        LET r == (2 * s.r + Bit(i)) % 2 ^ Bits
        IN  IF r >= d THEN [q |-> s.q + 2 ^ i, r |-> r - d] ELSE [s EXCEPT !.r = r]
  IN  FoldLeft(Step, [q |-> 0, r |-> 0], [j \in 1..Bits |-> Bits - j])

\* get_current_time's two digits for a register: BCD, to a number, to digits.
TwoDigits(bcd) ==
  LET n == (bcd \div 16) * 10 + (bcd % 16)
  IN  <<n \div 10, n % 10>>

-----------------------------------------------------------------------------
(* strncpy, with the NUL its callers put at place n: never more than fits   *)
(* into Room, however large the buffer really is.                           *)
strncpy(s, n) ==
  LET room == IF n < Room THEN n ELSE Room - 1
  IN  IF Len(s) <= room THEN s ELSE SubSeq(s, 1, room)

\* What g_classes has room for of a name, what a title and a GetWindowText keep.
ClassName(s) == strncpy(s, Room - 1)
SetWindowText(s) == strncpy(s, 2 * Room - 1)
GetWindowText(title, nMaxCount) == strncpy(title, nMaxCount - 1)

\* find_class_by_name: the first class of that name, or 0.
find_class_by_name(classes, name) ==
  SelectInSeq(classes, LAMBDA c : c = name)

\* RegisterClass, on a table with so many slots; classes are never given back.
RegisterClass(classes, name, slots) ==
  IF find_class_by_name(classes, name) # 0 \/ Len(classes) = slots
  THEN classes ELSE Append(classes, ClassName(name))
=============================================================================
