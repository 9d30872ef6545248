------------------------------ MODULE Numeric -------------------------------
(***************************************************************************)
(* The pure functions of util/bitops.h and util/mathdef.h, the loops of    *)
(* the portable branch, on words of few bits and short arrays, beside what *)
(* they are to compute.  The inputs are walked through one by one.         *)
(***************************************************************************)
EXTENDS FiniteSets, SequencesExt

CONSTANTS
  Width, Byte,    \* bits of a word and of a byte
  Lanes,          \* floats per vector register in find_max, 1 without one
  Values,         \* of arrays and coefficients
  MaxLen          \* a bound: of arrays

ASSUME NumericAssumption ==
  /\ {Width, Byte} \cup Lanes \subseteq Nat \ {0} /\ Width % Byte = 0
  /\ Values \subseteq Nat /\ MaxLen \in Nat

VARIABLES word, arr    \* the inputs

numericVars == <<word, arr>>

Bit(x, i)  == (x \div 2^i) % 2
Shl(x, n)  == (x * 2^n) % 2^Width
Shr(x, n)  == x \div 2^n

clz(x) ==
  LET below[i \in -1..Width-1] == IF i < 0 \/ Bit(x, i) = 1 THEN 0 ELSE 1 + below[i - 1]
  IN  below[Width - 1]

ctz(x) ==
  LET above[i \in 0..Width] == IF i = Width \/ Bit(x, i) = 1 THEN 0 ELSE 1 + above[i + 1]
  IN  above[0]

popcount(x) ==
  LET ones[y \in Nat] == IF y = 0 THEN 0 ELSE (y % 2) + ones[Shr(y, 1)] IN ones[x]

bswap(x) ==
  LET N == Width \div Byte
  IN  MapThenSumSet(LAMBDA i : Shl(Shr(x, i * Byte) % 2^Byte, (N - 1 - i) * Byte), 0..N-1)

(* A rotation by 0 or by more than the width shifts by too much, which is  *)
(* undefined, and is not asked for here.                                   *)
rol(x, n) == Shl(x, n) + Shr(x, Width - n)
ror(x, n) == Shr(x, n) + Shl(x, Width - n)

lsb(x) == ctz(x)
msb(x) == (Width - 1 - clz(x)) % 2^Width

(* n & (n - 1) is empty when no bit of n is set in n - 1.                  *)
IS_POWER_OF_2(n) == n # 0 /\ \A i \in 0..Width-1 : Bit(n, i) * Bit(n - 1, i) = 0

(* For an n as wide as the word of clz64; a shorter n goes wrong.          *)
ROUNDUP_POW_OF_2(n) == IF n = 0 THEN 1 ELSE 2 ^ (Width - clz(n - 1))

(* A mistake: what is left behind the last whole vector is not looked at.  *)
CandidateWhole(s, lanes, i) == IF i < (Len(s) \div lanes) * lanes THEN s[i + 1] ELSE s[1]

(* What find_max compares at index i: in whole vectors the running maximum *)
(* of i's lane, which started with element 0 in every lane; in the rest    *)
(* the element.                                                            *)
Candidate(s, lanes, i) ==
  IF i < (Len(s) \div lanes) * lanes
  THEN Max({s[1]} \cup {s[k + 1] : k \in {k \in 0..i : k % lanes = i % lanes}})
  ELSE s[i + 1]

find_max(s, lanes) ==
  LET better(best, i) ==
        IF Candidate(s, lanes, i) > best.val THEN [val |-> Candidate(s, lanes, i), idx |-> i] ELSE best
  IN  IF s = <<>> THEN [val |-> 0, idx |-> 0]
      ELSE FoldLeft(better, [val |-> s[1], idx |-> 0], [i \in 1..Len(s) |-> i - 1])

poly_eval(coeffs, x) == FoldLeft(LAMBDA r, c : r * x + c, coeffs[1], Tail(coeffs))

-----------------------------------------------------------------------------
NumericInit == word = 0 /\ arr = <<>>

NumericNext ==
  \/ word' = (word + 1) % 2^Width /\ arr = <<>> /\ UNCHANGED arr
  \/ word = 0 /\ Len(arr) < MaxLen /\ (\E v \in Values : arr' = Append(arr, v)) /\ UNCHANGED word
  \/ Len(arr) = MaxLen /\ arr' = <<>> /\ UNCHANGED word

(* Every function agrees with its meaning, on the edges as well: a word of *)
(* zeros or ones, rotations by one and by all bits but one, equal maxima   *)
(* in different vectors, lanes and in the rest.  Not required: msb(0),     *)
(* which wraps around, and rounding up where the result has no word.       *)
AgreesWithMeaning ==
  LET bits  == {i \in 0..Width-1 : Bit(word, i) = 1}
      moved(Op(_)) == MapThenSumSet(LAMBDA i : 2^Op(i), bits)
      powers == {2^i : i \in 0..Width-1}
      tops  == {i \in 1..Len(arr) : \A k \in 1..Len(arr) : arr[k] <= arr[i]}
  IN  /\ clz(word) = (IF bits = {} THEN Width ELSE Width - 1 - Max(bits))
      /\ ctz(word) = (IF bits = {} THEN Width ELSE Min(bits))
      /\ bits # {} => lsb(word) = Min(bits) /\ msb(word) = Max(bits)
      /\ popcount(word) = Cardinality(bits)
      /\ \A n \in 1..Width-1 : /\ rol(word, n) = moved(LAMBDA i : (i + n) % Width)
                               /\ ror(word, n) = moved(LAMBDA i : (i - n) % Width)
      /\ bswap(word) = moved(LAMBDA i : Width - Byte - (i - (i % Byte)) + (i % Byte))
      /\ IS_POWER_OF_2(word) <=> word \in powers
      /\ word <= 2^(Width-1) => ROUNDUP_POW_OF_2(word) = Min({p \in powers : p >= word})
      /\ \A lanes \in Lanes :
           tops # {} => find_max(arr, lanes) = [val |-> arr[Min(tops)], idx |-> Min(tops) - 1]
      /\ \A x \in 1..3 : arr # <<>> =>
           poly_eval(arr, x) = MapThenSumSet(LAMBDA i : arr[i] * x^(Len(arr) - i), 1..Len(arr))
=============================================================================
