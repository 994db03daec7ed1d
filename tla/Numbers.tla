------------------------------ MODULE Numbers ------------------------------
(***************************************************************************)
(* Reading and writing numbers: strtoimax, strtoumax, lltoa and what calls *)
(* them.  A text is a sequence of one-character strings; behind its end    *)
(* lies the terminator.  intmax_t has MaxBits bits and int IntBits.        *)
(***************************************************************************)
EXTENDS Integers, Sequences, SequencesExt

CONSTANTS MaxBits, IntBits

ASSUME WidthAssumption == /\ MaxBits \in Nat /\ IntBits \in Nat
                          /\ 2 < IntBits /\ IntBits <= MaxBits

INTMAX_MAX == 2^(MaxBits - 1) - 1
INTMAX_MIN == -(2^(MaxBits - 1))
UINTMAX_MAX == 2^MaxBits - 1

\* The conversion of an integer to an unsigned or signed type of w bits.
Unsigned(v, w) == v % 2^w
Signed(v, w) == LET u == Unsigned(v, w) IN IF u < 2^(w - 1) THEN u ELSE u - 2^w

\* Division and remainder of C, which round towards zero.
Quot(a, b) == IF a < 0 THEN -((-a) \div b) ELSE a \div b
Rem(a, b) == a - b * Quot(a, b)

\* The value of a digit: isdigit, isalpha and the subtraction that follows.
Digits == <<"0", "1", "2", "3", "4", "5", "6", "7", "8", "9", "a", "b", "c",
            "d", "e", "f", "g", "x">>
DigitValue(c) == IF c = "x" THEN 33 ELSE CHOOSE v \in 0..16 : Digits[v + 1] = c
IsDigit(c) == \E i \in DOMAIN Digits : Digits[i] = c

At(text, i) == IF i < Len(text) THEN text[i + 1] ELSE "NUL"

RECURSIVE SkipSpace(_, _)
SkipSpace(text, i) == IF At(text, i) = " " THEN SkipSpace(text, i + 1) ELSE i

\* The start common to both: where the digits begin, the sign, the base.
Opening(text, base) ==
  LET first == SkipSpace(text, 0)
      s == IF At(text, first) \in {"-", "+"} THEN first + 1 ELSE first
      hex == base \in {0, 16} /\ At(text, s) = "0" /\ At(text, s + 1) = "x"
  IN  [pos |-> IF hex THEN s + 2 ELSE s,
       neg |-> At(text, first) = "-",
       base |-> IF hex THEN 16
                ELSE IF base # 0 THEN base
                ELSE IF At(text, s) = "0" THEN 8 ELSE 10]

(***************************************************************************)
(* The loop over the digits.  any is 0 before the first digit and -1 from  *)
(* the first digit on that does not fit, after which digits are skipped.   *)
(* sign is -1 where the value is built downwards.                          *)
(***************************************************************************)
RECURSIVE Accumulate(_, _, _, _, _, _, _, _, _)
Accumulate(text, pos, base, sign, cutoff, cutlim, limit, acc, any) ==
  LET c == At(text, pos)
      v == DigitValue(c)
      over == \/ sign * acc > sign * cutoff
              \/ acc = cutoff /\ v > cutlim
  IN  IF ~IsDigit(c) \/ v >= base THEN [acc |-> acc, any |-> any, pos |-> pos]
      ELSE IF any < 0
      THEN Accumulate(text, pos + 1, base, sign, cutoff, cutlim, limit, acc, any)
      ELSE IF over
      THEN Accumulate(text, pos + 1, base, sign, cutoff, cutlim, limit, limit, -1)
      ELSE Accumulate(text, pos + 1, base, sign, cutoff, cutlim, limit,
                      acc * base + sign * v, 1)

\* Mutant: the limit of the negative numbers is that of the positive ones.
Limit_Symmetric(neg) == IF neg THEN -INTMAX_MAX ELSE INTMAX_MAX

\* The last value that may be reached, on either side.
Limit(neg) == IF neg THEN INTMAX_MIN ELSE INTMAX_MAX

\* The value, *endptr as an offset, and whether errno was set to ERANGE.
strtoimax(nptr, base) ==
  LET o == Opening(nptr, base)
      limit == Limit(o.neg)
      rem == Rem(limit, o.base)
      up == o.neg /\ rem > 0
      cutlim == IF up THEN o.base - rem ELSE IF o.neg THEN -rem ELSE rem
      cutoff == Quot(limit, o.base) + (IF up THEN 1 ELSE 0)
      end == Accumulate(nptr, o.pos, o.base, IF o.neg THEN -1 ELSE 1,
                        cutoff, cutlim, limit, 0, 0)
  IN  [value |-> end.acc, end |-> IF end.any # 0 THEN end.pos ELSE 0,
       erange |-> end.any < 0]

strtoumax(nptr, base) ==
  LET o == Opening(nptr, base)
      end == Accumulate(nptr, o.pos, o.base, 1, UINTMAX_MAX \div o.base,
                        UINTMAX_MAX % o.base, UINTMAX_MAX, 0, 0)
  IN  [value |-> IF o.neg /\ end.any > 0 THEN Unsigned(-end.acc, MaxBits)
                 ELSE end.acc,
       end |-> IF end.any # 0 THEN end.pos ELSE 0,
       erange |-> end.any < 0]

\* strtol, strtoll: long has the width of intmax_t.  atoi cuts to an int.
strtol(nptr, base) == strtoimax(nptr, base)
strtoul(nptr, base) == strtoumax(nptr, base)
atoi(nptr) == Signed(strtol(nptr, 10).value, IntBits)

-----------------------------------------------------------------------------
\* The digits of uvalue, the lowest first, none for zero.
RECURSIVE DigitsUp(_, _)
DigitsUp(uvalue, base) ==
  IF uvalue = 0 THEN <<>>
  ELSE <<Digits[(uvalue % base) + 1]>> \o DigitsUp(uvalue \div base, base)

lltoa(value, base) ==
  LET isNegative == value < 0 /\ base = 10
      uvalue == Unsigned(IF isNegative THEN -value ELSE value, MaxBits)
  IN  IF value = 0 THEN <<"0">>
      ELSE Reverse(DigitsUp(uvalue, base) \o (IF isNegative THEN <<"-">> ELSE <<>>))
=============================================================================
