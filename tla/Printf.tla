------------------------------- MODULE Printf -------------------------------
(***************************************************************************)
(* The formatter behind printf and sprintf.  A format is a sequence of     *)
(* one-character strings; the output is one too.  A count that the code    *)
(* keeps in length_to_return is left out: nothing sets the flag that would *)
(* return it.                                                              *)
(***************************************************************************)
EXTENDS Numbers, FiniteSetsExt

CONSTANT MAXIMUM_VALUE_CHARACTERS  \* the bytes of value_buffer: 38

\* The bytes behind value_buffer, on the stack, were written: what becomes of
\* the call is not followed further.
OVERRUN == <<"OVERRUN">>

\* A null pointer as the argument of s.
NoString == <<"NULL">>

m_hex_str == <<"0", "1", "2", "3", "4", "5", "6", "7", "8", "9",
               "A", "B", "C", "D", "E", "F">>

\* length characters, or none of a negative length, as far as there is room.
write_char(out, end, length, c) ==
  out \o [i \in 1..Max({0, Min({length, end - Len(out)})}) |-> c]

\* The digits of an unsigned value, the lowest first, at least one.  They are
\* written behind a NUL at the begin of value_buffer, however many they are.
RECURSIVE value_to_string(_, _)
value_to_string(value, radix) ==
  <<m_hex_str[(value % radix) + 1]>> \o
  (IF value \div radix = 0 THEN <<>> ELSE value_to_string(value \div radix, radix))

IsNum(c) == c \in {"0", "1", "2", "3", "4", "5", "6", "7", "8", "9"}

RECURSIVE Number(_, _, _)
Number(format, i, count) ==
  IF IsNum(At(format, i))
  THEN Number(format, i + 1, count * 10 + DigitValue(At(format, i)))
  ELSE [count |-> count, last |-> i - 1]

\* The flags that are one character.
FlagOf == [c \in {".", "-", "+", " ", ",", "L", "l"} |->
             CASE c = "." -> "PRECISION"   [] c = "-" -> "LEFT_JUSTIFY"
               [] c = "+" -> "PREFIX_SIGN" [] c = " " -> "PREFIX_BLANK"
               [] c = "," -> "COMMA_TYPE"  [] OTHER   -> "LONG_TYPE"]

(***************************************************************************)
(* Flags, width and precision of the conversion at position i, and the     *)
(* character that ends them.  f holds what was parsed so far and args what *)
(* is left of the arguments.                                               *)
(***************************************************************************)
RECURSIVE Parse(_, _, _, _)
Parse(format, i, args, f) ==
  LET c == At(format, i)
      Sized(n) == IF "PRECISION" \in f.flags THEN [f EXCEPT !.precision = n]
                  ELSE [f EXCEPT !.width = n, !.flags = @ \cup {"PAD_TO_WIDTH"}]
      n == Number(format, i, 0)
      sized == Sized(n.count)
  IN  IF c \in DOMAIN FlagOf
      THEN Parse(format, i + 1, args, [f EXCEPT !.flags = @ \cup {FlagOf[c]}])
      ELSE IF c = "*" THEN Parse(format, i + 1, Tail(args), Sized(Head(args)))
      ELSE IF IsNum(c)
      THEN Parse(format, n.last + 1, args,
                 IF c = "0" /\ "PRECISION" \notin f.flags
                 THEN [sized EXCEPT !.flags = @ \cup {"PREFIX_ZERO"}] ELSE sized)
      ELSE IF c = "NUL"
      THEN [f EXCEPT !.precision = 0, !.next = i, !.type = c, !.args = args]
      ELSE [f EXCEPT !.next = i + 1, !.type = c, !.args = args]

NoFormat == [flags |-> {}, width |-> 0, precision |-> 1, next |-> 0,
             type |-> "", args |-> <<>>]

Radix(type) == CASE type \in {"p", "X", "u", "d", "i"} -> 10
                 [] type = "x" -> 16 [] type = "o" -> 8 [] type = "b" -> 2

IntegerTypes == {"p", "X", "x", "o", "b", "u", "d", "i"}

\* What the type itself adds to or takes from the flags.
TypeFlags(f) ==
  CASE f.type = "p" -> (f.flags \ {"PREFIX_BLANK", "PREFIX_SIGN", "PREFIX_ZERO"})
                       \cup {"LONG_TYPE"}
    [] f.type = "X" -> f.flags \cup {"PREFIX_ZERO"}
    [] f.type = "u" -> (f.flags \ {"PREFIX_SIGN"}) \cup {"UNSIGNED_TYPE"}
    [] OTHER -> f.flags

\* digits: how much of a group of three is missing in front of the number.
Lead(count) == IF count % 3 = 0 THEN 0 ELSE 3 - (count % 3)

RECURSIVE Grouped(_, _)
Grouped(text, digits) ==
  IF text = <<>> THEN <<>>
  ELSE <<Head(text)>> \o (IF digits = 2 /\ Len(text) > 1 THEN <<",">> ELSE <<>>)
       \o Grouped(Tail(text), (digits + 1) % 3)

(***************************************************************************)
(* An integer argument: the digits in printing order, the prefix, and the  *)
(* count and the precision, which both count the prefix.                   *)
(***************************************************************************)
Integer(f, arg) ==
  LET flags == TypeFlags(f)
      long == "LONG_TYPE" \in flags
      taken == IF long THEN Signed(arg, MaxBits) ELSE Signed(arg, IntBits)
      v == IF f.type = "x" /\ ~long THEN Unsigned(taken, IntBits) ELSE taken
      ten == Radix(f.type) = 10
      comma == "COMMA_TYPE" \in flags
      minus == ten /\ v < 0 /\ "UNSIGNED_TYPE" \notin flags
      value == IF minus THEN -v
               ELSE IF ten /\ "UNSIGNED_TYPE" \in flags /\ ~long
               THEN Unsigned(v, IntBits) ELSE v
      prefix == IF minus THEN "-"
                ELSE IF "PREFIX_SIGN" \in flags THEN "+"
                ELSE IF "PREFIX_BLANK" \in flags THEN " " ELSE ""
      precision == IF ten /\ comma THEN 1 ELSE f.precision
      zero == "PREFIX_ZERO" \in flags /\ ~(ten /\ comma)
      digits == IF value = 0 /\ precision = 0 THEN <<>>
                ELSE value_to_string(Unsigned(value, MaxBits), Radix(f.type))
      text == IF comma THEN Grouped(Reverse(digits), Lead(Len(digits)))
              ELSE Reverse(digits)
      extra == IF prefix = "" THEN 0 ELSE 1
  IN  [text |-> text, prefix |-> prefix, zero_pad |-> TRUE,
       overrun |-> Len(digits) + 1 > MAXIMUM_VALUE_CHARACTERS,
       count |-> Len(text) + extra,
       precision |-> IF zero /\ {"LEFT_JUSTIFY", "PRECISION"} \cap flags = {}
                        /\ "PAD_TO_WIDTH" \in flags
                     THEN f.width ELSE precision + extra]

\* A text argument: all of it, or as much as the precision says.
Text(f, text, precision) ==
  LET n == IF "PRECISION" \in f.flags THEN Min({Len(text), precision}) ELSE Len(text)
  IN  [text |-> SubSeq(text, 1, n), prefix |-> "", zero_pad |-> FALSE,
       overrun |-> FALSE, count |-> n, precision |-> precision]

\* The argument of the conversion, which the integers, s and c take.
Argument(f) ==
  CASE f.type \in IntegerTypes -> Integer(f, Head(f.args))
    [] f.type \in {"s", "S"} ->
         Text(f, IF Head(f.args) = NoString
                 THEN <<"<", "n", "u", "l", "l", " ", "s", "t", "r", "i", "n", "g", ">">>
                 ELSE Head(f.args),
              IF "PRECISION" \in f.flags THEN f.precision ELSE 0)
    [] f.type = "c" -> Text(f, <<Head(f.args)>>, f.precision)
    [] f.type = "NUL" -> Text(f, <<>>, f.precision)
    [] OTHER -> Text(f, <<f.type>>, f.precision)

\* Mutant: the zeros come in front of the sign.
Output_ZerosFirst(out, end, f) ==
  LET a == Argument(f)
      precision == Max({a.precision, a.count})
      justify == {"PAD_TO_WIDTH", "LEFT_JUSTIFY"} \cap f.flags
      Pad(o, side) == IF justify = side
                      THEN write_char(o, end, f.width - precision, " ") ELSE o
      filled == write_char(Pad(out, {"PAD_TO_WIDTH"}), end, precision - a.count,
                           IF a.zero_pad THEN "0" ELSE " ")
      signed == write_char(filled, end, IF a.prefix = "" THEN 0 ELSE 1, a.prefix)
      written == FoldLeft(LAMBDA o, c : write_char(o, end, 1, c), signed, a.text)
  IN  IF a.overrun THEN OVERRUN ELSE Pad(written, {"PAD_TO_WIDTH", "LEFT_JUSTIFY"})

\* The conversion written out: blanks, sign, zeros, text, blanks.
Output(out, end, f) ==
  LET a == Argument(f)
      precision == Max({a.precision, a.count})
      justify == {"PAD_TO_WIDTH", "LEFT_JUSTIFY"} \cap f.flags
      Pad(o, side) == IF justify = side
                      THEN write_char(o, end, f.width - precision, " ") ELSE o
      signed == write_char(Pad(out, {"PAD_TO_WIDTH"}), end,
                           IF a.prefix = "" THEN 0 ELSE 1, a.prefix)
      filled == write_char(signed, end, precision - a.count,
                           IF a.zero_pad THEN "0" ELSE " ")
      written == FoldLeft(LAMBDA o, c : write_char(o, end, 1, c), filled, a.text)
  IN  IF a.overrun THEN OVERRUN ELSE Pad(written, {"PAD_TO_WIDTH", "LEFT_JUSTIFY"})

TakesArgument(type) == type \in IntegerTypes \cup {"s", "S", "c"}

(***************************************************************************)
(* The loop over the format, which ends when the buffer is full.  end is   *)
(* the room of the buffer without its terminator.                          *)
(***************************************************************************)
RECURSIVE sprintf_impl(_, _, _, _, _)
sprintf_impl(out, end, format, i, args) ==
  IF i >= Len(format) \/ Len(out) >= end \/ out = OVERRUN THEN out
  ELSE LET f == IF At(format, i) = "%" THEN Parse(format, i + 1, args, NoFormat)
                ELSE [NoFormat EXCEPT !.type = At(format, i), !.next = i + 1,
                                      !.args = args]
           plain == At(format, i) # "%"
           o == IF plain THEN write_char(out, end, 1, f.type) ELSE Output(out, end, f)
       IN  sprintf_impl(o, end, format, f.next,
                        IF ~plain /\ TakesArgument(f.type) THEN Tail(f.args)
                        ELSE f.args)

\* The text that sprintf leaves in a buffer of the given size.
sprintf(size, format, args) == sprintf_impl(<<>>, size - 1, format, 0, args)
=============================================================================
