------------------------------ MODULE Library ------------------------------
(***************************************************************************)
(* Calls of the library functions and of the PCI scan, each compared with  *)
(* a reference that says what the call should give.  A behaviour is one    *)
(* call: an input is chosen, the function computes, the result stays.  For *)
(* the circular buffer the input is a sequence of operations.              *)
(***************************************************************************)
EXTENDS Strings, Printf, Pci

CONSTANTS Letters,      \* the characters of the strings, without the blank
          MaxLen,       \* the longest string
          MaxSplit,     \* the longest string that is split
          Magnitudes,   \* the numbers that are read and written
          Widths,       \* the widths and precisions of a conversion
          SlotBuses,    \* the buses of the first host bridge
          BarValues,    \* the base address registers
          RingCapacity, \* the slots of the circular buffer
          MaxOps        \* the longest sequence of its operations

VARIABLES input,   \* the call and its arguments
          result   \* <<>>, then what the call computed

vars == <<input, result>>

Ring == INSTANCE CircBuf WITH Capacity <- RingCapacity

-----------------------------------------------------------------------------
(* The inputs. *)

Alphabet == Letters \cup {SPACE}

Texts(chars, n) == UNION {[1..k -> chars] : k \in 0..n}

StringInputs == [kind : {"string"}, s : Texts(Alphabet, MaxLen),
                 t : Texts(Alphabet, 2), n : 0..3, c : Alphabet]

SplitInputs == [kind : {"split"}, s : Texts(Alphabet, MaxSplit),
                t : {<<SPACE>>} \cup {<<SPACE, c>> : c \in Letters}, n : 0..2]

NumberInputs == [kind : {"number"}, lead : {<<>>, <<" ">>}, sign : {<<>>, <<"+">>, <<"-">>},
                 auto : BOOLEAN, base : {8, 10, 16}, digits : BOOLEAN,
                 magnitude : Magnitudes, rest : {<<>>, <<"g">>, <<"g", "1">>}]

FormatFlags == {"-", "+", " ", "0", ","}

PrintfInputs ==
  [kind : {"printf"}, flags : SUBSET FormatFlags, width : Widths, precision : Widths,
   long : BOOLEAN, type : {"d", "u", "x", "o", "b", "s", "c", "%"},
   arg : {0, 1, -1, 5, -8, 27}, size : {4, 30}]

\* The codes of the tables, and some that no table has.
Codes == (0..20) \cup {32, 33, 48, 128, 254, 255}

ClassInputs == [kind : {"class"}, base_class_code : Codes, sub_class_code : Codes,
                pi_class_code : Codes]

BarInputs == [kind : {"bar"}, low : BarValues, high : BarValues]

(***************************************************************************)
(* A machine: in each slot nothing, a device of one function (that answers *)
(* for the others too when it ghosts) or one with more functions.  The     *)
(* second bridge may be unknown to the memory map.  The table MCFG comes   *)
(* last; before it comes one that is called decoy.                         *)
(***************************************************************************)
Slots == {<<0, bus, dev>> : bus \in SlotBuses, dev \in 0..PCI_MAX_DEVICE} \cup {<<1, 0, 0>>}

ScanInputs ==
  [kind : {"scan"}, listed : BOOLEAN, known : {{2}, {2, 3}},
   slot : [Slots -> {"none", "single", "ghost", "multi", "gap"}],
   decoy : {<<2, 3, 4, 5>>, <<6, 3, 4, 5>>, <<7, 8, 8, 9>>}]

\* The i-th operation adds the value i, or takes an element from an end.
RingInputs == [kind : {"ring"},
               ops : Texts({"enqueue", "push", "dequeue", "dequeue_tail"}, MaxOps)]

-----------------------------------------------------------------------------
(* The calls. *)

S == 1
T == S + MaxLen + 5

\* The two strings in memory, with other characters behind their ends.
Memory(s, t) ==
  [a \in 0..(T + 6) |-> IF a >= S /\ a < S + Len(s) THEN s[a - S + 1]
                        ELSE IF a >= T /\ a < T + Len(t) THEN t[a - T + 1]
                        ELSE IF a \in {S + Len(s), T + Len(t)} THEN NUL
                        ELSE IF a < T THEN 8 ELSE 9]

HasInk(s) == \E i \in DOMAIN s : s[i] # SPACE

StringCall(in) ==
  LET m == Memory(in.s, in.t)
      n == in.n
  IN  [lengths |-> <<strlen(m, S), strnlen(m, S, n), strspn(m, S, T), strcspn(m, S, T)>>,
       found |-> <<strchr(m, S, in.c), strrchr(m, S, in.c), memchr(m, S, in.c, n),
                   memrchr(m, S, in.c, n), strstr(m, S, T), strrstr(m, S, T)>>,
       compared |-> <<strcmp(m, S, T), memcmp(m, S, T, n), strncmp(m, S, T, n)>>,
       equal |-> <<strequ(m, S, T), strnequ(m, S, T, n)>>,
       memcpy |-> memcpy(m, S, T, n), memset |-> memset(m, S, in.c, n),
       up |-> memmove(m, S + 1, S, n), down |-> memmove(m, S, S + 1, n),
       strcpy |-> strcpy(m, S, T), strncpy |-> strncpy(m, S, T, n),
       strcat |-> strcat(m, S, T), strncat |-> strncat(m, S, T, n),
       strndup |-> strndup(m, S, n), strrev |-> strrev(m, S),
       trimmed |-> IF HasInk(in.s)
                   THEN [at |-> strtrim_leading(m, S), m |-> strtrim(m, S)]
                   ELSE [at |-> S, m |-> m]]

SplitCall(in) ==
  LET split == strsplit(Memory(in.s, in.t), S, T)
  IN  [m |-> split.m, vec |-> split.split, less |-> vector_delete(split.split, in.n),
       set |-> vector_set(split.split, in.n, T)]

\* The digits of a number, none for zero.
RECURSIVE Spell(_, _, _)
Spell(n, base, digits) == IF n = 0 THEN <<>>
                          ELSE Spell(n \div base, base, digits) \o <<digits[(n % base) + 1]>>

\* The text of a number: blanks, sign, the prefix of its base, digits, the rest.
Prefix(in) == IF ~in.digits THEN <<>>
              ELSE CASE in.base = 16 -> <<"0", "x">>
                     [] in.base = 8 /\ in.auto -> <<"0">>
                     [] OTHER -> <<>>
Spelled(in) == in.lead \o in.sign \o Prefix(in)
             \o (CASE ~in.digits -> <<>>
                 [] in.magnitude = 0 -> <<"0">>
                 [] OTHER -> Spell(in.magnitude, in.base, Digits))
Negative(in) == in.sign = <<"-">>
Meant(in) == IF Negative(in) THEN -in.magnitude ELSE in.magnitude

NumberCall(in) ==
  LET text == Spelled(in) \o in.rest
      base == IF in.auto THEN 0 ELSE in.base
  IN  [signed |-> strtol(text, base), unsigned |-> strtoul(text, base),
       atoi |-> atoi(text),
       written |-> [b \in {2, 10, 16} |-> lltoa(Signed(Meant(in), MaxBits), b)]]

\* The format: a literal, the conversion, a literal.
InOrder(set, order) == SelectSeq(order, LAMBDA c : c \in set)
SizeText(n) == lltoa(n, 10)
Format(in) ==
  <<"a", "%">> \o InOrder(in.flags, <<",", "-", "+", " ", "0">>)
  \o (IF in.width = NULL THEN <<>> ELSE SizeText(in.width))
  \o (IF in.precision = NULL THEN <<>> ELSE <<".">> \o SizeText(in.precision))
  \o (IF in.long THEN <<"l">> ELSE <<>>) \o <<in.type, "b">>
Given(in) == CASE in.type = "s" -> IF in.arg = 0 THEN NoString ELSE <<"h", "e", "y">>
               [] in.type = "c" -> "h"
               [] OTHER -> IF in.long THEN Signed(in.arg, MaxBits) ELSE Signed(in.arg, IntBits)

PrintfCall(in) == sprintf(in.size, Format(in), IF in.type = "%" THEN <<>> ELSE <<Given(in)>>)

\* r holds the buffer, what the operations returned and their number.
RingStep(r, op) ==
  LET cb == CASE op = "enqueue" -> Ring!circ_buf_enqueue_tail(r.cb, r.n)
              [] op = "push" -> Ring!circ_buf_enqueue_head(r.cb, r.n)
              [] r.cb.size = 0 -> r.cb
              [] op = "dequeue" -> Ring!circ_buf_dequeue_head(r.cb)
              [] OTHER -> Ring!circ_buf_dequeue_tail(r.cb)
      got == CASE op \in {"enqueue", "push"} \/ r.cb.size = 0 -> NULL
               [] op = "dequeue" -> r.cb.buf[r.cb.head]
               [] OTHER -> r.cb.buf[cb.tail]
  IN  [cb |-> cb, got |-> Append(r.got, got), n |-> r.n + 1]

RingCall(in) ==
  LET r == FoldLeft(RingStep, [cb |-> Ring!circ_buf_init([s \in Ring!Slots |-> 0]),
                               got |-> <<>>, n |-> 1], in.ops)
      Peek(slot) == r.cb.buf[slot]
  IN  [got |-> r.got, tail |-> r.cb.tail,
       head_on |-> [i \in 1..r.cb.size |-> Peek(Ring!circ_buf_peekn_head(r.cb, i - 1))],
       tail_on |-> [i \in 1..r.cb.size |->
                      Peek(Ring!circ_buf_peekn_tail(r.cb, i - 1, 2^MaxBits))]]

-----------------------------------------------------------------------------
\* The name MCFG at 0 and two tables, each with a byte of its length behind.
MCFG == <<2, 3, 4, 5>>
Tables(decoy) == [a \in 0..14 |-> IF a < 4 THEN MCFG[a + 1] ELSE IF a = 4 THEN NUL
                                  ELSE IF a < 9 THEN decoy[a - 4]
                                  ELSE IF a = 9 THEN 60
                                  ELSE IF a < 14 THEN MCFG[a - 9] ELSE 76]

FirstBus(b) == IF b = 0 THEN 0 ELSE Max(SlotBuses) + 1
Bridge(b) == [base_address |-> 2 + b, start_bus_number |-> FirstBus(b),
              end_bus_number |-> Max(SlotBuses) + b]

\* The functions that a slot has, and those that answer in it.
FunctionsOf(slot) == CASE slot = "none" -> {}
                     [] slot \in {"single", "ghost"} -> {0}
                     [] slot = "multi" -> 0..PCI_MAX_FUNCTION
                     [] slot = "gap" -> {0, PCI_MAX_FUNCTION}
Answers(slot) == IF slot = "ghost" THEN 0..PCI_MAX_FUNCTION ELSE FunctionsOf(slot)

\* The device 1 of a bus is the USB controller, with a 64-bit register.
Header(in, p, fun) ==
  [multi |-> in.slot[p] \in {"multi", "gap"},
   class |-> IF p[3] = 1 /\ fun = 0 THEN <<12, 3, 48>> ELSE <<1, 6, fun>>,
   bar |-> [i \in 0..5 |-> IF i = 0 THEN 36 ELSE IF i = 1 THEN p[2] ELSE 16 * i]]

Config(in) ==
  LET answering == {<<2 + p[1], p[2], p[3], fun>> : p \in Slots, fun \in 0..PCI_MAX_FUNCTION}
      there == {a \in answering : a[4] \in Answers(in.slot[<<a[1] - 2, a[2], a[3]>>])}
  IN  [a \in there |-> Header(in, <<a[1] - 2, a[2], a[3]>>,
                             IF in.slot[<<a[1] - 2, a[2], a[3]>>] = "ghost" THEN 0 ELSE a[4])]

ScanCall(in) ==
  LET scan == pci_init(Tables(in.decoy), IF in.listed THEN <<5, 10>> ELSE <<5>>,
                       [a \in {5, 10} |-> IF a = 10 THEN <<Bridge(0), Bridge(1)>> ELSE <<>>],
                       in.known, Config(in))
  IN  [scan |-> scan, usb |-> usb_init(scan)]

-----------------------------------------------------------------------------
Init == /\ \/ input \in StringInputs
           \/ input \in SplitInputs
           \/ input \in NumberInputs
           \/ input \in PrintfInputs
           \/ input \in ClassInputs
           \/ input \in BarInputs
           \/ input \in ScanInputs
           \/ input \in RingInputs
        /\ result = <<>>

Call(kind, Outcome(_)) == /\ result = <<>>
                          /\ input.kind = kind
                          /\ result' = <<Outcome(input)>>
                          /\ UNCHANGED input

BarCall(in) == pci_bar_addr(<<in.high>> @@ 0 :> in.low, 0)

Next == \/ Call("string", StringCall)
        \/ Call("split", SplitCall)
        \/ Call("number", NumberCall)
        \/ Call("printf", PrintfCall)
        \/ Call("class", pci_get_class_names)
        \/ Call("bar", BarCall)
        \/ Call("scan", ScanCall)
        \/ Call("ring", RingCall)

Spec == Init /\ [][Next]_vars

Done(kind) == result # <<>> /\ input.kind = kind

-----------------------------------------------------------------------------
(* The references. *)

\* The address of one of the positions ps of a text at base, or NULL.
Where(base, ps, Pick(_)) == IF ps = {} THEN NULL ELSE base + Pick(ps) - 1

Matches(s, t) == {i \in 1..(Len(s) - Len(t) + 1) : SubSeq(s, i, i + Len(t) - 1) = t}

\* The length of the longest front of s made of characters in set.
Run(s, set) == Max({k \in 0..Len(s) : \A i \in 1..k : s[i] \in set})

Sign(n) == IF n > 0 THEN 1 ELSE IF n < 0 THEN -1 ELSE 0

\* The order of two texts by the first characters that differ.
Order(a, b) == LET at == {i \in 1..Min({Len(a), Len(b)}) : a[i] # b[i]}
               IN  IF at = {} THEN Sign(Len(a) - Len(b))
                   ELSE Sign(a[Min(at)] - b[Min(at)])

Bytes(m, a, n) == [i \in 1..n |-> m[a + i - 1]]

\* The searches and comparisons of string.h find the first, or the last, place
\* that matches and order two texts by their first difference, whatever lies
\* behind the terminators.  strncmp takes the difference of the characters behind
\* the first that differ (libc/string/strcmp.c): it gives 0 for equal beginnings,
\* and for others it is held to anything else only where those differ as well.
\* It does not stop at a NUL and is held to this inside of both texts.
SearchesExact ==
  Done("string") =>
    LET r == result[1]
        s == input.s
        t == input.t
        n == Min({input.n, Len(s), Len(t)})
        seen == {i \in DOMAIN s : s[i] = input.c}
        early == {i \in seen : i <= input.n}
        equal == SubSeq(s, 1, n) = SubSeq(t, 1, n)
        differ == {i \in 0..(n - 1) : s[i + 1] # t[i + 1]}
        \* The characters behind the first difference differ too.
        apart == LET m == Memory(s, t)
                     next == Min(differ) + 1
                 IN  ~equal /\ m[S + next] # m[T + next]
    IN  /\ r.lengths = <<Len(s), Min({input.n, Len(s)}),
                         Run(s, Range(t)), Run(s, Alphabet \ Range(t))>>
        /\ r.found[1] = Where(S, seen, Min)
        /\ r.found[2] = Where(S, seen, Max)
        /\ r.found[3] = Where(S, early, Min)
        /\ r.found[4] = Where(S, early, Max)
        /\ t # <<>> => /\ r.found[5] = Where(S, Matches(s, t), Min)
                       /\ r.found[6] = Where(S, Matches(s, t), Max)
        /\ Sign(r.compared[1]) = Order(s, t)
        /\ input.n <= n => r.compared[2] = Order(SubSeq(s, 1, n), SubSeq(t, 1, n))
        /\ input.n <= n /\ equal => r.compared[3] = 0 /\ r.equal[2]
        /\ input.n <= n /\ apart => r.compared[3] # 0 /\ ~r.equal[2]
        /\ r.equal[1] = (s = t)

\* m holds text at a, ended by NUL, and is as before outside of it.
Holds(m, a, text) == /\ Bytes(m, a, Len(text) + 1) = Append(text, NUL)
                     /\ \A b \in DOMAIN m : \/ b >= a /\ b <= a + Len(text)
                                            \/ m[b] = Memory(input.s, input.t)[b]

Inked(s) == {i \in DOMAIN s : s[i] # SPACE}

\* The functions that write a string leave that string, ended by NUL, and touch
\* nothing else; memmove gets overlapping blocks right in both directions.
\* strncat is held to this only where its source is long enough: else it
\* returns without the NUL (libc/string/strcat.c).  strtrim is held to it for
\* texts that are not blank: else it walks in front of the text.
CopiesExact ==
  Done("string") =>
    LET r == result[1]
        s == input.s
        t == input.t
        n == input.n
        m == Memory(s, t)
    IN  /\ Holds(r.strcpy, S, t)
        /\ Bytes(r.strncpy, S, n) = [i \in 1..n |-> IF i <= Len(t) THEN t[i] ELSE NUL]
        /\ Holds(r.strcat, S, s \o t)
        /\ n <= Len(t) => Holds(r.strncat, S, s \o SubSeq(t, 1, n))
        /\ Bytes(r.strndup, 0, Min({n, Len(s)}) + 1) = Append(SubSeq(s, 1, Min({n, Len(s)})), NUL)
        /\ Holds(r.strrev, S, Reverse(s))
        /\ HasInk(s) =>
             Holds(r.trimmed.m, r.trimmed.at, SubSeq(s, Min(Inked(s)), Max(Inked(s))))
        /\ Bytes(r.up, S + 1, n) = Bytes(m, S, n)
        /\ Bytes(r.down, S, n) = Bytes(m, S + 1, n)
        /\ Bytes(r.memcpy, S, n) = Bytes(m, T, n)
        /\ Bytes(r.memset, S, n) = [i \in 1..n |-> input.c]

\* The starts of the runs of s without characters in set, and such a run.
Starts(s, set) == {i \in DOMAIN s : s[i] \notin set /\ (i = 1 \/ s[i - 1] \in set)}
RunFrom(s, set, i) == SubSeq(s, i, i + Run(SubSeq(s, i, Len(s)), Alphabet \ set) - 1)

InUse(vec) == [i \in 1..vec.length |-> vector_get(vec, i - 1)]

\* strsplit gives the runs between the delimiters, in order, each ended in
\* place, and the vector keeps what was added through growth, removal and
\* shrinking: it never holds more than its block.
TokensExact ==
  Done("split") =>
    LET r == result[1]
        delims == Range(input.t)
        runs == SetToSortSeq(Starts(input.s, delims), <)
        n == input.n
    IN  /\ InUse(r.vec) = [i \in DOMAIN runs |-> S + runs[i] - 1]
        /\ \A i \in DOMAIN runs :
             LET text == RunFrom(input.s, delims, runs[i])
             IN  Bytes(r.m, S + runs[i] - 1, Len(text) + 1) = Append(text, NUL)
        /\ InUse(r.less) = IF n < Len(runs) THEN RemoveAt(InUse(r.vec), n + 1)
                           ELSE InUse(r.vec)
        /\ InUse(r.set) = [i \in DOMAIN runs |-> IF i = n + 1 THEN T ELSE InUse(r.vec)[i]]
        /\ \A v \in {r.vec, r.less} : v.length <= v.capacity /\ Len(v.items) = v.capacity

Clamp(v, low, high) == Min({Max({v, low}), high})

\* A number that is spelled out is read as that number, or as the end of the
\* range with ERANGE, and reading stops behind its last digit; without digits
\* nothing is read.  A number written in base 10 reads back as itself, and in
\* another base as its bits.
NumbersExact ==
  Done("number") =>
    LET r == result[1]
        v == IF input.digits THEN Meant(input) ELSE 0
        w == IF input.digits THEN input.magnitude ELSE 0
        end == IF input.digits THEN Len(Spelled(input)) ELSE 0
        own == Signed(Meant(input), MaxBits)
    IN  /\ r.signed = [value |-> Clamp(v, INTMAX_MIN, INTMAX_MAX), end |-> end,
                       erange |-> v \notin INTMAX_MIN..INTMAX_MAX]
        /\ r.unsigned = [value |-> IF w > UINTMAX_MAX THEN UINTMAX_MAX ELSE v % 2^MaxBits,
                         end |-> end, erange |-> w > UINTMAX_MAX]
        /\ input.base = 10 /\ v = Signed(v, IntBits) => r.atoi = v
        /\ strtoimax(r.written[10], 10).value = own
        /\ \A b \in {2, 16} : strtoumax(r.written[b], b).value = Unsigned(own, MaxBits)

\* What the C standard prints, with capital letters as digits.
Fill(c, n) == [i \in 1..Max({0, n}) |-> c]

Commas(text) == FlattenSeq([i \in DOMAIN text |->
                  IF i < Len(text) /\ (Len(text) - i) % 3 = 0 THEN <<text[i], ",">>
                  ELSE <<text[i]>>])

NullText == <<"<", "n", "u", "l", "l", " ", "s", "t", "r", "i", "n", "g", ">">>

Body(in) ==
  LET v == Given(in)
      u == IF in.type = "d" THEN (IF v < 0 THEN -v ELSE v)
           ELSE Unsigned(v, IF in.long THEN MaxBits ELSE IntBits)
      base == CASE in.type \in {"d", "u"} -> 10 [] in.type = "x" -> 16
                [] in.type = "o" -> 8 [] in.type = "b" -> 2
      least == IF in.precision = NULL THEN 1 ELSE in.precision
      digits == Fill("0", least - Len(Spell(u, base, m_hex_str))) \o Spell(u, base, m_hex_str)
      sign == IF in.type # "d" THEN <<>> ELSE IF v < 0 THEN <<"-">>
              ELSE IF "+" \in in.flags THEN <<"+">>
              ELSE IF " " \in in.flags THEN <<" ">> ELSE <<>>
      zeros == IF "0" \in in.flags /\ "-" \notin in.flags /\ in.precision = NULL
                  /\ in.width # NULL
               THEN Fill("0", in.width - Len(digits) - Len(sign)) ELSE <<>>
      text == IF v = NoString THEN NullText ELSE v
  IN  CASE in.type = "s" -> (IF in.precision = NULL THEN text
                             ELSE SubSeq(text, 1, Min({Len(text), in.precision})))
        [] in.type = "c" -> <<v>>
        [] in.type = "%" -> <<"%">>
        [] OTHER -> IF "," \in in.flags THEN sign \o Commas(digits)
                    ELSE sign \o zeros \o digits

Field(in) == LET body == Body(in)
                 blanks == Fill(" ", IF in.width = NULL THEN 0 ELSE in.width - Len(body))
             IN  IF "-" \in in.flags THEN body \o blanks ELSE blanks \o body

(***************************************************************************)
(* The conversions that the comment in printf.c claims for ANSI C, without *)
(* those in which the code differs: the sign flags on an unsigned type, a  *)
(* negative int in octal or binary, a precision on a text that is shorter, *)
(* and the flags that the code adds (the comma) together with padding.     *)
(***************************************************************************)
Standard(in) ==
  /\ in.type # "d" => in.flags \cap {"+", " "} = {}
  /\ in.type \in {"o", "b"} => in.long \/ Given(in) >= 0
  /\ in.type \in {"s", "c", "%"} => /\ "0" \notin in.flags /\ in.precision \in {NULL, 0, 1}
                                    /\ ~in.long /\ "," \notin in.flags
  /\ in.type \in {"c", "%"} => in.precision = NULL
  /\ "," \in in.flags => "0" \notin in.flags /\ in.precision = NULL

\* The numbers whose binary digits do not fit behind the NUL of value_buffer:
\* the negative ones, and in the code those of 38 bits and more.
TooLong(in) == /\ in.type = "b"
               /\ Unsigned(Given(in), MaxBits) >= 2^(MAXIMUM_VALUE_CHARACTERS - 1)

\* A conversion prints what C prescribes: sign in front of the zeros, zeros up
\* to the precision or the width, blanks on the side the flags say, and no more
\* than the buffer holds.  Only a binary number can be too long for the buffer
\* of the digits, and one that is writes past its end (libc/stdio/printf.c:97).
PrintfExact ==
  Done("printf") =>
    LET all == <<"a">> \o Field(input) \o <<"b">>
    IN  /\ result[1] = OVERRUN <=> TooLong(input)
        /\ Standard(input) /\ ~TooLong(input) =>
             result[1] = SubSeq(all, 1, Min({Len(all), input.size - 1}))

\* What a bounded deque does: adding to a full one drops the other end.
DequeStep(d, op) ==
  LET full == Len(d.items) = RingCapacity
      empty == d.items = <<>>
      items == CASE op = "enqueue" -> Append(IF full THEN Tail(d.items) ELSE d.items, d.n)
                 [] op = "push" -> <<d.n>> \o (IF full THEN Front(d.items) ELSE d.items)
                 [] empty -> <<>>
                 [] op = "dequeue" -> Tail(d.items)
                 [] OTHER -> Front(d.items)
      got == CASE op \in {"enqueue", "push"} \/ empty -> NULL
               [] op = "dequeue" -> Head(d.items)
               [] OTHER -> Last(d.items)
  IN  [items |-> items, got |-> Append(d.got, got), n |-> d.n + 1]

\* Slots and indices are a bounded deque through every sequence of operations:
\* wrapping around, filling up and overwriting keep the order and drop exactly
\* the element at the other end.  Peeking from the tail is held to this only in
\* front of slot 0, since the unsigned difference wraps (circ_buf_peekn_tail).
RingExact ==
  Done("ring") =>
    LET r == result[1]
        d == FoldLeft(DequeStep, [items |-> <<>>, got |-> <<>>, n |-> 1], input.ops)
    IN  /\ r.got = d.got
        /\ r.head_on = d.items
        /\ \A i \in DOMAIN r.tail_on : i <= r.tail => r.tail_on[i] = Reverse(d.items)[i]

\* All tables, and the paths of codes that they describe.
AllTables == {gClassStringList, PCISubClass_00, PCISubClass_01,
              PCISubClass_02, PCISubClass_03, PCISubClass_04, PCISubClass_05,
              PCISubClass_06, PCISubClass_07, PCISubClass_08, PCISubClass_09,
              PCISubClass_0a, PCISubClass_0b, PCISubClass_0c, PCISubClass_0d,
              PCISubClass_0e, PCISubClass_0f, PCISubClass_10, PCISubClass_11,
              PCISubClass_12, PCISubClass_13, PCIPIFClass_0100,
              PCIPIFClass_0101, PCIPIFClass_0105, PCIPIFClass_0106,
              PCIPIFClass_0107, PCIPIFClass_0108, PCIPIFClass_0109,
              PCIPIFClass_0300, PCIPIFClass_0604, PCIPIFClass_0609,
              PCIPIFClass_060b, PCIPIFClass_0700, PCIPIFClass_0701,
              PCIPIFClass_0703, PCIPIFClass_0800, PCIPIFClass_0801,
              PCIPIFClass_0802, PCIPIFClass_0803, PCIPIFClass_0904,
              PCIPIFClass_0c00, PCIPIFClass_0c03, PCIPIFClass_0c07,
              PCIPIFClass_0d01, PCIPIFClass_0e00}
Described == UNION {{table[i].desc : i \in DOMAIN table} : table \in AllTables}

\* The name of code below a path: its own, the empty one of a path that has no
\* table, or none.
NameOf(above, code) ==
  IF above \o <<code>> \in Described THEN above \o <<code>>
  ELSE IF code = 0 /\ above \in Described
          /\ ~\E p \in Described : Len(p) = Len(above) + 1 /\ SubSeq(p, 1, Len(above)) = above
  THEN NoName ELSE Unknown

\* The functions that a machine has below the bridges that are known.
FunctionsThere(in) ==
  LET known == {p \in Slots : 2 + p[1] \in in.known}
  IN  UNION {{<<FirstBus(p[1]) + p[2], p[3], fun>> : fun \in FunctionsOf(in.slot[p])}
             : p \in known}

\* The order of the scan.
Before(f, g) == \/ f[1] < g[1]
                \/ f[1] = g[1] /\ f[2] < g[2]
                \/ f[1] = g[1] /\ f[2] = g[2] /\ f[3] < g[3]

\* The class names of a device are those of its own three codes: every table
\* hangs where its name says, and a code without an entry is unknown.  Which
\* codes a table lists is taken from the table: nothing in the repository lists
\* them a second time.
ClassNamesExact ==
  Done("class") =>
    LET base == NameOf(<<>>, input.base_class_code)
        sub == NameOf(<<input.base_class_code>>, input.sub_class_code)
        pif == NameOf(<<input.base_class_code, input.sub_class_code>>, input.pi_class_code)
        blank == sub = NoName /\ input.pi_class_code = 0
    IN  result[1] = [base_class |-> base,
                     sub_class |-> IF base = Unknown THEN Unknown ELSE sub,
                     pif_class |-> IF blank THEN NoName ELSE pif]

(***************************************************************************)
(* The scan lists every function of the machine once, in order, no ghost   *)
(* of a device with one function, and fails at the first bridge that the   *)
(* memory map does not know; then no device is handed out, otherwise the   *)
(* USB controller is the first of its class.  A register gives its         *)
(* address, whose upper half survives the masks only if it is 0, 1 or 3    *)
(* modulo 16 (pci_bar_addr_64).  The ACPI table is the one asked for,      *)
(* except behind a table whose name differs from it in one letter and goes *)
(* on alike (strncmp).                                                     *)
(***************************************************************************)
DevicesFound ==
  /\ Done("scan") /\ input.decoy # <<6, 3, 4, 5>> =>
       LET r == result[1]
           ids == [i \in DOMAIN r.scan.devices |->
                     <<r.scan.devices[i].bus, r.scan.devices[i].dev, r.scan.devices[i].fun>>]
           there == FunctionsThere(input)
           usb == IF r.scan.ret THEN {f[1] : f \in {g \in there : g[2] = 1 /\ g[3] = 0}}
                  ELSE {}
       IN  IF input.decoy = MCFG \/ ~input.listed
           THEN ids = <<>> /\ r.scan.ret = (input.decoy = MCFG)
           ELSE /\ Range(ids) = there
                /\ \A i, j \in DOMAIN ids : i < j => Before(ids[i], ids[j])
                /\ r.scan.ret = (input.known = {2, 3})
                /\ r.scan.claimed = input.known
                /\ r.usb = [ret |-> usb # {},
                            addr |-> IF usb = {} THEN NULL ELSE Min(usb) * 2^BarBits + 32]
  /\ Done("bar") =>
       LET exact == input.low - (input.low % 16)
       IN  result[1] = IF input.low % 2 = 1 \/ (input.low \div 2) % 4 = 3 THEN PANIC
                       ELSE IF (input.low \div 2) % 4 # 2 THEN exact
                       ELSE IF input.high % 16 \in {0, 1, 3}
                       THEN input.high * 2^BarBits + exact
                       ELSE result[1]
=============================================================================
