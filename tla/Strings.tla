------------------------------ MODULE Strings ------------------------------
(***************************************************************************)
(* The string functions of libc, loop by loop, on a memory m that maps     *)
(* addresses to characters.  Characters are numbers, so that they can be   *)
(* compared; a function that writes returns the new memory.                *)
(***************************************************************************)
EXTENDS Integers, Sequences, SequencesExt

NUL == 0
SPACE == 1
NULL == -1

isspace(c) == c = SPACE

(***************************************************************************)
(* The rounds of a loop, which ends at the first k at which Stop holds: a  *)
(* loop that would leave the memory has no such k.                         *)
(***************************************************************************)
Rounds(m, Stop(_)) == CHOOSE k \in DOMAIN m : Stop(k) /\ \A j \in 0..(k - 1) : ~Stop(j)

memchr(m, s, c, n) == LET i == Rounds(m, LAMBDA k : k = n \/ m[s + k] = c)
                      IN  IF i = n THEN NULL ELSE s + i

memrchr(m, s, c, n) == LET i == Rounds(m, LAMBDA k : k = n \/ m[s + n - 1 - k] = c)
                       IN  IF i = n THEN NULL ELSE s + n - 1 - i

memcmp(m, a, b, size) ==
  LET i == Rounds(m, LAMBDA k : k = size \/ m[a + k] # m[b + k])
  IN  IF i = size THEN 0 ELSE IF m[a + i] < m[b + i] THEN -1 ELSE 1

\* The bytes are copied one after the other, in the order of the addresses is.
CopyInOrder(m, dst, src, is) ==
  FoldLeft(LAMBDA mem, i : [mem EXCEPT ![dst + i] = mem[src + i]], m, is)

memcpy(m, dst, src, size) ==
  CopyInOrder(m, dst, src, [i \in 1..size |-> i - 1])

\* Mutant: always from the first byte on.
memmove_Forward(m, dst, src, size) == memcpy(m, dst, src, size)

memmove(m, dst, src, size) ==
  IF dst < src THEN CopyInOrder(m, dst, src, [i \in 1..size |-> i - 1])
  ELSE CopyInOrder(m, dst, src, [i \in 1..size |-> size - i])

memset(m, buf, value, size) ==
  FoldLeft(LAMBDA mem, i : [mem EXCEPT ![buf + i - 1] = value], m,
           [i \in 1..size |-> i])

strlen(m, s) == Rounds(m, LAMBDA k : m[s + k] = NUL)

strnlen(m, s, n) == LET end == memchr(m, s, NUL, n)
                    IN  IF end # NULL THEN end - s ELSE n

-----------------------------------------------------------------------------
\* The strings do not overlap.
strcpy(m, dest, src) ==
  LET n == strlen(m, src)
  IN  [a \in DOMAIN m |-> IF a >= dest /\ a < dest + n THEN m[src + (a - dest)]
                          ELSE IF a = dest + n THEN NUL ELSE m[a]]

strncpy(m, dest, src, n) ==
  LET i == strnlen(m, src, n)
  IN  memset(memcpy(m, dest, src, i), dest + i, NUL, n - i)

strcat(m, dest, src) == strcpy(m, dest + strlen(m, dest), src)

\* A source that ends before n characters returns early, without the NUL.
strncat(m, dest, src, n) ==
  LET end == dest + strlen(m, dest)
      i == strnlen(m, src, n)
      mem == memcpy(m, end, src, i)
  IN  IF i < n THEN mem ELSE [mem EXCEPT ![end + i] = NUL]

\* The characters written to the new block of strdup, strndup.
strndup(m, s, n) ==
  [i \in 0..strnlen(m, s, n) |-> IF i < strnlen(m, s, n) THEN m[s + i] ELSE NUL]

strrev(m, str) ==
  LET n == strlen(m, str)
      Swap(mem, i) == [mem EXCEPT ![str + n - i] = mem[str + i - 1],
                                  ![str + i - 1] = mem[str + n - i]]
  IN  FoldLeft(Swap, m, [i \in 1..(n \div 2) |-> i])

strtrim_leading(m, s) == s + Rounds(m, LAMBDA k : ~isspace(m[s + k]))

\* The walk backwards has no end test: a string without ink runs on below s.
strtrim_trailing(m, s) ==
  LET last == s + strlen(m, s) - 1
  IN  [m EXCEPT ![last + 1 - Rounds(m, LAMBDA k : ~isspace(m[last - k]))] = NUL]

strtrim(m, s) == strtrim_trailing(m, strtrim_leading(m, s))

-----------------------------------------------------------------------------
\* The first and the last address in front of the terminator where Hit holds.
First(m, s, Hit(_)) ==
  LET i == Rounds(m, LAMBDA k : m[s + k] = NUL \/ Hit(s + k))
  IN  IF m[s + i] = NUL THEN NULL ELSE s + i
Final(m, s, Hit(_)) == Max({NULL} \cup {a \in s..(s + strlen(m, s) - 1) : Hit(a)})

strchr(m, s, c) == First(m, s, LAMBDA a : m[a] = c)
strrchr(m, s, c) == Final(m, s, LAMBDA a : m[a] = c)

strcmp(m, s1, s2) ==
  LET i == Rounds(m, LAMBDA k : m[s1 + k] = NUL \/ m[s1 + k] # m[s2 + k])
  IN  m[s1 + i] - m[s2 + i]

strequ(m, s1, s2) == strcmp(m, s1, s2) = 0

\* Both pointers have moved on when the difference is taken.
strncmp(m, s1, s2, n) ==
  LET i == Rounds(m, LAMBDA k : k = n \/ m[s1 + k] # m[s2 + k])
  IN  IF i = n THEN 0 ELSE m[s1 + i + 1] - m[s2 + i + 1]

strnequ(m, s1, s2, n) == strncmp(m, s1, s2, n) = 0

strspn(m, s1, s2) ==
  Rounds(m, LAMBDA k : m[s1 + k] = NUL \/ strchr(m, s2, m[s1 + k]) = NULL)

strcspn(m, s1, s2) ==
  Rounds(m, LAMBDA k : m[s1 + k] = NUL \/ strchr(m, s2, m[s1 + k]) # NULL)

\* Mutant: the comparison runs one character short.
strstr_Short(m, haystack, needle) ==
  First(m, haystack, LAMBDA a : memcmp(m, a, needle, strlen(m, needle) - 1) = 0)

strstr(m, haystack, needle) ==
  First(m, haystack, LAMBDA a : memcmp(m, a, needle, strlen(m, needle)) = 0)

strrstr(m, haystack, needle) ==
  Final(m, haystack, LAMBDA a : memcmp(m, a, needle, strlen(m, needle)) = 0)

-----------------------------------------------------------------------------
\* Mutant: the saved pointer stays on the NUL that ends the token.
strtok_Stays(m, p, str, delim) ==
  LET start == IF str # NULL THEN str ELSE p
      token == start + strspn(m, start, delim)
      end == token + strcspn(m, token, delim)
  IN  IF start = NULL \/ end = token THEN [m |-> m, p |-> NULL, ret |-> NULL]
      ELSE IF m[end] # NUL
      THEN [m |-> [m EXCEPT ![end] = NUL], p |-> end, ret |-> token]
      ELSE [m |-> m, p |-> NULL, ret |-> token]

(***************************************************************************)
(* strtok with its static pointer p, and strtok_r with *saveptr for p: the *)
(* memory, the saved pointer and the token after one call.                 *)
(***************************************************************************)
strtok(m, p, str, delim) ==
  LET start == IF str # NULL THEN str ELSE p
      token == start + strspn(m, start, delim)
      end == token + strcspn(m, token, delim)
  IN  IF start = NULL THEN [m |-> m, p |-> NULL, ret |-> NULL]
      ELSE IF end = token THEN [m |-> m, p |-> NULL, ret |-> NULL]
      ELSE IF m[end] # NUL
      THEN [m |-> [m EXCEPT ![end] = NUL], p |-> end + 1, ret |-> token]
      ELSE [m |-> m, p |-> NULL, ret |-> token]

\* A vector: a block of capacity slots, of which the first length are in use.
vector_init == [items |-> <<0>>, capacity |-> 1, length |-> 0]

\* realloc keeps the contents; a new slot is uninitialized, here 0.
vector_resize(vec, capacity) ==
  [vec EXCEPT !.capacity = capacity,
              !.items = [i \in 1..capacity |->
                           IF i <= vec.capacity THEN @[i] ELSE 0]]

vector_add(vec, item) ==
  LET v == IF vec.capacity = vec.length
           THEN vector_resize(vec, vec.capacity * 2) ELSE vec
  IN  [v EXCEPT !.items[v.length + 1] = item, !.length = @ + 1]

vector_set(vec, idx, item) ==
  IF idx >= 0 /\ idx < vec.length
  THEN [vec EXCEPT !.items[idx + 1] = item] ELSE vec

vector_get(vec, idx) ==
  IF idx >= 0 /\ idx < vec.length THEN vec.items[idx + 1] ELSE NULL

\* A quarter full block is halved.
vector_delete(vec, idx) ==
  IF idx < 0 \/ idx >= vec.length THEN vec
  ELSE LET v == [vec EXCEPT
                   !.items = [i \in DOMAIN @ |-> IF i \in (idx + 1)..(vec.length - 1)
                                                 THEN @[i + 1]
                                                 ELSE IF i = vec.length THEN NULL
                                                 ELSE @[i]],
                   !.length = @ - 1]
       IN  IF v.length > 0 /\ v.length = v.capacity \div 4
           THEN vector_resize(v, v.capacity \div 2) ELSE v

(***************************************************************************)
(* The memory with the tokens ended by NUL, and the vector of the tokens:  *)
(* found[i] is what the call after i tokens leaves.                        *)
(***************************************************************************)
strsplit(m, str, delim) ==
  LET found[i \in DOMAIN m] == IF i = 0 THEN strtok(m, NULL, str, delim)
                               ELSE strtok(found[i - 1].m, found[i - 1].p, NULL, delim)
      n == Rounds(m, LAMBDA i : found[i].ret = NULL)
  IN  [m |-> found[n].m,
       split |-> FoldLeft(vector_add, vector_init, [i \in 1..n |-> found[i - 1].ret])]
=============================================================================
