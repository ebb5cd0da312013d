--------------------------- MODULE ShellLineProof ---------------------------
(***************************************************************************)
(* For a line buffer of any size, any characters and any texts recalled:      *)
(* the line keeps its cursor and its end in the buffer, a command is handed   *)
(* over as it was edited unless a kill smeared the buffer, the keys edit the   *)
(* text as module Editor says, a kill overruns the buffer by less than a line, *)
(* and the prompt is missing only for a cause.                               *)
(*                                                                         *)
(* What makes it inductive is that a text never holds a NUL (LineInv), and    *)
(* that all behind it is NUL until a kill smears it (Clean): then moving the  *)
(* NUL behind the text along with it is enough to end the string.            *)
(***************************************************************************)
EXTENDS ShellLine, SequenceTheorems, WellFoundedInduction, TLAPS

Cells == 0 .. BufSize - 1
LineType == [buf : [Cells -> Chars \cup {0}], cursor : Cells, end : Cells,
             past : SUBSET (BufSize .. 2 * BufSize - 5)]

\* The cursor is in the text, and the text has no NUL.
LineInv(l) == /\ l \in LineType /\ l.cursor <= l.end
              /\ \A i \in Cells : i < l.end => l.buf[i] # 0

\* Behind the text there is nothing.
Clean(l) == \A i \in Cells : l.end <= i => l.buf[i] = 0

ShellType == [handler : BOOLEAN, redirect : BOOLEAN, suppressed : BOOLEAN, delayed : Nat,
              quiet : BOOLEAN, stranded : BOOLEAN]

IInv == /\ LineInv(line) /\ (smeared = FALSE => Clean(line)) /\ smeared \in BOOLEAN
        /\ shell \in ShellType /\ prompt \in BOOLEAN
        /\ PromptHeldForCause

-----------------------------------------------------------------------------
(* Sets of numbers and sequences. *)

\* A set of numbers that is not empty has a smallest member.
LEMMA Least ==
  ASSUME NEW S \in SUBSET Nat, S # {}
  PROVE  \E m \in S : \A n \in S : m <= n
<1> DEFINE R == OpToRel(<, Nat)
<1>1. \A m, n \in Nat : <<n, m>> \in R <=> n < m
  BY DEF OpToRel
<1>2. IsWellFoundedOn(R, Nat)
  BY NatLessThanWellFounded
<1> HIDE DEF R
<1>3. \E m \in S : \A n \in S : ~(<<n, m>> \in R)
  BY <1>2, WFMin, Zenon
<1>4. PICK m \in S : \A n \in S : ~(<<n, m>> \in R)
  BY <1>3
<1>5. \A n \in S : ~(n < m)
  BY <1>1, <1>4
<1>6. \A n \in S : m <= n
  BY <1>5
<1> QED BY <1>6

\* And one with a bound a largest.
LEMMA Largest ==
  ASSUME NEW k \in Nat, NEW S \in SUBSET (0 .. k), S # {}
  PROVE  \E m \in S : \A n \in S : m >= n
<1> DEFINE D == {k - s : s \in S}
<1>1. D \in SUBSET Nat /\ D # {}
  <2>1. \A s \in S : s \in 0 .. k
    OBVIOUS
  <2>2. \A s \in S : k - s \in Nat
    BY <2>1
  <2> QED BY <2>2
<1>2. PICK d \in D : \A e \in D : d <= e
  BY <1>1, Least
<1>3. PICK m \in S : d = k - m
  BY <1>2
<1>4. ASSUME NEW n \in S PROVE m >= n
  <2>1. k - n \in D
    OBVIOUS
  <2>2. n \in 0 .. k /\ m \in 0 .. k
    OBVIOUS
  <2> HIDE DEF D
  <2>3. k - m <= k - n
    BY <1>2, <1>3, <2>1
  <2> QED BY <2>2, <2>3
<1> QED BY <1>4

-----------------------------------------------------------------------------
(* Words and blanks. *)

\* The word to the left starts at the cursor or before it.
LEMMA PrevWord ==
  ASSUME NEW l, LineInv(l), ShellAssumption
  PROVE  line_prev_word(l) \in 0 .. l.cursor
<1> DEFINE bounds == {k \in 1 .. l.cursor - 1 : Delim(l, k) /\ \E w \in k .. l.cursor - 1 : ~Delim(l, w)}
<1>1. l.cursor \in Nat
  BY DEF LineInv, LineType, Cells
<1>2. bounds \in SUBSET (0 .. l.cursor) /\ \A k \in bounds : k < l.cursor
  BY <1>1
<1>3. line_prev_word(l) = IF bounds = {} THEN 0 ELSE Max(bounds) + 1
  BY DEF line_prev_word
<1> HIDE DEF bounds
<1>4. CASE bounds = {}
  BY <1>1, <1>3, <1>4
<1>5. CASE bounds # {}
  <2>1. \E m \in bounds : \A n \in bounds : m >= n
    BY <1>1, <1>2, <1>5, Largest
  <2>2. Max(bounds) \in bounds
    BY <2>1 DEF Max
  <2>3. Max(bounds) \in 0 .. l.cursor /\ Max(bounds) < l.cursor
    BY <1>2, <2>2
  <2> QED BY <1>1, <1>3, <1>5, <2>3
<1> QED BY <1>4, <1>5

\* The word to the right ends at the end or before it.
LEMMA NextWord ==
  ASSUME NEW l, LineInv(l), ShellAssumption
  PROVE  line_next_word(l) \in l.cursor .. l.end
<1> DEFINE bounds == {k \in l.cursor .. l.end - 1 : Delim(l, k) /\ \E w \in l.cursor .. k : ~Delim(l, w)}
<1>1. l.cursor \in Nat /\ l.end \in Nat /\ l.cursor <= l.end
  BY DEF LineInv, LineType, Cells
<1>2. bounds \in SUBSET Nat /\ bounds \subseteq l.cursor .. l.end
  BY <1>1
<1>3. line_next_word(l) = IF bounds = {} THEN l.end ELSE Min(bounds)
  BY DEF line_next_word
<1> HIDE DEF bounds
<1>4. CASE bounds = {}
  BY <1>1, <1>3, <1>4
<1>5. CASE bounds # {}
  <2>1. \E m \in bounds : \A n \in bounds : m =< n
    BY <1>2, <1>5, Least
  <2>2. Min(bounds) \in bounds
    BY <2>1 DEF Min
  <2> QED BY <1>2, <1>3, <1>5, <2>2
<1> QED BY <1>4, <1>5

\* The smaller of two lengths.
LEMMA MinOfTwo ==
  ASSUME NEW a \in Nat, NEW b \in Nat
  PROVE  Min({a, b}) = IF a <= b THEN a ELSE b
<1>1. \E x \in {a, b} : \A y \in {a, b} : x =< y
  OBVIOUS
<1>2. Min({a, b}) \in {a, b} /\ \A y \in {a, b} : Min({a, b}) =< y
  BY <1>1 DEF Min
<1> QED BY <1>2

-----------------------------------------------------------------------------
(* The line buffer. *)

\* The text of r is the first n characters of that of l, what is in r up to b, and that of
\* l from a on.
Joins(l, r, n, a, b) ==
  /\ n \in Nat /\ a \in Nat /\ b \in Nat /\ n <= a /\ n <= b /\ a <= l.end
  /\ r.end = b + (l.end - a)
  /\ \A i \in Cells : i < n => r.buf[i] = l.buf[i]
  /\ \A i \in Cells : a <= i /\ i < l.end => r.buf[b + i - a] = l.buf[i]

\* A line that is a part of another has no NUL in its text either.
LEMMA JoinedLine ==
  ASSUME ShellAssumption, NEW l, NEW r, LineInv(l), r \in LineType, r.cursor <= r.end,
         NEW n, NEW a, NEW b, Joins(l, r, n, a, b),
         \A i \in Cells : n <= i /\ i < b => r.buf[i] # 0
  PROVE  LineInv(r)
<1>1. l.end \in Cells /\ r.end \in Cells /\ BufSize \in Nat
  BY DEF LineInv, LineType, ShellAssumption
<1>2. ASSUME NEW i \in Cells, i < r.end PROVE r.buf[i] # 0
  <2>1. CASE i < n
    <3>1. i < l.end
      BY <1>1, <2>1 DEF Joins, Cells
    <3> QED BY <2>1, <3>1 DEF Joins, LineInv
  <2>2. CASE n <= i /\ i < b
    BY <2>2
  <2>3. CASE b <= i
    <3> DEFINE j == i - b + a
    <3>1. j \in Cells /\ a <= j /\ j < l.end /\ b + j - a = i
      BY <1>1, <1>2, <2>3 DEF Joins, Cells
    <3> HIDE DEF j
    <3>2. r.buf[i] = l.buf[j]
      BY <3>1 DEF Joins
    <3> QED BY <3>1, <3>2 DEF LineInv
  <2> QED BY <1>1, <2>1, <2>2, <2>3 DEF Joins, Cells
<1> QED BY <1>2 DEF LineInv

\* What is left of a line when the characters from n to a go and z cells behind it are
\* cleared; if those are as many as went, it stays clean.
LEMMA RemovedLine ==
  ASSUME ShellAssumption, NEW l, LineInv(l), NEW n \in Nat, NEW a \in Nat, NEW z \in Nat,
         n <= a, a <= l.end, NEW p \in SUBSET (BufSize .. 2 * BufSize - 5), NEW r,
         r = [buf |-> Zeroed(Moved(l.buf, n, a, l.end - a), n + (l.end - a), z),
              cursor |-> n, end |-> n + (l.end - a), past |-> p]
  PROVE  /\ LineInv(r) /\ r.cursor = n
         /\ Joins(l, r, n, a, n)
         /\ Clean(l) /\ a - n <= z => Clean(r)
<1> DEFINE m == l.end - a
<1>1. /\ l.end \in Cells /\ BufSize \in Nat /\ l.buf \in [Cells -> Chars \cup {0}]
      /\ DOMAIN l.buf = Cells
  BY DEF LineInv, LineType, ShellAssumption
<1>2. m \in Nat /\ n + m \in Cells /\ n + m <= l.end
  BY <1>1 DEF Cells
<1>3. r.buf = [i \in Cells |-> IF n + m <= i /\ i < n + m + z THEN 0
                               ELSE IF n <= i /\ i < n + m THEN l.buf[i - n + a] ELSE l.buf[i]]
  <2> DEFINE moved == Moved(l.buf, n, a, m)
  <2>1. moved = [i \in Cells |-> IF n <= i /\ i < n + m THEN l.buf[i - n + a] ELSE l.buf[i]]
    BY <1>1, Zenon DEF Moved
  <2>2. r.buf = Zeroed(moved, n + m, z)
    OBVIOUS
  <2> HIDE DEF m, moved
  <2>3. DOMAIN moved = Cells
    BY <2>1
  <2>4. r.buf = [i \in Cells |-> IF n + m <= i /\ i < n + m + z THEN 0 ELSE moved[i]]
    BY <2>2, <2>3, Zenon DEF Zeroed
  <2>5. \A i \in Cells : moved[i] = IF n <= i /\ i < n + m THEN l.buf[i - n + a] ELSE l.buf[i]
    BY <2>1
  <2> QED BY <2>4, <2>5
<1>4. \A i \in Cells : n <= i /\ i < n + m => i - n + a \in Cells
  BY <1>1, <1>2 DEF Cells
<1>5. r.buf \in [Cells -> Chars \cup {0}]
  <2> DEFINE cell(i) == IF n + m <= i /\ i < n + m + z THEN 0
                        ELSE IF n <= i /\ i < n + m THEN l.buf[i - n + a] ELSE l.buf[i]
  <2>1. ASSUME NEW i \in Cells PROVE cell(i) \in Chars \cup {0}
    BY <1>1, <1>4
  <2>2. r.buf = [i \in Cells |-> cell(i)]
    BY <1>3
  <2> HIDE DEF m, cell
  <2> QED BY <2>1, <2>2
<1>6. \A i \in Cells : i < n => r.buf[i] = l.buf[i]
  BY <1>1, <1>2, <1>3 DEF Cells
<1>7. \A i \in Cells : a <= i /\ i < l.end => r.buf[n + i - a] = l.buf[i]
  <2> SUFFICES ASSUME NEW i \in Cells, a <= i, i < l.end PROVE r.buf[n + i - a] = l.buf[i]
    OBVIOUS
  <2> DEFINE j == n + i - a
  <2>1. j \in Cells /\ n <= j /\ j < n + m /\ j - n + a = i
    BY <1>1, <1>2 DEF Cells
  <2> HIDE DEF j, m
  <2>2. ~(n + m <= j)
    BY <1>2, <2>1 DEF Cells
  <2>3. r.buf[j] = l.buf[j - n + a]
    BY <1>3, <2>1, <2>2
  <2> QED BY <2>1, <2>3 DEF j
<1>8. ASSUME Clean(l), a - n <= z, NEW i \in Cells, n + m <= i PROVE r.buf[i] = 0
  <2>1. i < n + m + z \/ l.end <= i
    BY <1>1, <1>2, <1>8 DEF Cells
  <2>2. ~(i < n + m)
    BY <1>2, <1>8 DEF Cells
  <2>3. l.end <= i => l.buf[i] = 0
    BY <1>8 DEF Clean
  <2> HIDE DEF m
  <2> QED BY <1>3, <1>8, <2>1, <2>2, <2>3
<1>9. r.end = n + m
  OBVIOUS
<1>10. Joins(l, r, n, a, n)
  BY <1>6, <1>7 DEF Joins
<1>11. Clean(l) /\ a - n <= z => Clean(r)
  BY <1>8, <1>9 DEF Clean
<1>12. r \in LineType /\ r.cursor <= r.end
  <2>1. n <= n + m /\ n \in Cells
    BY <1>1, <1>2 DEF Cells
  <2> QED BY <1>2, <1>5, <1>9, <2>1 DEF LineType
<1>13. \A i \in Cells : ~(n <= i /\ i < n)
  BY DEF Cells
<1>14. LineInv(r)
  BY <1>10, <1>12, <1>13, JoinedLine
<1> QED BY <1>10, <1>11, <1>14

\* Moving no characters changes nothing.
LEMMA MoveNone ==
  ASSUME ShellAssumption, NEW l, LineInv(l), NEW n \in Nat, NEW a \in Nat
  PROVE  Moved(l.buf, n, a, 0) = l.buf
<1>1. l.buf \in [Cells -> Chars \cup {0}] /\ DOMAIN l.buf = Cells /\ l.buf = [i \in Cells |-> l.buf[i]]
  BY DEF LineInv, LineType
<1>2. \A i \in Cells : ~(n <= i /\ i < n + 0)
  BY DEF Cells
<1> QED BY <1>1, <1>2 DEF Moved

\* line_insert puts the character in at the cursor, and moves what is behind it.
LEMMA InsertLine ==
  ASSUME ShellAssumption, NEW l, LineInv(l), NEW ch \in Chars, ~line_is_full(l),
         NEW r, r = line_insert(l, ch)
  PROVE  /\ LineInv(r) /\ (Clean(l) => Clean(r))
         /\ r.cursor = l.cursor + 1 /\ r.buf[l.cursor] = ch
         /\ Joins(l, r, l.cursor, l.cursor, l.cursor + 1)
<1> DEFINE c == l.cursor  e == l.end
<1>1. /\ c \in Nat /\ e \in Nat /\ c <= e /\ e + 1 < BufSize /\ BufSize \in Nat /\ ch # 0
      /\ l.buf \in [Cells -> Chars \cup {0}] /\ DOMAIN l.buf = Cells
  BY DEF LineInv, LineType, ShellAssumption, line_is_full, Cells
<1>2. r = [buf |-> [Moved(l.buf, c + 1, c, e - c) EXCEPT ![c] = ch], cursor |-> c + 1, end |-> e + 1,
           past |-> l.past]
  BY DEF line_insert, LineInv, LineType
<1>3. /\ r.cursor = c + 1 /\ r.end = e + 1 /\ r.past = l.past
      /\ r.buf = [Moved(l.buf, c + 1, c, e - c) EXCEPT ![c] = ch]
  BY <1>2
<1>4. Moved(l.buf, c + 1, c, e - c)
        = [i \in Cells |-> IF c + 1 <= i /\ i < c + 1 + (e - c) THEN l.buf[i - (c + 1) + c] ELSE l.buf[i]]
  BY <1>1 DEF Moved
<1> HIDE DEF c, e
<1>5. \A i \in Cells : r.buf[i] = IF i = c THEN ch
                                  ELSE IF c + 1 <= i /\ i <= e THEN l.buf[i - 1] ELSE l.buf[i]
  <2> SUFFICES ASSUME NEW i \in Cells
               PROVE  r.buf[i] = IF i = c THEN ch
                                 ELSE IF c + 1 <= i /\ i <= e THEN l.buf[i - 1] ELSE l.buf[i]
    OBVIOUS
  <2>1. i - (c + 1) + c = i - 1 /\ (i < c + 1 + (e - c) <=> i <= e)
    BY <1>1 DEF Cells
  <2>2. Moved(l.buf, c + 1, c, e - c)[i] = IF c + 1 <= i /\ i <= e THEN l.buf[i - 1] ELSE l.buf[i]
    BY <1>4, <2>1
  <2> QED BY <1>3, <1>4, <2>2
<1>6. r.buf = [i \in Cells |-> r.buf[i]]
  BY <1>3, <1>4
<1>7. \A i \in Cells : c + 1 <= i => i - 1 \in Cells
  BY <1>1 DEF Cells
<1>8. r.buf \in [Cells -> Chars \cup {0}]
  BY <1>1, <1>5, <1>6, <1>7
<1>9. r \in LineType
  <2>1. l.past \in SUBSET (BufSize .. 2 * BufSize - 5)
    BY DEF LineInv, LineType
  <2>2. c + 1 \in Cells /\ e + 1 \in Cells
    BY <1>1 DEF Cells
  <2> QED BY <1>2, <1>3, <1>8, <2>1, <2>2 DEF LineType
<1>10. c \in Cells
  BY <1>1 DEF Cells
<1>11. \A i \in Cells : i < c => r.buf[i] = l.buf[i]
  BY <1>1, <1>5 DEF Cells
<1>12. ASSUME NEW i \in Cells, c <= i, i < e PROVE r.buf[c + 1 + i - c] = l.buf[i]
  <2> DEFINE j == c + 1 + i - c
  <2>1. j \in Cells /\ j # c /\ c + 1 <= j /\ j <= e /\ j - 1 = i
    BY <1>1, <1>12 DEF Cells
  <2> HIDE DEF j
  <2>2. r.buf[j] = l.buf[j - 1]
    BY <1>5, <2>1
  <2> QED BY <2>1, <2>2 DEF j
<1>13. r.end = c + 1 + (e - c)
  BY <1>1, <1>3
<1>14. Joins(l, r, c, c, c + 1)
  BY <1>1, <1>11, <1>12, <1>13 DEF Joins, e
<1>15. LineInv(r)
  <2>1. \A i \in Cells : c <= i /\ i < c + 1 => r.buf[i] # 0
    BY <1>1, <1>5 DEF Cells
  <2>2. r.cursor <= r.end
    BY <1>1, <1>3
  <2> QED BY <1>9, <1>14, <2>1, <2>2, JoinedLine
<1>16. ASSUME Clean(l) PROVE Clean(r)
  <2>1. \A i \in Cells : e + 1 <= i => e <= i /\ ~(i <= e) /\ i # c
    BY <1>1 DEF Cells
  <2>2. \A i \in Cells : e <= i => l.buf[i] = 0
    BY <1>16 DEF Clean, e
  <2> QED BY <1>3, <1>5, <2>1, <2>2 DEF Clean
<1> QED BY <1>3, <1>5, <1>10, <1>14, <1>15, <1>16 DEF c


\* line_backspace takes the character before the cursor.
LEMMA BackspaceLine ==
  ASSUME ShellAssumption, NEW l, LineInv(l), l.cursor # 0,
         NEW r, r = line_backspace(l)
  PROVE  /\ LineInv(r) /\ (Clean(l) => Clean(r))
         /\ r.cursor = l.cursor - 1
         /\ Joins(l, r, l.cursor - 1, l.cursor, l.cursor - 1)
<1> DEFINE c == l.cursor  e == l.end
<1>1. /\ c \in Nat /\ e \in Nat /\ c <= e /\ c - 1 \in Nat
      /\ l.past \in SUBSET (BufSize .. 2 * BufSize - 5)
  BY DEF LineInv, LineType, Cells
<1>2. r = [buf |-> Zeroed(Moved(l.buf, c - 1, c, e - c), e - 1, 1), cursor |-> c - 1, end |-> e - 1,
           past |-> l.past]
  BY DEF line_backspace, LineInv, LineType
<1>3. e - 1 = c - 1 + (e - c) /\ c - (c - 1) <= 1 /\ c - 1 <= c
  BY <1>1
<1> DEFINE n == c - 1  p == l.past
<1> HIDE DEF c, e, n, p
<1>4. r = [buf |-> Zeroed(Moved(l.buf, n, c, e - c), n + (e - c), 1), cursor |-> n, end |-> n + (e - c),
           past |-> p] /\ p \in SUBSET (BufSize .. 2 * BufSize - 5)
  BY <1>1, <1>2, <1>3 DEF n, p
<1>5. /\ LineInv(r) /\ r.cursor = n /\ Joins(l, r, n, c, n)
      /\ Clean(l) /\ c - n <= 1 => Clean(r)
  BY <1>1, <1>3, <1>4, RemovedLine DEF e, n
<1> QED BY <1>3, <1>5 DEF n, c

\* line_delete takes the one behind it; it moves the NUL as well.
LEMMA DeleteLine ==
  ASSUME ShellAssumption, NEW l, LineInv(l), ~AtEnd(l),
         NEW r, r = line_delete(l)
  PROVE  /\ LineInv(r) /\ (Clean(l) => Clean(r))
         /\ r.cursor = l.cursor
         /\ Joins(l, r, l.cursor, l.cursor + 1, l.cursor)
<1> DEFINE c == l.cursor  e == l.end  m == e - (c + 1)
<1>1. c \in Nat /\ e \in Nat /\ c + 1 <= e /\ c + 1 \in Nat /\ c <= c + 1
  BY DEF LineInv, LineType, Cells, AtEnd
<1>2. r = [buf |-> Zeroed(Moved(l.buf, c, c + 1, e - c), e - 1, 1), cursor |-> c, end |-> e - 1,
           past |-> l.past]
  BY DEF line_delete, LineInv, LineType
<1>3. e - 1 = c + m /\ e - c = m + 1 /\ m \in Nat /\ (c + 1) - c <= 1
  BY <1>1
<1> DEFINE p == l.past
<1>4. /\ l.buf \in [Cells -> Chars \cup {0}] /\ DOMAIN l.buf = Cells
      /\ p \in SUBSET (BufSize .. 2 * BufSize - 5)
  BY DEF LineInv, LineType
<1> HIDE DEF c, e, m, p
<1>5. Zeroed(Moved(l.buf, c, c + 1, m + 1), c + m, 1) = Zeroed(Moved(l.buf, c, c + 1, m), c + m, 1)
  <2>1. ASSUME NEW k \in Nat
        PROVE  Zeroed(Moved(l.buf, c, c + 1, k), c + m, 1)
                 = [i \in Cells |-> IF c + m <= i /\ i < c + m + 1 THEN 0
                                    ELSE IF c <= i /\ i < c + k THEN l.buf[i - c + (c + 1)] ELSE l.buf[i]]
    BY <1>4 DEF Zeroed, Moved
  <2>2. \A i \in Cells : ~(c + m <= i /\ i < c + m + 1) => (i < c + (m + 1) <=> i < c + m)
    BY <1>1, <1>3 DEF Cells
  <2>3. m + 1 \in Nat
    BY <1>3
  <2> QED BY <1>3, <2>1, <2>2, <2>3
<1>6. r = [buf |-> Zeroed(Moved(l.buf, c, c + 1, m), c + m, 1), cursor |-> c, end |-> c + m,
           past |-> p]
  BY <1>2, <1>3, <1>5 DEF p
<1>7. /\ LineInv(r) /\ r.cursor = c /\ Joins(l, r, c, c + 1, c)
      /\ Clean(l) /\ (c + 1) - c <= 1 => Clean(r)
  BY <1>1, <1>3, <1>4, <1>6, RemovedLine DEF e, m
<1> QED BY <1>3, <1>7 DEF c

\* line_kill_after takes k characters behind the cursor, and clears as many cells as it
\* moves: that is enough if it moves none, or no fewer than it takes.
LEMMA KillAfterLine ==
  ASSUME ShellAssumption, NEW l, LineInv(l), NEW count \in Nat,
         NEW k, k = Killed(l.end - l.cursor, count),
         NEW r, r = line_kill_after(l, count)
  PROVE  /\ LineInv(r) /\ r.cursor = l.cursor
         /\ k \in 0 .. l.end - l.cursor
         /\ Joins(l, r, l.cursor, l.cursor + k, l.cursor)
         /\ Clean(l) /\ ~Smears(k, l.end - l.cursor - k) => Clean(r)
<1> DEFINE c == l.cursor  e == l.end  m == e - (c + k)
<1>1. /\ c \in Nat /\ e \in Nat /\ c <= e /\ e < BufSize /\ BufSize \in Nat
      /\ l.past \in SUBSET (BufSize .. 2 * BufSize - 5)
  BY DEF LineInv, LineType, Cells, ShellAssumption
<1>2. k \in Nat /\ k <= e - c /\ (k = 0 => e = c)
  BY <1>1 DEF Killed
<1>3. m \in Nat /\ e - k = c + m /\ c + k \in Nat /\ c <= c + k /\ c + k <= e /\ (c + k) - c = k
      /\ e - c - k = m
  BY <1>1, <1>2
<1> DEFINE z == IF m > 0 THEN m ELSE k
           p == l.past \cup Past(c + m, z)
<1>4. r = [buf |-> Zeroed(Moved(l.buf, c, c + k, m), c + m, z), cursor |-> c, end |-> e - k, past |-> p]
  BY DEF line_kill_after, memset, LineInv, LineType
<1> HIDE DEF c, e, m, z, p
<1>5. z \in Nat
  BY <1>2, <1>3 DEF z
<1>6. r = [buf |-> Zeroed(Moved(l.buf, c, c + k, m), c + m, z), cursor |-> c, end |-> c + m, past |-> p]
  BY <1>3, <1>4
<1>10. p \in SUBSET (BufSize .. 2 * BufSize - 5)
  <2>1. IF m > 0 THEN z = m /\ k > 0 /\ c + k + m = e ELSE c + m + z <= e
    BY <1>1, <1>2, <1>3 DEF z
  <2>2. c + m + z <= 2 * BufSize - 4 \/ c + m + z <= BufSize
    BY <1>1, <1>2, <1>3, <1>5, <2>1
  <2>3. \A i \in c + m .. c + m + z - 1 : i >= BufSize => i \in BufSize .. 2 * BufSize - 5
    BY <1>1, <1>3, <1>5, <2>2
  <2> QED BY <1>1, <2>3 DEF p, Past
<1>7. /\ LineInv(r) /\ r.cursor = c /\ Joins(l, r, c, c + k, c)
      /\ Clean(l) /\ (c + k) - c <= z => Clean(r)
  BY <1>1, <1>3, <1>5, <1>6, <1>10, RemovedLine DEF e, m
<1>8. ~Smears(k, m) => k <= z
  BY <1>2, <1>3 DEF Smears, z
<1>9. k \in 0 .. e - c
  BY <1>1, <1>2
<1> QED BY <1>3, <1>7, <1>8, <1>9 DEF c, e

\* line_kill_before takes them before the cursor.
LEMMA KillBeforeLine ==
  ASSUME ShellAssumption, NEW l, LineInv(l), NEW count \in Nat,
         NEW k, k = Killed(l.cursor, count), k # 0,
         NEW r, r = line_kill_before(l, count)
  PROVE  /\ LineInv(r) /\ r.cursor = l.cursor - k
         /\ k \in 0 .. l.cursor
         /\ Joins(l, r, l.cursor - k, l.cursor, l.cursor - k)
         /\ Clean(l) /\ ~Smears(k, l.end - l.cursor) => Clean(r)
<1> DEFINE c == l.cursor  e == l.end  m == e - c  n == c - k
<1>1. /\ c \in Nat /\ e \in Nat /\ c <= e /\ e < BufSize /\ BufSize \in Nat
      /\ l.past \in SUBSET (BufSize .. 2 * BufSize - 5)
  BY DEF LineInv, LineType, Cells, ShellAssumption
<1>2. k \in Nat /\ k <= c
  BY <1>1 DEF Killed
<1>3. m \in Nat /\ n \in Nat /\ e - k = n + m /\ n <= c /\ c - n = k
  BY <1>1, <1>2
<1> DEFINE z == IF ~(c >= e) THEN m ELSE k
           p == l.past \cup Past(e - k, z)
<1>4. r = [buf |-> Zeroed(Moved(l.buf, n, c, m), e - k, z), cursor |-> n, end |-> e - k, past |-> p]
  BY DEF line_kill_before, memset, AtEnd, LineInv, LineType
<1>5. z = IF m > 0 THEN m ELSE k
  BY <1>1
<1> HIDE DEF c, e, m, n, z, p
<1>6. z \in Nat
  BY <1>2, <1>3, <1>5
<1>7. r = [buf |-> Zeroed(Moved(l.buf, n, c, m), n + m, z), cursor |-> n, end |-> n + m, past |-> p]
  BY <1>3, <1>4
<1>11. p \in SUBSET (BufSize .. 2 * BufSize - 5)
  <2>1. m = e - c
    BY DEF m
  <2>2. e - k + z <= 2 * BufSize - 4 \/ e - k + z <= BufSize
    BY <1>1, <1>2, <1>3, <1>5, <2>1
  <2>3. e - k \in Nat
    BY <1>1, <1>2
  <2>4. \A i \in e - k .. e - k + z - 1 : i >= BufSize => i \in BufSize .. 2 * BufSize - 5
    BY <1>1, <1>6, <2>2, <2>3
  <2> QED BY <1>1, <2>4 DEF p, Past
<1>8. /\ LineInv(r) /\ r.cursor = n /\ Joins(l, r, n, c, n)
      /\ Clean(l) /\ c - n <= z => Clean(r)
  BY <1>1, <1>3, <1>6, <1>7, <1>11, RemovedLine DEF e, m
<1>9. ~Smears(k, m) => k <= z
  BY <1>2, <1>3, <1>5 DEF Smears
<1>10. k \in 0 .. c
  BY <1>1, <1>2
<1> QED BY <1>3, <1>8, <1>9, <1>10 DEF c, e, m, n

\* Moving the cursor leaves the text.
LEMMA MovedLine ==
  ASSUME ShellAssumption, NEW l, LineInv(l), NEW x \in 0 .. l.end,
         NEW r, r = [l EXCEPT !.cursor = x]
  PROVE  LineInv(r) /\ (Clean(l) => Clean(r)) /\ r.cursor = x /\ TextOf(r) = TextOf(l)
<1>1. l \in LineType /\ l.end \in Nat /\ l.end < BufSize /\ BufSize \in Nat
  BY DEF LineInv, LineType, Cells, ShellAssumption
<1>2. r = [buf |-> l.buf, cursor |-> x, end |-> l.end, past |-> l.past]
  BY <1>1 DEF LineType
<1>3. r.buf = l.buf /\ r.cursor = x /\ r.end = l.end
  BY <1>2
<1>4. x \in Cells /\ x <= l.end
  BY <1>1 DEF Cells
<1>5. r \in LineType
  BY <1>1, <1>2, <1>4 DEF LineType
<1> QED BY <1>3, <1>4, <1>5 DEF LineInv, Clean, TextOf

\* The keys that move it stop at both ends.
LEMMA MovesStay ==
  ASSUME ShellAssumption, NEW l, LineInv(l), NEW n \in Nat
  PROVE  /\ \E x \in 0 .. l.end : line_move_left(l, n) = [l EXCEPT !.cursor = x]
         /\ \E x \in 0 .. l.end : line_move_right(l, n) = [l EXCEPT !.cursor = x]
<1>1. l \in LineType /\ l.cursor \in Nat /\ l.end \in Nat /\ l.cursor <= l.end
  BY DEF LineInv, LineType, Cells
<1>2. l = [l EXCEPT !.cursor = l.cursor] /\ l.cursor \in 0 .. l.end
  BY <1>1 DEF LineType
<1>3. \E x \in 0 .. l.end : line_move_left(l, n) = [l EXCEPT !.cursor = x]
  <2>1. CASE l.cursor < n \/ n = 0
    BY <1>2, <2>1 DEF line_move_left
  <2>2. CASE ~(l.cursor < n \/ n = 0)
    <3>1. l.cursor - n \in 0 .. l.end
      BY <1>1, <2>2
    <3> QED BY <2>2, <3>1 DEF line_move_left
  <2> QED BY <2>1, <2>2
<1>4. \E x \in 0 .. l.end : line_move_right(l, n) = [l EXCEPT !.cursor = x]
  <2>1. CASE l.cursor + n > l.end \/ n = 0
    BY <1>2, <2>1 DEF line_move_right
  <2>2. CASE ~(l.cursor + n > l.end \/ n = 0)
    <3>1. l.cursor + n \in 0 .. l.end
      BY <1>1, <2>2
    <3> QED BY <2>2, <3>1 DEF line_move_right
  <2> QED BY <2>1, <2>2
<1> QED BY <1>3, <1>4

\* An empty line, and one from the history, which is cut to the buffer.
LEMMA EmptyLine ==
  ASSUME ShellAssumption, NEW p \in SUBSET (BufSize .. 2 * BufSize - 5),
         NEW r, r = [buf |-> Empty, cursor |-> 0, end |-> 0, past |-> p]
  PROVE  LineInv(r) /\ Clean(r) /\ r.cursor = 0 /\ r.end = 0
<1>1. 0 \in Cells
  BY DEF Cells, ShellAssumption
<1>2. r.buf = [i \in Cells |-> 0] /\ r.cursor = 0 /\ r.end = 0
  BY DEF Empty, Cells
<1>3. Empty \in [Cells -> Chars \cup {0}]
  BY DEF Empty, Cells
<1>4. r \in LineType
  BY <1>1, <1>3 DEF LineType
<1>5. \A i \in Cells : ~(i < 0)
  BY DEF Cells
<1> QED BY <1>1, <1>2, <1>4, <1>5 DEF LineInv, Clean

\* Clearing a line leaves an empty one.
LEMMA ClearedLine ==
  ASSUME ShellAssumption, NEW l, LineInv(l), NEW r, r = line_clear(l)
  PROVE  LineInv(r) /\ Clean(r) /\ r.cursor = 0 /\ r.end = 0
<1>1. l.past \in SUBSET (BufSize .. 2 * BufSize - 5)
  BY DEF LineInv, LineType
<1>2. r = [buf |-> Empty, cursor |-> 0, end |-> 0, past |-> l.past]
  BY DEF line_clear, LineInv, LineType
<1> QED BY <1>1, <1>2, EmptyLine

\* A line taken from the history is whole, or cut to what the buffer holds.
LEMMA ReplacedLine ==
  ASSUME ShellAssumption, NEW l, LineInv(l), NEW text \in History, NEW r, r = line_replace(l, text)
  PROVE  /\ LineInv(r) /\ Clean(r)
         /\ r.cursor = r.end /\ r.end = Min({Len(text), BufSize - 1})
         /\ r.end <= Len(text) /\ \A i \in Cells : i < r.end => r.buf[i] = text[i + 1]
<1> DEFINE n == Min({Len(text), BufSize - 1})
<1>1. text \in Seq(Chars) /\ Len(text) \in Nat /\ BufSize \in Nat /\ BufSize - 1 \in Nat
  BY DEF ShellAssumption
<1>2. n \in Cells /\ n <= Len(text)
  BY <1>1, MinOfTwo DEF Cells
<1>3. r = [buf |-> [i \in 0 .. BufSize - 1 |-> IF i < n THEN text[i + 1] ELSE 0], cursor |-> n, end |-> n,
           past |-> l.past]
  BY DEF line_replace, LineInv, LineType
<1>13. l.past \in SUBSET (BufSize .. 2 * BufSize - 5)
  BY DEF LineInv, LineType
<1> HIDE DEF n
<1>4. r.buf = [i \in Cells |-> IF i < n THEN text[i + 1] ELSE 0] /\ r.cursor = n /\ r.end = n
  BY <1>3 DEF Cells
<1>5. \A i \in Cells : i < n => text[i + 1] \in Chars
  <2>1. \A i \in Cells : i < n => i + 1 \in 1 .. Len(text)
    BY <1>1, <1>2 DEF Cells
  <2> QED BY <1>1, <2>1
<1>6. r.buf \in [Cells -> Chars \cup {0}]
  BY <1>4, <1>5
<1>7. r \in LineType
  BY <1>2, <1>3, <1>4, <1>6, <1>13 DEF LineType
<1>8. \A i \in Cells : i < n => r.buf[i] # 0
  BY <1>4, <1>5 DEF ShellAssumption
<1>9. \A i \in Cells : n <= i => ~(i < n)
  BY <1>2 DEF Cells
<1>10. r.cursor <= r.end
  BY <1>2, <1>4 DEF Cells
<1>11. LineInv(r)
  BY <1>4, <1>7, <1>8, <1>10 DEF LineInv
<1>12. Clean(r)
  BY <1>4, <1>9 DEF Clean
<1> QED BY <1>2, <1>4, <1>11, <1>12 DEF n

-----------------------------------------------------------------------------
(* What is handed over. *)

\* A text with a NUL behind it is the string in the buffer.
LEMMA StringIs ==
  ASSUME ShellAssumption, NEW l, l.end \in Cells,
         \A i \in Cells : i < l.end => l.buf[i] # 0, l.buf[l.end] = 0
  PROVE  CString(l) = TextOf(l)
<1> DEFINE P(k) == (k = BufSize \/ l.buf[k] = 0) /\ \A j \in 0 .. k - 1 : l.buf[j] # 0
           n == CHOOSE k \in 0 .. BufSize : P(k)
<1>1. l.end \in Nat /\ l.end < BufSize /\ BufSize \in Nat
  BY DEF Cells, ShellAssumption
<1>2. l.end \in 0 .. BufSize /\ P(l.end)
  BY <1>1 DEF Cells
<1>3. ASSUME NEW k \in 0 .. BufSize, P(k) PROVE k = l.end
  <2>1. ~(k < l.end)
    BY <1>1, <1>3 DEF Cells
  <2>2. ~(l.end < k)
    <3>1. ASSUME l.end < k PROVE l.end \in 0 .. k - 1
      BY <1>1, <3>1
    <3> QED BY <1>3, <3>1
  <2> QED BY <1>1, <2>1, <2>2
<1>4. n = l.end
  BY <1>2, <1>3
<1>5. CString(l) = [i \in 1 .. n |-> l.buf[i - 1]]
  BY DEF CString
<1> QED BY <1>4, <1>5 DEF TextOf

\* Without the blanks before it a line is as clean as it was.
LEMMA StrippedString ==
  ASSUME ShellAssumption, NEW l, LineInv(l), Clean(l)
  PROVE  LET s == line_strip_whitespace(l) IN CString(s) = TextOf(s)
<1> DEFINE P(k) == (k = l.end \/ ~Delim(l, k)) /\ \A j \in 0 .. k - 1 : Delim(l, j)
           x == CHOOSE k \in 0 .. l.end : P(k)
           s == line_strip_whitespace(l)
<1>1. /\ l \in LineType /\ l.end \in Nat /\ l.end < BufSize /\ BufSize \in Nat
      /\ DOMAIN l.buf = Cells
  BY DEF LineInv, LineType, Cells, ShellAssumption
<1>2. x \in 0 .. l.end
  <2> DEFINE S == {k \in 0 .. l.end : k = l.end \/ ~Delim(l, k)}
  <2>1. S \in SUBSET Nat /\ l.end \in S
    BY <1>1
  <2>2. PICK k \in S : \A j \in S : k <= j
    BY <2>1, Least
  <2>3. k \in 0 .. l.end /\ (k = l.end \/ ~Delim(l, k))
    OBVIOUS
  <2>4. \A j \in 0 .. k - 1 : j \in 0 .. l.end /\ ~(k <= j)
    BY <1>1, <2>3
  <2>5. P(k)
    BY <2>2, <2>3, <2>4
  <2> QED BY <2>3, <2>5
<1>3. s = IF x > 0 THEN [l EXCEPT !.buf = Moved(@, 0, x, l.end + 1 - x), !.end = @ - x] ELSE l
  BY DEF line_strip_whitespace
<1> HIDE DEF x, s
<1>4. CASE x = 0
  <2>1. s = l
    BY <1>3, <1>4
  <2>2. l.end \in Cells /\ l.buf[l.end] = 0
    BY <1>1 DEF Clean, Cells
  <2> QED BY <2>1, <2>2, StringIs DEF LineInv, s
<1>5. CASE x > 0
  <2>1. s.buf = Moved(l.buf, 0, x, l.end + 1 - x) /\ s.end = l.end - x
    BY <1>1, <1>3, <1>5 DEF LineType
  <2>2. s.buf = [i \in Cells |-> IF 0 <= i /\ i < 0 + (l.end + 1 - x) THEN l.buf[i - 0 + x] ELSE l.buf[i]]
    BY <1>1, <2>1 DEF Moved
  <2>3. s.end \in Cells
    BY <1>1, <1>2, <2>1 DEF Cells
  <2>4. ASSUME NEW i \in Cells, i <= s.end PROVE s.buf[i] = l.buf[i + x] /\ i + x \in Cells /\ i + x <= l.end
    <3>1. /\ 0 <= i /\ i < 0 + (l.end + 1 - x) /\ i - 0 + x = i + x
          /\ i + x \in Cells /\ i + x <= l.end
      BY <1>1, <1>2, <2>1, <2>4 DEF Cells
    <3> QED BY <2>2, <3>1
  <2>5. ASSUME NEW i \in Cells, i < s.end PROVE s.buf[i] # 0
    <3>1. i <= s.end /\ i + x < l.end
      BY <1>1, <1>2, <2>1, <2>5 DEF Cells
    <3> QED BY <2>4, <3>1 DEF LineInv
  <2>6. s.buf[s.end] = 0
    <3>1. s.end <= s.end /\ s.end + x = l.end
      BY <1>1, <1>2, <2>1
    <3>2. s.buf[s.end] = l.buf[l.end] /\ l.end \in Cells /\ l.end <= l.end
      BY <1>1, <2>3, <2>4, <3>1
    <3> QED BY <3>2 DEF Clean
  <2>7. CString(s) = TextOf(s)
    BY <2>3, <2>5, <2>6, StringIs
  <2> QED BY <2>7 DEF s
<1> QED BY <1>2, <1>4, <1>5

\* EntersWhatIsEdited follows from the invariant.
LEMMA InvEnters ==
  ASSUME ShellAssumption, IInv
  PROVE  EntersWhatIsEdited
<1>1. /\ LineInv(line) /\ line.cursor \in Nat /\ line.end \in Nat /\ line.end <= BufSize - 1
      /\ line.end \in Cells
  BY DEF IInv, LineInv, LineType, Cells, ShellAssumption
<1>2. ASSUME ~smeared
      PROVE  LET s == line_strip_whitespace(line)
             IN  CString(s) = TextOf(s) /\ CString(line) = TextOf(line)
  <2>1. Clean(line)
    BY <1>2 DEF IInv
  <2>2. line.end <= line.end
    BY <1>1
  <2>3. CString(line) = TextOf(line)
    BY <1>1, <2>1, <2>2, StringIs DEF LineInv, Clean
  <2> QED BY <1>1, <2>1, <2>3, StrippedString
<1> QED BY <1>1, <1>2 DEF EntersWhatIsEdited, LineInv

\* And so do OverrunIsBounded and PromptHeldForCause.
LEMMA InvPrompt ==
  ASSUME IInv
  PROVE  PromptHeldForCause /\ OverrunIsBounded
BY DEF IInv, LineInv, LineType, OverrunIsBounded

-----------------------------------------------------------------------------
(* The invariant. *)

\* A change that leaves a clean line clean keeps the invariant.
LEMMA EditKeeps ==
  ASSUME IInv, NEW r, LineInv(r), Clean(line) => Clean(r), Edit(r)
  PROVE  IInv'
<1>1. line' = r /\ UNCHANGED <<shell, prompt, smeared>>
  BY DEF Edit
<1>2. LineInv(line') /\ (smeared' = FALSE => Clean(line'))
  BY <1>1 DEF IInv
<1> QED BY <1>1, <1>2 DEF IInv, PromptHeldForCause

\* So does a kill that leaves a clean line clean, or smears it.
LEMMA KillKeeps ==
  ASSUME IInv, NEW r, LineInv(r), NEW k, NEW m, Clean(line) /\ ~Smears(k, m) => Clean(r), Kill(r, k, m)
  PROVE  IInv'
<1>1. line' = r /\ smeared' = (smeared \/ Smears(k, m)) /\ UNCHANGED <<shell, prompt>>
  BY DEF Kill
<1>2. smeared' \in BOOLEAN
  BY <1>1 DEF Smears, IInv
<1>3. LineInv(line') /\ (smeared' = FALSE => Clean(line'))
  BY <1>1 DEF IInv
<1> QED BY <1>1, <1>2, <1>3 DEF IInv, PromptHeldForCause

\* The initial state satisfies the invariant.
LEMMA Starts ==
  ASSUME ShellAssumption, Init
  PROVE  IInv
<1>1. LineInv(line) /\ Clean(line)
  BY EmptyLine DEF Init
<1> QED BY <1>1 DEF Init, IInv, ShellType, PromptHeldForCause

\* Every key keeps it.
LEMMA KeysKeep ==
  ASSUME ShellAssumption, IInv, SpecialKey \/ NormalKey
  PROVE  IInv'
<1> DEFINE c == line.cursor  e == line.end
<1>1. LineInv(line) /\ c \in Nat /\ e \in Nat /\ c <= e
  BY DEF IInv, LineInv, LineType, Cells
<1>2. \A x \in 0 .. e : LET r == [line EXCEPT !.cursor = x] IN LineInv(r) /\ (Clean(line) => Clean(r))
  BY <1>1, MovedLine
<1>3. ASSUME NEW n \in Nat, Edit(line_move_left(line, n)) \/ Edit(line_move_right(line, n)) PROVE IInv'
  <2>1. CASE Edit(line_move_left(line, n))
    <3>1. PICK x \in 0 .. e : line_move_left(line, n) = [line EXCEPT !.cursor = x]
      BY <1>1, MovesStay
    <3> QED BY <1>2, <2>1, <3>1, EditKeeps
  <2>2. CASE Edit(line_move_right(line, n))
    <3>1. PICK x \in 0 .. e : line_move_right(line, n) = [line EXCEPT !.cursor = x]
      BY <1>1, MovesStay
    <3> QED BY <1>2, <2>2, <3>1, EditKeeps
  <2> QED BY <1>3, <2>1, <2>2
<1>4. CASE Backspace
  <2>1. CASE c = 0
    <3>1. line_backspace(line) = line
      BY <2>1 DEF line_backspace
    <3> QED BY <1>1, <1>4, <3>1, EditKeeps DEF Backspace
  <2>2. CASE c # 0
    BY <1>1, <1>4, <2>2, BackspaceLine, EditKeeps DEF Backspace
  <2> QED BY <2>1, <2>2
<1>5. CASE CtrlA
  BY <1>1, <1>3, <1>5 DEF CtrlA
<1>6. CASE CtrlE
  <2>1. e - c \in Nat
    BY <1>1
  <2> QED BY <1>3, <1>6, <2>1 DEF CtrlE
<1>7. CASE CtrlK
  <2>1. Killed(e - c, 0) = e - c /\ 0 \in Nat /\ e - c - (e - c) = 0
    BY <1>1 DEF Killed
  <2>2. /\ LineInv(line_kill_after(line, 0))
        /\ Clean(line) /\ ~Smears(e - c, 0) => Clean(line_kill_after(line, 0))
    BY <1>1, <2>1, KillAfterLine
  <2> QED BY <1>7, <2>2, KillKeeps DEF CtrlK
<1>8. ASSUME NEW k \in Nat, k > 0, k <= c, Kill(line_kill_before(line, k), k, e - c)
      PROVE  IInv'
  <2>1. Killed(c, k) = k /\ k # 0
    BY <1>1, <1>8 DEF Killed
  <2>2. /\ LineInv(line_kill_before(line, k))
        /\ Clean(line) /\ ~Smears(k, e - c) => Clean(line_kill_before(line, k))
    BY <1>1, <2>1, KillBeforeLine
  <2> QED BY <1>8, <2>2, KillKeeps
<1>9. CASE CtrlU
  BY <1>1, <1>8, <1>9 DEF CtrlU
<1>10. CASE CtrlW
  <2>1. line_prev_word(line) \in 0 .. c
    BY <1>1, PrevWord
  <2>2. c - line_prev_word(line) \in Nat /\ c - line_prev_word(line) <= c
    BY <1>1, <2>1
  <2> QED BY <1>8, <1>10, <2>2 DEF CtrlW
<1>11. CASE CtrlSlash
  <2>1. PICK x \in 0 .. e : line_move_left(line, c) = [line EXCEPT !.cursor = x]
    BY <1>1, MovesStay
  <2> DEFINE l == line_move_left(line, c)
  <2>2. line_move_left(line, c) = [line EXCEPT !.cursor = 0]
    BY <1>1, <1>11 DEF line_move_left, CtrlSlash
  <2>3. LineInv(l) /\ (Clean(line) => Clean(l)) /\ l.end = e /\ l.cursor = 0
    <3>1. 0 \in 0 .. e /\ l.end = e /\ l.cursor = 0
      BY <1>1, <2>2 DEF LineInv, LineType
    <3> QED BY <1>1, <2>2, <3>1, MovedLine
  <2> HIDE DEF l
  <2>4. Killed(l.end - l.cursor, 0) = e /\ 0 \in Nat /\ l.end - l.cursor - e = 0
    BY <1>1, <2>3 DEF Killed
  <2>5. ~Smears(e, l.end - l.cursor - e)
    BY <2>4 DEF Smears
  <2>6. LineInv(line_kill_after(l, 0)) /\ (Clean(l) => Clean(line_kill_after(l, 0)))
    BY <2>3, <2>4, <2>5, KillAfterLine
  <2> QED BY <1>11, <2>3, <2>6, EditKeeps DEF CtrlSlash, l
<1>12. CASE CtrlC
  <2>1. LineInv(line') /\ Clean(line')
    BY <1>1, <1>12, ClearedLine DEF CtrlC
  <2>2. smeared' = FALSE /\ shell' = shell /\ prompt' = ~shell.suppressed
    BY <1>12 DEF CtrlC
  <2> QED BY <2>1, <2>2 DEF IInv, ShellType, PromptHeldForCause
<1>13. CASE MetaB
  <2>1. line_prev_word(line) \in 0 .. e
    BY <1>1, PrevWord
  <2> QED BY <1>2, <1>13, <2>1, EditKeeps DEF MetaB
<1>14. CASE MetaF
  <2>1. line_next_word(line) \in 0 .. e
    BY <1>1, NextWord
  <2> QED BY <1>2, <1>14, <2>1, EditKeeps DEF MetaF
<1>15. CASE MetaD
  <2> DEFINE k == line_next_word(line) - c
  <2>1. line_next_word(line) \in c .. e
    BY <1>1, NextWord
  <2>2. k \in Nat /\ k <= e - c
    BY <1>1, <2>1
  <2>3. k > 0 /\ Kill(line_kill_after(line, k), k, e - c - k)
    BY <1>15 DEF MetaD
  <2> HIDE DEF k
  <2>4. Killed(e - c, k) = k
    BY <1>1, <2>2, <2>3 DEF Killed
  <2>5. /\ LineInv(line_kill_after(line, k))
        /\ Clean(line) /\ ~Smears(k, e - c - k) => Clean(line_kill_after(line, k))
    BY <1>1, <2>2, <2>4, KillAfterLine
  <2> QED BY <2>3, <2>5, KillKeeps
<1>16. CASE Recall
  <2>1. LineInv(line') /\ Clean(line')
    BY <1>1, <1>16, ReplacedLine DEF Recall
  <2>2. smeared' = FALSE /\ shell' = shell /\ prompt' = ~shell.suppressed
    BY <1>16 DEF Recall
  <2> QED BY <2>1, <2>2 DEF IInv, ShellType, PromptHeldForCause
<1>17. CASE Right
  BY <1>3, <1>17 DEF Right
<1>18. CASE Left
  BY <1>3, <1>18 DEF Left
<1>19. CASE Del
  <2>1. CASE AtEnd(line)
    <3>1. line_delete(line) = line
      BY <2>1 DEF line_delete
    <3> QED BY <1>1, <1>19, <3>1, EditKeeps DEF Del
  <2>2. CASE ~AtEnd(line)
    BY <1>1, <1>19, <2>2, DeleteLine, EditKeeps DEF Del
  <2> QED BY <2>1, <2>2
<1>20. CASE NormalKey
  <2>1. PICK ch \in Chars : Edit(line_insert(line, ch))
    BY <1>20 DEF NormalKey
  <2>2. CASE line_is_full(line)
    <3>1. line_insert(line, ch) = line
      BY <2>2 DEF line_insert
    <3> QED BY <1>1, <2>1, <3>1, EditKeeps
  <2>3. CASE ~line_is_full(line)
    BY <1>1, <2>1, <2>3, InsertLine, EditKeeps
  <2> QED BY <2>2, <2>3
<1> HIDE DEF c, e
<1> QED BY <1>4, <1>5, <1>6, <1>7, <1>9, <1>10, <1>11, <1>12, <1>13, <1>14, <1>15, <1>16, <1>17,
           <1>18, <1>19, <1>20 DEF SpecialKey

\* And so does every step.
LEMMA Steps ==
  ASSUME ShellAssumption, IInv, [Next]_vars
  PROVE  IInv'
<1>1. CASE SpecialKey \/ NormalKey
  BY <1>1, KeysKeep
<1>2. CASE EnterHandled
  <2>1. PICK done \in BOOLEAN :
          shell' = IF done THEN [Unsuppressed EXCEPT !.handler = FALSE, !.quiet = FALSE]
                   ELSE [shell EXCEPT !.quiet = FALSE]
    BY <1>2 DEF EnterHandled
  <2>2. shell.handler = TRUE /\ prompt' = ~shell'.suppressed /\ line' = line_clear(line) /\ smeared' = FALSE
    BY <1>2 DEF EnterHandled, IInv, ShellType
  <2>3. shell' \in ShellType /\ (shell'.suppressed => shell'.handler)
    BY <2>1, <2>2 DEF IInv, ShellType, Unsuppressed
  <2>4. PromptHeldForCause' /\ prompt' \in BOOLEAN
    BY <2>2, <2>3 DEF PromptHeldForCause, ShellType
  <2>5. LineInv(line') /\ Clean(line')
    BY <2>2, ClearedLine DEF IInv
  <2> QED BY <2>2, <2>3, <2>4, <2>5 DEF IInv
<1>3. CASE EnterCommand
  <2>1. PICK asks \in BOOLEAN, redirects \in BOOLEAN, resizes \in BOOLEAN, created \in BOOLEAN,
             quiet \in BOOLEAN :
          /\ CString(line_strip_whitespace(line)) = <<>> => ~asks /\ ~redirects /\ ~resizes /\ ~quiet
          /\ created => resizes /\ shell.delayed < MaxDelayed
          /\ shell' = [handler |-> asks, redirect |-> redirects,
                       suppressed |-> asks \/ resizes \/ shell.suppressed,
                       delayed |-> IF created THEN shell.delayed + 1 ELSE shell.delayed,
                       quiet |-> quiet,
                       stranded |-> shell.stranded \/ (resizes /\ ~created)]
          /\ prompt' = (~quiet /\ ~redirects /\ ~shell'.suppressed)
    BY <1>3, Zenon DEF EnterCommand
  <2>2. ~shell.handler /\ line' = line_clear(line) /\ smeared' = FALSE
    BY <1>3 DEF EnterCommand
  <2>3. /\ shell \in ShellType /\ shell.delayed \in Nat
        /\ shell.suppressed => shell.delayed > 0 \/ shell.stranded
    BY <2>2 DEF IInv, ShellType, PromptHeldForCause
  <2>4. /\ shell'.handler = asks /\ shell'.redirect = redirects /\ shell'.quiet = quiet
        /\ shell'.suppressed = (asks \/ resizes \/ shell.suppressed)
        /\ shell'.delayed = IF created THEN shell.delayed + 1 ELSE shell.delayed
        /\ shell'.stranded = (shell.stranded \/ (resizes /\ ~created))
    BY <2>1
  <2>5. shell'.delayed \in Nat /\ (created \/ shell.delayed > 0 => shell'.delayed > 0)
    BY <2>3, <2>4
  <2>6. shell' \in ShellType
    BY <2>1, <2>4, <2>5 DEF ShellType
  <2>7. shell'.suppressed => shell'.handler \/ shell'.delayed > 0 \/ shell'.stranded
    BY <2>3, <2>4, <2>5
  <2>8. ~prompt' => shell'.redirect \/ shell'.quiet \/ shell'.suppressed
    BY <2>1, <2>4
  <2>9. LineInv(line') /\ Clean(line')
    BY <2>2, ClearedLine DEF IInv
  <2>10. prompt' \in BOOLEAN
    BY <2>1
  <2> QED BY <2>2, <2>6, <2>7, <2>8, <2>9, <2>10 DEF IInv, PromptHeldForCause
<1>4. CASE Redirected
  <2>1. PICK cancel \in BOOLEAN :
          /\ shell' = [shell EXCEPT !.redirect = ~cancel]
          /\ prompt' = (cancel /\ ~shell.suppressed)
    BY <1>4 DEF Redirected
  <2>2. line' = line /\ smeared' = smeared
    BY <1>4 DEF Redirected
  <2>3. shell' \in ShellType /\ prompt' \in BOOLEAN /\ PromptHeldForCause'
    BY <2>1 DEF IInv, ShellType, PromptHeldForCause
  <2> QED BY <2>2, <2>3 DEF IInv
<1>5. CASE shell_reset
  BY <1>5 DEF shell_reset, Unsuppressed, IInv, ShellType, PromptHeldForCause
<1>6. CASE resize_verbose_cb
  <2>1. shell.delayed - 1 \in Nat
    BY <1>6 DEF resize_verbose_cb, IInv, ShellType
  <2>2. shell' = [Unsuppressed EXCEPT !.delayed = @ - 1] /\ prompt' = TRUE /\ UNCHANGED <<line, smeared>>
    BY <1>6 DEF resize_verbose_cb
  <2>3. shell' \in ShellType /\ ~shell'.suppressed
    BY <2>1, <2>2 DEF Unsuppressed, IInv, ShellType
  <2> QED BY <2>2, <2>3 DEF IInv, PromptHeldForCause
<1>7. CASE UNCHANGED vars
  BY <1>7 DEF vars, IInv, PromptHeldForCause
<1> QED BY <1>1, <1>2, <1>3, <1>4, <1>5, <1>6, <1>7 DEF Next

\* The invariant holds in every state.
LEMMA Invariance == ASSUME ShellAssumption PROVE Spec => []IInv
BY Starts, Steps, PTL DEF Spec

\* EntersWhatIsEdited: whatever keys were typed, into a buffer of any size, the cursor is in
\* the line and the command handed over is the line as it was edited.
THEOREM CommandsAreEntered == ASSUME ShellAssumption PROVE Spec => []EntersWhatIsEdited
BY Invariance, InvEnters, PTL

\* PromptHeldForCause: the prompt is missing only for a redirection, a handler, a task of
\* resize -v to come or one that came too early, or because the last command asked for none.
THEOREM PromptIsHeldForCause == ASSUME ShellAssumption PROVE Spec => []PromptHeldForCause
BY Invariance, InvPrompt, PTL

\* OverrunIsBounded: what a kill clears behind the buffer is less than a line's length.
THEOREM OverrunStaysBounded == ASSUME ShellAssumption PROVE Spec => []OverrunIsBounded
BY Invariance, InvPrompt, PTL

-----------------------------------------------------------------------------
(* The keys as an editor's. *)

\* The text before the cursor and the text behind it.
Before(l) == SubSeq(TextOf(l), 1, l.cursor)
Behind(l) == SubSeq(TextOf(l), l.cursor + 1, l.end)

\* The text before and behind the cursor, as sequences.
LEMMA PartsAre ==
  ASSUME ShellAssumption, NEW l, LineInv(l)
  PROVE  /\ TextOf(l) \in Seq(Chars) /\ Len(TextOf(l)) = l.end
         /\ Before(l) = [i \in 1 .. l.cursor |-> l.buf[i - 1]] /\ Before(l) \in Seq(Chars)
         /\ Len(Before(l)) = l.cursor
         /\ Behind(l) = [i \in 1 .. l.end - l.cursor |-> l.buf[l.cursor + i - 1]] /\ Behind(l) \in Seq(Chars)
         /\ Len(Behind(l)) = l.end - l.cursor
<1> DEFINE c == l.cursor  e == l.end
<1>1. c \in Nat /\ e \in Nat /\ c <= e /\ e < BufSize /\ BufSize \in Nat
  BY DEF LineInv, LineType, Cells, ShellAssumption
<1>2. ASSUME NEW i \in 0 .. e - 1 PROVE l.buf[i] \in Chars
  <2>1. i \in Cells /\ i < e
    BY <1>1 DEF Cells
  <2> QED BY <2>1 DEF LineInv, LineType
<1> HIDE DEF c, e
<1>3. TextOf(l) = [i \in 1 .. e |-> l.buf[i - 1]]
  BY DEF TextOf, e
<1>4. \A i \in 1 .. e : i - 1 \in 0 .. e - 1
  BY <1>1
<1>5. TextOf(l) \in Seq(Chars) /\ Len(TextOf(l)) = e
  BY <1>1, <1>2, <1>3, <1>4
<1>6. Before(l) = [i \in 1 .. c |-> l.buf[i - 1]]
  <2>1. Before(l) = [i \in 1 .. c |-> TextOf(l)[i]]
    BY <1>1, <1>5 DEF Before, c
  <2>2. \A i \in 1 .. c : i \in 1 .. e
    BY <1>1
  <2> QED BY <1>3, <2>1, <2>2
<1>7. Behind(l) = [i \in 1 .. e - c |-> l.buf[c + i - 1]]
  <2>1. Behind(l) = [i \in 1 .. e - c |-> TextOf(l)[c + i]]
    <3>1. SubSeq(TextOf(l), c + 1, e) = [i \in 1 .. (1 + e - (c + 1)) |-> TextOf(l)[i + (c + 1) - 1]]
      BY <1>1, <1>5
    <3>2. 1 + e - (c + 1) = e - c /\ \A i \in 1 .. e - c : i + (c + 1) - 1 = c + i
      BY <1>1
    <3> QED BY <3>1, <3>2 DEF Behind, c, e
  <2>2. \A i \in 1 .. e - c : c + i \in 1 .. e
    BY <1>1
  <2>3. ASSUME NEW i \in 1 .. e - c PROVE TextOf(l)[c + i] = l.buf[c + i - 1]
    <3> DEFINE j == c + i
    <3>1. j \in 1 .. e
      BY <2>2
    <3> HIDE DEF j
    <3>2. TextOf(l)[j] = l.buf[j - 1]
      BY <1>3, <3>1
    <3>3. j = c + i /\ j - 1 = c + i - 1
      BY <1>1 DEF j
    <3> QED BY <3>2, <3>3
  <2> QED BY <2>1, <2>3
<1>8. \A i \in 1 .. c : i - 1 \in 0 .. e - 1
  BY <1>1
<1>9. \A i \in 1 .. e - c : c + i - 1 \in 0 .. e - 1
  BY <1>1
<1>10. Before(l) \in Seq(Chars) /\ Len(Before(l)) = c
  BY <1>1, <1>2, <1>6, <1>8
<1>11. e - c \in Nat
  BY <1>1
<1>12. Behind(l) \in Seq(Chars) /\ Len(Behind(l)) = e - c
  BY <1>2, <1>7, <1>9, <1>11
<1> QED BY <1>5, <1>6, <1>7, <1>10, <1>12 DEF c, e

\* Together they are the text.
LEMMA Together ==
  ASSUME ShellAssumption, NEW l, LineInv(l)
  PROVE  Before(l) \o Behind(l) = TextOf(l)
<1> DEFINE c == l.cursor  e == l.end
<1>1. c \in Nat /\ e \in Nat /\ c <= e
  BY DEF LineInv, LineType, Cells
<1>2. /\ Before(l) = [i \in 1 .. c |-> l.buf[i - 1]] /\ Before(l) \in Seq(Chars) /\ Len(Before(l)) = c
      /\ Behind(l) = [i \in 1 .. e - c |-> l.buf[c + i - 1]] /\ Behind(l) \in Seq(Chars)
      /\ Len(Behind(l)) = e - c
  BY PartsAre
<1>3. TextOf(l) = [i \in 1 .. e |-> l.buf[i - 1]]
  BY DEF TextOf
<1> HIDE DEF c, e
<1>4. /\ Before(l) \o Behind(l) \in Seq(Chars) /\ Len(Before(l) \o Behind(l)) = c + (e - c)
      /\ \A i \in 1 .. c + (e - c) :
           (Before(l) \o Behind(l))[i] = IF i <= c THEN Before(l)[i] ELSE Behind(l)[i - c]
  <2> DEFINE s == Before(l)  t == Behind(l)
  <2>1. s \in Seq(Chars) /\ t \in Seq(Chars) /\ Len(s) = c /\ Len(t) = e - c
    BY <1>2
  <2> HIDE DEF s, t
  <2>2. /\ s \o t \in Seq(Chars) /\ Len(s \o t) = Len(s) + Len(t)
        /\ \A i \in 1 .. Len(s) + Len(t) : (s \o t)[i] = IF i <= Len(s) THEN s[i] ELSE t[i - Len(s)]
    BY <2>1, ConcatProperties
  <2> QED BY <2>1, <2>2 DEF s, t
<1>5. c + (e - c) = e
  BY <1>1
<1>6. ASSUME NEW i \in 1 .. e PROVE (IF i <= c THEN Before(l)[i] ELSE Behind(l)[i - c]) = l.buf[i - 1]
  <2>1. CASE i <= c
    <3>1. i \in 1 .. c
      BY <1>1, <2>1
    <3> QED BY <1>2, <2>1, <3>1
  <2>2. CASE ~(i <= c)
    <3>1. i - c \in 1 .. e - c /\ c + (i - c) - 1 = i - 1
      BY <1>1, <2>2
    <3> QED BY <1>2, <2>2, <3>1
  <2> QED BY <2>1, <2>2
<1>7. TextOf(l) \in Seq(Chars) /\ Len(TextOf(l)) = e
  BY PartsAre DEF e
<1>8. \A i \in 1 .. e : (Before(l) \o Behind(l))[i] = TextOf(l)[i]
  BY <1>3, <1>4, <1>5, <1>6
<1> QED BY <1>4, <1>5, <1>7, <1>8, SeqEqual

\* What is before the cursor, when the first n characters are all that is left of it.
LEMMA BeforeIs ==
  ASSUME ShellAssumption, NEW l, LineInv(l), NEW r, LineInv(r), NEW n \in Nat, n <= l.cursor,
         r.cursor = n, NEW a, NEW b, Joins(l, r, n, a, b)
  PROVE  Before(r) = SubSeq(Before(l), 1, n)
<1>1. l.cursor \in Nat /\ l.cursor < BufSize /\ BufSize \in Nat
  BY DEF LineInv, LineType, Cells, ShellAssumption
<1>2. /\ Before(l) = [i \in 1 .. l.cursor |-> l.buf[i - 1]] /\ Before(l) \in Seq(Chars)
      /\ Len(Before(l)) = l.cursor
      /\ Before(r) = [i \in 1 .. n |-> r.buf[i - 1]]
  BY PartsAre
<1>3. SubSeq(Before(l), 1, n) = [i \in 1 .. n |-> Before(l)[i]]
  BY <1>1, <1>2
<1>4. ASSUME NEW i \in 1 .. n PROVE r.buf[i - 1] = Before(l)[i]
  <2>1. i \in 1 .. l.cursor /\ i - 1 \in Cells /\ i - 1 < n
    BY <1>1 DEF Cells
  <2> QED BY <1>2, <2>1 DEF Joins
<1> QED BY <1>2, <1>3, <1>4

\* What is behind it, when the first k characters went.
LEMMA BehindIs ==
  ASSUME ShellAssumption, NEW l, LineInv(l), NEW r, LineInv(r), NEW k \in Nat, k <= l.end - l.cursor,
         NEW n, NEW a, a = l.cursor + k, Joins(l, r, n, a, r.cursor)
  PROVE  Behind(r) = SubSeq(Behind(l), k + 1, Len(Behind(l)))
<1> DEFINE c == l.cursor  e == l.end  d == r.cursor
<1>1. c \in Nat /\ e \in Nat /\ c <= e /\ e < BufSize /\ BufSize \in Nat /\ d \in Nat
  BY DEF LineInv, LineType, Cells, ShellAssumption
<1>2. /\ Behind(l) = [i \in 1 .. e - c |-> l.buf[c + i - 1]] /\ Behind(l) \in Seq(Chars)
      /\ Len(Behind(l)) = e - c
      /\ Behind(r) = [i \in 1 .. r.end - d |-> r.buf[d + i - 1]]
  BY PartsAre
<1>3. r.end - d = e - c - k /\ e - c - k \in Nat
  BY <1>1 DEF Joins
<1>4. \A i \in Cells : a <= i /\ i < e => r.buf[d + i - a] = l.buf[i]
  BY DEF Joins
<1> HIDE DEF c, e, d
<1>5. a = c + k
  BY DEF c
<1>6. SubSeq(Behind(l), k + 1, e - c) = [i \in 1 .. e - c - k |-> Behind(l)[k + i]]
  <2> DEFINE s == Behind(l)  n1 == e - c  m1 == k + 1
  <2>0. s \in Seq(Chars) /\ Len(s) = n1 /\ n1 \in Nat /\ m1 \in Nat
    BY <1>1, <1>2
  <2> HIDE DEF s, n1, m1
  <2>9. SubSeq(s, m1, n1) = [i \in 1 .. (1 + n1 - m1) |-> s[i + m1 - 1]]
    BY <2>0
  <2>1. SubSeq(Behind(l), k + 1, e - c) = [i \in 1 .. (1 + (e - c) - (k + 1)) |-> Behind(l)[i + (k + 1) - 1]]
    BY <2>9 DEF s, n1, m1
  <2>2. 1 + (e - c) - (k + 1) = e - c - k /\ \A i \in 1 .. e - c - k : i + (k + 1) - 1 = k + i
    BY <1>1, <1>3
  <2> QED BY <2>1, <2>2
<1>7. ASSUME NEW i \in 1 .. e - c - k PROVE r.buf[d + i - 1] = Behind(l)[k + i]
  <2> DEFINE j == a + i - 1
  <2>1. j \in Cells /\ a <= j /\ j < e /\ d + j - a = d + i - 1 /\ c + (k + i) - 1 = j
    BY <1>1, <1>3, <1>5 DEF Cells
  <2>2. k + i \in 1 .. e - c
    BY <1>1, <1>3
  <2> HIDE DEF j
  <2>3. r.buf[d + j - a] = l.buf[j]
    BY <1>4, <2>1
  <2>4. Behind(l)[k + i] = l.buf[c + (k + i) - 1]
    BY <1>2, <2>2
  <2> QED BY <2>1, <2>3, <2>4
<1> QED BY <1>2, <1>3, <1>6, <1>7

\* A step of the editor between two lines.
EditorStep(l, r) ==
  \/ \E ch \in Chars : Before(r) = Append(Before(l), ch) /\ Behind(r) = Behind(l)
  \/ Before(l) # <<>> /\ Before(r) = SubSeq(Before(l), 1, Len(Before(l)) - 1) /\ Behind(r) = Behind(l)
  \/ Behind(l) # <<>> /\ Behind(r) = Tail(Behind(l)) /\ Before(r) = Before(l)
  \/ \E n \in 0 .. Len(Before(l) \o Behind(l)) :
       /\ Before(r) = SubSeq(Before(l) \o Behind(l), 1, n)
       /\ Behind(r) = SubSeq(Before(l) \o Behind(l), n + 1, Len(Before(l) \o Behind(l)))
  \/ \E n \in 0 .. Len(Before(l)) : Before(r) = SubSeq(Before(l), 1, n) /\ Behind(r) = Behind(l)
  \/ \E n \in 0 .. Len(Behind(l)) : Behind(r) = SubSeq(Behind(l), n + 1, Len(Behind(l))) /\ Before(r) = Before(l)
  \/ Before(r) = <<>> /\ Behind(r) = <<>>
  \/ Before(r) \in {SubSeq(t, 1, Min({Len(t), BufSize - 1})) : t \in History} /\ Behind(r) = <<>>
  \/ Before(r) = Before(l) /\ Behind(r) = Behind(l)

\* It is one of the abstract specification.
LEMMA EditorSteps ==
  ASSUME NEW l, NEW r, l = line, r = line', EditorStep(l, r)
  PROVE  [Abstract!Next]_(Abstract!vars)
<1>1. /\ Before(l) = SubSeq(TextOf(line), 1, line.cursor)
      /\ Behind(l) = SubSeq(TextOf(line), line.cursor + 1, line.end)
  BY DEF Before, Behind
<1>2. /\ Before(r) = SubSeq(TextOf(line), 1, line.cursor)'
      /\ Behind(r) = SubSeq(TextOf(line), line.cursor + 1, line.end)'
  BY DEF Before, Behind, TextOf
<1> QED
  BY <1>1, <1>2 DEF EditorStep, Abstract!Next, Abstract!vars, Abstract!Type, Abstract!Erase, Abstract!Delete,
                    Abstract!Move, Abstract!Cut, Abstract!CutAll, Abstract!Recall, Abstract!Front

\* Nothing done, characters taken before or behind the cursor, the cursor moved, and all
\* the text gone are steps of it.
LEMMA SameText ==
  ASSUME NEW l PROVE EditorStep(l, l)
BY DEF EditorStep

\* Characters before the cursor go, and those behind it close up: a backspace.
LEMMA TakenBefore ==
  ASSUME ShellAssumption, NEW l, LineInv(l), NEW r, LineInv(r), NEW k \in Nat, k <= l.cursor,
         NEW n, n = l.cursor - k, r.cursor = n, Joins(l, r, n, l.cursor, n)
  PROVE  EditorStep(l, r)
<1>1. l.cursor \in Nat /\ l.end \in Nat /\ l.cursor <= l.end
  BY DEF LineInv, LineType, Cells
<1>2. n \in Nat /\ n <= l.cursor
  BY <1>1
<1>3. Before(r) = SubSeq(Before(l), 1, n)
  BY <1>2, BeforeIs
<1>4. Len(Before(l)) = l.cursor /\ Behind(l) \in Seq(Chars)
  BY PartsAre
<1>5. Behind(r) = Behind(l)
  <2>1. 0 \in Nat /\ 0 <= l.end - l.cursor /\ l.cursor = l.cursor + 0
    BY <1>1
  <2>2. Behind(r) = SubSeq(Behind(l), 0 + 1, Len(Behind(l)))
    BY <2>1, BehindIs
  <2>3. SubSeq(Behind(l), 1, Len(Behind(l))) = Behind(l)
    BY <1>4
  <2> QED BY <2>2, <2>3
<1>6. n \in 0 .. Len(Before(l))
  BY <1>1, <1>2, <1>4
<1> QED BY <1>3, <1>5, <1>6 DEF EditorStep

\* Characters behind the cursor go: a delete.
LEMMA TakenBehind ==
  ASSUME ShellAssumption, NEW l, LineInv(l), NEW r, LineInv(r), NEW k \in Nat, k <= l.end - l.cursor,
         r.cursor = l.cursor, Joins(l, r, l.cursor, l.cursor + k, l.cursor)
  PROVE  EditorStep(l, r)
<1>1. l.cursor \in Nat /\ l.end \in Nat /\ l.cursor <= l.end
  BY DEF LineInv, LineType, Cells
<1>2. Behind(r) = SubSeq(Behind(l), k + 1, Len(Behind(l)))
  BY BehindIs
<1>3. Len(Before(l)) = l.cursor /\ Before(l) \in Seq(Chars) /\ Len(Behind(l)) = l.end - l.cursor
  BY PartsAre
<1>4. Before(r) = Before(l)
  <2>1. Before(r) = SubSeq(Before(l), 1, l.cursor)
    BY <1>1, BeforeIs
  <2>2. SubSeq(Before(l), 1, Len(Before(l))) = Before(l)
    BY <1>3
  <2> QED BY <1>3, <2>1, <2>2
<1>5. k \in 0 .. Len(Behind(l))
  BY <1>1, <1>3
<1> QED BY <1>2, <1>4, <1>5 DEF EditorStep

\* A kill behind the cursor takes what follows the cursor.
LEMMA KilledAfter ==
  ASSUME ShellAssumption, NEW l, LineInv(l), NEW count \in Nat, NEW r, r = line_kill_after(l, count)
  PROVE  EditorStep(l, r)
<1> DEFINE k == Killed(l.end - l.cursor, count)
<1>1. k = Killed(l.end - l.cursor, count)
  OBVIOUS
<1> HIDE DEF k
<1>2. LineInv(r)
  BY <1>1, KillAfterLine
<1>3. r.cursor = l.cursor
  BY <1>1, KillAfterLine, ZenonT(40)
<1>4. k \in 0 .. l.end - l.cursor
  BY <1>1, KillAfterLine
<1>5. Joins(l, r, l.cursor, l.cursor + k, l.cursor)
  BY <1>1, KillAfterLine, ZenonT(40)
<1>6. k \in Nat /\ k <= l.end - l.cursor
  BY <1>4 DEF LineInv, LineType, Cells
<1> QED BY <1>2, <1>3, <1>5, <1>6, TakenBehind

\* Only the cursor moves.
LEMMA CursorMoved ==
  ASSUME ShellAssumption, NEW l, LineInv(l), NEW x \in 0 .. l.end,
         NEW r, r = [l EXCEPT !.cursor = x]
  PROVE  EditorStep(l, r)
<1>1. LineInv(r) /\ r.cursor = x /\ TextOf(r) = TextOf(l)
  BY MovedLine
<1>2. Before(l) \o Behind(l) = TextOf(l) /\ Len(TextOf(l)) = l.end /\ Len(TextOf(r)) = r.end
  BY <1>1, Together, PartsAre
<1>3. Before(r) = SubSeq(TextOf(l), 1, x) /\ Behind(r) = SubSeq(TextOf(l), x + 1, Len(TextOf(l)))
  BY <1>1, <1>2 DEF Before, Behind
<1> QED BY <1>2, <1>3 DEF EditorStep

\* The line is empty again.
LEMMA AllGone ==
  ASSUME ShellAssumption, NEW l, NEW r, LineInv(r), r.end = 0
  PROVE  EditorStep(l, r)
<1>1. r.cursor = 0 /\ r.end - r.cursor = 0
  BY DEF LineInv, LineType, Cells
<1>2. Before(r) = <<>> /\ Behind(r) = <<>>
  <2>1. Before(r) = [i \in 1 .. 0 |-> r.buf[i - 1]] /\ Behind(r) = [i \in 1 .. 0 |-> r.buf[r.cursor + i - 1]]
    BY <1>1, PartsAre
  <2>2. Before(r) \in Seq(Chars) /\ Len(Before(r)) = 0 /\ Behind(r) \in Seq(Chars) /\ Len(Behind(r)) = 0
    BY <1>1, PartsAre
  <2> QED BY <2>2
<1> QED BY <1>2 DEF EditorStep

\* A character typed, and a text from the history.
LEMMA Typed ==
  ASSUME ShellAssumption, NEW l, LineInv(l), NEW r, LineInv(r), NEW ch \in Chars,
         r.cursor = l.cursor + 1, r.buf[l.cursor] = ch, Joins(l, r, l.cursor, l.cursor, l.cursor + 1)
  PROVE  EditorStep(l, r)
<1> DEFINE c == l.cursor
<1>1. c \in Nat /\ l.end \in Nat /\ c <= l.end /\ l.end < BufSize /\ BufSize \in Nat
  BY DEF LineInv, LineType, Cells, ShellAssumption
<1>2. /\ Before(l) = [i \in 1 .. c |-> l.buf[i - 1]] /\ Before(l) \in Seq(Chars) /\ Len(Before(l)) = c
      /\ Behind(l) \in Seq(Chars)
      /\ Before(r) = [i \in 1 .. c + 1 |-> r.buf[i - 1]] /\ Before(r) \in Seq(Chars)
      /\ Len(Before(r)) = c + 1
  BY PartsAre
<1>3. Behind(r) = Behind(l)
  <2>1. 0 \in Nat /\ 0 <= l.end - l.cursor /\ l.cursor = l.cursor + 0
    BY <1>1
  <2>2. Behind(r) = SubSeq(Behind(l), 0 + 1, Len(Behind(l)))
    BY <2>1, BehindIs
  <2>3. SubSeq(Behind(l), 1, Len(Behind(l))) = Behind(l)
    BY <1>2
  <2> QED BY <2>2, <2>3
<1>4. \A i \in Cells : i < c => r.buf[i] = l.buf[i]
  BY DEF Joins
<1>5. r.buf[c] = ch
  OBVIOUS
<1> HIDE DEF c
<1>6. /\ Append(Before(l), ch) \in Seq(Chars) /\ Len(Append(Before(l), ch)) = c + 1
      /\ \A i \in 1 .. c : Append(Before(l), ch)[i] = Before(l)[i]
      /\ Append(Before(l), ch)[c + 1] = ch
  BY <1>1, <1>2, AppendProperties
<1>7. ASSUME NEW i \in 1 .. c + 1 PROVE Before(r)[i] = Append(Before(l), ch)[i]
  <2>1. CASE i = c + 1
    <3>1. Before(r)[i] = r.buf[i - 1] /\ i - 1 = c
      BY <1>1, <1>2, <2>1
    <3> QED BY <1>5, <1>6, <2>1, <3>1
  <2>2. CASE i # c + 1
    <3>1. i \in 1 .. c /\ i - 1 \in Cells /\ i - 1 < c
      BY <1>1, <2>2 DEF Cells
    <3>2. Before(r)[i] = r.buf[i - 1] /\ Before(l)[i] = l.buf[i - 1]
      BY <1>2, <3>1
    <3> QED BY <1>4, <1>6, <3>1, <3>2
  <2> QED BY <2>1, <2>2
<1>8. Before(r) = Append(Before(l), ch)
  <2> DEFINE p == Before(r)  q == Append(Before(l), ch)
  <2>1. p \in Seq(Chars) /\ q \in Seq(Chars) /\ Len(p) = c + 1 /\ Len(q) = c + 1
    BY <1>2, <1>6
  <2>2. \A i \in 1 .. Len(p) : p[i] = q[i]
    BY <1>7, <2>1
  <2> HIDE DEF p, q
  <2>3. p = q
    BY <2>1, <2>2, SeqEqual
  <2> QED BY <2>3 DEF p, q
<1> QED BY <1>3, <1>8 DEF EditorStep

\* A line of the history comes in place of the text.
LEMMA Recalled ==
  ASSUME ShellAssumption, NEW l, LineInv(l), NEW text \in History, NEW r, r = line_replace(l, text)
  PROVE  EditorStep(l, r)
<1> DEFINE n == Min({Len(text), BufSize - 1})
<1>1. text \in Seq(Chars) /\ Len(text) \in Nat /\ BufSize \in Nat
  BY DEF ShellAssumption
<1>2. /\ LineInv(r) /\ r.cursor = n /\ r.end = n /\ n <= Len(text)
      /\ \A i \in Cells : i < n => r.buf[i] = text[i + 1]
  BY ReplacedLine
<1>3. n \in Nat /\ n - n = 0 /\ n < BufSize
  BY <1>1, <1>2 DEF LineInv, LineType, Cells
<1> HIDE DEF n
<1>4. /\ Before(r) = [i \in 1 .. n |-> r.buf[i - 1]]
      /\ Behind(r) \in Seq(Chars) /\ Len(Behind(r)) = 0
  BY <1>2, <1>3, PartsAre
<1>5. Behind(r) = <<>>
  BY <1>4
<1>6. SubSeq(text, 1, n) = [i \in 1 .. n |-> text[i]]
  BY <1>1, <1>2, <1>3
<1>7. ASSUME NEW i \in 1 .. n PROVE r.buf[i - 1] = text[i]
  <2>1. i - 1 \in Cells /\ i - 1 < n /\ (i - 1) + 1 = i
    BY <1>1, <1>3 DEF Cells
  <2> QED BY <1>2, <2>1
<1>8. Before(r) = SubSeq(text, 1, n)
  BY <1>4, <1>6, <1>7
<1> QED BY <1>5, <1>8 DEF EditorStep, n

\* Each key is a step of the editor or changes nothing.
LEMMA KeysRefine ==
  ASSUME ShellAssumption, IInv, SpecialKey \/ NormalKey
  PROVE  EditorStep(line, line')
<1> DEFINE c == line.cursor  e == line.end
<1>1. LineInv(line) /\ c \in Nat /\ e \in Nat /\ c <= e /\ e - c \in Nat
  BY DEF IInv, LineInv, LineType, Cells
<1>2. \A x \in 0 .. e : EditorStep(line, [line EXCEPT !.cursor = x])
  BY <1>1, CursorMoved
<1>3. ASSUME NEW n \in Nat, line' = line_move_left(line, n) \/ line' = line_move_right(line, n)
      PROVE  EditorStep(line, line')
  <2>1. CASE line' = line_move_left(line, n)
    <3>1. PICK x \in 0 .. e : line_move_left(line, n) = [line EXCEPT !.cursor = x]
      BY <1>1, MovesStay
    <3> QED BY <1>2, <2>1, <3>1
  <2>2. CASE line' = line_move_right(line, n)
    <3>1. PICK x \in 0 .. e : line_move_right(line, n) = [line EXCEPT !.cursor = x]
      BY <1>1, MovesStay
    <3> QED BY <1>2, <2>2, <3>1
  <2> QED BY <1>3, <2>1, <2>2
<1>4. CASE Backspace
  <2>1. CASE c = 0
    <3>1. line' = line
      BY <1>4, <2>1 DEF line_backspace, Backspace, Edit
    <3> QED BY <3>1, SameText
  <2>2. CASE c # 0
    <3> DEFINE r == line_backspace(line)  n == c - 1
    <3>1. LineInv(r) /\ r.cursor = n /\ Joins(line, r, n, c, n)
      BY <1>1, <2>2, BackspaceLine
    <3>2. 1 \in Nat /\ 1 <= c /\ n = c - 1
      BY <1>1, <2>2
    <3> HIDE DEF r, n
    <3>3. EditorStep(line, r)
      BY <1>1, <3>1, <3>2, TakenBefore
    <3> QED BY <1>4, <3>3 DEF Backspace, Edit, r
  <2> QED BY <2>1, <2>2
<1>5. CASE CtrlA
  BY <1>1, <1>3, <1>5 DEF CtrlA, Edit
<1>6. CASE CtrlE
  BY <1>1, <1>3, <1>6 DEF CtrlE, Edit
<1>7. ASSUME NEW count \in Nat, line' = line_kill_after(line, count) PROVE EditorStep(line, line')
  BY <1>1, <1>7, KilledAfter
<1>8. ASSUME NEW count \in Nat, count > 0, c > 0, line' = line_kill_before(line, count)
      PROVE  EditorStep(line, line')
  <2> DEFINE r == line_kill_before(line, count)  k == Killed(c, count)  n == c - k
  <2>1. k # 0
    BY <1>1, <1>8 DEF Killed
  <2>2. LineInv(r) /\ r.cursor = n /\ k \in 0 .. c /\ Joins(line, r, n, c, n)
    BY <1>1, <2>1, KillBeforeLine
  <2>3. k \in Nat /\ k <= c /\ n = c - k
    BY <1>1, <2>2
  <2> HIDE DEF r, k, n
  <2>4. EditorStep(line, r)
    BY <1>1, <2>2, <2>3, TakenBefore
  <2> QED BY <1>8, <2>4 DEF r
<1>9. CASE CtrlK
  BY <1>7, <1>9 DEF CtrlK, Kill
<1>10. CASE CtrlU
  BY <1>1, <1>8, <1>10 DEF CtrlU, Kill
<1>11. CASE CtrlW
  <2>1. line_prev_word(line) \in 0 .. c
    BY <1>1, PrevWord
  <2>2. c - line_prev_word(line) \in Nat /\ (c - line_prev_word(line) > 0 => c > 0)
    BY <1>1, <2>1
  <2> QED BY <1>8, <1>11, <2>2 DEF CtrlW, Kill
<1>12. CASE CtrlSlash
  <2> DEFINE l == line_move_left(line, c)  r == line_kill_after(l, 0)  k == Killed(l.end - l.cursor, 0)
  <2>1. 0 \in 0 .. e
    BY <1>1
  <2>2. l = [line EXCEPT !.cursor = 0]
    BY <1>1, <1>12 DEF line_move_left, CtrlSlash
  <2>3. LineInv(l) /\ l.cursor = 0 /\ l.end = e
    BY <1>1, <2>1, <2>2, MovedLine DEF LineInv, LineType
  <2> HIDE DEF l
  <2>9. r = line_kill_after(l, 0) /\ k = Killed(l.end - l.cursor, 0) /\ 0 \in Nat
    OBVIOUS
  <2>5. k = e
    BY <1>1, <2>3 DEF Killed
  <2> HIDE DEF r, k
  <2>4. LineInv(r) /\ Joins(l, r, l.cursor, l.cursor + k, l.cursor)
    BY <2>3, <2>9, KillAfterLine
  <2>6. r.end = 0
    <3>1. r.end = l.cursor + (l.end - (l.cursor + k))
      BY <2>4 DEF Joins
    <3> QED BY <1>1, <2>3, <2>5, <3>1
  <2>7. line' = r
    BY <1>12 DEF CtrlSlash, Edit, l, r
  <2> QED BY <2>4, <2>6, <2>7, AllGone
<1>13. CASE CtrlC
  <2>1. LineInv(line') /\ line'.end = 0
    BY <1>1, <1>13, ClearedLine DEF CtrlC
  <2> QED BY <2>1, AllGone
<1>14. CASE MetaB
  <2>1. line_prev_word(line) \in 0 .. e
    BY <1>1, PrevWord
  <2> QED BY <1>2, <1>14, <2>1 DEF MetaB, Edit
<1>15. CASE MetaF
  <2>1. line_next_word(line) \in 0 .. e
    BY <1>1, NextWord
  <2> QED BY <1>2, <1>15, <2>1 DEF MetaF, Edit
<1>16. CASE MetaD
  <2>1. line_next_word(line) \in c .. e
    BY <1>1, NextWord
  <2>2. line_next_word(line) - c \in Nat
    BY <1>1, <2>1
  <2> QED BY <1>7, <1>16, <2>2 DEF MetaD, Kill
<1>17. CASE Recall
  BY <1>1, <1>17, Recalled DEF Recall
<1>18. CASE Right
  BY <1>3, <1>18 DEF Right, Edit
<1>19. CASE Left
  BY <1>3, <1>19 DEF Left, Edit
<1>20. CASE Del
  <2>1. CASE AtEnd(line)
    <3>1. line' = line
      BY <1>20, <2>1 DEF line_delete, Del, Edit
    <3> QED BY <3>1, SameText
  <2>2. CASE ~AtEnd(line)
    <3> DEFINE r == line_delete(line)
    <3>1. LineInv(r) /\ r.cursor = c /\ Joins(line, r, c, c + 1, c)
      BY <1>1, <2>2, DeleteLine
    <3>2. 1 \in Nat /\ 1 <= e - c
      BY <1>1, <2>2 DEF AtEnd
    <3> HIDE DEF r
    <3>3. EditorStep(line, r)
      BY <1>1, <3>1, <3>2, TakenBehind
    <3> QED BY <1>20, <3>3 DEF Del, Edit, r
  <2> QED BY <2>1, <2>2
<1>21. CASE NormalKey
  <2>1. PICK ch \in Chars : line' = line_insert(line, ch)
    BY <1>21 DEF NormalKey, Edit
  <2>2. CASE line_is_full(line)
    <3>1. line' = line
      BY <2>1, <2>2 DEF line_insert
    <3> QED BY <3>1, SameText
  <2>3. CASE ~line_is_full(line)
    BY <1>1, <2>1, <2>3, InsertLine, Typed
  <2> QED BY <2>2, <2>3
<1> HIDE DEF c, e
<1> QED BY <1>4, <1>5, <1>6, <1>9, <1>10, <1>11, <1>12, <1>13, <1>14, <1>15, <1>16, <1>17,
           <1>18, <1>19, <1>20, <1>21 DEF SpecialKey

\* And so is every step: a line handed over is gone, and nothing else touches it.
LEMMA LineRefines ==
  ASSUME ShellAssumption, IInv, [Next]_vars
  PROVE  [Abstract!Next]_(Abstract!vars)
<1>1. EditorStep(line, line')
  <2>1. CASE SpecialKey \/ NormalKey
    BY <2>1, KeysRefine
  <2>2. CASE EnterHandled \/ EnterCommand
    <3>1. line' = line_clear(line)
      BY <2>2 DEF EnterHandled, EnterCommand
    <3>2. LineInv(line') /\ line'.end = 0
      BY <3>1, ClearedLine DEF IInv
    <3> QED BY <3>2, AllGone
  <2>3. CASE Redirected \/ resize_verbose_cb \/ shell_reset \/ UNCHANGED vars
    <3>1. line' = line
      BY <2>3 DEF Redirected, resize_verbose_cb, shell_reset, vars
    <3> QED BY <3>1, SameText
  <2> QED BY <2>1, <2>2, <2>3 DEF Next
<1> QED BY <1>1, EditorSteps

\* An empty line is the editor's initial state.
LEMMA EditorStarts ==
  ASSUME ShellAssumption, Init
  PROVE  Abstract!Init
<1>1. LineInv(line) /\ line.cursor = 0 /\ line.end - line.cursor = 0
  BY EmptyLine DEF Init
<1>2. /\ Before(line) \in Seq(Chars) /\ Len(Before(line)) = 0
      /\ Behind(line) \in Seq(Chars) /\ Len(Behind(line)) = 0
  BY <1>1, PartsAre
<1>3. Before(line) = <<>> /\ Behind(line) = <<>>
  BY <1>2
<1> QED BY <1>3 DEF Abstract!Init, Before, Behind

\* ImplementsEditor: each key types or erases next to the cursor, moves it, cuts text next
\* to it or puts another text in its stead; no character is lost, repeated or swapped
\* beyond that, in a buffer of any size.
THEOREM Implementation == ASSUME ShellAssumption PROVE Spec => ImplementsEditor
<1>1. ShellAssumption /\ IInv /\ [Next]_vars => [Abstract!Next]_(Abstract!vars)
  BY LineRefines
<1> QED BY <1>1, EditorStarts, Invariance, PTL DEF Spec, ImplementsEditor, Abstract!Spec

=============================================================================
