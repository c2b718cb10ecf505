--------------------------- MODULE PrintingProofs ---------------------------
(***************************************************************************)
(* What is printed, for every format, with any arguments, and for every    *)
(* size of the buffer.                                                     *)
(*                                                                         *)
(* Nothing is written outside the buffer: the invariant is PrintInv, and   *)
(* what a directive writes does not matter for it.                         *)
(*                                                                         *)
(* What is written is what C prescribes.  A format is the text of its      *)
(* items, so the parser, which sees only characters, finds the flags, the  *)
(* width, the precision, the type and the conversion again that the text   *)
(* was made from (MeansIs); the conversion and the padding then give the   *)
(* field C describes, case by case (FieldIsItem); and the loop has always  *)
(* written what the items behind it prescribe (PrintsInv).                 *)
(*                                                                         *)
(* The loops of string.c, at the end, do what their callers rely on, for   *)
(* arguments of every length and every overlap.  Their invariant says what *)
(* each loop has done after i iterations, and that what it has still to    *)
(* read is intact.                                                         *)
(***************************************************************************)
EXTENDS Printf, Strings, TLAPS, NaturalsInduction, WellFoundedInduction

-----------------------------------------------------------------------------
(* The buffer *)

\* Where the caller's buffer was written.  Everything the caller did not give
\* is still as it was, but for the byte in front of an empty buffer.
Bounded ==
  \A j \in -1 .. size :
    out.buf[j] # "untouched" => \/ j \in 0 .. size - 1
                                \/ j = -1 /\ size = 0 /\ returned

Shape(o) ==
  /\ o = [ buf |-> o.buf, cur |-> o.cur, n |-> o.n ]
  /\ DOMAIN o.buf = -1 .. size
  /\ o.cur \in Nat /\ o.cur <= size /\ o.n \in Nat

PrintInv ==
  /\ size \in Nat /\ returned \in BOOLEAN
  /\ entry = "kprintf" => size > 0
  /\ returned => field = << >> /\ CharAt(at) = "NUL"
  /\ Shape(out)
  /\ Bounded
  /\ returned /\ size > 0 => \E j \in 0 .. size - 1 : out.buf[j] = "NUL"

-----------------------------------------------------------------------------
LEMMA PrintInvInit == Init => PrintInv
<1> SUFFICES ASSUME Init PROVE PrintInv
  OBVIOUS
<1>1. size \in Nat /\ returned = FALSE /\ (entry = "kprintf" => size > 0)
  <2>1. MessageMax \in Nat /\ MessageMax > 0 /\ \A s \in BufferSizes : s \in Nat
    BY PrintfAssumption
  <2>2. CASE entry = "kprintf" /\ size = MessageMax
    BY <2>1, <2>2 DEF Init
  <2>3. CASE entry = "vsnprintf" /\ size \in BufferSizes
    BY <2>1, <2>3 DEF Init
  <2> QED
    BY <2>2, <2>3 DEF Init
<1>2. out = [ buf |-> [ j \in -1 .. size |-> "untouched" ], cur |-> 0, n |-> 0 ]
  BY DEF Init
<1>3. out.buf = [ j \in -1 .. size |-> "untouched" ] /\ out.cur = 0 /\ out.n = 0
  BY <1>2
<1>4. Shape(out)
  BY <1>1, <1>2, <1>3 DEF Shape
<1>5. Bounded
  BY <1>3 DEF Bounded
<1> QED
  BY <1>1, <1>4, <1>5 DEF PrintInv

\* npf_bufputc writes at its index, if that is in the buffer, and nowhere else.
LEMMA PutWithinBuffer ==
  ASSUME NEW o, Shape(o), size \in Nat, NEW ch
  PROVE  /\ Shape(BufPutc(o, ch)) /\ Shape(Putc(o, ch))
         /\ Putc(o, ch).buf = BufPutc(o, ch).buf
         /\ BufPutc(o, ch).n = o.n
         /\ \A j \in -1 .. size : BufPutc(o, ch).buf[j] = o.buf[j]
                                  \/ j \in 0 .. size - 1
<1> DEFINE b == BufPutc(o, ch)
<1>1. CASE o.cur < size
  <2>1. b = [ buf |-> [ o.buf EXCEPT ![o.cur] = ch ], cur |-> o.cur + 1, n |-> o.n ]
    <3> DEFINE d == [ o EXCEPT !.buf[o.cur] = ch ]
    <3>1. d = [ buf |-> [ o.buf EXCEPT ![o.cur] = ch ], cur |-> o.cur, n |-> o.n ]
      BY DEF Shape
    <3>2. b = [ d EXCEPT !.cur = @ + 1 ]
      BY <1>1 DEF BufPutc
    <3> HIDE DEF b, d
    <3> QED
      BY <3>1, <3>2
  <2> HIDE DEF b
  <2>2. Shape(b) /\ b.n = o.n
    BY <1>1, <2>1 DEF Shape
  <2>3. \A j \in -1 .. size : b.buf[j] = o.buf[j] \/ j \in 0 .. size - 1
    BY <1>1, <2>1 DEF Shape
  <2>4. Putc(o, ch) = [ buf |-> b.buf, cur |-> b.cur, n |-> b.n + 1 ]
    BY <2>2 DEF Putc, Shape, b
  <2>5. Shape(Putc(o, ch)) /\ Putc(o, ch).buf = b.buf
    BY <2>2, <2>4 DEF Shape
  <2> QED
    BY <2>2, <2>3, <2>5 DEF b
<1>2. CASE ~(o.cur < size)
  <2>1. b = o
    BY <1>2 DEF BufPutc
  <2>2. Putc(o, ch) = [ buf |-> o.buf, cur |-> o.cur, n |-> o.n + 1 ]
    BY <2>1 DEF Putc, Shape
  <2>3. Shape(Putc(o, ch)) /\ Putc(o, ch).buf = o.buf
    BY <2>2 DEF Shape
  <2> QED
    BY <2>1, <2>3
<1> QED
  BY <1>1, <1>2

\* One character more, from the format or from a field.
LEMMA PutKeeps ==
  ASSUME PrintInv, NEW ch, out' = Putc(out, ch), UNCHANGED << entry, size, returned >>,
         ~returned
  PROVE  PrintInv'
<1>1. /\ Shape(Putc(out, ch))
      /\ \A j \in -1 .. size : Putc(out, ch).buf[j] = out.buf[j] \/ j \in 0 .. size - 1
  BY PutWithinBuffer DEF PrintInv
<1>2. Shape(out)'
  BY <1>1 DEF Shape
<1>3. Bounded'
  BY <1>1 DEF PrintInv, Bounded
<1> QED
  BY <1>2, <1>3 DEF PrintInv

\* The two ends of the text: the last byte of the buffer is NUL, and with no
\* buffer at all the second one writes in front of it.
LEMMA ReturnKeeps ==
  ASSUME PrintInv, Return
  PROVE  PrintInv'
<1>1. /\ size \in Nat /\ Shape(out) /\ Bounded /\ (entry = "kprintf" => size > 0)
      /\ returned' = TRUE /\ UNCHANGED << entry, size >>
      /\ field' = << >> /\ CharAt(at)' = "NUL"
  BY DEF PrintInv, Return, CharAt
<1> DEFINE ended == BufPutc(out, "NUL")
           t == Terminate(out)
<1>2. /\ Shape(ended)
      /\ \A j \in -1 .. size : ended.buf[j] = out.buf[j] \/ j \in 0 .. size - 1
  BY <1>1, PutWithinBuffer
<1>3. /\ Shape(t)
      /\ \A j \in -1 .. size : t.buf[j] = out.buf[j] \/ j \in 0 .. size - 1
      /\ size > 0 => t.buf[size - 1] = "NUL"
  <2>1. CASE size > 0
    <3>1. t = [ ended EXCEPT !.buf[size - 1] = "NUL" ]
      BY <2>1 DEF Terminate
    <3> HIDE DEF ended, t
    <3>2. t = [ buf |-> [ ended.buf EXCEPT ![size - 1] = "NUL" ],
                cur |-> ended.cur, n |-> ended.n ]
      BY <1>2, <3>1 DEF Shape
    <3> QED
      BY <1>1, <1>2, <2>1, <3>2 DEF Shape
  <2>2. CASE ~(size > 0)
    BY <1>2, <2>2 DEF Terminate
  <2> QED
    BY <2>1, <2>2
<1> HIDE DEF ended, t
<1>4. CASE Kprintf
  <2>1. out' = t /\ size > 0
    BY <1>1, <1>4 DEF Kprintf, t
  <2>2. Shape(out)'
    BY <1>1, <1>3, <2>1 DEF Shape
  <2>3. Bounded'
    BY <1>1, <1>3, <2>1 DEF Bounded
  <2>4. \E j \in 0 .. size - 1 : out'.buf[j] = "NUL"
    BY <1>1, <1>3, <2>1
  <2> QED
    BY <1>1, <2>2, <2>3, <2>4 DEF PrintInv
<1>5. CASE Vsnprintf
  <2>1. out' = CutAgain(t)
    BY <1>5 DEF Vsnprintf, t
  <2>2. \/ out' = t
        \/ out' = [ buf |-> [ t.buf EXCEPT ![size - 1] = "NUL" ], cur |-> t.cur, n |-> t.n ]
    BY <1>3, <2>1 DEF CutAgain, Shape
  <2>3. Shape(out)'
    BY <1>1, <1>3, <2>2 DEF Shape
  <2>4. \A j \in -1 .. size : out'.buf[j] = t.buf[j] \/ j = size - 1
    BY <1>1, <1>3, <2>2 DEF Shape
  <2>5. Bounded'
    BY <1>1, <1>3, <2>4 DEF Bounded
  <2>6. size > 0 => \E j \in 0 .. size - 1 : out'.buf[j] = "NUL"
    <3>1. size > 0 => size - 1 \in 0 .. size - 1 /\ size - 1 \in -1 .. size
      BY <1>1
    <3>2. size > 0 => out'.buf[size - 1] = "NUL"
      BY <1>1, <1>3, <2>2, <3>1 DEF Shape
    <3> QED
      BY <3>1, <3>2
  <2> QED
    BY <1>1, <2>3, <2>5, <2>6 DEF PrintInv
<1> QED
  BY <1>4, <1>5 DEF Return

LEMMA PrintInvStep == PrintInv /\ [Next]_vars => PrintInv'
<1> SUFFICES ASSUME PrintInv, [Next]_vars PROVE PrintInv'
  OBVIOUS
<1>1. CASE Copy
  <2>1. ~returned /\ UNCHANGED << entry, size, returned >>
    BY <1>1 DEF Copy, PrintInv
  <2> QED
    BY <1>1, <2>1, PutKeeps DEF Copy
<1>2. CASE Directive
  <2>1. ~returned /\ UNCHANGED << entry, size, returned, out >>
    BY <1>2 DEF Directive, PrintInv
  <2> QED
    BY <2>1 DEF PrintInv, Bounded, Shape
<1>3. CASE PutField
  <2>1. ~returned /\ UNCHANGED << entry, size, returned >>
    BY <1>3 DEF PutField, PrintInv
  <2> QED
    BY <1>3, <2>1, PutKeeps DEF PutField
<1>4. CASE Return
  BY <1>4, ReturnKeeps
<1>5. CASE UNCHANGED vars
  BY <1>5 DEF vars, PrintInv, Bounded, Shape, CharAt
<1> QED
  BY <1>1, <1>2, <1>3, <1>4, <1>5 DEF Next

\* For every call: whatever the format, the arguments and the size are, the
\* buffer is never left, but for the byte before one of size zero, and a text
\* that is handed back ends in the buffer.
THEOREM BufferNeverLeft == Spec => []StaysInBuffer
<1>1. PrintInv => StaysInBuffer
  BY DEF PrintInv, StaysInBuffer, Bounded, Shape
<1> QED
  BY PrintInvInit, PrintInvStep, <1>1, PTL DEF Spec

-----------------------------------------------------------------------------
(* Recursion *)

\* A number that has a property from which no smaller one is free ...
LEMMA LeastNumber ==
  ASSUME NEW T, T \subseteq Nat, T # {}
  PROVE  \E r \in T : \A m \in T : r <= m
<1> DEFINE R == {p \in Nat \X Nat : p[1] < p[2]}
<1>1. IsWellFoundedOn(R, Nat)
  BY NatLessThanWellFounded DEF OpToRel
<1>2. PICK r \in T : \A m \in T : << m, r >> \notin R
  <2> HIDE DEF R
  <2> QED
    BY <1>1, WFMin
<1>3. \A m \in T : ~(m < r)
  BY <1>2
<1> QED
  BY <1>3

\* The states of a loop whose body F is a function on a set.
States(F, s, N, S) ==
  {g \in [0 .. N -> S] :
     g[0] = s /\ \A r \in 1 .. N : g[r] = F[<< g[r - 1], r >>]}

LEMMA LoopExists ==
  ASSUME NEW S, NEW N \in Nat, NEW s \in S, NEW F \in [S \X (1 .. N) -> S]
  PROVE  States(F, s, N, S) # {}
<1> DEFINE Upto(k, g) == g[0] = s /\ \A r \in 1 .. k : g[r] = F[<< g[r - 1], r >>]
           T == {k \in 0 .. N : ~\E g \in [0 .. k -> S] : Upto(k, g)}
<1>1. SUFFICES T = {}
  <2>1. N \in 0 .. N
    OBVIOUS
  <2> QED
    BY <2>1 DEF States
<1>2. SUFFICES ASSUME T # {} PROVE FALSE
  OBVIOUS
<1>3. PICK k \in T : \A m \in T : k <= m
  <2>1. T \subseteq Nat
    OBVIOUS
  <2> HIDE DEF T
  <2> QED
    BY <1>2, <2>1, LeastNumber
<1>4. k # 0
  <2> DEFINE g == [r \in 0 .. 0 |-> s]
  <2>1. g \in [0 .. 0 -> S] /\ Upto(0, g)
    OBVIOUS
  <2> QED
    BY <1>3, <2>1
<1>5. k - 1 \in 0 .. N /\ k \in 1 .. N /\ k - 1 \notin T
  BY <1>3, <1>4
<1>6. PICK g \in [0 .. k - 1 -> S] : Upto(k - 1, g)
  <2> HIDE DEF Upto
  <2> QED
    BY <1>5
<1> DEFINE h == [r \in 0 .. k |-> IF r = k THEN F[<< g[k - 1], k >>] ELSE g[r]]
<1>7. g[k - 1] \in S
  BY <1>5, <1>6
<1>8. F[<< g[k - 1], k >>] \in S
  BY <1>5, <1>7
<1>9. h \in [0 .. k -> S]
  BY <1>5, <1>6, <1>8
<1>10. Upto(k, h)
  <2>1. h[0] = s
    BY <1>5, <1>6
  <2>2. ASSUME NEW r \in 1 .. k PROVE h[r] = F[<< h[r - 1], r >>]
    <3>1. h[r - 1] = g[r - 1]
      BY <1>5
    <3>2. CASE r = k
      BY <3>1, <3>2, <1>5
    <3>3. CASE r # k
      <4>1. r \in 1 .. k - 1
        BY <3>3, <1>5
      <4>2. h[r] = g[r]
        BY <3>3, <1>5
      <4> QED
        BY <3>1, <4>1, <4>2, <1>6
    <3> QED
      BY <3>2, <3>3
  <2> QED
    BY <2>1, <2>2
<1> QED
  BY <1>3, <1>9, <1>10

\* Counting up.
LEMMA CountUp ==
  ASSUME NEW N \in Nat, NEW G, 0 \in G, \A r \in 1 .. N : r - 1 \in G => r \in G
  PROVE  \A r \in 0 .. N : r \in G
<1> DEFINE T == {r \in 0 .. N : r \notin G}
<1>1. SUFFICES ASSUME T # {} PROVE FALSE
  OBVIOUS
<1>2. PICK r \in T : \A m \in T : r <= m
  <2>1. T \subseteq Nat
    OBVIOUS
  <2> HIDE DEF T
  <2> QED
    BY <1>1, <2>1, LeastNumber
<1>3. r \in 1 .. N
  BY <1>2
<1>4. r - 1 \in 0 .. N /\ r - 1 < r
  BY <1>3
<1>5. r - 1 \in G
  BY <1>2, <1>4
<1> QED
  BY <1>2, <1>3, <1>5

-----------------------------------------------------------------------------
(* Powers *)

LEMMA PowerIs ==
  ASSUME NEW b \in Nat, NEW r \in Nat
  PROVE  \E p \in [0 .. r -> Nat] :
           /\ p[0] = 1 /\ \A k \in 1 .. r : p[k] = b * p[k - 1]
           /\ Power(b, r) = p[r]
<1> DEFINE F == [a \in Nat \X (1 .. r) |-> b * a[1]]
           Is(g) == g = [k \in 0 .. r |-> IF k = 0 THEN 1 ELSE b * g[k - 1]]
           f == CHOOSE g : Is(g)
<1>1. Power(b, r) = f[r]
  BY DEF Power
<1>2. F \in [Nat \X (1 .. r) -> Nat] /\ \A t \in Nat, k \in 1 .. r : F[<< t, k >>] = b * t
  OBVIOUS
<1> HIDE DEF F, f
<1>3. PICK g : g \in States(F, 1, r, Nat)
  <2> DEFINE N == r
             one == 1
  <2>1. N \in Nat /\ one \in Nat /\ F \in [Nat \X (1 .. N) -> Nat]
    BY <1>2
  <2> HIDE DEF N, one
  <2>2. \E g : g \in States(F, one, N, Nat)
    BY <2>1, LoopExists
  <2> QED
    BY <2>2 DEF N, one
<1>4. Is(g)
  <2>1. /\ g \in [0 .. r -> Nat] /\ g[0] = 1
        /\ \A k \in 1 .. r : g[k] = F[<< g[k - 1], k >>]
    BY <1>3 DEF States
  <2>2. \A k \in 1 .. r : g[k] = b * g[k - 1]
    <3>1. \A k \in 1 .. r : k - 1 \in 0 .. r /\ g[k - 1] \in Nat
      BY <2>1
    <3> QED
      BY <1>2, <2>1, <3>1
  <2>3. \A k \in 0 .. r : g[k] = IF k = 0 THEN 1 ELSE b * g[k - 1]
    BY <2>1, <2>2
  <2> QED
    BY <2>1, <2>3
<1>5. Is(f)
  <2> HIDE DEF Is
  <2> QED
    BY <1>4 DEF f
<1>6. f[0] = 1 /\ \A k \in 1 .. r : f[k] = b * f[k - 1]
  BY <1>5
<1> DEFINE G == {k \in 0 .. r : f[k] \in Nat}
<1>7. 0 \in G /\ \A k \in 1 .. r : k - 1 \in G => k \in G
  BY <1>6
<1> HIDE DEF G
<1>8. \A k \in 0 .. r : k \in G
  BY <1>7, CountUp
<1>9. f \in [0 .. r -> Nat]
  BY <1>5, <1>8 DEF G
<1> QED
  BY <1>1, <1>6, <1>9

LEMMA PowerFacts ==
  ASSUME NEW b \in Nat, NEW r \in Nat
  PROVE  /\ Power(b, r) \in Nat /\ Power(b, 0) = 1
         /\ Power(b, r + 1) = b * Power(b, r)
<1>1. PICK p \in [0 .. r -> Nat] : /\ p[0] = 1 /\ \A k \in 1 .. r : p[k] = b * p[k - 1]
                                  /\ Power(b, r) = p[r]
  BY PowerIs
<1>2. PICK q \in [0 .. r + 1 -> Nat] :
         /\ q[0] = 1 /\ \A k \in 1 .. r + 1 : q[k] = b * q[k - 1]
         /\ Power(b, r + 1) = q[r + 1]
  <2> DEFINE N == r + 1
  <2>1. N \in Nat
    OBVIOUS
  <2> HIDE DEF N
  <2>2. \E q \in [0 .. N -> Nat] : /\ q[0] = 1 /\ \A k \in 1 .. N : q[k] = b * q[k - 1]
                                  /\ Power(b, N) = q[N]
    BY <2>1, PowerIs
  <2> QED
    BY <2>2 DEF N
<1>3. Power(b, 0) = 1
  <2>1. 0 \in Nat
    OBVIOUS
  <2>2. PICK q0 \in [0 .. 0 -> Nat] : q0[0] = 1 /\ Power(b, 0) = q0[0]
    BY <2>1, PowerIs
  <2> QED
    BY <2>2
<1> DEFINE G == {k \in 0 .. r : p[k] = q[k]}
<1>4. 0 \in G /\ \A k \in 1 .. r : k - 1 \in G => k \in G
  BY <1>1, <1>2
<1> HIDE DEF G
<1>5. \A k \in 0 .. r : k \in G
  BY <1>4, CountUp
<1>6. p[r] = q[r]
  BY <1>5 DEF G
<1>7. q[r + 1] = b * q[r]
  <2>1. r + 1 \in 1 .. r + 1 /\ (r + 1) - 1 = r
    OBVIOUS
  <2> QED
    BY <1>2, <2>1
<1> QED
  BY <1>1, <1>2, <1>3, <1>6, <1>7

LEMMA PowerSum ==
  ASSUME NEW b \in Nat, NEW m \in Nat, NEW r \in Nat
  PROVE  Power(b, m + r) = Power(b, m) * Power(b, r)
<1> DEFINE G == {k \in 0 .. r : Power(b, m + k) = Power(b, m) * Power(b, k)}
<1>1. 0 \in G
  <2>1. Power(b, m) * 1 = Power(b, m) /\ m + 0 = m
    BY PowerFacts
  <2> QED
    BY <2>1, PowerFacts
<1>2. ASSUME NEW k \in 1 .. r, k - 1 \in G PROVE k \in G
  <2>1. k - 1 \in Nat /\ m + (k - 1) \in Nat /\ (k - 1) + 1 = k /\ (m + (k - 1)) + 1 = m + k
    OBVIOUS
  <2>2. Power(b, k) = b * Power(b, k - 1) /\ Power(b, m + k) = b * Power(b, m + (k - 1))
    BY <2>1, PowerFacts
  <2>3. Power(b, m + (k - 1)) = Power(b, m) * Power(b, k - 1)
    BY <1>2
  <2>4. \A x, y \in Nat : b * (x * y) = x * (b * y)
    BY Z3
  <2>5. Power(b, m) \in Nat /\ Power(b, k - 1) \in Nat
    BY <2>1, PowerFacts
  <2> QED
    BY <2>2, <2>3, <2>4, <2>5
<1> HIDE DEF G
<1>3. r \in G
  BY <1>1, <1>2, CountUp
<1> QED
  BY <1>3 DEF G

LEMMA PowerGrows ==
  ASSUME NEW b \in Nat \ {0}, NEW r \in Nat
  PROVE  Power(b, r) >= 1 /\ \A k \in 0 .. r : Power(b, k) <= Power(b, r)
<1>1. \A x \in Nat \ {0} : b * x >= x /\ b * x \in Nat \ {0}
  BY Z3
<1> DEFINE G == {k \in 0 .. r : Power(b, k) \in Nat \ {0}}
<1>2. 0 \in G
  BY PowerFacts
<1>3. ASSUME NEW k \in 1 .. r, k - 1 \in G PROVE k \in G
  <2>1. k - 1 \in Nat /\ (k - 1) + 1 = k
    OBVIOUS
  <2>2. Power(b, k) = b * Power(b, k - 1)
    BY <2>1, PowerFacts
  <2> QED
    BY <1>1, <1>3, <2>2
<1> HIDE DEF G
<1>4. \A k \in 0 .. r : k \in G
  BY <1>2, <1>3, CountUp
<1>5. ASSUME NEW k \in 0 .. r PROVE Power(b, k) <= Power(b, r)
  <2> DEFINE H == {j \in 0 .. r : j >= k => Power(b, k) <= Power(b, j)}
  <2>1. 0 \in H
    BY <1>4 DEF G
  <2>2. ASSUME NEW j \in 1 .. r, j - 1 \in H PROVE j \in H
    <3>1. j - 1 \in Nat /\ (j - 1) + 1 = j /\ j - 1 \in 0 .. r
      OBVIOUS
    <3>2. Power(b, j) = b * Power(b, j - 1)
      BY <3>1, PowerFacts
    <3>3. Power(b, j - 1) \in Nat \ {0} /\ Power(b, j) \in Nat /\ Power(b, k) \in Nat
      <4>1. j \in Nat /\ k \in Nat
        OBVIOUS
      <4> QED
        BY <1>4, <3>1, <4>1, PowerFacts DEF G
    <3>4. Power(b, j) >= Power(b, j - 1)
      BY <1>1, <3>2, <3>3
    <3>5. CASE j = k
      BY <3>3, <3>5
    <3>6. CASE j # k
      BY <2>2, <3>3, <3>4, <3>6
    <3> QED
      BY <3>5, <3>6
  <2> HIDE DEF H
  <2>3. r \in H
    BY <2>1, <2>2, CountUp
  <2> QED
    BY <2>3 DEF H
<1> QED
  BY <1>4, <1>5 DEF G

-----------------------------------------------------------------------------
(* Digits *)

LEMMA Division ==
  ASSUME NEW a \in Nat, NEW b \in Nat \ {0}
  PROVE  /\ a \div b \in Nat /\ a % b \in 0 .. b - 1
         /\ (a \div b) * b + (a % b) = a
<1>1. a \div b \in Nat
  BY Z3
<1>2. a % b \in 0 .. b - 1
  BY SMT
<1>3. (a \div b) * b + (a % b) = a
  BY Z3
<1> QED
  BY <1>1, <1>2, <1>3

LEMMA QuotientBelow ==
  ASSUME NEW a \in Nat, NEW b \in Nat \ {0}, NEW q \in Nat
  PROVE  a \div b < q <=> a < b * q
  BY Z3

LEMMA QuotientTwice ==
  ASSUME NEW a \in Nat, NEW b \in Nat \ {0}, NEW p \in Nat \ {0}
  PROVE  (a \div b) \div p = a \div (b * p)
  BY Z3

LEMMA SmallerQuotient ==
  ASSUME NEW b \in Nat, b >= 2, NEW a \in Nat, a >= b
  PROVE  a \div b \in 1 .. a - 1
<1>1. /\ a \div b \in Nat /\ a % b \in 0 .. b - 1
      /\ (a \div b) * b + (a % b) = a
  <2>1. b \in Nat \ {0}
    OBVIOUS
  <2> QED
    BY <2>1, Division
<1>2. a \div b # 0
  <2>1. 0 * b = 0
    OBVIOUS
  <2> QED
    BY <1>1, <2>1
<1>3. \A q \in Nat \ {0} : q * b >= q + q
  BY Z3
<1> QED
  BY <1>1, <1>2, <1>3

IsAlphabet(alphabet, base, X) ==
  base \in Nat /\ base >= 2 /\ \A k \in 1 .. base : alphabet[k] \in X

\* One step of Digits, the digits of smaller numbers being in f.
DigitsStep(f, k, base, alphabet) ==
  IF k < base THEN << alphabet[k + 1] >>
  ELSE Append(f[k \div base], alphabet[(k % base) + 1])

\* f holds the digits of the numbers up to m.
DigitsTable(f, m, alphabet, base, X) ==
  /\ f \in [0 .. m -> Seq(X)]
  /\ \A k \in 0 .. m : f[k] = DigitsStep(f, k, base, alphabet)

LEMMA DigitsExist ==
  ASSUME NEW base, NEW X, NEW alphabet, IsAlphabet(alphabet, base, X), NEW m \in Nat
  PROVE  \E f : DigitsTable(f, m, alphabet, base, X)
<1>0. /\ base \in Nat /\ base >= 2 /\ base \in Nat \ {0}
      /\ \A k \in 1 .. base : alphabet[k] \in X
  BY DEF IsAlphabet
<1> USE <1>0
<1> DEFINE Upto(j, f) == \A k \in 0 .. j : f[k] = DigitsStep(f, k, base, alphabet)
           G == {j \in 0 .. m : \E f \in [0 .. j -> Seq(X)] : Upto(j, f)}
<1>1. 0 \in G
  <2> DEFINE f == [k \in 0 .. 0 |-> << alphabet[1] >>]
  <2>1. f \in [0 .. 0 -> Seq(X)] /\ f[0] = << alphabet[1] >>
    OBVIOUS
  <2> HIDE DEF f
  <2>2. Upto(0, f)
    <3>1. 0 < base /\ 0 + 1 = 1 /\ \A k \in 0 .. 0 : k = 0
      OBVIOUS
    <3> QED
      BY <2>1, <3>1 DEF DigitsStep
  <2> HIDE DEF Upto
  <2> QED
    BY <2>1, <2>2
<1>2. ASSUME NEW j \in 1 .. m, j - 1 \in G PROVE j \in G
  <2>1. PICK f \in [0 .. j - 1 -> Seq(X)] : Upto(j - 1, f)
    <3> HIDE DEF Upto
    <3> QED
      BY <1>2
  <2> DEFINE x == DigitsStep(f, j, base, alphabet)
             g == [k \in 0 .. j |-> IF k = j THEN x ELSE f[k]]
  <2>2. \A k \in 0 .. j : k >= base => k \div base \in 0 .. k - 1
    <3> SUFFICES ASSUME NEW k \in 0 .. j, k >= base PROVE k \div base \in 0 .. k - 1
      OBVIOUS
    <3>1. k \in Nat /\ k >= base
      OBVIOUS
    <3>2. k \div base \in 1 .. k - 1
      BY <3>1, SmallerQuotient DEF IsAlphabet
    <3> QED
      BY <3>2
  <2>3. x \in Seq(X)
    <3>1. CASE j < base
      <4>1. j + 1 \in 1 .. base
        BY <3>1
      <4> QED
        BY <3>1, <4>1 DEF DigitsStep
    <3>2. CASE ~(j < base)
      <4>1. j % base \in 0 .. base - 1
        <5>1. j \in Nat
          OBVIOUS
        <5> QED
          BY <5>1, Division
      <4>2. (j % base) + 1 \in 1 .. base
        BY <4>1
      <4>3. alphabet[(j % base) + 1] \in X
        BY <4>2
      <4>4. f[j \div base] \in Seq(X)
        <5>1. j \in 0 .. j /\ j >= base
          BY <3>2 DEF IsAlphabet
        <5>2. j \div base \in 0 .. j - 1
          BY <2>2, <5>1
        <5> QED
          BY <2>1, <5>2
      <4> QED
        BY <3>2, <4>3, <4>4 DEF DigitsStep
    <3> QED
      BY <3>1, <3>2
  <2> HIDE DEF x
  <2>4. g \in [0 .. j -> Seq(X)] /\ g[j] = x /\ \A k \in 0 .. j - 1 : g[k] = f[k]
    BY <2>1, <2>3
  <2> HIDE DEF g
  <2>5. ASSUME NEW k \in 0 .. j PROVE g[k] = DigitsStep(g, k, base, alphabet)
    <3>1. k >= base => g[k \div base] = f[k \div base]
      <4> SUFFICES ASSUME k >= base PROVE g[k \div base] = f[k \div base]
        OBVIOUS
      <4> DEFINE q == k \div base
      <4>1. q \in 0 .. k - 1
        BY <2>2
      <4> HIDE DEF q
      <4>2. q \in 0 .. j - 1
        BY <4>1
      <4>3. g[q] = f[q]
        BY <2>4, <4>2
      <4> QED
        BY <4>3 DEF q
    <3>2. DigitsStep(g, k, base, alphabet) = DigitsStep(f, k, base, alphabet)
      BY <3>1 DEF DigitsStep
    <3>3. CASE k = j
      BY <2>4, <3>2, <3>3 DEF x
    <3>4. CASE k # j
      <4>1. k \in 0 .. j - 1
        BY <3>4
      <4> QED
        BY <2>1, <2>4, <3>2, <4>1
    <3> QED
      BY <3>3, <3>4
  <2>6. Upto(j, g)
    BY <2>5
  <2> HIDE DEF Upto
  <2> QED
    BY <2>4, <2>6
<1> HIDE DEF G
<1>3. m \in G
  BY <1>1, <1>2, CountUp
<1> QED
  BY <1>3 DEF G, DigitsTable

LEMMA DigitsAre ==
  ASSUME NEW base, NEW X, NEW alphabet, IsAlphabet(alphabet, base, X), NEW m \in Nat
  PROVE  \E f : DigitsTable(f, m, alphabet, base, X) /\ Digits(m, base, alphabet) = f[m]
<1>0. /\ base \in Nat /\ base >= 2 /\ base \in Nat \ {0}
      /\ \A k \in 1 .. base : alphabet[k] \in X
  BY DEF IsAlphabet
<1> USE <1>0
<1> DEFINE Is(g) == g = [k \in 0 .. m |-> IF k < base THEN << alphabet[k + 1] >>
                                        ELSE Append(g[k \div base], alphabet[(k % base) + 1])]
           d == CHOOSE g : Is(g)
<1>1. Digits(m, base, alphabet) = d[m]
  BY DEF Digits
<1>10. PICK f : DigitsTable(f, m, alphabet, base, X)
  BY DigitsExist
<1>2. f \in [0 .. m -> Seq(X)] /\ \A k \in 0 .. m : f[k] = DigitsStep(f, k, base, alphabet)
  BY <1>10 DEF DigitsTable
<1>3. Is(f)
  <2>1. f = [k \in 0 .. m |-> f[k]]
    BY <1>2
  <2> QED
    BY <1>2, <2>1 DEF DigitsStep
<1>4. Is(d)
  <2> HIDE DEF Is
  <2> QED
    BY <1>3 DEF d
<1> HIDE DEF d
<1>5. d = [k \in 0 .. m |-> d[k]] /\ \A k \in 0 .. m : d[k] = DigitsStep(d, k, base, alphabet)
  BY <1>4 DEF DigitsStep
<1> DEFINE T == {k \in 0 .. m : d[k] # f[k]}
<1>6. T = {}
  <2> SUFFICES ASSUME T # {} PROVE FALSE
    OBVIOUS
  <2>1. PICK k \in T : \A j \in T : k <= j
    <3>1. T \subseteq Nat
      OBVIOUS
    <3> HIDE DEF T
    <3> QED
      BY <3>1, LeastNumber
  <2>2. k \in 0 .. m /\ k \in Nat
    BY <2>1
  <2>3. CASE k < base
    BY <1>2, <1>5, <2>1, <2>2, <2>3 DEF DigitsStep
  <2>4. CASE k >= base
    <3>1. k \div base \in 1 .. k - 1
      BY <2>2, <2>4, SmallerQuotient
    <3>2. k \div base \in 0 .. m /\ k \div base < k
      BY <2>2, <3>1
    <3>3. d[k \div base] = f[k \div base]
      BY <2>1, <2>2, <3>2
    <3> QED
      BY <1>2, <1>5, <2>1, <2>2, <2>4, <3>3 DEF DigitsStep
  <2> QED
    BY <2>2, <2>3, <2>4
<1>7. d = f
  BY <1>2, <1>5, <1>6
<1> QED
  BY <1>1, <1>10, <1>7

LEMMA DigitsFacts ==
  ASSUME NEW base, NEW X, NEW alphabet, IsAlphabet(alphabet, base, X), NEW v \in Nat
  PROVE  /\ Digits(v, base, alphabet) \in Seq(X)
         /\ v < base => Digits(v, base, alphabet) = << alphabet[v + 1] >>
         /\ v >= base => Digits(v, base, alphabet) =
              Append(Digits(v \div base, base, alphabet), alphabet[(v % base) + 1])
<1>0. /\ base \in Nat /\ base >= 2 /\ base \in Nat \ {0}
      /\ \A k \in 1 .. base : alphabet[k] \in X
  BY DEF IsAlphabet
<1> USE <1>0
<1>10. PICK f : DigitsTable(f, v, alphabet, base, X) /\ Digits(v, base, alphabet) = f[v]
  BY DigitsAre
<1>1. /\ f \in [0 .. v -> Seq(X)]
      /\ \A k \in 0 .. v : f[k] = DigitsStep(f, k, base, alphabet)
      /\ Digits(v, base, alphabet) = f[v]
  BY <1>10 DEF DigitsTable
<1>2. v \in 0 .. v
  OBVIOUS
<1>3. Digits(v, base, alphabet) \in Seq(X)
  BY <1>1, <1>2
<1>4. v < base => Digits(v, base, alphabet) = << alphabet[v + 1] >>
  BY <1>1, <1>2 DEF DigitsStep
<1>5. ASSUME v >= base
      PROVE  Digits(v, base, alphabet) =
               Append(Digits(v \div base, base, alphabet), alphabet[(v % base) + 1])
  <2> DEFINE u == v \div base
  <2>1. u \in Nat /\ u \in 0 .. v
    <3>1. u \in 1 .. v - 1
      BY <1>5, SmallerQuotient
    <3> QED
      BY <3>1
  <2> HIDE DEF u
  <2>10. PICK g : DigitsTable(g, u, alphabet, base, X) /\ Digits(u, base, alphabet) = g[u]
    BY <2>1, DigitsAre
  <2>2. /\ \A k \in 0 .. u : g[k] = DigitsStep(g, k, base, alphabet)
        /\ Digits(u, base, alphabet) = g[u]
    BY <2>10 DEF DigitsTable
  <2> DEFINE T == {k \in 0 .. u : g[k] # f[k]}
  <2>3. T = {}
    <3> SUFFICES ASSUME T # {} PROVE FALSE
      OBVIOUS
    <3>1. PICK k \in T : \A j \in T : k <= j
      <4>1. T \subseteq Nat
        BY <2>1
      <4> HIDE DEF T
      <4> QED
        BY <4>1, LeastNumber
    <3>2. k \in 0 .. u /\ k \in 0 .. v /\ k \in Nat
      BY <2>1, <3>1
    <3>3. CASE k < base
      BY <1>1, <2>2, <3>1, <3>2, <3>3 DEF DigitsStep
    <3>4. CASE k >= base
      <4>1. k \div base \in 1 .. k - 1
        BY <3>2, <3>4, SmallerQuotient
      <4>2. k \div base \in 0 .. u /\ k \div base < k
        BY <2>1, <3>2, <4>1
      <4>3. g[k \div base] = f[k \div base]
        BY <3>1, <3>2, <4>2
      <4> QED
        BY <1>1, <2>2, <3>1, <3>2, <3>4, <4>3 DEF DigitsStep
    <3> QED
      BY <3>2, <3>3, <3>4
  <2>4. g[u] = f[u]
    <3>1. u \in 0 .. u
      BY <2>1
    <3> QED
      BY <2>3, <3>1
  <2>5. f[v] = Append(f[v \div base], alphabet[(v % base) + 1])
    <3>1. ~(v < base)
      BY <1>5
    <3>2. f[v] = DigitsStep(f, v, base, alphabet)
      BY <1>1, <1>2
    <3> QED
      BY <3>1, <3>2 DEF DigitsStep
  <2> QED
    BY <1>1, <2>2, <2>4, <2>5 DEF u
<1> QED
  BY <1>3, <1>4, <1>5

\* v has m digits, zero none.
Places(v, base, m) ==
  m \in Nat /\ Power(base, m) > v /\ (m > 0 => Power(base, m - 1) <= v)

NumeralOf(v, base, m, alphabet) ==
  [ k \in 1 .. m |-> alphabet[((v \div Power(base, m - k)) % base) + 1] ]

LEMMA PlacesUnique ==
  ASSUME NEW base \in Nat \ {0}, NEW v \in Nat, NEW l, NEW m,
         Places(v, base, l), Places(v, base, m)
  PROVE  l = m
<1>1. ASSUME NEW j \in Nat, NEW k \in Nat, Places(v, base, j), Places(v, base, k), j < k
      PROVE  FALSE
  <2>1. k - 1 \in Nat /\ j \in 0 .. k - 1 /\ k > 0
    BY <1>1
  <2>2. Power(base, j) <= Power(base, k - 1)
    BY <2>1, PowerGrows
  <2>3. Power(base, j) \in Nat /\ Power(base, k - 1) \in Nat
    BY <2>1, PowerFacts
  <2> QED
    BY <1>1, <2>1, <2>2, <2>3 DEF Places
<1>2. l \in Nat /\ m \in Nat
  BY DEF Places
<1>3. ~(l < m) /\ ~(m < l)
  BY <1>1, <1>2
<1> QED
  BY <1>2, <1>3

\* A digit more.
LEMMA PlacesOfQuotient ==
  ASSUME NEW base \in Nat, base >= 2, NEW v \in Nat, v >= base, NEW m, Places(v, base, m)
  PROVE  m >= 2 /\ Places(v \div base, base, m - 1)
<1>1. base \in Nat \ {0} /\ m \in Nat
  BY DEF Places
<1>2. Power(base, 0) = 1 /\ Power(base, 1) = base
  <2>1. 0 \in Nat /\ 0 + 1 = 1 /\ base * 1 = base
    OBVIOUS
  <2>2. Power(base, 0) = 1 /\ Power(base, 0 + 1) = base * Power(base, 0)
    BY <2>1, PowerFacts
  <2> QED
    BY <2>1, <2>2
<1>3. m # 0 /\ m # 1
  BY <1>2 DEF Places
<1> DEFINE l == m - 1
           u == v \div base
           k == l - 1
<1>4. /\ m >= 2 /\ l \in Nat /\ k \in Nat /\ l + 1 = m /\ l > 0 /\ m > 0 /\ m - 1 = l
      /\ k + 1 = l
  BY <1>1, <1>3
<1>5. u \in Nat
  BY <1>1, Division
<1> HIDE DEF l, k
<1>6. Power(base, m) = base * Power(base, l) /\ Power(base, l) \in Nat
  BY <1>4, PowerFacts
<1>7. Power(base, l) = base * Power(base, k) /\ Power(base, k) \in Nat
  BY <1>4, PowerFacts
<1>8. u < Power(base, l)
  <2>1. v < base * Power(base, l)
    BY <1>6, <1>4 DEF Places
  <2> QED
    BY <1>1, <1>6, <2>1, QuotientBelow
<1>9. ~(u < Power(base, k))
  <2>1. ~(v < base * Power(base, k))
    <3>1. Power(base, l) <= v
      BY <1>4 DEF Places
    <3> QED
      BY <1>6, <1>7, <3>1
  <2> QED
    BY <1>1, <1>7, <2>1, QuotientBelow
<1> HIDE DEF u
<1>10. Power(base, k) <= u /\ l - 1 = k
  BY <1>4, <1>5, <1>7, <1>9
<1>11. Places(u, base, l)
  BY <1>4, <1>5, <1>6, <1>8, <1>10 DEF Places
<1> QED
  BY <1>4, <1>11 DEF u, l

\* Taking digits from the end gives the digits by their weights.
LEMMA DigitsAreNumeral ==
  ASSUME NEW base, NEW X, NEW alphabet, IsAlphabet(alphabet, base, X),
         NEW v \in Nat \ {0}, NEW m, Places(v, base, m)
  PROVE  Digits(v, base, alphabet) = NumeralOf(v, base, m, alphabet)
<1>0. /\ base \in Nat /\ base >= 2 /\ base \in Nat \ {0}
      /\ \A k \in 1 .. base : alphabet[k] \in X
  BY DEF IsAlphabet
<1> DEFINE Wrong(w) == \E l : Places(w, base, l)
                             /\ Digits(w, base, alphabet) # NumeralOf(w, base, l, alphabet)
           T == {w \in Nat \ {0} : Wrong(w)}
<1>1. SUFFICES T = {}
  <2>1. ~Wrong(v)
    <3> HIDE DEF Wrong
    <3> QED
      BY <1>1
  <2> QED
    BY <2>1
<1>2. SUFFICES ASSUME T # {} PROVE FALSE
  OBVIOUS
<1>3. PICK w \in T : \A j \in T : w <= j
  <2>1. T \subseteq Nat
    OBVIOUS
  <2> HIDE DEF T
  <2> QED
    BY <1>2, <2>1, LeastNumber
<1>4. w \in Nat \ {0} /\ Wrong(w)
  <2> HIDE DEF Wrong
  <2> QED
    BY <1>3
<1>5. PICK l : Places(w, base, l) /\ Digits(w, base, alphabet) # NumeralOf(w, base, l, alphabet)
  BY <1>4
<1>6. l \in Nat
  BY <1>5 DEF Places
<1>7. Power(base, 0) = 1 /\ Power(base, 1) = base
  <2>1. 0 \in Nat /\ 0 + 1 = 1 /\ base * 1 = base
    BY <1>0
  <2>2. Power(base, 0) = 1 /\ Power(base, 0 + 1) = base * Power(base, 0)
    BY <1>0, <2>1, PowerFacts
  <2> QED
    BY <2>1, <2>2
<1>8. CASE w < base
  <2>1. Places(w, base, 1)
    BY <1>0, <1>4, <1>7, <1>8 DEF Places
  <2>2. l = 1
    BY <1>0, <1>4, <1>5, <2>1, PlacesUnique
  <2>3. w \div 1 = w /\ w % base = w /\ 1 - 1 = 0
    BY <1>0, <1>4, <1>8
  <2>4. NumeralOf(w, base, 1, alphabet) = << alphabet[w + 1] >>
    BY <1>7, <2>3 DEF NumeralOf
  <2>5. Digits(w, base, alphabet) = << alphabet[w + 1] >>
    BY <1>4, <1>8, DigitsFacts
  <2> QED
    BY <1>5, <2>2, <2>4, <2>5
<1>9. CASE w >= base
  <2> DEFINE u == w \div base
             k == l - 1
  <2>1. u \in Nat \ {0} /\ u < w
    <3>1. w \in Nat
      BY <1>4
    <3>2. u \in 1 .. w - 1
      BY <1>0, <1>9, <3>1, SmallerQuotient
    <3> QED
      BY <3>1, <3>2
  <2>2. l >= 2 /\ Places(u, base, k)
    BY <1>0, <1>4, <1>5, <1>9, PlacesOfQuotient
  <2>3. k \in Nat /\ l = k + 1
    BY <1>6, <2>2
  <2> HIDE DEF u, k
  <2>4. Digits(u, base, alphabet) = NumeralOf(u, base, k, alphabet)
    <3>1. u \notin T
      <4> HIDE DEF T
      <4>1. T \subseteq Nat
        BY DEF T
      <4> QED
        BY <1>3, <2>1, <4>1
    <3>2. ~Wrong(u)
      <4> HIDE DEF Wrong
      <4> QED
        BY <2>1, <3>1
    <3> QED
      BY <2>2, <3>2
  <2>5. Digits(w, base, alphabet) = Append(Digits(u, base, alphabet), alphabet[(w % base) + 1])
    BY <1>4, <1>9, DigitsFacts DEF u
  <2>6. ASSUME NEW j \in 1 .. k
        PROVE  (u \div Power(base, k - j)) = (w \div Power(base, l - j))
    <3> DEFINE e == k - j
    <3>1. e \in Nat /\ l - j = e + 1
      BY <2>3
    <3> HIDE DEF e
    <3>2. Power(base, e + 1) = base * Power(base, e) /\ Power(base, e) \in Nat \ {0}
      <4>1. Power(base, e) \in Nat /\ Power(base, e) >= 1
        BY <1>0, <3>1, PowerFacts, PowerGrows
      <4> QED
        BY <1>0, <3>1, <4>1, PowerFacts
    <3>3. (w \div base) \div Power(base, e) = w \div (base * Power(base, e))
      BY <1>0, <1>4, <3>2, QuotientTwice
    <3> QED
      BY <3>1, <3>2, <3>3 DEF u, e
  <2>7. w \div Power(base, l - l) = w
    <3>1. l - l = 0 /\ w \div 1 = w
      BY <1>4, <1>6
    <3> QED
      BY <1>7, <3>1
  <2>8. NumeralOf(w, base, l, alphabet)
          = Append(NumeralOf(u, base, k, alphabet), alphabet[(w % base) + 1])
    <3> DEFINE d(j) == alphabet[((w \div Power(base, l - j)) % base) + 1]
               b(j) == alphabet[((u \div Power(base, k - j)) % base) + 1]
               z == alphabet[(w % base) + 1]
    <3>1. \A j \in 1 .. k : d(j) = b(j)
      BY <2>6
    <3>2. d(l) = z
      BY <2>7
    <3>3. NumeralOf(w, base, l, alphabet) = [ j \in 1 .. l |-> d(j) ]
      BY DEF NumeralOf
    <3>4. NumeralOf(u, base, k, alphabet) = [ j \in 1 .. k |-> b(j) ]
      BY DEF NumeralOf
    <3> HIDE DEF d, b, z
    <3>5. Append([ j \in 1 .. k |-> b(j) ], z) = [ j \in 1 .. k + 1 |-> IF j = k + 1 THEN z ELSE b(j) ]
      <4> DEFINE Y == {b(j) : j \in 1 .. k} \cup {z}
                 s == [ j \in 1 .. k |-> b(j) ]
      <4>1. s \in Seq(Y) /\ Len(s) = k /\ \A j \in 1 .. k : s[j] = b(j)
        BY <2>3
      <4> HIDE DEF s
      <4>2. Append(s, z) = [ j \in 1 .. k + 1 |-> IF j = k + 1 THEN z ELSE s[j] ]
        <5> DEFINE t == Append(s, z)
        <5>1. z \in Y
          OBVIOUS
        <5>2. t \in Seq(Y) /\ Len(t) = k + 1 /\ t[k + 1] = z /\ \A j \in 1 .. k : t[j] = s[j]
          BY <2>3, <4>1, <5>1
        <5> HIDE DEF t
        <5>3. t = [ j \in 1 .. k + 1 |-> t[j] ]
          BY <5>2
        <5>4. \A j \in 1 .. k + 1 : t[j] = IF j = k + 1 THEN z ELSE s[j]
          <6>1. \A j \in 1 .. k + 1 : j # k + 1 => j \in 1 .. k
            BY <2>3
          <6> QED
            BY <5>2, <6>1
        <5> QED
          BY <5>3, <5>4 DEF t
      <4>3. \A j \in 1 .. k + 1 : j # k + 1 => j \in 1 .. k
        BY <2>3
      <4> QED
        BY <4>1, <4>2, <4>3 DEF s
    <3>6. \A j \in 1 .. l : d(j) = IF j = k + 1 THEN z ELSE b(j)
      <4>1. \A j \in 1 .. l : j # k + 1 => j \in 1 .. k
        BY <2>3
      <4> QED
        BY <2>3, <3>1, <3>2, <4>1
    <3> QED
      BY <2>3, <3>3, <3>4, <3>5, <3>6 DEF z
  <2> QED
    BY <1>5, <2>4, <2>5, <2>8
<1> QED
  BY <1>0, <1>4, <1>8, <1>9

-----------------------------------------------------------------------------
(* Characters and words *)

LEMMA Joined ==
  ASSUME NEW X, NEW s \in Seq(X), NEW t \in Seq(X)
  PROVE  /\ s \o t \in Seq(X) /\ Len(s \o t) = Len(s) + Len(t)
         /\ \A k \in 1 .. Len(s) : (s \o t)[k] = s[k]
         /\ \A k \in 1 .. Len(t) : (s \o t)[Len(s) + k] = t[k]
<1>1. s \o t \in Seq(X) /\ Len(s \o t) = Len(s) + Len(t)
  OBVIOUS
<1>2. ASSUME NEW k \in 1 .. Len(s) PROVE (s \o t)[k] = s[k]
  OBVIOUS
<1>3. ASSUME NEW k \in 1 .. Len(t) PROVE (s \o t)[Len(s) + k] = t[k]
  OBVIOUS
<1> QED
  BY <1>1, <1>2, <1>3

LEMMA BitFacts ==
  /\ CharBits \in Nat \ {0} /\ ShortBits \in Nat \ {0} /\ IntBits \in Nat \ {0}
  /\ LongBits \in Nat \ {0} /\ IntBits <= LongBits
  /\ \A type \in { "char", "short", "int", "long" } :
       BitsOf(type) \in Nat \ {0} /\ BitsOf(type) <= LongBits
<1>1. /\ CharBits \in Nat \ {0} /\ ShortBits \in Nat \ {0} /\ IntBits \in Nat \ {0}
      /\ LongBits \in Nat \ {0} /\ IntBits <= LongBits /\ CharBits <= LongBits
      /\ ShortBits <= LongBits
  BY WidthAssumption
<1>2. ASSUME NEW type \in { "char", "short", "int", "long" }
      PROVE  BitsOf(type) \in { CharBits, ShortBits, IntBits, LongBits }
  BY DEF BitsOf
<1> QED
  BY <1>1, <1>2

Hexadecimal ==
  { "0", "1", "2", "3", "4", "5", "6", "7", "8", "9",
    "a", "b", "c", "d", "e", "f", "A", "B", "C", "D", "E", "F" }

LEMMA LowerFacts ==
  /\ Lower[1] = "0" /\ Lower[2] = "1" /\ Lower[3] = "2" /\ Lower[4] = "3" /\ Lower[5] = "4"
  /\ Lower[6] = "5" /\ Lower[7] = "6" /\ Lower[8] = "7" /\ Lower[9] = "8" /\ Lower[10] = "9"
  /\ Lower[11] = "a" /\ Lower[12] = "b" /\ Lower[13] = "c" /\ Lower[14] = "d"
  /\ Lower[15] = "e" /\ Lower[16] = "f"
  BY DEF Lower

LEMMA UpperFacts ==
  /\ Upper[1] = "0" /\ Upper[2] = "1" /\ Upper[3] = "2" /\ Upper[4] = "3" /\ Upper[5] = "4"
  /\ Upper[6] = "5" /\ Upper[7] = "6" /\ Upper[8] = "7" /\ Upper[9] = "8" /\ Upper[10] = "9"
  /\ Upper[11] = "A" /\ Upper[12] = "B" /\ Upper[13] = "C" /\ Upper[14] = "D"
  /\ Upper[15] = "E" /\ Upper[16] = "F"
  BY DEF Upper

OneToSixteen == { 1, 2, 3, 4, 5, 6, 7, 8, 9, 10, 11, 12, 13, 14, 15, 16 }

LEMMA Sixteen == 1 .. 16 = OneToSixteen
  BY DEF OneToSixteen

LEMMA CharacterFacts ==
  /\ Hexadecimal \cup FlagChars \cup Conversions
       \cup { "*", ".", "h", "l", "j", "z", "t" } \subseteq Characters
  /\ "NUL" \notin Characters
  /\ \A word \in DOMAIN Strings : Strings[word] \in Seq(Characters)
<1>1. \A x \in Hexadecimal :
        (\E k \in OneToSixteen : x = Lower[k]) \/ (\E k \in OneToSixteen : x = Upper[k])
  BY LowerFacts, UpperFacts DEF Hexadecimal, OneToSixteen
<1>2. /\ { Lower[k] : k \in 1 .. 16 } \subseteq Characters
      /\ { Upper[k] : k \in 1 .. 16 } \subseteq Characters
  BY CharacterAssumption
<1>3. Hexadecimal \subseteq Characters
  BY <1>1, <1>2, Sixteen
<1> QED
  BY <1>3, CharacterAssumption

Bases == { 8, 10, 16 }
Cases == { Lower, Upper }

LEMMA Alphabets ==
  ASSUME NEW base \in Bases, NEW alphabet \in Cases
  PROVE  /\ IsAlphabet(alphabet, base, Characters)
         /\ alphabet[1] = "0" /\ \A k \in 2 .. base : alphabet[k] # "0"
<1>1. \A k \in OneToSixteen : alphabet[k] \in Hexadecimal
  BY LowerFacts, UpperFacts DEF Hexadecimal, OneToSixteen, Cases
<1>2. alphabet[1] = "0" /\ \A k \in OneToSixteen : k # 1 => alphabet[k] # "0"
  BY LowerFacts, UpperFacts DEF OneToSixteen, Cases
<1>3. base \in Nat /\ base >= 2 /\ 1 .. base \subseteq 1 .. 16 /\ 2 .. base \subseteq (1 .. 16) \ { 1 }
  BY DEF Bases
<1>4. Hexadecimal \subseteq Characters
  BY CharacterFacts
<1> QED
  BY <1>1, <1>2, <1>3, <1>4, Sixteen DEF IsAlphabet

LEMMA DecimalDigits ==
  ASSUME NEW k \in 0 .. 9
  PROVE  /\ Lower[k + 1] \in DigitChars /\ DigitValue(Lower[k + 1]) = k
         /\ k # 0 => Lower[k + 1] \notin FlagChars
<1>1. /\ Lower[1] = "0" /\ Lower[2] = "1" /\ Lower[3] = "2" /\ Lower[4] = "3" /\ Lower[5] = "4"
      /\ Lower[6] = "5" /\ Lower[7] = "6" /\ Lower[8] = "7" /\ Lower[9] = "8" /\ Lower[10] = "9"
  BY DEF Lower
<1>2. \A x, y \in 1 .. 10 : Lower[x] = Lower[y] => x = y
  BY <1>1
<1>3. k + 1 \in 1 .. 10
  OBVIOUS
<1>4. (CHOOSE x \in 1 .. 10 : Lower[x] = Lower[k + 1]) = k + 1
  BY <1>2, <1>3
<1>5. DigitValue(Lower[k + 1]) = k
  <2>1. DigitValue(Lower[k + 1]) = (k + 1) - 1
    BY <1>4 DEF DigitValue
  <2> QED
    BY <2>1
<1>6. Lower[k + 1] \in DigitChars
  BY <1>1, <1>3 DEF DigitChars
<1>7. k # 0 => Lower[k + 1] \notin FlagChars
  <2>1. k # 0 => Lower[k + 1] \in { "1", "2", "3", "4", "5", "6", "7", "8", "9" }
    <3>1. k # 0 => k \in { 1, 2, 3, 4, 5, 6, 7, 8, 9 }
      OBVIOUS
    <3> QED
      BY <1>1, <3>1
  <2>2. \A x \in { "1", "2", "3", "4", "5", "6", "7", "8", "9" } : x \notin FlagChars
    BY DEF FlagChars
  <2> QED
    BY <2>1, <2>2
<1> QED
  BY <1>5, <1>6, <1>7

-----------------------------------------------------------------------------
(* Sequences *)

LEMMA SameSequence ==
  ASSUME NEW X, NEW s \in Seq(X), NEW t \in Seq(X), Len(s) = Len(t),
         \A k \in 1 .. Len(s) : s[k] = t[k]
  PROVE  s = t
<1>1. DOMAIN s = 1 .. Len(s) /\ DOMAIN t = 1 .. Len(s)
  OBVIOUS
<1>2. s = [k \in 1 .. Len(s) |-> s[k]] /\ t = [k \in 1 .. Len(s) |-> t[k]]
  BY <1>1
<1> QED
  BY <1>2

LEMMA RepeatFacts ==
  ASSUME NEW X, NEW x \in X, NEW k \in Int
  PROVE  /\ Repeat(x, k) \in Seq(X)
         /\ Len(Repeat(x, k)) = IF k > 0 THEN k ELSE 0
         /\ \A j \in 1 .. Len(Repeat(x, k)) : Repeat(x, k)[j] = x
         /\ k <= 0 => Repeat(x, k) = << >>
<1> DEFINE m == IF k > 0 THEN k ELSE 0
<1>1. m \in { 0, k } /\ \A j \in { 0, k } : m >= j
  OBVIOUS
<1>2. \A j \in { 0, k } : (\A l \in { 0, k } : j >= l) => j = m
  OBVIOUS
<1>3. Max({ 0, k }) = m
  <2> DEFINE S == { 0, k }
  <2> HIDE DEF m
  <2> SUFFICES (CHOOSE j \in S : \A l \in S : j >= l) = m
    BY DEF Max
  <2> QED
    BY <1>1, <1>2
<1>4. m \in Nat
  OBVIOUS
<1>5. Repeat(x, k) = [ j \in 1 .. m |-> x ]
  BY <1>3 DEF Repeat
<1> HIDE DEF m
<1>6. /\ [ j \in 1 .. m |-> x ] \in Seq(X) /\ Len([ j \in 1 .. m |-> x ]) = m
  BY <1>4
<1>7. k <= 0 => [ j \in 1 .. m |-> x ] = << >>
  BY DEF m
<1> QED
  BY <1>5, <1>6, <1>7 DEF m

\* Zeros in front of a digit zero.
LEMMA RepeatMore ==
  ASSUME NEW X, NEW x \in X, NEW k \in Nat \ {0}
  PROVE  Repeat(x, k - 1) \o << x >> = Repeat(x, k)
<1> DEFINE l == k - 1
           s == Repeat(x, l)
           t == << x >>
           u == s \o t
           w == Repeat(x, k)
<1>0. l \in Nat /\ l + 1 = k /\ k > 0 /\ (l > 0 \/ l = 0)
  OBVIOUS
<1>1. s \in Seq(X) /\ Len(s) = l /\ \A j \in 1 .. Len(s) : s[j] = x
  <2> HIDE DEF l
  <2> QED
    BY <1>0, RepeatFacts
<1>2. t \in Seq(X) /\ Len(t) = 1 /\ t[1] = x
  OBVIOUS
<1>3. w \in Seq(X) /\ Len(w) = k /\ \A j \in 1 .. Len(w) : w[j] = x
  BY RepeatFacts
<1> HIDE DEF s, t, w, l
<1>4. /\ u \in Seq(X) /\ Len(u) = k /\ \A j \in 1 .. l : u[j] = x
      /\ u[l + 1] = x
  <2>1. /\ u \in Seq(X) /\ Len(u) = Len(s) + Len(t)
        /\ \A j \in 1 .. Len(s) : u[j] = s[j]
        /\ \A j \in 1 .. Len(t) : u[Len(s) + j] = t[j]
    BY SMTT(30), <1>1, <1>2, Joined
  <2> HIDE DEF u
  <2>2. 1 \in 1 .. Len(t)
    BY <1>2
  <2> QED
    BY <1>0, <1>1, <1>2, <2>1, <2>2
<1> HIDE DEF u
<1>5. \A j \in 1 .. k : j \in 1 .. l \/ j = l + 1
  BY <1>0
<1>6. \A j \in 1 .. Len(u) : u[j] = w[j]
  BY <1>0, <1>3, <1>4, <1>5
<1>7. u = w
  BY <1>3, <1>4, <1>6, SameSequence
<1> QED
  BY <1>7 DEF u, s, t, w, l

-----------------------------------------------------------------------------
(* Numerals *)

LEMMA BigEnough ==
  ASSUME NEW base \in Nat, base >= 8, NEW v \in Nat, v < Power(2, LongBits)
  PROVE  \E k \in 0 .. (LongBits \div 3) + 1 : Power(base, k) > v
<1> DEFINE M == (LongBits \div 3) + 1
           G == {k \in 0 .. M : Power(base, k) >= Power(2, 3 * k)}
<1>1. M \in Nat /\ 3 * M >= LongBits
  BY BitFacts
<1> HIDE DEF M
<1>2. 0 \in G
  <2>1. 3 * 0 = 0 /\ 0 \in 0 .. M
    BY <1>1
  <2>2. Power(base, 0) = 1 /\ Power(2, 0) = 1
    BY PowerFacts
  <2> QED
    BY <2>1, <2>2
<1>3. ASSUME NEW k \in 1 .. M, k - 1 \in G PROVE k \in G
  <2> DEFINE l == k - 1
             t == 3 * l
             a == t + 1
             b == t + 2
  <2>1. /\ l \in Nat /\ t \in Nat /\ a \in Nat /\ b \in Nat
        /\ l + 1 = k /\ a = t + 1 /\ b = a + 1 /\ 3 * k = b + 1
    BY <1>1
  <2>2. Power(base, l) >= Power(2, t)
    BY <1>3
  <2> HIDE DEF l, t, a, b
  <2>3. Power(base, k) = base * Power(base, l) /\ Power(base, l) \in Nat
    BY <2>1, PowerFacts
  <2>4. /\ Power(2, a) = 2 * Power(2, t) /\ Power(2, b) = 2 * Power(2, a)
        /\ Power(2, b + 1) = 2 * Power(2, b) /\ Power(2, t) \in Nat
        /\ Power(2, a) \in Nat /\ Power(2, b) \in Nat
    BY <2>1, PowerFacts
  <2>5. Power(2, 3 * k) = 8 * Power(2, t)
    BY <2>1, <2>4
  <2>6. \A x, y \in Nat : x >= y => base * x >= 8 * y
    BY Z3
  <2> QED
    BY <2>2, <2>3, <2>4, <2>5, <2>6
<1> HIDE DEF G
<1>4. M \in G
  BY <1>1, <1>2, <1>3, CountUp
<1> DEFINE T == 3 * M
<1>5. Power(base, M) >= Power(2, T)
  BY <1>4 DEF G
<1>6. T \in Nat /\ LongBits \in 0 .. T
  BY <1>1, BitFacts
<1> HIDE DEF T
<1>7. Power(2, LongBits) <= Power(2, T)
  <2>1. 2 \in Nat \ {0}
    OBVIOUS
  <2> QED
    BY <1>6, <2>1, PowerGrows
<1>8. /\ Power(2, LongBits) \in Nat /\ Power(2, T) \in Nat /\ Power(base, M) \in Nat
  BY <1>1, <1>6, BitFacts, PowerFacts
<1>9. Power(base, M) > v
  BY <1>5, <1>7, <1>8
<1>10. M \in 0 .. M
  BY <1>1
<1> QED
  BY <1>9, <1>10 DEF M

\* With zeros in front if there are less than "least" digits.
Longer(v, base, m, least, alphabet) == Repeat("0", least - m) \o NumeralOf(v, base, m, alphabet)

LEMMA NumeralIs ==
  ASSUME NEW base \in Nat, base >= 8, NEW v \in Nat, v < Power(2, LongBits),
         NEW least \in Nat, NEW alphabet
  PROVE  \E m : /\ Places(v, base, m)
                /\ Numeral(v, base, least, alphabet) = Longer(v, base, m, least, alphabet)
<1> DEFINE S == { k \in 0 .. (LongBits \div 3) + 1 : Power(base, k) > v }
           m == Min(S)
<1>0. S \subseteq Nat /\ S # {}
  BY BigEnough
<1>1. m \in S /\ \A k \in S : m <= k
  <2> HIDE DEF S
  <2>1. \E x \in S : \A y \in S : x <= y
    BY <1>0, LeastNumber
  <2> QED
    BY <2>1 DEF Min
<1>2. m \in Nat /\ Power(base, m) > v /\ m <= (LongBits \div 3) + 1
  BY <1>1
<1>3. m > 0 => Power(base, m - 1) <= v
  <2> SUFFICES ASSUME m > 0 PROVE Power(base, m - 1) <= v
    OBVIOUS
  <2> DEFINE k == m - 1
  <2>1. k \in Nat /\ k \in 0 .. (LongBits \div 3) + 1 /\ ~(m <= k)
    <3> HIDE DEF m, S
    <3> QED
      BY <1>2, BitFacts
  <2>2. k \notin S
    <3> HIDE DEF k, m, S
    <3> QED
      BY <1>1, <2>1
  <2>3. ~(Power(base, k) > v)
    BY <2>1, <2>2
  <2> HIDE DEF k, m, S
  <2>4. Power(base, k) \in Nat
    BY <2>1, PowerFacts
  <2>5. Power(base, k) <= v
    BY <2>3, <2>4
  <2> QED
    BY <2>5 DEF k
<1>4. Places(v, base, m)
  BY <1>2, <1>3 DEF Places
<1>5. Numeral(v, base, least, alphabet) = Longer(v, base, m, least, alphabet)
  BY DEF Numeral, NumeralOf, Longer
<1> QED
  BY <1>4, <1>5

HasPlaces(s, v, base, m, alphabet) ==
  /\ s \in Seq(Characters) /\ Len(s) = m
  /\ \A k \in 1 .. m : s[k] = alphabet[((v \div Power(base, m - k)) % base) + 1]

LEMMA NumeralElements ==
  ASSUME NEW base \in Bases, NEW alphabet \in Cases, NEW v \in Nat,
         NEW m \in Nat
  PROVE  HasPlaces(NumeralOf(v, base, m, alphabet), v, base, m, alphabet)
<1>1. base \in Nat \ {0} /\ base \in Nat /\ \A k \in 1 .. base : alphabet[k] \in Characters
  BY Alphabets DEF IsAlphabet
<1> DEFINE d(k) == alphabet[((v \div Power(base, m - k)) % base) + 1]
           s == [ k \in 1 .. m |-> d(k) ]
<1>2. ASSUME NEW k \in 1 .. m PROVE d(k) \in Characters
  <2> DEFINE e == m - k
             p == Power(base, e)
             q == v \div p
  <2>1. e \in Nat
    OBVIOUS
  <2> HIDE DEF e
  <2>2. p \in Nat \ {0}
    <3>1. p \in Nat /\ p >= 1
      BY <1>1, <2>1, PowerFacts, PowerGrows
    <3> QED
      BY <3>1
  <2> HIDE DEF p
  <2>3. q \in Nat
    BY <2>2, Division
  <2> HIDE DEF q
  <2>4. q % base \in 0 .. base - 1
    BY <1>1, <2>3, Division
  <2>5. (q % base) + 1 \in 1 .. base
    BY <1>1, <2>4
  <2>6. alphabet[(q % base) + 1] \in Characters
    BY <1>1, <2>5
  <2> QED
    BY <2>6 DEF q, p, e
<1>3. NumeralOf(v, base, m, alphabet) = s
  BY DEF NumeralOf
<1> HIDE DEF d
<1>4. s \in Seq(Characters) /\ Len(s) = m /\ \A k \in 1 .. m : s[k] = d(k)
  BY <1>2
<1> QED
  BY <1>3, <1>4 DEF d, HasPlaces

LEMMA NoQuotient ==
  ASSUME NEW a \in Nat, NEW b \in Nat \ {0}, a < b
  PROVE  a \div b = 0
  OBVIOUS

IsNumeral(d, v, least, numeral) ==
  /\ d \in Seq(Characters) /\ Len(d) >= 1
  /\ v # 0 => d[1] # "0"
  /\ v = 0 => d = << "0" >>
  /\ v # 0 \/ least # 0 => numeral = Repeat("0", least - Len(d)) \o d
  /\ v = 0 /\ least = 0 => numeral = << >>

\* The number nanoprintf writes, with the zeros of a precision, is C's numeral.
LEMMA DigitsAsISO ==
  ASSUME NEW base \in Bases, NEW alphabet \in Cases, NEW v \in Nat,
         v < Power(2, LongBits), NEW least \in Nat
  PROVE  IsNumeral(Digits(v, base, alphabet), v, least, Numeral(v, base, least, alphabet))
<1> DEFINE d == Digits(v, base, alphabet)
           numeral == Numeral(v, base, least, alphabet)
<1>0. /\ base \in Nat /\ base \in Nat \ {0} /\ base >= 2 /\ base >= 8
      /\ IsAlphabet(alphabet, base, Characters)
      /\ alphabet[1] = "0" /\ \A k \in 2 .. base : alphabet[k] # "0"
  <2>1. base \in Nat /\ base \in Nat \ {0} /\ base >= 2 /\ base >= 8
    BY DEF Bases
  <2> QED
    BY <2>1, Alphabets
<1>1. PICK m : Places(v, base, m) /\ numeral = Longer(v, base, m, least, alphabet)
  <2>1. base \in Nat /\ base >= 8
    BY <1>0
  <2> QED
    BY <2>1, NumeralIs
<1> HIDE DEF numeral
<1>2. m \in Nat
  BY <1>1 DEF Places
<1>3. "0" \in Characters
  BY CharacterFacts DEF FlagChars
<1>4. CASE v = 0
  <2>1. m = 0
    <3> SUFFICES ASSUME m # 0 PROVE FALSE
      OBVIOUS
    <3> DEFINE k == m - 1
    <3>1. k \in Nat /\ m > 0
      BY <1>2
    <3>2. Power(base, k) <= v
      BY <1>1, <3>1 DEF Places
    <3> HIDE DEF k
    <3>3. Power(base, k) >= 1 /\ Power(base, k) \in Nat
      BY <1>0, <3>1, PowerGrows, PowerFacts
    <3> QED
      BY <1>4, <3>2, <3>3
  <2>2. d = << "0" >>
    <3>1. 0 < base /\ 0 + 1 = 1
      BY <1>0
    <3> QED
      BY <1>0, <1>4, <3>1, DigitsFacts
  <2> HIDE DEF d
  <2>3. d \in Seq(Characters) /\ Len(d) = 1
    BY <1>3, <2>2
  <2>4. numeral = Repeat("0", least) \o NumeralOf(v, base, 0, alphabet)
    <3>1. least - m = least
      BY <2>1
    <3> QED
      BY <1>1, <2>1, <3>1 DEF Longer
  <2>5. NumeralOf(v, base, 0, alphabet) = << >>
    BY DEF NumeralOf
  <2>6. numeral = Repeat("0", least)
    <3>1. Repeat("0", least) \in Seq(Characters)
      BY <1>3, RepeatFacts
    <3> DEFINE s == Repeat("0", least)
    <3> HIDE DEF s
    <3>2. s \in Seq(Characters) => s \o << >> = s
      OBVIOUS
    <3> QED
      BY <2>4, <2>5, <3>1, <3>2 DEF s
  <2>7. least = 0 => numeral = << >>
    BY <1>3, <2>6, RepeatFacts
  <2>8. ASSUME least # 0 PROVE numeral = Repeat("0", least - Len(d)) \o d
    <3>1. least \in Nat \ {0} /\ least - Len(d) = least - 1
      BY <2>3, <2>8
    <3>2. Repeat("0", least - 1) \o << "0" >> = Repeat("0", least)
      BY <1>3, <3>1, RepeatMore
    <3> QED
      BY <2>2, <2>6, <3>1, <3>2
  <2>9. IsNumeral(d, v, least, numeral)
    <3>1. Len(d) >= 1 /\ (v # 0 \/ least # 0 => least # 0)
      BY <1>4, <2>3
    <3> QED
      BY <1>4, <2>2, <2>3, <2>7, <2>8, <3>1 DEF IsNumeral
  <2> QED
    BY <2>9 DEF d, numeral
<1>5. CASE v # 0
  <2>1. d = NumeralOf(v, base, m, alphabet)
    <3>1. v \in Nat \ {0}
      BY <1>5
    <3> QED
      BY <1>0, <1>1, <3>1, DigitsAreNumeral
  <2> HIDE DEF d
  <2>2. /\ d \in Seq(Characters) /\ Len(d) = m
        /\ \A k \in 1 .. m : d[k] = alphabet[((v \div Power(base, m - k)) % base) + 1]
    BY <1>2, <2>1, NumeralElements DEF HasPlaces
  <2>3. m > 0
    <3> SUFFICES ASSUME m = 0 PROVE FALSE
      BY <1>2
    <3>1. Power(base, 0) > v /\ Power(base, 0) = 1
      BY <1>0, <1>1, PowerFacts DEF Places
    <3> QED
      BY <1>5, <3>1
  <2>4. d[1] # "0"
    <3> DEFINE k == m - 1
               p == Power(base, k)
               q == v \div p
    <3>1. k \in Nat /\ m = k + 1 /\ 1 \in 1 .. m
      BY <1>2, <2>3
    <3>2. p <= v
      BY <1>1, <2>3 DEF Places
    <3>3. v < Power(base, m)
      BY <1>0, <1>1, <1>2, PowerFacts DEF Places
    <3> HIDE DEF k
    <3>4. p \in Nat \ {0} /\ Power(base, m) = base * p
      <4>1. p \in Nat /\ p >= 1
        BY <1>0, <3>1, PowerFacts, PowerGrows
      <4> QED
        BY <1>0, <3>1, <4>1, PowerFacts
    <3> HIDE DEF p
    <3>5. q \in Nat /\ q < base
      <4>1. v < p * base
        BY <1>0, <3>3, <3>4
      <4> QED
        BY <1>0, <3>4, <4>1, QuotientBelow, Division
    <3>6. ~(q < 1)
      <4>1. ~(v < p * 1)
        BY <3>2, <3>4
      <4>2. 1 \in Nat
        OBVIOUS
      <4> QED
        BY <3>4, <4>1, <4>2, QuotientBelow
    <3> HIDE DEF q
    <3>7. q % base = q /\ q + 1 \in 2 .. base
      BY <1>0, <3>5, <3>6
    <3>8. d[1] = alphabet[q + 1]
      BY <2>2, <3>1, <3>7 DEF q, p, k
    <3> QED
      BY <1>0, <3>7, <3>8
  <2>5. numeral = Repeat("0", least - Len(d)) \o d
    BY <1>1, <2>1, <2>2 DEF Longer
  <2>6. Len(d) >= 1
    BY <1>2, <2>2, <2>3
  <2> QED
    BY <1>5, <2>2, <2>4, <2>5, <2>6 DEF d, numeral, IsNumeral
<1> QED
  BY <1>4, <1>5

-----------------------------------------------------------------------------
(* Words *)

LEMMA HalfPower ==
  ASSUME NEW bits \in Nat \ {0}
  PROVE  /\ Power(2, bits - 1) \in Nat \ {0} /\ Power(2, bits) \in Nat \ {0}
         /\ Power(2, bits) = 2 * Power(2, bits - 1)
<1> DEFINE k == bits - 1
<1>1. k \in Nat /\ k + 1 = bits /\ 2 \in Nat \ {0} /\ 2 \in Nat
  OBVIOUS
<1> HIDE DEF k
<1>2. Power(2, k) \in Nat /\ Power(2, k) >= 1 /\ Power(2, k + 1) = 2 * Power(2, k)
  BY <1>1, PowerFacts, PowerGrows
<1>3. Power(2, k) \in Nat \ {0} /\ Power(2, k + 1) \in Nat \ {0}
  BY <1>2
<1> QED
  BY <1>1, <1>2, <1>3 DEF k

LEMMA PowersOrdered ==
  ASSUME NEW bits \in Nat, bits <= LongBits
  PROVE  Power(2, bits) <= Power(2, LongBits)
<1>1. 2 \in Nat \ {0} /\ LongBits \in Nat /\ bits \in 0 .. LongBits
  BY BitFacts
<1> QED
  BY <1>1, PowerGrows

Magnitude(v) == IF v < 0 THEN -v ELSE v

LEMMA SignedFacts ==
  ASSUME NEW word \in Nat, NEW bits \in Nat \ {0}, bits <= LongBits
  PROVE  /\ Signed(word, bits) \in Int
         /\ Magnitude(Signed(word, bits)) \in Nat
         /\ Magnitude(Signed(word, bits)) < Power(2, LongBits)
<1> DEFINE h == Power(2, bits - 1)
           m == Power(2, bits)
           low == word % m
<1>1. h \in Nat \ {0} /\ m \in Nat \ {0} /\ m = 2 * h
  BY HalfPower
<1>2. m <= Power(2, LongBits) /\ Power(2, LongBits) \in Nat
  BY PowersOrdered, PowerFacts, BitFacts
<1>3. Signed(word, bits) = IF low < h THEN low ELSE low - m
  BY DEF Signed
<1> HIDE DEF h, m
<1>4. low \in 0 .. m - 1
  BY <1>1, Division
<1> HIDE DEF low
<1> QED
  BY <1>1, <1>2, <1>3, <1>4 DEF Magnitude

LEMMA UnsignedFacts ==
  ASSUME NEW word \in Nat, NEW bits \in Nat, bits <= LongBits
  PROVE  word % Power(2, bits) \in Nat /\ word % Power(2, bits) < Power(2, LongBits)
<1> DEFINE m == Power(2, bits)
<1>1. m \in Nat \ {0} /\ m <= Power(2, LongBits) /\ Power(2, LongBits) \in Nat
  <2>1. 2 \in Nat \ {0} /\ 2 \in Nat
    OBVIOUS
  <2>2. m \in Nat /\ m >= 1
    BY <2>1, PowerFacts, PowerGrows
  <2>3. m <= Power(2, LongBits) /\ Power(2, LongBits) \in Nat
    BY <2>1, PowersOrdered, PowerFacts, BitFacts
  <2> QED
    BY <2>2, <2>3
<1> HIDE DEF m
<1>2. word % m \in 0 .. m - 1
  BY <1>1, Division
<1> QED
  BY <1>1, <1>2 DEF m

\* A multiple of the modulus more.
LEMMA Remainder ==
  ASSUME NEW a \in Int, NEW m \in Nat \ {0}, NEW q \in Int, NEW r \in 0 .. m - 1, a = q * m + r
  PROVE  a % m = r
<1>1. a % m \in 0 .. m - 1 /\ a \div m \in Int /\ (a \div m) * m + (a % m) = a
  <2>1. a % m \in 0 .. m - 1
    OBVIOUS
  <2>2. a \div m \in Int
    BY Z3
  <2>3. (a \div m) * m + (a % m) = a
    BY Z3
  <2> QED
    BY <2>1, <2>2, <2>3
<1> DEFINE t == a \div m
           s == a % m
<1>2. t \in Int /\ s \in 0 .. m - 1 /\ t * m + s = q * m + r
  BY <1>1
<1> HIDE DEF t, s
<1>3. \A x, y \in Int : x > y => (x - y) * m >= m
  BY Z3
<1>4. (t - q) * m = t * m - q * m /\ (q - t) * m = q * m - t * m
  BY <1>2, Z3
<1>5. ~(t > q)
  BY <1>2, <1>3, <1>4
<1>6. ~(q > t)
  BY <1>2, <1>3, <1>4
<1> QED
  BY <1>2, <1>5, <1>6 DEF s

\* A number passed for a star comes back as it was.
LEMMA IntComesBack ==
  ASSUME NEW w \in Ints
  PROVE  Signed(Unsigned(w), IntBits) = w /\ Unsigned(w) \in Nat
<1> DEFINE h == Power(2, IntBits - 1)
           m == Power(2, IntBits)
           e == LongBits - IntBits
           l == Power(2, LongBits)
           f == Power(2, e)
<1>0. e \in Nat /\ IntBits + e = LongBits /\ IntBits \in Nat \ {0}
  BY BitFacts
<1>1. h \in Nat \ {0} /\ m \in Nat \ {0} /\ m = 2 * h
  BY <1>0, HalfPower
<1> HIDE DEF e
<1>2. l = m * f /\ f \in Nat \ {0}
  <2>1. 2 \in Nat \ {0} /\ 2 \in Nat /\ IntBits \in Nat
    BY <1>0
  <2>2. f \in Nat /\ f >= 1
    BY <1>0, <2>1, PowerFacts, PowerGrows
  <2>3. Power(2, IntBits + e) = m * f
    BY <1>0, <2>1, PowerSum
  <2> QED
    BY <1>0, <2>2, <2>3
<1>3. w \in Int /\ -h < w /\ w < h
  BY <1>1 DEF Ints
<1>4. Unsigned(w) = w % l
  BY DEF Unsigned
<1>5. Signed(Unsigned(w), IntBits)
        = IF Unsigned(w) % m < h THEN Unsigned(w) % m ELSE (Unsigned(w) % m) - m
  BY DEF Signed
<1> HIDE DEF h, m, l, f
<1>6. l \in Nat \ {0} /\ l >= m
  BY <1>1, <1>2, Z3
<1>7. CASE w >= 0
  <2>1. w \in 0 .. l - 1 /\ w \in 0 .. m - 1 /\ w = 0 * l + w /\ w = 0 * m + w
    BY <1>1, <1>3, <1>6, <1>7
  <2>2. w % l = w /\ w % m = w
    BY <1>1, <1>6, <2>1, SMT
  <2> QED
    BY <1>3, <1>4, <1>5, <1>7, <2>2
<1>8. CASE w < 0
  <2> DEFINE u == w + l
             v == w + m
             g == f - 1
  <2>1. u \in 0 .. l - 1 /\ v \in 0 .. m - 1 /\ w = (-1) * l + u /\ v >= h /\ v - m = w
        /\ u \in Int /\ v \in Int /\ u \in Nat
    BY <1>1, <1>3, <1>6, <1>8
  <2>2. u = g * m + v /\ g \in Int
    <3>1. g * m = f * m - m
      BY <1>1, <1>2, Z3
    <3>2. f * m = m * f
      BY <1>1, <1>2
    <3> QED
      BY <1>1, <1>2, <1>3, <3>1, <3>2
  <2> HIDE DEF u, v, g
  <2>3. w % l = u
    <3> DEFINE q == -1
    <3>1. q \in Int /\ w = q * l + u
      BY <2>1
    <3> HIDE DEF q
    <3> QED
      BY <1>3, <1>6, <2>1, <3>1, Remainder
  <2>4. u % m = v
    BY <1>1, <2>1, <2>2, Remainder
  <2>5. ~(v < h)
    BY <1>1, <2>1
  <2> QED
    BY <1>4, <1>5, <2>1, <2>3, <2>4, <2>5
<1> QED
  BY <1>3, <1>7, <1>8

-----------------------------------------------------------------------------
(* The field of a directive *)

LEMMA Associative ==
  ASSUME NEW X, NEW r \in Seq(X), NEW s \in Seq(X), NEW t \in Seq(X)
  PROVE  (r \o s) \o t = r \o (s \o t)
<1> DEFINE a == r \o s
           b == s \o t
           p == a \o t
           q == r \o b
<1>1. /\ a \in Seq(X) /\ Len(a) = Len(r) + Len(s)
      /\ \A k \in 1 .. Len(r) : a[k] = r[k]
      /\ \A k \in 1 .. Len(s) : a[Len(r) + k] = s[k]
  BY Joined
<1>2. /\ b \in Seq(X) /\ Len(b) = Len(s) + Len(t)
      /\ \A k \in 1 .. Len(s) : b[k] = s[k]
      /\ \A k \in 1 .. Len(t) : b[Len(s) + k] = t[k]
  BY Joined
<1> HIDE DEF a, b
<1>3. /\ p \in Seq(X) /\ Len(p) = Len(a) + Len(t)
      /\ \A k \in 1 .. Len(a) : p[k] = a[k]
      /\ \A k \in 1 .. Len(t) : p[Len(a) + k] = t[k]
  <2>1. a \in Seq(X)
    BY <1>1
  <2> QED
    BY <2>1, Joined
<1>4. /\ q \in Seq(X) /\ Len(q) = Len(r) + Len(b)
      /\ \A k \in 1 .. Len(r) : q[k] = r[k]
      /\ \A k \in 1 .. Len(b) : q[Len(r) + k] = b[k]
  <2>1. b \in Seq(X)
    BY <1>2
  <2> QED
    BY <2>1, Joined
<1> HIDE DEF p, q
<1>0. Len(r) \in Nat /\ Len(s) \in Nat /\ Len(t) \in Nat
  OBVIOUS
<1>5. Len(p) = Len(q)
  BY <1>0, <1>1, <1>2, <1>3, <1>4
<1>6. ASSUME NEW k \in 1 .. Len(p) PROVE p[k] = q[k]
  <2>1. CASE k \in 1 .. Len(r)
    <3>1. k \in 1 .. Len(a)
      BY <1>0, <1>1, <2>1
    <3> QED
      BY <1>1, <1>3, <1>4, <2>1, <3>1
  <2>2. CASE k \in Len(r) + 1 .. Len(r) + Len(s)
    <3> DEFINE j == k - Len(r)
    <3>1. j \in 1 .. Len(s) /\ j \in 1 .. Len(b) /\ k \in 1 .. Len(a) /\ k = Len(r) + j
      BY <1>0, <1>1, <1>2, <2>2
    <3> HIDE DEF j
    <3> QED
      BY <1>1, <1>2, <1>3, <1>4, <3>1
  <2>3. CASE k > Len(r) + Len(s)
    <3> DEFINE j == k - Len(a)
               l == Len(s) + j
    <3>1. /\ j \in 1 .. Len(t) /\ k = Len(a) + j
          /\ l \in 1 .. Len(b) /\ l = Len(s) + j /\ k = Len(r) + l
      BY <1>0, <1>1, <1>2, <1>3, <2>3
    <3> HIDE DEF j, l
    <3>2. p[k] = t[j]
      BY <1>3, <3>1
    <3>3. q[k] = b[l]
      BY <1>4, <3>1
    <3>4. b[l] = t[j]
      BY <1>2, <3>1
    <3> QED
      BY <3>2, <3>3, <3>4
  <2> QED
    BY <1>0, <2>1, <2>2, <2>3
<1>7. p = q
  BY <1>3, <1>4, <1>5, <1>6, SameSequence
<1> QED
  BY <1>7 DEF p, q, a, b

\* The flag "0" counts.
KeepsZero(d) ==
  /\ HasFlag(d, "0") /\ ~HasFlag(d, "-") /\ d.conv # "s"
  /\ d.conv \in Integer => d.prec = << >>

\* What the field of a directive is made from, once its stars are read.
Means(fs, d) ==
  /\ fs.conv = d.conv /\ fs.mod = d.type
  /\ fs.left <=> LeftJustified(d)
  /\ fs.zero <=> KeepsZero(d)
  /\ fs.prepend = IF HasFlag(d, "+") THEN << "+" >>
                  ELSE IF HasFlag(d, " ") THEN << " " >> ELSE << >>
  /\ fs.alt <=> HasFlag(d, "#")
  /\ fs.widthOpt = IF d.width = << >> THEN "none" ELSE "literal"
  /\ fs.width = FieldWidth(d)
  /\ fs.precOpt = IF PrecisionGiven(d) THEN "literal" ELSE "none"
  /\ PrecisionGiven(d) => fs.prec = d.prec[1]
  /\ ~PrecisionGiven(d) => fs.prec \in Int /\ fs.prec <= 0

Proper(d) == IsDirective(d) /\ IsDirectiveItem(d) /\ Defined(d) /\ ~ZeroWithNegativeStar(d)
ZerosAsked(d) == IsInteger(d) /\ HasFlag(d, "0") /\ ~PrecisionGiven(d)

LEMMA IntsFacts ==
  /\ Ints \subseteq Int /\ Counts \subseteq Nat
  /\ \A k \in Counts : k < Power(2, LongBits)
<1> DEFINE h == Power(2, IntBits - 1)
           l == Power(2, LongBits)
<1>1. h \in Nat /\ h <= l /\ l \in Nat
  <2> DEFINE b == IntBits - 1
  <2>1. b \in Nat /\ b <= LongBits /\ IntBits \in Nat \ {0} /\ 2 \in Nat /\ LongBits \in Nat
    BY BitFacts
  <2> HIDE DEF b
  <2>2. Power(2, b) \in Nat /\ Power(2, LongBits) \in Nat /\ Power(2, b) <= Power(2, LongBits)
    BY <2>1, PowerFacts, PowersOrdered
  <2> QED
    BY <2>2 DEF b
<1> HIDE DEF h, l
<1>2. Ints = -(h - 1) .. h - 1 /\ Counts = 0 .. h - 1
  BY DEF Ints, Counts, h
<1>3. \A k \in Counts : k < l
  BY <1>1, <1>2
<1> QED
  BY <1>1, <1>2, <1>3 DEF l

LEMMA ItemFacts ==
  ASSUME NEW d, IsDirectiveItem(d)
  PROVE  /\ d.width # << >> => d.width[1] \in Int
         /\ d.prec # << >> => d.prec[1] \in Int
         /\ d.conv \in Conversions /\ d.type \in { "char", "short", "int", "long" }
         /\ d.val \in Nat /\ d.val < Power(2, LongBits)
         /\ d.conv = "s" => d.val \in DOMAIN Strings
<1>0. Counts \subseteq Int /\ Counts \ { 0 } \subseteq Int /\ Ints \subseteq Int
  BY IntsFacts
<1>1. \E k \in Int : d.width = << >> \/ d.width = << k >>
  BY <1>0 DEF IsDirectiveItem
<1>2. \E k \in Int : d.prec = << >> \/ d.prec = << k >>
  BY <1>0 DEF IsDirectiveItem
<1>3. d.val \in 0 .. Power(2, LongBits) - 1 /\ Power(2, LongBits) \in Nat
  BY BitFacts, PowerFacts DEF IsDirectiveItem
<1>4. d.val \in Nat /\ d.val < Power(2, LongBits)
  BY <1>3
<1> QED
  BY <1>1, <1>2, <1>4 DEF IsDirectiveItem

LEMMA WidthFacts ==
  ASSUME NEW d, IsDirectiveItem(d)
  PROVE  FieldWidth(d) \in Nat /\ (d.width = << >> => FieldWidth(d) = 0)
BY ItemFacts DEF FieldWidth

\* Zeros pad where C says so, blanks otherwise.
LEMMA PadCharIs ==
  ASSUME NEW d, Proper(d), NEW fs, Means(fs, d), NEW t
  PROVE  PadChar(fs, t) = IF d.width = << >> THEN << >>
                          ELSE IF ~LeftJustified(d) /\ ZerosAsked(d) THEN << "0" >> ELSE << " " >>
<1>1. /\ IsInteger(d) <=> d.conv \in Integer
      /\ IsInteger(d) => d.conv \notin { "c", "s", "%" }
  BY DEF IsInteger, Integer
<1>2. HasFlag(d, "0") => IsInteger(d)
  BY DEF Proper, Defined
<1>3. /\ HasFlag(d, "0") /\ ~HasFlag(d, "-") /\ d.prec # << >> => ~(d.prec[1] < 0)
      /\ HasFlag(d, "0") /\ ~HasFlag(d, "-") /\ d.width # << >> => ~(d.width[1] < 0)
  BY DEF Proper, ZeroWithNegativeStar
<1>4. HasFlag(d, "0") /\ ~HasFlag(d, "-") => (PrecisionGiven(d) <=> d.prec # << >>)
  <2>1. d.prec # << >> => d.prec[1] \in Int
    BY ItemFacts DEF Proper
  <2> QED
    BY <1>3, <2>1 DEF PrecisionGiven
<1>5. fs.zero <=> ~LeftJustified(d) /\ ZerosAsked(d)
  <2>1. LeftJustified(d) <=> HasFlag(d, "-") \/ (d.width # << >> /\ d.width[1] < 0)
    BY DEF LeftJustified
  <2>2. fs.zero <=> /\ HasFlag(d, "0") /\ ~HasFlag(d, "-") /\ d.conv # "s"
                    /\ d.conv \in Integer => d.prec = << >>
    BY DEF Means, KeepsZero
  <2> HIDE DEF LeftJustified
  <2> QED
    BY <1>1, <1>2, <1>3, <1>4, <2>1, <2>2 DEF ZerosAsked
<1>6. fs.widthOpt = IF d.width = << >> THEN "none" ELSE "literal"
  BY DEF Means
<1>7. fs.zero => fs.conv \notin { "c", "s", "%" } /\ fs.precOpt # "literal"
  BY <1>1, <1>5 DEF Means, ZerosAsked
<1>8. CASE d.width = << >>
  <2>1. fs.widthOpt # "literal"
    BY <1>6, <1>8
  <2> QED
    BY <1>8, <2>1 DEF PadChar
<1>9. CASE d.width # << >> /\ fs.zero
  <2>1. fs.widthOpt = "literal"
    BY <1>6, <1>9
  <2> QED
    BY <1>5, <1>7, <1>9, <2>1 DEF PadChar
<1>10. CASE d.width # << >> /\ ~fs.zero
  <2>1. fs.widthOpt = "literal"
    BY <1>6, <1>10
  <2> QED
    BY <1>5, <1>10, <2>1 DEF PadChar
<1> QED
  BY <1>8, <1>9, <1>10

\* The parts nanoprintf has of a field, next to those of C.
Parts(fs, t, d) ==
  /\ t.prefix \in Seq(Characters) /\ t.sign \in Seq(Characters) /\ t.text \in Seq(Characters)
  /\ Zeros(fs, t) \in Seq(Characters)
  /\ Sign(d) \o Prefix(d) \in Seq(Characters) /\ Body(d) \in Seq(Characters)
  /\ (t.prefix \o t.sign) \o (Zeros(fs, t) \o t.text) = (Sign(d) \o Prefix(d)) \o Body(d)
  /\ IsInteger(d) => /\ t.sign \o t.prefix = Sign(d) \o Prefix(d)
                     /\ Zeros(fs, t) \o t.text = Body(d)

LEMMA Assembled ==
  ASSUME NEW d, Proper(d), NEW fs, Means(fs, d), NEW t, Parts(fs, t, d)
  PROVE  Field(fs, t) = ExpectedItem(d) /\ ExpectedItem(d) \in Seq(Characters)
<1> DEFINE head == Sign(d) \o Prefix(d)
           body == Body(d)
           zeros == Zeros(fs, t)
           pre == t.prefix
           sig == t.sign
           txt == t.text
           front == pre \o sig
           back == sig \o pre
           number == zeros \o txt
           short == FieldWidth(d) - Len(head \o body)
           pad == Padding(fs, t)
           X == Characters
<1>1. /\ pre \in Seq(X) /\ sig \in Seq(X) /\ txt \in Seq(X) /\ zeros \in Seq(X)
      /\ head \in Seq(X) /\ body \in Seq(X)
  BY DEF Parts
<1>21. front \o number = head \o body
  BY DEF Parts
<1>22. IsInteger(d) => back = head /\ number = body
  BY DEF Parts
<1>2. /\ front \in Seq(X) /\ Len(front) = Len(pre) + Len(sig)
      /\ back \in Seq(X)
      /\ number \in Seq(X) /\ Len(number) = Len(zeros) + Len(txt)
  <2> HIDE DEF pre, sig, txt, zeros
  <2> QED
    BY <1>1
<1> HIDE DEF front, back, number, head, body
<1>3. /\ Len(head \o body) = Len(front) + Len(number) /\ head \o body \in Seq(X)
      /\ Len(head \o body) \in Nat
  <2>1. Len(front \o number) = Len(front) + Len(number)
    <3>1. front \in Seq(X) /\ number \in Seq(X)
      BY <1>2
    <3> QED
      BY <3>1
  <2>2. head \o body \in Seq(X)
    BY <1>1
  <2>3. Len(head \o body) \in Nat
    BY <2>2
  <2> QED
    BY <1>21, <2>1, <2>2, <2>3
<1>4. FieldWidth(d) \in Nat /\ (d.width = << >> => FieldWidth(d) = 0) /\ fs.width = FieldWidth(d)
  BY WidthFacts DEF Proper, Means
<1>5. short \in Int /\ (d.width = << >> => short <= 0)
  BY <1>3, <1>4
<1>6. fs.width - (Len(txt) + Len(sig) + Len(pre) + Len(zeros)) = short
  <2>1. Len(txt) + Len(sig) + Len(pre) + Len(zeros) = Len(head \o body)
    <3>1. /\ Len(txt) \in Nat /\ Len(sig) \in Nat /\ Len(pre) \in Nat
          /\ Len(zeros) \in Nat
      BY <1>1
    <3> HIDE DEF zeros, pre, sig, txt
    <3> QED
      BY <1>1, <1>2, <1>3, <3>1
  <2> QED
    BY <1>4, <2>1
<1>7. " " \in X /\ "0" \in X
  BY CharacterFacts DEF FlagChars
<1>8. PadChar(fs, t) = IF d.width = << >> THEN << >>
                       ELSE IF ~LeftJustified(d) /\ ZerosAsked(d) THEN << "0" >> ELSE << " " >>
  BY PadCharIs
<1>9. pad = IF d.width = << >> THEN << >>
            ELSE IF ~LeftJustified(d) /\ ZerosAsked(d) THEN Repeat("0", short)
            ELSE Repeat(" ", short)
  <2> DEFINE used == Len(txt) + Len(sig) + Len(pre) + Len(zeros)
             pc == PadChar(fs, t)
  <2>1. pad = IF pc = << >> THEN << >> ELSE Repeat(pc[1], fs.width - used)
    BY DEF Padding
  <2>2. fs.width - used = short
    BY <1>6
  <2>3. << "0" >> # << >> /\ << " " >> # << >> /\ << "0" >>[1] = "0" /\ << " " >>[1] = " "
    OBVIOUS
  <2> HIDE DEF used, pc, short, pad
  <2>4. pc = IF d.width = << >> THEN << >>
             ELSE IF ~LeftJustified(d) /\ ZerosAsked(d) THEN << "0" >> ELSE << " " >>
    BY <1>8 DEF pc
  <2> QED
    BY <2>1, <2>2, <2>3, <2>4
<1>10. d.width = << >> => Repeat("0", short) = << >> /\ Repeat(" ", short) = << >>
  <2> HIDE DEF short
  <2> QED
    BY <1>5, <1>7, RepeatFacts
<1>11. Repeat("0", short) \in Seq(X) /\ Repeat(" ", short) \in Seq(X)
  <2> HIDE DEF short
  <2> QED
    BY <1>5, <1>7, RepeatFacts
<1>12. pad = IF ~LeftJustified(d) /\ ZerosAsked(d) THEN Repeat("0", short) ELSE Repeat(" ", short)
  <2> HIDE DEF short, pad
  <2> QED
    BY <1>9, <1>10
<1>13. fs.left <=> LeftJustified(d)
  BY DEF Means
<1>14. IsDirective(d)
  BY DEF Proper
<1>15. Field(fs, t) = CASE fs.left -> front \o number \o pad
                        [] ~fs.left /\ PadChar(fs, t) = << "0" >> -> back \o pad \o number
                        [] ~fs.left /\ PadChar(fs, t) # << "0" >> -> pad \o pre \o sig \o number
  BY DEF Field, front, back, number
<1>16. ExpectedItem(d) = CASE LeftJustified(d) -> head \o body \o Repeat(" ", short)
                           [] ~LeftJustified(d) /\ ZerosAsked(d) -> head \o Repeat("0", short) \o body
                           [] ~LeftJustified(d) /\ ~ZerosAsked(d) -> Repeat(" ", short) \o head \o body
  BY <1>14 DEF ExpectedItem, ZerosAsked, head, body
<1> HIDE DEF short, pad, pre, sig, txt, zeros
<1> DEFINE blanks == Repeat(" ", short)
           noughts == Repeat("0", short)
<1>20. blanks \in Seq(X) /\ noughts \in Seq(X)
  BY <1>11
<1>17. CASE LeftJustified(d)
  <2>1. Field(fs, t) = front \o number \o pad
    BY <1>13, <1>15, <1>17
  <2>2. ExpectedItem(d) = head \o body \o blanks
    BY <1>16, <1>17
  <2>3. pad = blanks
    BY <1>12, <1>17
  <2>4. head \o body \o blanks \in Seq(X)
    <3> HIDE DEF blanks
    <3> QED
      BY <1>3, <1>20
  <2> QED
    BY <1>21, <2>1, <2>2, <2>3, <2>4
<1>18. CASE ~LeftJustified(d) /\ ZerosAsked(d)
  <2>1. IsInteger(d)
    BY <1>18 DEF ZerosAsked
  <2>2. pad = noughts
    BY <1>12, <1>18
  <2>3. ExpectedItem(d) = head \o noughts \o body
    BY <1>16, <1>18
  <2>4. head \o noughts \o body \in Seq(X)
    <3> HIDE DEF noughts
    <3>1. head \in Seq(X) /\ noughts \in Seq(X) /\ body \in Seq(X)
      BY <1>1, <1>20
    <3> QED
      BY <3>1
  <2>5. CASE d.width # << >>
    <3>1. PadChar(fs, t) = << "0" >>
      BY <1>8, <1>18, <2>5
    <3>2. Field(fs, t) = back \o pad \o number
      BY <1>13, <1>15, <1>18, <3>1
    <3> QED
      BY <1>22, <2>1, <2>2, <2>3, <2>4, <3>2
  <2>6. CASE d.width = << >>
    <3>1. PadChar(fs, t) # << "0" >>
      BY <1>8, <2>6
    <3>2. pad = << >> /\ noughts = << >>
      BY <1>10, <2>2, <2>6
    <3>3. Field(fs, t) = (pad \o pre) \o sig \o number
      BY <1>13, <1>15, <1>18, <3>1
    <3>4. pad \o pre = pre
      BY <1>1, <3>2
    <3>5. Field(fs, t) = front \o number
      BY <3>3, <3>4 DEF front
    <3>6. head \o noughts = head
      BY <1>1, <3>2
    <3> QED
      BY <1>21, <2>3, <2>4, <3>5, <3>6
  <2> QED
    BY <2>5, <2>6
<1>19. CASE ~LeftJustified(d) /\ ~ZerosAsked(d)
  <2>1. pad = blanks /\ pad \in Seq(X)
    BY <1>11, <1>12, <1>19
  <2>2. PadChar(fs, t) # << "0" >>
    <3>1. << " " >> # << "0" >> /\ << >> # << "0" >>
      OBVIOUS
    <3> QED
      BY <1>8, <1>19, <3>1
  <2>3. Field(fs, t) = pad \o pre \o sig \o number
    BY <1>13, <1>15, <1>19, <2>2
  <2>4. ExpectedItem(d) = blanks \o head \o body
    BY <1>16, <1>19
  <2>5. pad \o pre \o sig = pad \o front
    <3>1. pad \in Seq(X) /\ pre \in Seq(X) /\ sig \in Seq(X)
      BY <1>1, <2>1
    <3> QED
      BY <3>1, Associative DEF front
  <2>6. (pad \o front) \o number = pad \o (front \o number)
    <3>1. pad \in Seq(X) /\ front \in Seq(X) /\ number \in Seq(X)
      BY <1>2, <2>1
    <3> QED
      BY <3>1, Associative
  <2>7. (pad \o head) \o body = pad \o (head \o body)
    <3>1. pad \in Seq(X) /\ head \in Seq(X) /\ body \in Seq(X)
      BY <1>1, <2>1
    <3> QED
      BY <3>1, Associative
  <2>8. pad \o (head \o body) \in Seq(X)
    <3>1. pad \in Seq(X) /\ head \o body \in Seq(X)
      BY <1>3, <2>1
    <3> QED
      BY <3>1
  <2> QED
    BY <1>21, <2>1, <2>3, <2>4, <2>5, <2>6, <2>7, <2>8
<1> QED
  BY <1>17, <1>18, <1>19

Least(d) == IF PrecisionGiven(d) THEN d.prec[1] ELSE 1

LEMMA LeastFacts ==
  ASSUME NEW d, Proper(d), NEW fs, Means(fs, d)
  PROVE  /\ Least(d) \in Nat /\ fs.prec \in Int
         /\ PrecisionGiven(d) => fs.prec = Least(d)
         /\ ~PrecisionGiven(d) => fs.prec <= 0 /\ Least(d) = 1
         /\ fs.precOpt = "literal" <=> PrecisionGiven(d)
<1>1. d.prec # << >> => d.prec[1] \in Int
  BY ItemFacts DEF Proper
<1>2. PrecisionGiven(d) => d.prec[1] \in Nat
  BY <1>1 DEF PrecisionGiven
<1>3. /\ fs.precOpt = IF PrecisionGiven(d) THEN "literal" ELSE "none"
      /\ PrecisionGiven(d) => fs.prec = d.prec[1]
      /\ ~PrecisionGiven(d) => fs.prec \in Int /\ fs.prec <= 0
  BY DEF Means
<1> QED
  BY <1>2, <1>3 DEF Least

\* What is written of v, and its numeral.
Written(v, base, least, alphabet) ==
  IF v = 0 /\ least = 0 THEN << >> ELSE Digits(v, base, alphabet)
NumberAs(w, prec, numeral) ==
  /\ w \in Seq(Characters) /\ numeral \in Seq(Characters)
  /\ Repeat("0", prec - Len(w)) \in Seq(Characters)
  /\ Repeat("0", prec - Len(w)) \o w = numeral

LEMMA ZeroCharacter == "0" \in Characters
BY CharacterFacts DEF FlagChars

LEMMA ZeroFacts ==
  ASSUME NEW k \in Int
  PROVE  /\ Repeat("0", k) \in Seq(Characters)
         /\ Len(Repeat("0", k)) = IF k > 0 THEN k ELSE 0
         /\ \A j \in 1 .. Len(Repeat("0", k)) : Repeat("0", k)[j] = "0"
         /\ k <= 0 => Repeat("0", k) = << >>
<1>1. "0" \in Characters
  BY CharacterFacts DEF FlagChars
<1> QED
  BY <1>1, RepeatFacts

LEMMA EmptyFirst ==
  ASSUME NEW s \in Seq(Characters)
  PROVE  << >> \o s = s /\ s \o << >> = s
OBVIOUS

LEMMA NumberParts ==
  ASSUME NEW d, Proper(d), NEW fs, Means(fs, d), NEW base \in Bases, NEW alphabet \in Cases,
         NEW v \in Nat, v < Power(2, LongBits)
  PROVE  NumberAs(Written(v, base, Least(d), alphabet), fs.prec, Numeral(v, base, Least(d), alphabet))
<1> DEFINE least == Least(d)
           digits == Digits(v, base, alphabet)
           numeral == Numeral(v, base, least, alphabet)
           prec == fs.prec
<1>1. least \in Nat /\ prec \in Int /\ (prec = least \/ (prec <= 0 /\ least = 1))
  BY LeastFacts
<1>2. IsNumeral(digits, v, least, numeral)
  <2> HIDE DEF least
  <2> QED
    BY <1>1, DigitsAsISO
<1> HIDE DEF least, digits, numeral, prec
<1>3. CASE v = 0 /\ least = 0
  <2>1. numeral = << >> /\ prec - 0 = 0 /\ 0 \in Int /\ Len(<< >>) = 0
    BY <1>1, <1>2, <1>3 DEF IsNumeral
  <2>2. << >> \in Seq(Characters)
    OBVIOUS
  <2>3. Repeat("0", 0) = << >>
    BY ZeroFacts
  <2>4. NumberAs(<< >>, prec, numeral)
    BY <2>1, <2>2, <2>3, EmptyFirst DEF NumberAs
  <2> QED
    BY <1>3, <2>4 DEF Written, least, digits, numeral, prec
<1>4. CASE ~(v = 0 /\ least = 0)
  <2> DEFINE k == least - Len(digits)
             l == prec - Len(digits)
  <2>1. /\ digits \in Seq(Characters) /\ Len(digits) \in Nat /\ Len(digits) >= 1
        /\ numeral = Repeat("0", k) \o digits
    BY <1>1, <1>2, <1>4 DEF IsNumeral
  <2>2. k \in Int /\ l \in Int /\ (l = k \/ (l <= 0 /\ k <= 0))
    BY <1>1, <2>1
  <2> HIDE DEF k, l
  <2>3. Repeat("0", l) = Repeat("0", k) /\ Repeat("0", k) \in Seq(Characters)
    BY <2>2, ZeroFacts
  <2>4. numeral \in Seq(Characters)
    BY <2>1, <2>3
  <2>5. NumberAs(digits, prec, numeral)
    BY <2>1, <2>3, <2>4 DEF NumberAs, l
  <2> QED
    BY <1>4, <2>5 DEF Written, least, digits, numeral, prec
<1> QED
  BY <1>3, <1>4

LEMMA SmallTexts ==
  /\ << >> \in Seq(Characters) /\ << "-" >> \in Seq(Characters) /\ << "+" >> \in Seq(Characters)
  /\ << " " >> \in Seq(Characters) /\ << "0" >> \in Seq(Characters)
  /\ << "%" >> \in Seq(Characters) /\ << "0", "x" >> \in Seq(Characters)
  /\ << "0", "X" >> \in Seq(Characters)
<1>1. /\ "-" \in Characters /\ "+" \in Characters /\ " " \in Characters /\ "0" \in Characters
      /\ "%" \in Characters /\ "x" \in Characters /\ "X" \in Characters
  BY CharacterFacts DEF FlagChars, Conversions
<1>2. \A x, y \in Characters : << x >> \in Seq(Characters) /\ << x, y >> \in Seq(Characters)
  OBVIOUS
<1>3. << >> \in Seq(Characters)
  OBVIOUS
<1>4. << "0", "x" >> \in Seq(Characters) /\ << "0", "X" >> \in Seq(Characters)
  BY <1>1, <1>2
<1> QED
  BY <1>1, <1>2, <1>3, <1>4

-----------------------------------------------------------------------------
LEMMA PartsOfSigned ==
  ASSUME NEW d, Proper(d), NEW fs, Means(fs, d), d.conv \in { "d", "i" }
  PROVE  Parts(fs, Convert(fs, d.val), d)
<1> DEFINE t == Convert(fs, d.val)
           val == Signed(d.val, BitsOf(d.type))
           v == Magnitude(val)
           text == Written(v, 10, Least(d), Lower)
           numeral == Numeral(v, 10, Least(d), Lower)
           sign == IF val < 0 THEN << "-" >> ELSE fs.prepend
<1>1. fs.conv = d.conv /\ fs.mod = d.type
  BY DEF Means
<1>2. val \in Int /\ v \in Nat /\ v < Power(2, LongBits)
  <2> DEFINE word == d.val
             bits == BitsOf(d.type)
  <2>1. d.val \in Nat /\ d.type \in { "char", "short", "int", "long" }
    BY ItemFacts DEF Proper
  <2>2. bits \in Nat \ {0} /\ bits <= LongBits
    BY <2>1, BitFacts
  <2> HIDE DEF word, bits
  <2>3. /\ Signed(word, bits) \in Int /\ Magnitude(Signed(word, bits)) \in Nat
        /\ Magnitude(Signed(word, bits)) < Power(2, LongBits)
    BY <2>1, <2>2, SignedFacts DEF word
  <2> QED
    BY <2>3 DEF word, bits
<1>3. val = Value(d) /\ Base(d) = 10 /\ IsInteger(d) /\ d.conv # "o" /\ d.conv # "X" /\ d.conv # "s"
  BY DEF Value, Base, IsInteger
<1>4. IntegerDigits(d) = numeral /\ Body(d) = numeral
  <2>1. IntegerDigits(d) = numeral
    BY <1>3 DEF IntegerDigits, Magnitude, Least
  <2> QED
    BY <1>3, <2>1 DEF Body
<1>5. NumberAs(text, fs.prec, numeral)
  <2> DEFINE base == 10
             alphabet == Lower
  <2>1. base \in Bases /\ alphabet \in Cases
    BY DEF Bases, Cases
  <2> HIDE DEF base, alphabet, v
  <2>2. NumberAs(Written(v, base, Least(d), alphabet), fs.prec, Numeral(v, base, Least(d), alphabet))
    BY <1>2, <2>1, NumberParts
  <2> QED
    BY <2>2 DEF base, alphabet
<1>6. NoDigits(fs, val) <=> v = 0 /\ Least(d) = 0
  <2>1. val = 0 <=> v = 0
    BY <1>2 DEF Magnitude
  <2> HIDE DEF v, val
  <2>2. fs.precOpt = "literal" /\ fs.prec = 0 <=> Least(d) = 0
    BY LeastFacts
  <2> QED
    BY <2>1, <2>2 DEF NoDigits
<1>7. t = [ Plain EXCEPT
            !.text = IF NoDigits(fs, val) THEN << >> ELSE Digits(v, 10, Lower),
            !.sign = sign,
            !.zero = val = 0 ]
  BY <1>1 DEF Convert, ConvertSigned, Magnitude
<1> HIDE DEF v, val
<1>8. t.text = text /\ t.sign = sign /\ t.prefix = << >>
  BY <1>6, <1>7 DEF Plain, Written
<1>9. Zeros(fs, t) = Repeat("0", fs.prec - Len(text))
  BY <1>1, <1>3, <1>8 DEF Zeros, EffectivePrec
<1>10. Prefix(d) = << >>
  BY DEF Prefix
<1>11. Sign(d) = sign
  <2>1. fs.prepend = IF HasFlag(d, "+") THEN << "+" >>
                     ELSE IF HasFlag(d, " ") THEN << " " >> ELSE << >>
    BY DEF Means
  <2>2. Sign(d) = IF val < 0 THEN << "-" >> ELSE fs.prepend
    <3>1. CASE val < 0
      <4>1. ~(Value(d) >= 0) /\ Value(d) < 0
        BY <1>2, <1>3, <3>1
      <4>2. Sign(d) = << "-" >>
        BY <4>1 DEF Sign
      <4> QED
        BY <3>1, <4>2
    <3>2. CASE ~(val < 0)
      <4>1. Value(d) >= 0 /\ ~(Value(d) < 0)
        BY <1>2, <1>3, <3>2
      <4>2. Sign(d) = IF HasFlag(d, "+") THEN << "+" >>
                      ELSE IF HasFlag(d, " ") THEN << " " >> ELSE << >>
        BY <4>1 DEF Sign
      <4> QED
        BY <2>1, <3>2, <4>2
    <3> QED
      BY <3>1, <3>2
  <2> QED
    BY <2>2
<1>12. sign \in Seq(Characters)
  <2>1. sign \in { << "-" >>, << "+" >>, << " " >>, << >> }
    BY DEF Means
  <2> QED
    BY <2>1, SmallTexts
<1> HIDE DEF t, text, numeral, sign
<1>13. << >> \o sign = sign /\ sign \o << >> = sign
  BY <1>12, EmptyFirst
<1>14. /\ text \in Seq(Characters) /\ numeral \in Seq(Characters)
       /\ Zeros(fs, t) \in Seq(Characters) /\ Zeros(fs, t) \o text = numeral
  BY <1>5, <1>9 DEF NumberAs
<1>15. /\ t.prefix \in Seq(Characters) /\ t.sign \in Seq(Characters)
       /\ t.text \in Seq(Characters)
       /\ Sign(d) \o Prefix(d) \in Seq(Characters) /\ Body(d) \in Seq(Characters)
  BY <1>4, <1>8, <1>10, <1>11, <1>12, <1>13, <1>14, SmallTexts
<1>16. t.sign \o t.prefix = Sign(d) \o Prefix(d) /\ Zeros(fs, t) \o t.text = Body(d)
  BY <1>4, <1>8, <1>10, <1>11, <1>14
<1>17. t.prefix \o t.sign = Sign(d) \o Prefix(d)
  BY <1>8, <1>10, <1>11, <1>13
<1>18. Parts(fs, t, d)
  BY <1>14, <1>15, <1>16, <1>17 DEF Parts
<1> QED
  BY <1>18 DEF t

LEMMA NumberField ==
  ASSUME NEW d, IsInteger(d), NEW fs, NEW t,
         t.text \in Seq(Characters), Zeros(fs, t) \in Seq(Characters),
         t.sign \in Seq(Characters), t.prefix \in Seq(Characters),
         t.sign = Sign(d), t.prefix = Prefix(d), t.sign = << >> \/ t.prefix = << >>,
         Zeros(fs, t) \o t.text = IntegerDigits(d)
  PROVE  Parts(fs, t, d)
<1> DEFINE sign == t.sign
           prefix == t.prefix
           text == t.text
           zeros == Zeros(fs, t)
<1>1. sign \in Seq(Characters) /\ prefix \in Seq(Characters) /\ (sign = << >> \/ prefix = << >>)
  OBVIOUS
<1>2. text \in Seq(Characters) /\ zeros \in Seq(Characters)
  OBVIOUS
<1>3. Body(d) = zeros \o text
  BY DEF Body, IsInteger
<1>4. Sign(d) = sign /\ Prefix(d) = prefix
  OBVIOUS
<1> HIDE DEF sign, prefix, text, zeros
<1>5. sign \o prefix = prefix \o sign
  BY <1>1, EmptyFirst
<1>6. sign \o prefix \in Seq(Characters)
  BY <1>1
<1>7. zeros \o text \in Seq(Characters)
  BY <1>2
<1> QED
  BY <1>1, <1>2, <1>3, <1>4, <1>5, <1>6, <1>7 DEF Parts, sign, prefix, text, zeros

OctalText(text, prec, v, d, fs) ==
  /\ text = IF v # 0 THEN << "0" >> \o Written(v, 8, Least(d), Lower)
            ELSE Written(v, 8, Least(d), Lower)
  /\ prec = IF v = 0 /\ Least(d) = 0 THEN 1 ELSE fs.prec
OctalField(text, prec, d) ==
  /\ text \in Seq(Characters) /\ Repeat("0", prec - Len(text)) \in Seq(Characters)
  /\ Repeat("0", prec - Len(text)) \o text = IntegerDigits(d)

\* "#" of an octal number: the zero nanoprintf writes, or has written for the
\* precision, is the one C asks for.
LEMMA OctalDigits ==
  ASSUME NEW d, Proper(d), NEW fs, Means(fs, d), d.conv = "o", HasFlag(d, "#"),
         NEW v \in Nat, v < Power(2, LongBits), v = Value(d),
         NEW text, NEW prec, OctalText(text, prec, v, d, fs)
  PROVE  OctalField(text, prec, d)
<1> USE DEF OctalText, OctalField
<1> DEFINE least == Least(d)
           w == Written(v, 8, least, Lower)
           digits == Digits(v, 8, Lower)
           numeral == Numeral(v, 8, least, Lower)
           base == 8
           alphabet == Lower
<1>0. base \in Bases /\ alphabet \in Cases
  BY DEF Bases, Cases
<1>1. least \in Nat /\ fs.prec \in Int
  BY LeastFacts
<1>2. IsNumeral(digits, v, least, numeral)
  <2> HIDE DEF least, base, alphabet
  <2>1. IsNumeral(Digits(v, base, alphabet), v, least, Numeral(v, base, least, alphabet))
    BY <1>0, <1>1, DigitsAsISO
  <2> QED
    BY <2>1 DEF base, alphabet
<1>3. NumberAs(w, fs.prec, numeral)
  <2> HIDE DEF base, alphabet
  <2>1. NumberAs(Written(v, base, Least(d), alphabet), fs.prec, Numeral(v, base, Least(d), alphabet))
    BY <1>0, NumberParts
  <2> QED
    BY <2>1 DEF base, alphabet
<1>4. IntegerDigits(d) = IF numeral = << >> \/ numeral[1] # "0" THEN << "0" >> \o numeral ELSE numeral
  <2>1. IsInteger(d) /\ Base(d) = 8 /\ ~(v < 0)
    BY DEF IsInteger, Base
  <2> QED
    BY <2>1 DEF IntegerDigits, Least
<1>5. w = IF v = 0 /\ least = 0 THEN << >> ELSE digits
  BY DEF Written
<1> HIDE DEF least, w, digits, numeral
<1>6. CASE v = 0 /\ least = 0
  <2>1. text = << >> /\ prec = 1 /\ numeral = << >> /\ prec - Len(text) = 1
    BY <1>2, <1>5, <1>6 DEF IsNumeral, w, least
  <2>2. IntegerDigits(d) = << "0" >>
    <3>1. IntegerDigits(d) = << "0" >> \o << >>
      BY <1>4, <2>1
    <3> QED
      BY <3>1, SmallTexts, EmptyFirst
  <2>3. Repeat("0", 1) = << "0" >>
    <3>1. 1 \in Nat \ {0} /\ 1 - 1 = 0 /\ 0 \in Int /\ "0" \in Characters
      BY ZeroCharacter
    <3>2. Repeat("0", 1 - 1) \o << "0" >> = Repeat("0", 1)
      BY <3>1, RepeatMore
    <3>3. Repeat("0", 0) = << >>
      BY <3>1, ZeroFacts
    <3> QED
      BY <3>1, <3>2, <3>3, SmallTexts, EmptyFirst
  <2> QED
    BY <2>1, <2>2, <2>3, SmallTexts, EmptyFirst
<1>7. CASE v = 0 /\ least # 0
  <2>1. text = w /\ prec = fs.prec /\ w = << "0" >> /\ Len(w) = 1
    BY <1>2, <1>5, <1>7 DEF IsNumeral, w, least
  <2>2. numeral[1] = "0" /\ numeral # << >>
    <3> DEFINE k == least - 1
               r == Repeat("0", k)
               z == << "0" >>
    <3>1. k \in Nat /\ k \in Int /\ (k > 0 \/ k = 0)
      BY <1>1, <1>7
    <3>2. numeral = r \o z
      BY <1>2, <1>7, <2>1, <1>5 DEF IsNumeral
    <3> HIDE DEF k
    <3>3. r \in Seq(Characters) /\ Len(r) = k /\ \A j \in 1 .. Len(r) : r[j] = "0"
      BY <3>1, ZeroFacts
    <3>4. z \in Seq(Characters) /\ Len(z) = 1 /\ z[1] = "0"
      BY SmallTexts
    <3> HIDE DEF r, z
    <3>5. r \in Seq(Characters) /\ z \in Seq(Characters)
      BY <3>3, <3>4
    <3>6. /\ r \o z \in Seq(Characters) /\ Len(r \o z) = Len(r) + Len(z)
          /\ \A j \in 1 .. Len(r) : (r \o z)[j] = r[j]
          /\ \A j \in 1 .. Len(z) : (r \o z)[Len(r) + j] = z[j]
      BY <3>5, Joined
    <3> DEFINE s == r \o z
    <3> HIDE DEF s
    <3>7. s \in Seq(Characters) /\ Len(s) >= 1
      BY <3>1, <3>3, <3>4, <3>6 DEF s
    <3>8. s # << >>
      BY <3>7
    <3>9. s[1] = "0"
      <4>1. CASE k > 0
        <5>1. 1 \in 1 .. Len(r)
          BY <3>1, <3>3, <4>1
        <5> QED
          BY <3>3, <3>6, <5>1 DEF s
      <4>2. CASE k = 0
        <5>1. 1 \in 1 .. Len(z) /\ Len(r) + 1 = 1
          BY <3>3, <3>4, <4>2
        <5>2. s[Len(r) + 1] = z[1]
          BY <3>6, <5>1 DEF s
        <5> QED
          BY <3>4, <5>1, <5>2
      <4> QED
        BY <3>1, <4>1, <4>2
    <3> QED
      BY <3>2, <3>8, <3>9 DEF s
  <2>3. IntegerDigits(d) = numeral
    BY <1>4, <2>2
  <2> QED
    BY <1>3, <2>1, <2>3 DEF NumberAs
<1>8. CASE v # 0
  <2> DEFINE k == fs.prec - Len(digits)
             one == << "0" >>
             l == prec - Len(text)
  <2>1. text = one \o digits /\ prec = fs.prec /\ w = digits
    BY <1>5, <1>8 DEF w, least
  <2>2. digits \in Seq(Characters) /\ Len(digits) \in Nat /\ Len(digits) >= 1 /\ digits[1] # "0"
    BY <1>2, <1>8 DEF IsNumeral
  <2>3. one \in Seq(Characters) /\ Len(one) = 1 /\ one[1] = "0"
    BY SmallTexts
  <2>4. numeral = Repeat("0", k) \o digits
    BY <1>3, <2>1 DEF NumberAs
  <2> HIDE DEF one
  <2>5. text \in Seq(Characters) /\ Len(text) = 1 + Len(digits)
    <3>1. one \in Seq(Characters) /\ digits \in Seq(Characters)
      BY <2>2, <2>3
    <3>2. one \o digits \in Seq(Characters) /\ Len(one \o digits) = Len(one) + Len(digits)
      BY <3>1
    <3> QED
      BY <2>1, <2>3, <3>2
  <2>6. k \in Int /\ l = k - 1 /\ l \in Int
    <3> DEFINE a == Len(digits)
               b == Len(text)
               p == fs.prec
    <3>1. a \in Nat /\ b = 1 + a /\ p \in Int /\ prec = p /\ k = p - a /\ l = prec - b
      BY <1>1, <2>1, <2>2, <2>5
    <3> HIDE DEF a, b, k, l, p, OctalText
    <3> QED
      BY <3>1
  <2> HIDE DEF k, l
  <2>7. Repeat("0", l) \in Seq(Characters)
    BY <2>6, ZeroFacts
  <2>8. CASE k <= 0
    <3>1. Repeat("0", k) = << >> /\ Repeat("0", l) = << >>
      <4>1. l <= 0
        BY <2>6, <2>8
      <4> QED
        BY <2>6, <2>8, <4>1, ZeroFacts
    <3>2. numeral = digits
      BY <2>2, <2>4, <3>1, EmptyFirst
    <3>3. IntegerDigits(d) = text
      BY <1>4, <2>1, <2>2, <3>2 DEF one
    <3>4. << >> \o text = text
      BY <2>5, EmptyFirst
    <3> QED
      BY <2>5, <2>7, <3>1, <3>3, <3>4 DEF l
  <2>9. CASE k > 0
    <3> DEFINE r == Repeat("0", k)
               s == Repeat("0", l)
    <3>1. r \in Seq(Characters) /\ Len(r) = k /\ \A j \in 1 .. Len(r) : r[j] = "0"
      BY <2>6, <2>9, ZeroFacts
    <3>2. s \o one = r
      <4>1. "0" \in Characters /\ k \in Nat \ {0}
        BY <2>6, <2>9, ZeroCharacter
      <4>2. Repeat("0", k - 1) \o << "0" >> = Repeat("0", k)
        BY <4>1, RepeatMore
      <4> QED
        BY <2>6, <4>2 DEF one
    <3>3. s \in Seq(Characters)
      BY <2>7
    <3> HIDE DEF r, s
    <3>4. (s \o one) \o digits = s \o (one \o digits)
      <4>1. one \in Seq(Characters) /\ digits \in Seq(Characters)
        BY <2>2, <2>3
      <4> QED
        BY <3>3, <4>1, Associative
    <3>5. s \o text = numeral
      BY <2>1, <2>4, <3>2, <3>4 DEF r
    <3>6. numeral # << >> /\ numeral[1] = "0"
      <4> DEFINE u == r \o digits
      <4>1. r \in Seq(Characters) /\ digits \in Seq(Characters)
        BY <2>2, <3>1
      <4>2. /\ u \in Seq(Characters) /\ Len(u) = Len(r) + Len(digits)
            /\ \A j \in 1 .. Len(r) : u[j] = r[j]
        BY <4>1, Joined
      <4> HIDE DEF u
      <4>3. 1 \in 1 .. Len(r) /\ Len(u) >= 1
        BY <2>2, <2>6, <2>9, <3>1, <4>2
      <4>4. u # << >>
        BY <4>2, <4>3
      <4>5. u[1] = "0"
        BY <3>1, <4>2, <4>3
      <4> QED
        BY <2>4, <4>4, <4>5 DEF u, r
    <3> QED
      BY <1>4, <2>5, <3>3, <3>5, <3>6 DEF s, l
  <2>10. k <= 0 \/ k > 0
    BY <2>6
  <2> QED
    BY <2>8, <2>9, <2>10
<1> QED
  BY <1>1, <1>6, <1>7, <1>8

LEMMA PartsOfUnsigned ==
  ASSUME NEW d, Proper(d), NEW fs, Means(fs, d), d.conv \in { "o", "u", "x", "X" }
  PROVE  Parts(fs, Convert(fs, d.val), d)
<1> DEFINE t == Convert(fs, d.val)
           v == Value(d)
           base == Base(d)
           alphabet == IF d.conv = "X" THEN Upper ELSE Lower
           w == Written(v, base, Least(d), alphabet)
           octal == d.conv = "o" /\ HasFlag(d, "#")
           text == IF octal /\ v # 0 THEN << "0" >> \o w ELSE w
           prefix == IF base = 16 /\ HasFlag(d, "#") /\ v # 0 THEN << "0", d.conv >> ELSE << >>
           prec == IF octal /\ v = 0 /\ Least(d) = 0 THEN 1 ELSE fs.prec
<1>1. fs.conv = d.conv /\ fs.mod = d.type /\ (fs.alt <=> HasFlag(d, "#"))
  BY DEF Means
<1>2. v = d.val % Power(2, BitsOf(d.type))
  BY DEF Value
<1>3. v \in Nat /\ v < Power(2, LongBits)
  <2> DEFINE word == d.val
             bits == BitsOf(d.type)
  <2>1. d.val \in Nat /\ d.type \in { "char", "short", "int", "long" }
    BY ItemFacts DEF Proper
  <2>2. bits \in Nat /\ bits <= LongBits
    BY <2>1, BitFacts
  <2> HIDE DEF word, bits
  <2>3. word % Power(2, bits) \in Nat /\ word % Power(2, bits) < Power(2, LongBits)
    BY <2>1, <2>2, UnsignedFacts DEF word
  <2> QED
    BY <1>2, <2>3 DEF word, bits
<1>4. /\ IsInteger(d) /\ base \in Bases /\ alphabet \in Cases
      /\ base = CASE d.conv = "o" -> 8 [] d.conv = "u" -> 10 [] OTHER -> 16
      /\ base = 16 <=> d.conv \in { "x", "X" }
  BY DEF IsInteger, Base, Bases, Cases
<1>5. NoDigits(fs, v) <=> v = 0 /\ Least(d) = 0
  <2> HIDE DEF v
  <2>1. fs.precOpt = "literal" /\ fs.prec = 0 <=> Least(d) = 0
    BY LeastFacts
  <2> QED
    BY <2>1 DEF NoDigits
<1> HIDE DEF v, base
<1>6. t = [ Plain EXCEPT !.text = text, !.prefix = prefix, !.zero = v = 0 ]
  <2>1. t = ConvertUnsigned(fs, d.val)
    BY <1>1 DEF Convert
  <2>2. base = CASE fs.conv = "o" -> 8 [] fs.conv = "u" -> 10 [] OTHER -> 16
    BY <1>1, <1>4
  <2>3. v = d.val % Power(2, BitsOf(fs.mod))
    BY <1>1, <1>2
  <2>4. (IF NoDigits(fs, v) THEN << >>
         ELSE Digits(v, base, IF fs.conv = "X" THEN Upper ELSE Lower)) = w
    BY <1>1, <1>5 DEF Written
  <2> HIDE DEF w
  <2> QED
    BY <1>1, <2>1, <2>2, <2>3, <2>4 DEF ConvertUnsigned
<1>7. t.text = text /\ t.sign = << >> /\ t.prefix = prefix /\ (t.zero <=> v = 0)
  <2> HIDE DEF text, prefix
  <2> QED
    BY <1>6 DEF Plain
<1>8. EffectivePrec(fs, t) = prec
  <2>1. fs.precOpt = "literal" /\ fs.prec = 0 <=> Least(d) = 0
    BY LeastFacts
  <2> HIDE DEF t
  <2> QED
    BY <1>1, <1>7, <2>1 DEF EffectivePrec
<1>9. Zeros(fs, t) = Repeat("0", prec - Len(text))
  <2> HIDE DEF t, prec, text
  <2> QED
    BY <1>1, <1>7, <1>8 DEF Zeros
<1>10. Sign(d) = << >>
  BY DEF Sign
<1>11. Prefix(d) = prefix
  BY <1>4 DEF Prefix, v
<1>12. prefix \in Seq(Characters)
  <2>1. prefix \in { << >>, << "0", "x" >>, << "0", "X" >> }
    BY <1>4
  <2> QED
    BY <2>1, SmallTexts
<1>13. /\ text \in Seq(Characters) /\ Repeat("0", prec - Len(text)) \in Seq(Characters)
       /\ Repeat("0", prec - Len(text)) \o text = IntegerDigits(d)
  <2>1. CASE octal
    <3>1. base = 8 /\ alphabet = Lower
      BY <1>4, <2>1
    <3>2. text = IF v # 0 THEN << "0" >> \o Written(v, 8, Least(d), Lower)
                 ELSE Written(v, 8, Least(d), Lower)
      BY <2>1, <3>1
    <3>3. prec = IF v = 0 /\ Least(d) = 0 THEN 1 ELSE fs.prec
      BY <2>1
    <3>4. d.conv = "o" /\ HasFlag(d, "#") /\ v = Value(d)
      BY <2>1 DEF v
    <3>5. OctalText(text, prec, v, d, fs)
      BY <3>2, <3>3 DEF OctalText
    <3> HIDE DEF text, prec, octal
    <3>6. OctalField(text, prec, d)
      BY <1>3, <3>4, <3>5, OctalDigits
    <3> QED
      BY <3>6 DEF OctalField
  <2>2. CASE ~octal
    <3>1. text = w /\ prec = fs.prec
      BY <2>2
    <3>2. IntegerDigits(d) = Numeral(v, base, Least(d), alphabet)
      <4>1. ~(v < 0)
        BY <1>3
      <4>2. IntegerDigits(d) = Numeral(IF v < 0 THEN -v ELSE v, base, Least(d), alphabet)
        BY <2>2 DEF IntegerDigits, Least, v, base
      <4> QED
        BY <4>1, <4>2
    <3> HIDE DEF text, prec, octal, alphabet
    <3>3. NumberAs(Written(v, base, Least(d), alphabet), fs.prec, Numeral(v, base, Least(d), alphabet))
      BY <1>3, <1>4, NumberParts
    <3> QED
      BY <3>1, <3>2, <3>3 DEF NumberAs
  <2> QED
    BY <2>1, <2>2
<1> HIDE DEF t, text, prefix, prec
<1> QED
  <2>1. /\ t.text \in Seq(Characters) /\ Zeros(fs, t) \in Seq(Characters)
        /\ t.sign \in Seq(Characters) /\ t.prefix \in Seq(Characters)
    BY <1>7, <1>9, <1>12, <1>13, SmallTexts
  <2>2. /\ t.sign = Sign(d) /\ t.prefix = Prefix(d) /\ t.sign = << >>
        /\ Zeros(fs, t) \o t.text = IntegerDigits(d)
    BY <1>7, <1>9, <1>10, <1>11, <1>13
  <2>3. Parts(fs, t, d)
    BY <1>4, <2>1, <2>2, NumberField
  <2> QED
    BY <2>3 DEF t

-----------------------------------------------------------------------------
LEMMA NotInteger ==
  ASSUME NEW d, Proper(d), NEW fs, Means(fs, d), d.conv \in { "c", "s", "p", "%" }
  PROVE  /\ ~IsInteger(d) /\ Sign(d) = << >> /\ Prefix(d) = << >> /\ fs.conv = d.conv
         /\ d.conv # "s" => ~PrecisionGiven(d) /\ fs.prec \in Int /\ fs.prec <= 0
<1>1. ~IsInteger(d) /\ Sign(d) = << >> /\ Prefix(d) = << >> /\ fs.conv = d.conv
  BY DEF IsInteger, Sign, Prefix, Means
<1>2. d.conv # "s" => d.prec = << >>
  BY DEF Proper, Defined
<1> QED
  BY <1>1, <1>2 DEF PrecisionGiven, Means

LEMMA TextField ==
  ASSUME NEW d, ~IsInteger(d), Sign(d) = << >>, Prefix(d) = << >>, NEW fs, NEW t,
         NEW prefix \in Seq(Characters), NEW text \in Seq(Characters),
         t.prefix = prefix, t.sign = << >>, t.text = text, Zeros(fs, t) = << >>,
         Body(d) = prefix \o text
  PROVE  Parts(fs, t, d)
<1>1. << >> \o << >> = << >> /\ << >> \in Seq(Characters)
  BY SmallTexts, EmptyFirst
<1>2. prefix \o << >> = prefix /\ << >> \o text = text
  BY EmptyFirst
<1>3. prefix \o text \in Seq(Characters)
  OBVIOUS
<1>4. << >> \o (prefix \o text) = prefix \o text
  BY <1>3, EmptyFirst
<1> QED
  BY <1>1, <1>2, <1>3, <1>4 DEF Parts

LEMMA PartsOfPointer ==
  ASSUME NEW d, Proper(d), NEW fs, Means(fs, d), d.conv = "p"
  PROVE  Parts(fs, Convert(fs, d.val), d)
<1> DEFINE t == Convert(fs, d.val)
           v == d.val
           text == Digits(v, 16, Lower)
           numeral == Numeral(v, 16, 1, Lower)
           prefix == << "0", "x" >>
           base == 16
           alphabet == Lower
           least == 1
<1>1. v \in Nat /\ v < Power(2, LongBits)
  BY ItemFacts DEF Proper
<1>2. /\ ~IsInteger(d) /\ Sign(d) = << >> /\ Prefix(d) = << >> /\ fs.conv = "p"
      /\ fs.prec \in Int /\ fs.prec <= 0
  BY NotInteger
<1>3. t = [ Plain EXCEPT !.text = text, !.prefix = prefix ]
  BY <1>2 DEF Convert
<1> HIDE DEF v
<1>4. IsNumeral(text, v, 1, numeral)
  <2>1. base \in Bases /\ alphabet \in Cases /\ least \in Nat
    BY DEF Bases, Cases
  <2> HIDE DEF base, alphabet, least
  <2>2. IsNumeral(Digits(v, base, alphabet), v, least, Numeral(v, base, least, alphabet))
    BY <1>1, <2>1, DigitsAsISO
  <2> QED
    BY <2>2 DEF base, alphabet, least
<1> HIDE DEF text, numeral, prefix
<1>5. t.text = text /\ t.sign = << >> /\ t.prefix = prefix /\ (t.zero <=> FALSE)
  BY <1>3 DEF Plain
<1> HIDE DEF t
<1>6. text \in Seq(Characters) /\ Len(text) \in Nat /\ Len(text) >= 1 /\ prefix \in Seq(Characters)
  <2>1. text \in Seq(Characters) /\ Len(text) >= 1
    BY <1>4 DEF IsNumeral
  <2>2. prefix \in Seq(Characters)
    BY SmallTexts DEF prefix
  <2> QED
    BY <2>1, <2>2
<1>7. Zeros(fs, t) = << >>
  <2> DEFINE k == fs.prec - Len(text)
  <2>1. k \in Int /\ k <= 0
    BY <1>2, <1>6
  <2>2. Zeros(fs, t) = Repeat("0", k)
    BY <1>2, <1>5 DEF Zeros, EffectivePrec
  <2> HIDE DEF k
  <2> QED
    BY <2>1, <2>2, ZeroFacts
<1>8. Body(d) = prefix \o text
  <2>1. Body(d) = prefix \o numeral
    BY <1>2 DEF Body, v, numeral, prefix
  <2>2. numeral = text
    <3> DEFINE k == 1 - Len(text)
    <3>1. k \in Int /\ k <= 0
      BY <1>6
    <3>2. numeral = Repeat("0", k) \o text
      BY <1>4 DEF IsNumeral
    <3> HIDE DEF k
    <3>3. Repeat("0", k) = << >>
      BY <3>1, ZeroFacts
    <3> QED
      BY <1>6, <3>2, <3>3, EmptyFirst
  <2> QED
    BY <2>1, <2>2
<1>9. Parts(fs, t, d)
  BY <1>2, <1>5, <1>6, <1>7, <1>8, TextField
<1> QED
  BY <1>9 DEF t

\* A character or a "%".
LEMMA PartsOfOne ==
  ASSUME NEW d, Proper(d), NEW fs, Means(fs, d), d.conv \in { "c", "%" }, NEW word,
         d.conv = "c" => word = d.val
  PROVE  Parts(fs, Convert(fs, word), d)
<1> DEFINE t == Convert(fs, word)
           text == IF d.conv = "c" THEN << Character(word) >> ELSE << "%" >>
           none == << >>
<1>1. /\ ~IsInteger(d) /\ Sign(d) = << >> /\ Prefix(d) = << >> /\ fs.conv = d.conv
      /\ fs.prec \in Int /\ fs.prec <= 0
  BY NotInteger
<1>2. t = [ Plain EXCEPT !.text = text ]
  BY <1>1 DEF Convert
<1>3. text \in Seq(Characters) /\ Len(text) = 1
  <2>1. CASE d.conv = "%"
    <3>1. text = << "%" >>
      BY <2>1
    <3> QED
      BY <3>1, SmallTexts
  <2>2. CASE d.conv = "c"
    <3> DEFINE m == Power(2, CharBits)
               low == word % m
               k == low % 16
    <3>1. d.val \in Nat
      BY ItemFacts DEF Proper
    <3>2. m \in Nat \ {0}
      BY BitFacts, HalfPower
    <3> HIDE DEF m
    <3>3. low \in Nat
      BY <2>2, <3>1, <3>2, Division
    <3> HIDE DEF low
    <3>4. k + 1 \in 1 .. 16
      BY <3>3
    <3>5. Lower[k + 1] \in Characters
      BY <3>4, CharacterAssumption
    <3>6. text = << Lower[k + 1] >>
      BY <2>2 DEF Character, k, low, m
    <3> HIDE DEF k, text
    <3> QED
      BY <3>5, <3>6
  <2> QED
    BY <2>1, <2>2
<1>4. Body(d) = text
  BY <1>1 DEF Body
<1> HIDE DEF text
<1>5. t.text = text /\ t.sign = << >> /\ t.prefix = << >> /\ (t.zero <=> FALSE)
  BY <1>2 DEF Plain
<1> HIDE DEF t
<1>6. Zeros(fs, t) = << >>
  <2> DEFINE k == fs.prec - Len(text)
  <2>1. k \in Int /\ k <= 0
    BY <1>1, <1>3
  <2>2. Zeros(fs, t) = Repeat("0", k)
    BY <1>1, <1>5 DEF Zeros, EffectivePrec
  <2> HIDE DEF k
  <2> QED
    BY <2>1, <2>2, ZeroFacts
<1>7. Body(d) = none \o text /\ none \in Seq(Characters)
  BY <1>3, <1>4, EmptyFirst, SmallTexts
<1> HIDE DEF none
<1>8. t.prefix = none
  BY <1>5 DEF none
<1>9. Parts(fs, t, d)
  BY <1>1, <1>3, <1>5, <1>6, <1>7, <1>8, TextField
<1> QED
  BY <1>9 DEF t

LEMMA PartsOfText ==
  ASSUME NEW d, Proper(d), NEW fs, Means(fs, d), d.conv = "s"
  PROVE  Parts(fs, Convert(fs, d.val), d)
<1> DEFINE t == Convert(fs, d.val)
           s == Strings[d.val]
           text == SubSeq(s, 1, StringLength(fs, s))
           none == << >>
<1>1. /\ ~IsInteger(d) /\ Sign(d) = << >> /\ Prefix(d) = << >> /\ fs.conv = "s"
  BY NotInteger
<1>2. t = [ Plain EXCEPT !.text = text ]
  BY <1>1 DEF Convert
<1>3. s \in Seq(Characters)
  <2>1. d.val \in DOMAIN Strings
    BY ItemFacts DEF Proper
  <2> QED
    BY <2>1, CharacterFacts
<1>4. Body(d) = IF PrecisionGiven(d) THEN SubSeq(s, 1, Min({ Len(s), d.prec[1] })) ELSE s
  BY <1>1 DEF Body
<1> HIDE DEF s
<1>5. /\ Least(d) \in Nat /\ (PrecisionGiven(d) => fs.prec = Least(d) /\ d.prec[1] = Least(d))
      /\ fs.precOpt = IF PrecisionGiven(d) THEN "literal" ELSE "none"
  BY LeastFacts DEF Means, Least
<1>6. Len(s) \in Nat
  BY <1>3
<1>7. StringLength(fs, s) = IF PrecisionGiven(d) /\ Least(d) < Len(s) THEN Least(d) ELSE Len(s)
  BY <1>5, <1>6 DEF StringLength
<1>8. Min({ Len(s), Least(d) }) = IF Least(d) < Len(s) THEN Least(d) ELSE Len(s)
  <2> DEFINE a == Len(s)
             b == Least(d)
             S == { a, b }
             r == IF b < a THEN b ELSE a
  <2>1. a \in Nat /\ b \in Nat
    BY <1>5, <1>6
  <2> HIDE DEF a, b
  <2>2. r \in S /\ \A x \in S : r <= x
    BY <2>1
  <2>3. \A y \in S : (\A x \in S : y <= x) => y = r
    BY <2>1
  <2> HIDE DEF S, r
  <2>4. (CHOOSE y \in S : \A x \in S : y <= x) = r
    BY <2>2, <2>3
  <2> QED
    BY <2>4 DEF Min, S, r, a, b
<1>9. SubSeq(s, 1, Len(s)) = s
  BY <1>3
<1>10. Body(d) = text
  <2> HIDE DEF text
  <2>1. CASE PrecisionGiven(d)
    BY <1>4, <1>5, <1>7, <1>8, <2>1 DEF text
  <2>2. CASE ~PrecisionGiven(d)
    BY <1>4, <1>7, <1>9, <2>2 DEF text
  <2> QED
    BY <2>1, <2>2
<1>11. text \in Seq(Characters)
  <2> DEFINE k == StringLength(fs, s)
  <2>1. k \in 0 .. Len(s)
    BY <1>5, <1>6, <1>7
  <2> HIDE DEF k
  <2>2. SubSeq(s, 1, k) \in Seq(Characters)
    BY <1>3, <2>1
  <2> QED
    BY <2>2 DEF k
<1> HIDE DEF text
<1>12. t.text = text /\ t.sign = << >> /\ t.prefix = << >>
  BY <1>2 DEF Plain
<1> HIDE DEF t
<1>13. Zeros(fs, t) = << >>
  BY <1>1 DEF Zeros
<1>14. Body(d) = none \o text /\ none \in Seq(Characters)
  BY <1>10, <1>11, EmptyFirst, SmallTexts
<1> HIDE DEF none
<1>15. t.prefix = none
  BY <1>12 DEF none
<1>16. Parts(fs, t, d)
  BY <1>1, <1>11, <1>12, <1>13, <1>14, <1>15, TextField
<1> QED
  BY <1>16 DEF t

\* A directive prints what C says, for every flag, width, precision and value.
LEMMA FieldIsItem ==
  ASSUME NEW d, Proper(d), NEW fs, Means(fs, d), NEW word,
         d.conv # "%" => word = d.val
  PROVE  Field(fs, Convert(fs, word)) = ExpectedItem(d) /\ ExpectedItem(d) \in Seq(Characters)
<1>1. d.conv \in Conversions
  BY ItemFacts DEF Proper
<1>2. CASE d.conv \in { "d", "i" }
  BY <1>2, PartsOfSigned, Assembled
<1>3. CASE d.conv \in { "o", "u", "x", "X" }
  BY <1>3, PartsOfUnsigned, Assembled
<1>4. CASE d.conv = "p"
  BY <1>4, PartsOfPointer, Assembled
<1>5. CASE d.conv \in { "c", "%" }
  <2>1. d.conv = "c" => word = d.val
    OBVIOUS
  <2> QED
    BY <1>5, <2>1, PartsOfOne, Assembled
<1>6. CASE d.conv = "s"
  BY <1>6, PartsOfText, Assembled
<1> QED
  BY <1>1, <1>2, <1>3, <1>4, <1>5, <1>6 DEF Conversions

-----------------------------------------------------------------------------
(* Texts made from pieces *)

\* g[k] is the first k pieces of S.
IsJoins(g, S, X) ==
  /\ g \in [0 .. Len(S) -> Seq(X)] /\ g[0] = << >>
  /\ \A k \in 1 .. Len(S) : g[k] = g[k - 1] \o S[k]
Joins(S, X) == CHOOSE g : IsJoins(g, S, X)
Offset(S, X, k) == Len(Joins(S, X)[k])

\* s is in whole, behind its first p elements.
Within(whole, p, s) ==
  p + Len(s) <= Len(whole) /\ \A j \in 1 .. Len(s) : whole[p + j] = s[j]

Laid(S, X, whole) ==
  /\ whole \in Seq(X)
  /\ Offset(S, X, 0) = 0 /\ Offset(S, X, Len(S)) = Len(whole)
  /\ \A k \in 0 .. Len(S) : Offset(S, X, k) \in Nat
  /\ \A k \in 1 .. Len(S) : /\ Offset(S, X, k) = Offset(S, X, k - 1) + Len(S[k])
                            /\ Within(whole, Offset(S, X, k - 1), S[k])

LEMMA JoinsExist ==
  ASSUME NEW X, NEW S \in Seq(Seq(X))
  PROVE  IsJoins(Joins(S, X), S, X)
<1> DEFINE N == Len(S)
           Y == Seq(X)
           none == << >>
           F == [a \in Y \X (1 .. N) |-> a[1] \o S[a[2]]]
<1>1. N \in Nat /\ none \in Y
  OBVIOUS
<1>2. \A s \in Y, k \in 1 .. N : s \o S[k] \in Y
  OBVIOUS
<1>3. F \in [Y \X (1 .. N) -> Y] /\ \A s \in Y, k \in 1 .. N : F[<< s, k >>] = s \o S[k]
  <2> HIDE DEF Y, N
  <2> QED
    BY <1>2
<1> HIDE DEF F, Y, N, none
<1>4. PICK g : g \in States(F, none, N, Y)
  <2>1. States(F, none, N, Y) # {}
    BY <1>1, <1>3, LoopExists
  <2> QED
    BY <2>1
<1>5. /\ g \in [0 .. N -> Y] /\ g[0] = none
      /\ \A k \in 1 .. N : g[k] = F[<< g[k - 1], k >>]
  BY <1>4 DEF States
<1>6. \A k \in 1 .. N : g[k] = g[k - 1] \o S[k]
  <2>1. \A k \in 1 .. N : g[k - 1] \in Y
    BY <1>1, <1>5
  <2> QED
    BY <1>3, <1>5, <2>1
<1>7. IsJoins(g, S, X)
  BY <1>5, <1>6 DEF IsJoins, N, Y, none
<1> QED
  BY <1>7 DEF Joins

LEMMA Flattened ==
  ASSUME NEW X, NEW S \in Seq(Seq(X))
  PROVE  FlattenSeq(S) = Joins(S, X)[Len(S)]
<1> DEFINE N == Len(S)
           g == Joins(S, X)
           Is(h) == h = [k \in 1 .. N |-> IF k = 1 THEN S[k] ELSE h[k - 1] \o S[k]]
           f == CHOOSE h : Is(h)
<1>1. /\ g \in [0 .. N -> Seq(X)] /\ g[0] = << >>
      /\ \A k \in 1 .. N : g[k] = g[k - 1] \o S[k]
  BY JoinsExist DEF IsJoins
<1>2. N \in Nat
  OBVIOUS
<1>3. CASE N = 0
  BY <1>1, <1>3 DEF FlattenSeq
<1>4. CASE N # 0
  <2>1. FlattenSeq(S) = f[N]
    BY <1>4 DEF FlattenSeq
  <2> HIDE DEF g, f
  <2> DEFINE r == [k \in 1 .. N |-> g[k]]
  <2>2. g[1] = S[1]
    <3>1. 1 \in 1 .. N /\ 1 - 1 = 0 /\ S[1] \in Seq(X)
      BY <1>2, <1>4
    <3>2. << >> \o S[1] = S[1]
      BY <3>1
    <3>3. g[1] = g[0] \o S[1]
      BY <1>1, <3>1
    <3> QED
      BY <1>1, <3>2, <3>3
  <2>3. \A k \in 1 .. N : k # 1 => k - 1 \in 1 .. N
    BY <1>2
  <2>4. Is(r)
    <3>1. \A k \in 1 .. N : r[k] = IF k = 1 THEN S[k] ELSE r[k - 1] \o S[k]
      <4> HIDE DEF N
      <4> QED
        BY <1>1, <2>2, <2>3
    <3>2. r = [k \in 1 .. N |-> r[k]]
      OBVIOUS
    <3> HIDE DEF r, N
    <3> QED
      BY <3>1, <3>2
  <2>5. Is(f)
    <3> HIDE DEF Is
    <3> QED
      BY <2>4 DEF f
  <2> HIDE DEF r
  <2>6. \A k \in 1 .. N : f[k] = IF k = 1 THEN S[k] ELSE f[k - 1] \o S[k]
    <3> HIDE DEF N
    <3> QED
      BY <2>5
  <2> DEFINE G == {k \in 0 .. N : k # 0 => f[k] = g[k]}
  <2>7. 0 \in G
    BY <1>2
  <2>8. ASSUME NEW k \in 1 .. N, k - 1 \in G PROVE k \in G
    <3>1. k \in 0 .. N
      BY <1>2
    <3>2. CASE k = 1
      BY <2>2, <2>6, <3>1, <3>2
    <3>3. CASE k # 1
      <4>1. k - 1 # 0 /\ f[k - 1] = g[k - 1]
        BY <2>8, <3>3
      <4>2. f[k] = f[k - 1] \o S[k] /\ g[k] = g[k - 1] \o S[k]
        BY <1>1, <2>6, <3>3
      <4> QED
        BY <3>1, <4>1, <4>2
    <3> QED
      BY <3>2, <3>3
  <2> HIDE DEF G, N
  <2>9. \A k \in 0 .. N : k \in G
    BY <1>2, <2>7, <2>8, CountUp
  <2>10. f[N] = g[N]
    <3>1. N \in 0 .. N
      BY <1>2
    <3> QED
      BY <1>4, <2>9, <3>1 DEF G
  <2> QED
    BY <2>1, <2>10 DEF N, g
<1> QED
  BY <1>3, <1>4

LEMMA PiecesLaid ==
  ASSUME NEW X, NEW S \in Seq(Seq(X))
  PROVE  Laid(S, X, FlattenSeq(S))
<1> DEFINE N == Len(S)
           g == Joins(S, X)
           whole == FlattenSeq(S)
<1>1. /\ g \in [0 .. N -> Seq(X)] /\ g[0] = << >>
      /\ \A k \in 1 .. N : g[k] = g[k - 1] \o S[k]
  BY JoinsExist DEF IsJoins
<1>2. N \in Nat /\ \A k \in 1 .. N : S[k] \in Seq(X)
  OBVIOUS
<1>3. whole = g[N]
  BY Flattened
<1>4. \A k \in 0 .. N : Offset(S, X, k) = Len(g[k])
  BY DEF Offset
<1> HIDE DEF N, g, whole
<1>5. \A k \in 0 .. N : g[k] \in Seq(X) /\ Len(g[k]) \in Nat
  BY <1>1
<1>6. ASSUME NEW k \in 1 .. N
      PROVE  /\ Len(g[k]) = Len(g[k - 1]) + Len(S[k])
             /\ \A j \in 1 .. Len(g[k - 1]) : g[k][j] = g[k - 1][j]
             /\ \A j \in 1 .. Len(S[k]) : g[k][Len(g[k - 1]) + j] = S[k][j]
  <2> DEFINE a == g[k - 1]
             b == S[k]
  <2>1. a \in Seq(X) /\ b \in Seq(X)
    BY <1>2, <1>5
  <2>2. g[k] = a \o b
    BY <1>1
  <2> HIDE DEF a, b
  <2>3. /\ Len(a \o b) = Len(a) + Len(b)
        /\ \A j \in 1 .. Len(a) : (a \o b)[j] = a[j]
        /\ \A j \in 1 .. Len(b) : (a \o b)[Len(a) + j] = b[j]
    BY <2>1, Joined
  <2> QED
    BY <2>2, <2>3 DEF a, b
\* Every part is a beginning of the whole.
<1> DEFINE Starts(s) == Len(s) <= Len(whole) /\ \A j \in 1 .. Len(s) : whole[j] = s[j]
           G == {k \in 0 .. N : Starts(g[N - k])}
<1>7. 0 \in G
  BY <1>2, <1>3, <1>5
<1>8. ASSUME NEW k \in 1 .. N, k - 1 \in G PROVE k \in G
  <2> DEFINE l == N - k
             m == N - (k - 1)
  <2>1. l \in 0 .. N /\ m \in 1 .. N /\ m \in 0 .. N /\ m - 1 = l /\ k \in 0 .. N
    BY <1>2
  <2>2. Starts(g[m])
    BY <1>8
  <2> HIDE DEF l, m
  <2>3. /\ Len(g[m]) = Len(g[l]) + Len(S[m])
        /\ \A j \in 1 .. Len(g[l]) : g[m][j] = g[l][j]
    BY <1>6, <2>1
  <2>4. Len(g[l]) \in Nat /\ Len(g[m]) \in Nat /\ Len(S[m]) \in Nat
    BY <1>2, <1>5, <2>1
  <2>7. Len(g[m]) = Len(g[l]) + Len(S[m])
    BY <2>3
  <2>5. \A j \in 1 .. Len(g[l]) : j \in 1 .. Len(g[m])
    <3> DEFINE a == Len(g[l])
               b == Len(g[m])
               e == Len(S[m])
    <3>1. a \in Nat /\ b \in Nat /\ e \in Nat /\ b = a + e
      BY <2>4, <2>7
    <3> HIDE DEF a, b, e
    <3>2. \A j \in 1 .. a : j \in 1 .. b
      BY <3>1
    <3> QED
      BY <3>2 DEF a, b
  <2>6. Starts(g[l])
    <3>0. Len(whole) \in Nat
      BY <1>2, <1>3, <1>5
    <3>3. Len(g[m]) <= Len(whole)
      BY <2>2
    <3>1. Len(g[l]) <= Len(whole)
      <4> DEFINE a == Len(g[l])
                 b == Len(g[m])
                 e == Len(S[m])
                 z == Len(whole)
      <4>1. a \in Nat /\ b \in Nat /\ e \in Nat /\ z \in Nat /\ b = a + e /\ b <= z
        BY <2>4, <2>7, <3>0, <3>3
      <4> HIDE DEF a, b, e, z, Starts
      <4>2. a <= z
        BY <4>1
      <4> QED
        BY <4>2 DEF a, z
    <3>2. \A j \in 1 .. Len(g[l]) : whole[j] = g[l][j]
      BY <2>2, <2>3, <2>5
    <3> QED
      BY <3>1, <3>2
  <2> QED
    BY <2>1, <2>6 DEF l
<1> HIDE DEF G
<1>9. \A k \in 0 .. N : k \in G
  BY <1>2, <1>7, <1>8, CountUp
<1>10. \A k \in 0 .. N : Starts(g[k])
  <2> SUFFICES ASSUME NEW k \in 0 .. N PROVE Starts(g[k])
    OBVIOUS
  <2>1. N - k \in 0 .. N /\ N - (N - k) = k
    BY <1>2
  <2>2. N - k \in G
    BY <1>9, <2>1
  <2>3. Starts(g[N - (N - k)])
    BY <2>2 DEF G
  <2> HIDE DEF Starts
  <2> QED
    BY <2>1, <2>3
<1>11. ASSUME NEW k \in 1 .. N PROVE Within(whole, Len(g[k - 1]), S[k])
  <2> DEFINE l == k - 1
  <2>1. l \in 0 .. N /\ k \in 0 .. N
    BY <1>2
  <2>2. /\ Len(g[k]) = Len(g[l]) + Len(S[k])
        /\ \A j \in 1 .. Len(S[k]) : g[k][Len(g[l]) + j] = S[k][j]
    BY <1>6
  <2>3. Starts(g[k])
    BY <1>10, <2>1
  <2> HIDE DEF l
  <2>4. Len(g[l]) \in Nat /\ Len(S[k]) \in Nat
    BY <1>2, <1>5, <2>1
  <2>5. \A j \in 1 .. Len(S[k]) : Len(g[l]) + j \in 1 .. Len(g[k])
    <3> DEFINE a == Len(g[l])
               b == Len(g[k])
               e == Len(S[k])
    <3>1. a \in Nat /\ e \in Nat /\ b = a + e
      BY <2>2, <2>4
    <3> HIDE DEF a, b, e
    <3>2. \A j \in 1 .. e : a + j \in 1 .. b
      BY <3>1
    <3> QED
      BY <3>2 DEF a, b, e
  <2>6. Within(whole, Len(g[l]), S[k])
    BY <2>2, <2>3, <2>5 DEF Within
  <2> QED
    BY <2>6 DEF l
<1>12. whole \in Seq(X) /\ Offset(S, X, 0) = 0 /\ Offset(S, X, N) = Len(whole)
  <2>1. 0 \in 0 .. N /\ N \in 0 .. N /\ Len(<< >>) = 0
    BY <1>2
  <2> QED
    BY <1>1, <1>3, <1>4, <1>5, <2>1
<1>13. \A k \in 1 .. N : k - 1 \in 0 .. N /\ k \in 0 .. N
  BY <1>2
<1>14. \A k \in 1 .. N : /\ Offset(S, X, k) = Offset(S, X, k - 1) + Len(S[k])
                         /\ Within(whole, Offset(S, X, k - 1), S[k])
  BY <1>4, <1>6, <1>11, <1>13
<1>15. \A k \in 0 .. N : Offset(S, X, k) \in Nat
  BY <1>4, <1>5
<1> QED
  BY <1>12, <1>14, <1>15 DEF Laid, N, whole

-----------------------------------------------------------------------------
(* The parser *)

LEMMA MinIs ==
  ASSUME NEW S, S \subseteq Nat, S # {}
  PROVE  Min(S) \in S /\ \A k \in S : Min(S) <= k
<1>1. \E x \in S : \A y \in S : x <= y
  BY LeastNumber
<1> QED
  BY <1>1 DEF Min

IsSkip(k, j, S) == CharAt(k) \notin S /\ \A l \in j .. k - 1 : CharAt(l) \in S

LEMMA SkipStops ==
  ASSUME format \in Seq(Characters), NEW j \in Nat \ {0}, NEW k \in j .. Len(format) + 1, NEW S,
         CharAt(k) \notin S
  PROVE  Skip(j, S) \in j .. k /\ IsSkip(Skip(j, S), j, S)
<1> DEFINE T == { l \in j .. Len(format) + 1 : CharAt(l) \notin S }
           m == Min(T)
<1>0. Len(format) \in Nat
  OBVIOUS
<1>1. T \subseteq Nat /\ k \in T
  BY <1>0
<1>2. Skip(j, S) = m
  BY DEF Skip
<1>3. m \in T /\ \A l \in T : m <= l
  <2> HIDE DEF T
  <2> QED
    BY <1>1, MinIs
<1> HIDE DEF m
<1>4. m \in j .. k /\ CharAt(m) \notin S
  BY <1>0, <1>1, <1>3
<1>5. \A l \in j .. m - 1 : CharAt(l) \in S
  <2> SUFFICES ASSUME NEW l \in j .. m - 1, CharAt(l) \notin S PROVE FALSE
    OBVIOUS
  <2>1. l \in j .. Len(format) + 1 /\ ~(m <= l)
    BY <1>0, <1>4
  <2>2. l \in T
    BY <2>1
  <2> QED
    BY <1>3, <2>1, <2>2
<1> QED
  BY <1>2, <1>4, <1>5 DEF IsSkip

LEMMA SkipIs ==
  ASSUME format \in Seq(Characters), NEW j \in Nat \ {0}, NEW k \in j .. Len(format) + 1, NEW S,
         IsSkip(k, j, S)
  PROVE  Skip(j, S) = k
<1> DEFINE m == Skip(j, S)
<1>1. m \in j .. k /\ IsSkip(m, j, S)
  BY SkipStops DEF IsSkip
<1> HIDE DEF m
<1>2. k \in Nat /\ m \in Nat
  BY <1>1
<1>3. ~(m < k)
  <2> SUFFICES ASSUME m < k PROVE FALSE
    OBVIOUS
  <2>1. m \in j .. k - 1
    BY <1>1, <1>2
  <2> QED
    BY <1>1, <2>1 DEF IsSkip
<1> QED
  BY <1>1, <1>2, <1>3 DEF m

LEMMA NumberNone ==
  ASSUME NEW j \in Nat
  PROVE  Number(j, j) = 0
<1> DEFINE Is(g) == g = [k \in j .. j |-> IF k = j THEN 0
                                       ELSE 10 * g[k - 1] + DigitValue(CharAt(k - 1))]
           f == CHOOSE g : Is(g)
           z == [k \in j .. j |-> 0]
<1>1. Number(j, j) = f[j]
  BY DEF Number
<1>2. Is(z)
  OBVIOUS
<1>3. Is(f)
  <2> HIDE DEF Is, z
  <2> QED
    BY <1>2 DEF f
<1> HIDE DEF f
<1>4. f[j] = 0
  BY <1>3
<1> QED
  BY <1>1, <1>4

\* The decimal numeral of a number that is not zero.
IsDecimal(s, v) ==
  /\ s \in Seq(DigitChars) /\ Len(s) \in Nat \ {0}
  /\ s[1] # "0" /\ v < Power(10, Len(s))
  /\ \A l \in 1 .. Len(s) : DigitValue(s[l]) = (v \div Power(10, Len(s) - l)) % 10

LEMMA DecimalIs ==
  ASSUME NEW v \in Counts \ {0}
  PROVE  IsDecimal(Decimal(v), v)
<1> DEFINE ten == 10
           d == Digits(v, ten, Lower)
<1>0. /\ ten \in Bases /\ Lower \in Cases /\ ten \in Nat \ {0} /\ ten >= 8 /\ ten = 10
      /\ v \in Nat \ {0} /\ v < Power(2, LongBits) /\ 1 \in Nat
  BY IntsFacts DEF Bases, Cases
<1> HIDE DEF ten
<1>1. IsAlphabet(Lower, ten, Characters) /\ "0" \in Characters
  BY <1>0, Alphabets, CharacterFacts DEF FlagChars
<1>2. IsNumeral(d, v, 1, Decimal(v))
  BY <1>0, DigitsAsISO DEF Decimal
<1>3. PICK m : Places(v, ten, m)
  BY <1>0, NumeralIs
<1>4. d = NumeralOf(v, ten, m, Lower)
  BY <1>0, <1>1, <1>3, DigitsAreNumeral
<1>5. m \in Nat
  BY <1>3 DEF Places
<1>6. HasPlaces(d, v, ten, m, Lower)
  BY <1>0, <1>4, <1>5, NumeralElements
<1> HIDE DEF d
<1>7. d \in Seq(Characters) /\ Len(d) \in Nat \ {0} /\ d[1] # "0" /\ Len(d) = m
  BY <1>0, <1>2, <1>6 DEF IsNumeral, HasPlaces
<1>8. Decimal(v) = d
  <2> DEFINE z == 1 - Len(d)
  <2>1. z \in Int /\ z <= 0
    BY <1>7
  <2>2. Decimal(v) = Repeat("0", z) \o d
    BY <1>0, <1>2 DEF IsNumeral
  <2> HIDE DEF z
  <2>3. Repeat("0", z) = << >>
    BY <1>1, <2>1, RepeatFacts
  <2>4. << >> \o d = d
    BY <1>7
  <2> QED
    BY <2>2, <2>3, <2>4
<1>9. v < Power(ten, m)
  BY <1>0, <1>3, <1>5, PowerFacts DEF Places
<1>10. ASSUME NEW l \in 1 .. m
       PROVE  d[l] \in DigitChars /\ DigitValue(d[l]) = (v \div Power(ten, m - l)) % ten
  <2> DEFINE e == m - l
             p == Power(ten, e)
             x == (v \div p) % ten
  <2>1. e \in Nat
    BY <1>5
  <2>2. d[l] = Lower[x + 1]
    BY <1>6 DEF HasPlaces
  <2> HIDE DEF e
  <2>3. p \in Nat \ {0}
    <3>1. p \in Nat /\ p >= 1
      BY <1>0, <2>1, PowerFacts, PowerGrows
    <3> QED
      BY <3>1
  <2> HIDE DEF p
  <2>4. v \div p \in Nat
    BY <1>0, <2>3, Division
  <2>5. x \in 0 .. ten - 1
    BY <1>0, <2>4, Division
  <2>6. x \in 0 .. 9
    BY <1>0, <2>5
  <2> HIDE DEF x
  <2>7. d[l] \in DigitChars /\ DigitValue(d[l]) = x
    BY <2>2, <2>6, DecimalDigits
  <2> QED
    BY <2>7 DEF x, p, e
<1>11. d \in Seq(DigitChars)
  <2>1. \A l \in 1 .. Len(d) : d[l] \in DigitChars
    BY <1>7, <1>10
  <2>2. d = [l \in 1 .. Len(d) |-> d[l]]
    BY <1>7
  <2>3. [l \in 1 .. Len(d) |-> d[l]] \in Seq(DigitChars)
    BY <1>7, <2>1
  <2> QED
    BY <2>2, <2>3
<1> QED
  BY <1>0, <1>7, <1>8, <1>9, <1>10, <1>11 DEF IsDecimal

\* The numeral at the index j is read as the number.
LEMMA NumberIs ==
  ASSUME NEW j \in Nat, NEW v \in Nat, NEW s, IsDecimal(s, v),
         \A l \in 1 .. Len(s) : CharAt(j + l - 1) = s[l]
  PROVE  Number(j, j + Len(s)) = v
<1> DEFINE m == Len(s)
           k == j + m
           q(l) == v \div Power(10, m - l)
           x(l) == DigitValue(CharAt(l - 1))
           Is(g) == g = [r \in j .. k |-> IF r = j THEN 0 ELSE 10 * g[r - 1] + x(r)]
           f == CHOOSE g : Is(g)
           h == [r \in j .. k |-> q(r - j)]
<1>0. m \in Nat /\ k \in Nat /\ v < Power(10, m)
  BY DEF IsDecimal
<1>1. Number(j, k) = f[k]
  BY DEF Number
<1>2. q(0) = 0
  <2> DEFINE p == Power(10, m)
  <2>1. p \in Nat /\ v < p
    BY <1>0, PowerFacts
  <2> HIDE DEF p
  <2>2. v \div p = 0
    BY <2>1, NoQuotient
  <2>3. m - 0 = m
    BY <1>0
  <2> QED
    BY <2>2, <2>3 DEF p
<1>3. q(m) = v
  <2>1. m - m = 0 /\ 10 \in Nat
    BY <1>0
  <2>2. Power(10, 0) = 1
    BY <2>1, PowerFacts
  <2>3. v \div 1 = v
    OBVIOUS
  <2> QED
    BY <2>1, <2>2, <2>3
<1>4. ASSUME NEW l \in 1 .. m PROVE q(l) = 10 * q(l - 1) + x(j + l)
  <2> DEFINE e == m - l
             o == l - 1
             p == Power(10, e)
             u == v \div p
  <2>1. e \in Nat /\ m - o = e + 1 /\ 10 \in Nat \ {0} /\ 10 \in Nat
    BY <1>0
  <2>2. x(j + l) = u % 10
    <3>1. (j + l) - 1 = j + l - 1
      BY <1>0
    <3> QED
      BY <3>1 DEF IsDecimal
  <2> HIDE DEF e, x, o
  <2>3. p \in Nat \ {0} /\ Power(10, e + 1) = 10 * p
    <3>1. p \in Nat /\ p >= 1 /\ Power(10, e + 1) = 10 * p
      BY <2>1, PowerFacts, PowerGrows
    <3> QED
      BY <3>1
  <2> HIDE DEF p
  <2>4. v \div Power(10, m - o) = u \div 10
    <3>1. v \div (p * 10) = (v \div p) \div 10
      BY <2>1, <2>3, QuotientTwice
    <3> QED
      BY <2>1, <2>3, <3>1
  <2>5. u \in Nat
    BY <2>3, Division
  <2> HIDE DEF u
  <2>6. u = 10 * (u \div 10) + (u % 10)
    BY <2>5
  <2>7. u = 10 * (v \div Power(10, m - o)) + x(j + l)
    BY <2>2, <2>4, <2>6
  <2> QED
    BY <2>7 DEF u, p, e, o
<1> HIDE DEF q, x, m
<1>5. Is(h)
  <2>1. ASSUME NEW r \in j .. k PROVE h[r] = IF r = j THEN 0 ELSE 10 * h[r - 1] + x(r)
    <3>1. CASE r = j
      <4>1. j - j = 0
        OBVIOUS
      <4> QED
        BY <1>2, <3>1, <4>1
    <3>2. CASE r # j
      <4> DEFINE l == r - j
      <4>1. l \in 1 .. m /\ r = j + l /\ r - 1 \in j .. k /\ (r - 1) - j = l - 1
        BY <1>0, <3>2
      <4>2. h[r] = q(l) /\ h[r - 1] = q(l - 1)
        BY <4>1
      <4> HIDE DEF l, h
      <4> QED
        BY <1>4, <3>2, <4>1, <4>2
    <3> QED
      BY <3>1, <3>2
  <2> QED
    BY <2>1
<1>6. Is(f)
  <2> HIDE DEF Is, h
  <2> QED
    BY <1>5 DEF f
<1> HIDE DEF f, h
<1>7. /\ f[j] = 0
      /\ \A l \in 1 .. m : f[j + l] = 10 * f[j + (l - 1)] + x(j + l)
  <2>1. f[j] = 0
    BY <1>0, <1>6
  <2>2. ASSUME NEW l \in 1 .. m PROVE f[j + l] = 10 * f[j + (l - 1)] + x(j + l)
    <3>1. j + l \in j .. k /\ j + l # j /\ (j + l) - 1 = j + (l - 1)
      BY <1>0
    <3> QED
      BY <1>6, <3>1
  <2> QED
    BY <2>1, <2>2
<1> DEFINE G == {l \in 0 .. m : f[j + l] = q(l)}
<1>8. 0 \in G /\ \A l \in 1 .. m : l - 1 \in G => l \in G
  <2>1. 0 \in G
    <3>1. j + 0 = j /\ 0 \in 0 .. m
      BY <1>0
    <3> QED
      BY <1>2, <1>7, <3>1
  <2>2. ASSUME NEW l \in 1 .. m, l - 1 \in G PROVE l \in G
    <3>1. f[j + (l - 1)] = q(l - 1) /\ l \in 0 .. m
      BY <2>2
    <3> QED
      BY <1>4, <1>7, <3>1
  <2> QED
    BY <2>1, <2>2
<1> HIDE DEF G
<1>9. \A l \in 0 .. m : l \in G
  BY <1>0, <1>8, CountUp
<1>10. f[k] = q(m)
  BY <1>0, <1>9 DEF G
<1> QED
  BY <1>1, <1>3, <1>10 DEF m

LEMMA WithinParts ==
  ASSUME NEW X, NEW whole, NEW p \in Nat, NEW s \in Seq(X), NEW t \in Seq(X),
         Len(whole) \in Nat, Within(whole, p, s \o t)
  PROVE  Within(whole, p, s) /\ Within(whole, p + Len(s), t)
<1> DEFINE u == s \o t
           a == Len(s)
           b == Len(t)
           z == Len(whole)
<1>1. /\ Len(u) = a + b
      /\ \A k \in 1 .. a : u[k] = s[k]
      /\ \A k \in 1 .. b : u[a + k] = t[k]
  BY Joined
<1>2. Within(whole, p, u)
  OBVIOUS
<1> HIDE DEF u
<1>3. a \in Nat /\ b \in Nat /\ z \in Nat
  OBVIOUS
<1>4. p + Len(u) <= z /\ \A j \in 1 .. Len(u) : whole[p + j] = u[j]
  BY <1>2 DEF Within
<1> HIDE DEF a, b, z
<1>5. p + a <= z /\ (p + a) + b <= z /\ \A j \in 1 .. a : j \in 1 .. Len(u)
  BY <1>1, <1>3, <1>4
<1>6. \A j \in 1 .. b : a + j \in 1 .. Len(u) /\ p + (a + j) = (p + a) + j
  BY <1>1, <1>3
<1>7. \A j \in 1 .. a : whole[p + j] = s[j]
  BY <1>1, <1>4, <1>5
<1>8. \A j \in 1 .. b : whole[(p + a) + j] = t[j]
  BY <1>1, <1>4, <1>6
<1> QED
  BY <1>5, <1>7, <1>8 DEF Within, a, b, z

(* Where the parts of a directive stand that is behind the first p characters *)
WidthText(d) ==
  IF d.width = << >> THEN << >> ELSE IF d.starWidth THEN << "*" >> ELSE Decimal(d.width[1])
PrecText(d) ==
  IF d.prec = << >> THEN << >> ELSE IF d.starPrec THEN << ".", "*" >>
  ELSE IF d.prec[1] = 0 THEN << "." >> ELSE << "." >> \o Decimal(d.prec[1])

BehindFlags(d, p) == p + 1 + Len(d.flags)
BehindWidth(d, p) == BehindFlags(d, p) + Len(WidthText(d))
BehindPrec(d, p) == BehindWidth(d, p) + Len(PrecText(d))
BehindLength(d, p) == BehindPrec(d, p) + Len(Length(d.type))

Layout(d, p) ==
  /\ BehindFlags(d, p) \in Nat /\ BehindWidth(d, p) \in Nat
  /\ BehindPrec(d, p) \in Nat /\ BehindLength(d, p) \in Nat
  /\ Within(format, p, << "%" >>) /\ Within(format, p + 1, d.flags)
  /\ Within(format, BehindFlags(d, p), WidthText(d))
  /\ Within(format, BehindWidth(d, p), PrecText(d))
  /\ Within(format, BehindPrec(d, p), Length(d.type))
  /\ Within(format, BehindLength(d, p), << d.conv >>)
  /\ p + Len(RenderItem(d)) = BehindLength(d, p) + 1

LEMMA JoinedType ==
  ASSUME NEW X, NEW s \in Seq(X), NEW t \in Seq(X)
  PROVE  s \o t \in Seq(X) /\ Len(s \o t) = Len(s) + Len(t) /\ Len(t) \in Nat
OBVIOUS

LEMMA DecimalCharacters ==
  ASSUME NEW v \in Counts \ {0}
  PROVE  Decimal(v) \in Seq(Characters)
<1> DEFINE s == Decimal(v)
<1>1. IsDecimal(s, v)
  BY DecimalIs
<1> HIDE DEF s
<1>2. s \in Seq(DigitChars)
  BY <1>1 DEF IsDecimal
<1>3. DigitChars \subseteq Characters
  <2>1. DigitChars \subseteq Hexadecimal
    BY DEF DigitChars, Hexadecimal
  <2>2. Hexadecimal \subseteq Characters
    BY CharacterFacts
  <2> QED
    BY <2>1, <2>2
<1> QED
  BY <1>2, <1>3 DEF s

LEMMA DotFirst ==
  ASSUME NEW s \in Seq(Characters), NEW t, t = << "." >> \o s
  PROVE  /\ t \in Seq(Characters) /\ Len(t) = 1 + Len(s) /\ t[1] = "."
         /\ \A l \in 1 .. Len(s) : t[1 + l] = s[l]
<1> DEFINE dot == << "." >>
<1>1. dot \in Seq(Characters) /\ Len(dot) = 1 /\ dot[1] = "."
  BY CharacterFacts
<1> DEFINE u == dot \o s
<1> HIDE DEF dot
<1>2. /\ u \in Seq(Characters) /\ Len(u) = Len(dot) + Len(s)
      /\ \A k \in 1 .. Len(dot) : u[k] = dot[k]
      /\ \A k \in 1 .. Len(s) : u[Len(dot) + k] = s[k]
  <2>1. dot \in Seq(Characters) /\ s \in Seq(Characters)
    BY <1>1
  <2> QED
    BY <2>1, Joined
<1> HIDE DEF u
<1>3. t = u /\ 1 \in 1 .. Len(dot)
  BY <1>1 DEF dot, u
<1> QED
  BY <1>1, <1>2, <1>3

LEMMA WidthTexts ==
  ASSUME NEW d, IsDirectiveItem(d)
  PROVE  \/ d.width = << >> /\ ~d.starWidth /\ WidthText(d) = << >>
         \/ \E k \in Counts \ {0} :
              d.width = << k >> /\ ~d.starWidth /\ WidthText(d) = Decimal(k)
         \/ \E k \in Ints : d.width = << k >> /\ d.starWidth /\ WidthText(d) = << "*" >>
<1>1. CASE d.width = << >> /\ ~d.starWidth
  BY <1>1 DEF WidthText
<1>2. CASE \E k \in Counts \ {0} : d.width = << k >> /\ ~d.starWidth
  <2>1. PICK k \in Counts \ {0} : d.width = << k >> /\ ~d.starWidth
    BY <1>2
  <2>2. d.width # << >> /\ d.width[1] = k
    BY <2>1
  <2>3. WidthText(d) = Decimal(k)
    BY <2>1, <2>2 DEF WidthText
  <2> QED
    BY <2>1, <2>3
<1>3. CASE \E k \in Ints : d.width = << k >> /\ d.starWidth
  <2>1. PICK k \in Ints : d.width = << k >> /\ d.starWidth
    BY <1>3
  <2>2. d.width # << >>
    BY <2>1
  <2>3. WidthText(d) = << "*" >>
    BY <2>1, <2>2 DEF WidthText
  <2> QED
    BY <2>1, <2>3
<1> QED
  BY <1>1, <1>2, <1>3 DEF IsDirectiveItem

LEMMA PrecTexts ==
  ASSUME NEW d, IsDirectiveItem(d)
  PROVE  \/ d.prec = << >> /\ ~d.starPrec /\ PrecText(d) = << >>
         \/ d.prec = << 0 >> /\ ~d.starPrec /\ PrecText(d) = << "." >>
         \/ \E k \in Counts \ {0} :
              d.prec = << k >> /\ ~d.starPrec /\ PrecText(d) = << "." >> \o Decimal(k)
         \/ \E k \in Ints : d.prec = << k >> /\ d.starPrec /\ PrecText(d) = << ".", "*" >>
<1>1. CASE d.prec = << >> /\ ~d.starPrec
  BY <1>1 DEF PrecText
<1>2. CASE \E k \in Counts : d.prec = << k >> /\ ~d.starPrec
  <2>1. PICK k \in Counts : d.prec = << k >> /\ ~d.starPrec
    BY <1>2
  <2>2. d.prec # << >> /\ d.prec[1] = k
    BY <2>1
  <2>3. CASE k = 0
    <3>1. PrecText(d) = << "." >>
      BY <2>1, <2>2, <2>3 DEF PrecText
    <3> QED
      BY <2>1, <2>3, <3>1
  <2>4. CASE k # 0
    <3>1. PrecText(d) = << "." >> \o Decimal(k)
      BY <2>1, <2>2, <2>4 DEF PrecText
    <3> DEFINE tail == << "." >> \o Decimal(k)
    <3>2. PrecText(d) = tail /\ k \in Counts \ {0}
      BY <2>4, <3>1
    <3> HIDE DEF tail
    <3>3. \E l \in Counts \ {0} : k = l
      BY <3>2
    <3> QED
      BY <2>1, <3>2 DEF tail
  <2> QED
    BY <2>3, <2>4
<1>3. CASE \E k \in Ints : d.prec = << k >> /\ d.starPrec
  <2>1. PICK k \in Ints : d.prec = << k >> /\ d.starPrec
    BY <1>3
  <2>2. d.prec # << >>
    BY <2>1
  <2>3. PrecText(d) = << ".", "*" >>
    BY <2>1, <2>2 DEF PrecText
  <2> QED
    BY <2>1, <2>3
<1> QED
  BY <1>1, <1>2, <1>3 DEF IsDirectiveItem

LEMMA Pieces ==
  ASSUME NEW d, IsDirectiveItem(d)
  PROVE  /\ << "%" >> \in Seq(Characters) /\ d.flags \in Seq(Characters)
         /\ WidthText(d) \in Seq(Characters) /\ PrecText(d) \in Seq(Characters)
         /\ Length(d.type) \in Seq(Characters) /\ << d.conv >> \in Seq(Characters)
<1>1. \A x, y \in Characters : << x >> \in Seq(Characters) /\ << x, y >> \in Seq(Characters)
  OBVIOUS
<1>2. << >> \in Seq(Characters)
  OBVIOUS
<1>3. \A k \in Counts \ {0} : Decimal(k) \in Seq(Characters)
  BY DecimalCharacters
<1>4. "*" \in Characters /\ "." \in Characters /\ "h" \in Characters /\ "l" \in Characters
  BY CharacterFacts
<1>5. WidthText(d) \in Seq(Characters)
  BY <1>1, <1>2, <1>3, <1>4, WidthTexts
<1>6. PrecText(d) \in Seq(Characters)
  <2>1. CASE PrecText(d) \in { << >>, << "." >>, << ".", "*" >> }
    BY <1>1, <1>2, <1>4, <2>1
  <2>2. CASE \E k \in Counts \ {0} : PrecText(d) = << "." >> \o Decimal(k)
    BY <1>3, <2>2, DotFirst
  <2> QED
    BY <2>1, <2>2, PrecTexts
<1>7. d.flags \in Seq(Characters)
  <2>1. d.flags \in Seq(FlagChars) /\ FlagChars \subseteq Characters
    BY CharacterFacts DEF IsDirectiveItem
  <2> QED
    BY <2>1
<1>8. Length(d.type) \in Seq(Characters)
  <2>1. Length(d.type) \in { << "h", "h" >>, << "h" >>, << >>, << "l", "l" >> }
    BY ItemFacts DEF Length
  <2> QED
    BY <1>1, <1>2, <1>4, <2>1
<1>9. << d.conv >> \in Seq(Characters) /\ << "%" >> \in Seq(Characters)
  <2>1. d.conv \in Characters /\ "%" \in Characters
    BY ItemFacts, CharacterFacts DEF Conversions
  <2> QED
    BY <1>1, <2>1
<1> QED
  BY <1>5, <1>6, <1>7, <1>8, <1>9

LEMMA DirectiveLaid ==
  ASSUME NEW d, IsDirective(d), IsDirectiveItem(d), NEW p \in Nat
  PROVE  /\ RenderItem(d) \in Seq(Characters) /\ Len(RenderItem(d)) >= 1
         /\ format \in Seq(Characters) /\ Within(format, p, RenderItem(d)) => Layout(d, p)
<1> DEFINE a == << "%" >>
           b == d.flags
           e == WidthText(d)
           g == PrecText(d)
           h == Length(d.type)
           l == << d.conv >>
           ab == a \o b
           ae == ab \o e
           ag == ae \o g
           ah == ag \o h
           al == ah \o l
           X == Characters
<1>1. /\ a \in Seq(X) /\ b \in Seq(X) /\ e \in Seq(X) /\ g \in Seq(X) /\ h \in Seq(X) /\ l \in Seq(X)
      /\ Len(a) = 1 /\ Len(l) = 1 /\ Len(b) \in Nat
  BY Pieces
<1>2. RenderItem(d) = al
  BY DEF RenderItem, WidthText, PrecText
<1>3. format \in Seq(Characters) => Len(format) \in Nat
  OBVIOUS
<1>10. /\ BehindFlags(d, p) = p + 1 + Len(b)
       /\ BehindWidth(d, p) = BehindFlags(d, p) + Len(e)
       /\ BehindPrec(d, p) = BehindWidth(d, p) + Len(g)
       /\ BehindLength(d, p) = BehindPrec(d, p) + Len(h)
  BY DEF BehindFlags, BehindWidth, BehindPrec, BehindLength
<1> HIDE DEF a, b, e, g, h, l, X
<1>4. ab \in Seq(X) /\ Len(ab) = 1 + Len(b)
  <2>1. a \in Seq(X) /\ b \in Seq(X)
    BY <1>1
  <2>2. ab \in Seq(X) /\ Len(ab) = Len(a) + Len(b) /\ Len(b) \in Nat
    BY <2>1, JoinedType
  <2> QED
    BY <1>1, <2>2
<1> HIDE DEF ab
<1>5. ae \in Seq(X) /\ Len(ae) = Len(ab) + Len(e) /\ Len(e) \in Nat
  <2>1. ab \in Seq(X) /\ e \in Seq(X)
    BY <1>1, <1>4
  <2>2. ae \in Seq(X) /\ Len(ae) = Len(ab) + Len(e) /\ Len(e) \in Nat
    BY <2>1, JoinedType
  <2> QED
    BY <1>1, <2>2
<1> HIDE DEF ae
<1>6. ag \in Seq(X) /\ Len(ag) = Len(ae) + Len(g) /\ Len(g) \in Nat
  <2>1. ae \in Seq(X) /\ g \in Seq(X)
    BY <1>1, <1>5
  <2>2. ag \in Seq(X) /\ Len(ag) = Len(ae) + Len(g) /\ Len(g) \in Nat
    BY <2>1, JoinedType
  <2> QED
    BY <1>1, <2>2
<1> HIDE DEF ag
<1>7. ah \in Seq(X) /\ Len(ah) = Len(ag) + Len(h) /\ Len(h) \in Nat
  <2>1. ag \in Seq(X) /\ h \in Seq(X)
    BY <1>1, <1>6
  <2>2. ah \in Seq(X) /\ Len(ah) = Len(ag) + Len(h) /\ Len(h) \in Nat
    BY <2>1, JoinedType
  <2> QED
    BY <1>1, <2>2
<1> HIDE DEF ah
<1>8. al \in Seq(X) /\ Len(al) = Len(ah) + 1
  <2>1. ah \in Seq(X) /\ l \in Seq(X)
    BY <1>1, <1>7
  <2>2. al \in Seq(X) /\ Len(al) = Len(ah) + Len(l) /\ Len(l) \in Nat
    BY <2>1, JoinedType
  <2> QED
    BY <1>1, <2>2
<1> HIDE DEF al
<1>9. Len(al) \in Nat /\ Len(al) >= 1
  BY <1>1, <1>4, <1>5, <1>6, <1>7, <1>8
<1>11. ASSUME format \in Seq(X), Within(format, p, al) PROVE Layout(d, p)
  <2>0. Len(format) \in Nat
    BY <1>3, <1>11 DEF X
  <2>1. Within(format, p, ah) /\ Within(format, p + Len(ah), l)
    BY <1>1, <2>0, <1>7, <1>11, WithinParts DEF al
  <2>2. Within(format, p, ag) /\ Within(format, p + Len(ag), h)
    BY <1>1, <2>0, <1>6, <2>1, WithinParts DEF ah
  <2>3. Within(format, p, ae) /\ Within(format, p + Len(ae), g)
    BY <1>1, <2>0, <1>5, <2>2, WithinParts DEF ag
  <2>4. Within(format, p, ab) /\ Within(format, p + Len(ab), e)
    BY <1>1, <2>0, <1>4, <2>3, WithinParts DEF ae
  <2>5. Within(format, p, a) /\ Within(format, p + Len(a), b)
    BY <1>1, <2>0, <2>4, WithinParts DEF ab
  <2>6. /\ p + Len(a) = p + 1
        /\ p + Len(ab) = BehindFlags(d, p) /\ p + Len(ae) = BehindWidth(d, p)
        /\ p + Len(ag) = BehindPrec(d, p) /\ p + Len(ah) = BehindLength(d, p)
        /\ p + Len(al) = BehindLength(d, p) + 1
        /\ BehindFlags(d, p) \in Nat /\ BehindWidth(d, p) \in Nat
        /\ BehindPrec(d, p) \in Nat /\ BehindLength(d, p) \in Nat
    BY SMTT(30), <1>1, <1>4, <1>5, <1>6, <1>7, <1>8, <1>10
  <2> QED
    BY <1>2, <2>1, <2>2, <2>3, <2>4, <2>5, <2>6 DEF Layout, a, b, e, g, h, l
<1> QED
  BY <1>2, <1>8, <1>9, <1>11 DEF X

LEMMA CharWithin ==
  ASSUME NEW p \in Nat, NEW s, Within(format, p, s), NEW j \in 1 .. Len(s), Len(s) \in Nat,
         Len(format) \in Nat
  PROVE  CharAt(p + j) = s[j] /\ p + j \in 1 .. Len(format)
<1> DEFINE a == Len(s)
           z == Len(format)
<1>1. a \in Nat /\ z \in Nat /\ p + a <= z /\ j \in 1 .. a
  BY DEF Within
<1>2. format[p + j] = s[j]
  BY DEF Within
<1> HIDE DEF a, z
<1>3. p + j \in 1 .. z /\ p + j <= z
  BY <1>1
<1> QED
  BY <1>2, <1>3 DEF CharAt, z

Ends == { "h", "l" } \cup Conversions

LEMMA ModifierIs ==
  ASSUME format \in Seq(Characters), NEW d, IsDirectiveItem(d), NEW p \in Nat, Layout(d, p)
  PROVE  /\ Modifier(BehindPrec(d, p) + 1) = << d.type, BehindLength(d, p) + 1 >>
         /\ CharAt(BehindLength(d, p) + 1) = d.conv
         /\ CharAt(BehindPrec(d, p) + 1) \in Ends
         /\ BehindLength(d, p) + 1 \in 1 .. Len(format)
<1> DEFINE q == BehindPrec(d, p)
           r == BehindLength(d, p)
           j == q + 1
           text == Length(d.type)
           last == << d.conv >>
<1>0. Len(format) \in Nat
  OBVIOUS
<1>1. q \in Nat /\ r \in Nat /\ r = q + Len(text) /\ Within(format, q, text) /\ Within(format, r, last)
  BY DEF Layout, BehindLength
<1>2. CharAt(r + 1) = d.conv /\ r + 1 \in 1 .. Len(format)
  <2>1. Len(last) = 1 /\ last[1] = d.conv /\ 1 \in 1 .. Len(last)
    OBVIOUS
  <2> DEFINE one == 1
  <2>2. one \in 1 .. Len(last) /\ Len(last) \in Nat /\ last[one] = d.conv /\ one = 1
    BY <2>1
  <2>3. r \in Nat /\ Within(format, r, last)
    BY <1>1
  <2> HIDE DEF last, q, r, text, one
  <2>4. CharAt(r + one) = last[one] /\ r + one \in 1 .. Len(format)
    BY <1>0, <2>2, <2>3, CharWithin
  <2> QED
    BY <2>2, <2>4
<1>3. d.conv \in Conversions /\ d.type \in { "char", "short", "int", "long" }
  BY ItemFacts
<1>4. d.conv \notin { "h", "l", "j", "z", "t" }
  BY <1>3 DEF Conversions
<1> HIDE DEF q, r, text, last
<1>5. CASE d.type = "char"
  <2>1. text = << "h", "h" >> /\ Len(text) = 2
    BY <1>5 DEF Length, text
  <2>2. CharAt(q + 1) = "h" /\ CharAt(q + 2) = "h"
    <3>1. /\ 1 \in 1 .. Len(text) /\ 2 \in 1 .. Len(text) /\ Len(text) \in Nat
          /\ text[1] = "h" /\ text[2] = "h"
      BY <2>1
    <3> QED
      BY <1>0, <1>1, <3>1, CharWithin
  <2>3. j + 1 = q + 2 /\ j + 2 = r + 1
    BY <1>1, <2>1
  <2>4. CharAt(j) = "h" /\ CharAt(j + 1) = "h"
    BY <2>2, <2>3
  <2> HIDE DEF j
  <2>5. Modifier(j) = << "char", j + 2 >>
    BY <2>4 DEF Modifier
  <2> QED
    BY <1>2, <1>5, <2>3, <2>4, <2>5 DEF Ends, j, q, r
<1>6. CASE d.type = "short"
  <2>1. text = << "h" >> /\ Len(text) = 1
    BY <1>6 DEF Length, text
  <2>2. CharAt(q + 1) = "h"
    <3>1. 1 \in 1 .. Len(text) /\ Len(text) \in Nat /\ text[1] = "h"
      BY <2>1
    <3> QED
      BY <1>0, <1>1, <3>1, CharWithin
  <2>3. j + 1 = r + 1
    BY <1>1, <2>1
  <2>4. CharAt(j) = "h" /\ CharAt(j + 1) # "h"
    BY <1>2, <1>4, <2>2, <2>3
  <2> HIDE DEF j
  <2>5. Modifier(j) = << "short", j + 1 >>
    BY <2>4 DEF Modifier
  <2> QED
    BY <1>2, <1>6, <2>3, <2>4, <2>5 DEF Ends, j, q, r
<1>7. CASE d.type = "long"
  <2>1. text = << "l", "l" >> /\ Len(text) = 2
    BY <1>7 DEF Length, text
  <2>2. CharAt(q + 1) = "l" /\ CharAt(q + 2) = "l"
    <3>1. /\ 1 \in 1 .. Len(text) /\ 2 \in 1 .. Len(text) /\ Len(text) \in Nat
          /\ text[1] = "l" /\ text[2] = "l"
      BY <2>1
    <3> QED
      BY <1>0, <1>1, <3>1, CharWithin
  <2>3. j + 1 = q + 2 /\ j + 2 = r + 1
    BY <1>1, <2>1
  <2>4. CharAt(j) = "l" /\ CharAt(j + 1) = "l"
    BY <2>2, <2>3
  <2> HIDE DEF j
  <2>5. Modifier(j) = << "long", j + 2 >>
    BY <2>4 DEF Modifier
  <2> QED
    BY <1>2, <1>7, <2>3, <2>4, <2>5 DEF Ends, j, q, r
<1>8. CASE d.type = "int"
  <2>1. text = << >> /\ Len(text) = 0
    BY <1>8 DEF Length, text
  <2>3. j = r + 1
    BY <1>1, <2>1
  <2>4. CharAt(j) \notin { "h", "l", "j", "z", "t" } /\ CharAt(j) \in Conversions
    BY <1>2, <1>3, <1>4, <2>3
  <2> HIDE DEF j
  <2>5. Modifier(j) = << "int", j >>
    BY <2>4 DEF Modifier
  <2> QED
    BY <1>2, <1>8, <2>3, <2>4, <2>5 DEF Ends, j, q, r
<1> QED
  BY <1>3, <1>5, <1>6, <1>7, <1>8

-----------------------------------------------------------------------------
(* The precision, from the index k *)
Dot(k) == CharAt(k) = "."
StarPrec(k) == Dot(k) /\ CharAt(k + 1) = "*"
Minus(k) == Dot(k) /\ CharAt(k + 1) = "-"
PrecStart(k) == k + (IF StarPrec(k) \/ Minus(k) THEN 2 ELSE IF Dot(k) THEN 1 ELSE 0)
PrecEnd(k) == IF Dot(k) /\ ~StarPrec(k) THEN Skip(PrecStart(k), DigitChars) ELSE PrecStart(k)

LEMMA EndsApart ==
  /\ "." \notin Ends /\ "*" \notin Ends /\ "-" \notin Ends /\ "." # "*" /\ "." # "-"
  /\ Ends \cap DigitChars = {} /\ Ends \cap FlagChars = {} /\ "." \notin DigitChars
  /\ "*" \notin DigitChars /\ "-" \notin DigitChars /\ "." \notin FlagChars /\ "*" \notin FlagChars
BY DEF Ends, Conversions, DigitChars, FlagChars

LEMMA PrecisionIs ==
  ASSUME format \in Seq(Characters), NEW d, IsDirectiveItem(d), NEW p \in Nat, Layout(d, p),
         NEW k, k = BehindWidth(d, p) + 1
  PROVE  /\ Dot(k) <=> d.prec # << >>
         /\ StarPrec(k) <=> d.starPrec
         /\ ~Minus(k)
         /\ PrecEnd(k) = BehindPrec(d, p) + 1
         /\ Dot(k) /\ ~StarPrec(k) => Number(PrecStart(k), PrecEnd(k)) = d.prec[1]
         /\ CharAt(k) \in Ends \cup { "." }
<1> DEFINE q == BehindWidth(d, p)
           r == BehindPrec(d, p)
           text == PrecText(d)
<1>0. Len(format) \in Nat
  OBVIOUS
<1>1. q \in Nat /\ r \in Nat /\ r = q + Len(text) /\ Within(format, q, text)
  BY DEF Layout, BehindPrec
<1>2. CharAt(r + 1) \in Ends /\ r + 1 \in 1 .. Len(format) + 1
  <2>1. CharAt(r + 1) \in Ends
    BY ModifierIs
  <2>2. r + 1 <= Len(format)
    <3>1. BehindLength(d, p) + 1 \in 1 .. Len(format)
      BY ModifierIs
    <3>2. BehindLength(d, p) = r + Len(Length(d.type)) /\ BehindLength(d, p) \in Nat
      BY DEF Layout, BehindLength
    <3>3. Len(Length(d.type)) \in Nat
      BY Pieces
    <3> DEFINE a == BehindLength(d, p)
               b == Len(Length(d.type))
    <3> HIDE DEF a, b, r
    <3> QED
      BY SMTT(30), <1>0, <1>1, <3>1, <3>2, <3>3 DEF a, b
  <2> QED
    BY <1>0, <1>1, <2>1, <2>2
<1>3. k = q + 1
  OBVIOUS
<1> HIDE DEF q, r
<1>4. CASE d.prec = << >> /\ ~d.starPrec /\ text = << >>
  <2>1. k = r + 1
    BY <1>1, <1>3, <1>4
  <2>2. ~Dot(k)
    BY <1>2, <2>1, EndsApart DEF Dot
  <2>3. PrecStart(k) = k /\ PrecEnd(k) = k
    <3>1. k \in Nat
      BY <1>1, <2>1
    <3> QED
      BY <2>2, <3>1 DEF PrecStart, PrecEnd, StarPrec, Minus
  <2> QED
    BY <1>2, <1>4, <2>1, <2>2, <2>3 DEF StarPrec, Minus, r
<1>5. CASE d.prec = << 0 >> /\ ~d.starPrec /\ text = << "." >>
  <2>1. Len(text) = 1 /\ text[1] = "." /\ 1 \in 1 .. Len(text) /\ Len(text) \in Nat
    BY <1>5
  <2> HIDE DEF text
  <2>2. CharAt(q + 1) = "."
    BY <1>0, <1>1, <2>1, CharWithin
  <2>3. k = q + 1 /\ k + 1 = r + 1 /\ k \in Nat /\ k + 1 \in Nat \ {0}
    BY <1>1, <1>3, <2>1
  <2>4. Dot(k) /\ CharAt(k + 1) \in Ends
    BY <1>2, <2>2, <2>3 DEF Dot
  <2>5. ~StarPrec(k) /\ ~Minus(k)
    BY <2>4, EndsApart DEF StarPrec, Minus
  <2> DEFINE s == k + 1
  <2>6. PrecStart(k) = s
    BY <2>4, <2>5 DEF PrecStart
  <2>7. s \in Nat \ {0} /\ s \in s .. Len(format) + 1 /\ s = r + 1
    BY <1>0, <1>2, <2>3
  <2> HIDE DEF s
  <2>8. Skip(s, DigitChars) = s
    <3>1. CharAt(s) \notin DigitChars
      BY <1>2, <2>7, EndsApart
    <3>2. \A l \in s .. s - 1 : CharAt(l) \in DigitChars
      BY <2>7
    <3> QED
      BY <2>7, <3>1, <3>2, SkipIs DEF IsSkip
  <2>9. PrecEnd(k) = s
    BY <2>4, <2>5, <2>6, <2>8 DEF PrecEnd
  <2>10. Number(s, s) = 0
    BY <2>7, NumberNone
  <2>11. d.prec # << >> /\ d.prec[1] = 0
    BY <1>5
  <2> QED
    BY <1>5, <2>4, <2>5, <2>6, <2>7, <2>9, <2>10, <2>11 DEF Dot, r
<1>6. CASE \E v \in Counts \ {0} : d.prec = << v >> /\ ~d.starPrec /\ text = << "." >> \o Decimal(v)
  <2>0. PICK v \in Counts \ {0} : d.prec = << v >> /\ ~d.starPrec /\ text = << "." >> \o Decimal(v)
    BY <1>6
  <2> DEFINE t == Decimal(v)
             a == Len(t)
             z == Len(format)
  <2>1. /\ Len(text) = 1 + a /\ text[1] = "."
        /\ \A l \in 1 .. a : text[1 + l] = t[l]
    BY <2>0, DecimalCharacters, DotFirst
  <2>2. IsDecimal(t, v) /\ v \in Nat
    BY DecimalIs, IntsFacts
  <2>3. d.prec # << >> /\ d.prec[1] = v
    BY <2>0
  <2>4. ~d.starPrec
    BY <2>0
  <2> HIDE DEF text, t
  <2>5. a \in Nat \ {0} /\ \A l \in 1 .. a : t[l] \in DigitChars
    BY <2>2 DEF IsDecimal
  <2> DEFINE s == k + 1
             u == s + a
  <2>6. /\ s \in Nat \ {0} /\ s \in Nat /\ s = q + 2 /\ u \in s .. z + 1 /\ u = r + 1
        /\ Len(text) \in Nat /\ z \in Nat
    <3>1. Len(text) = 1 + a /\ a \in Nat
      BY <2>1, <2>5
    <3> HIDE DEF a, z
    <3> QED
      BY <1>0, <1>1, <1>2, <1>3, <3>1 DEF z
  <2>7. Dot(k)
    <3>1. 1 \in 1 .. Len(text)
      BY <2>1, <2>5
    <3>2. CharAt(q + 1) = text[1]
      BY <1>0, <1>1, <2>6, <3>1, CharWithin
    <3> QED
      BY <1>3, <2>1, <3>2 DEF Dot
  <2>8. ASSUME NEW l \in 1 .. a PROVE CharAt(s + l - 1) = t[l]
    <3> DEFINE j == 1 + l
    <3>1. j \in 1 .. Len(text) /\ q + j = s + l - 1
      <4>1. a \in Nat
        BY <2>5
      <4> HIDE DEF a
      <4> QED
        BY <1>1, <2>1, <2>6, <4>1
    <3>2. text[j] = t[l]
      BY <2>1
    <3> HIDE DEF j
    <3>3. CharAt(q + j) = text[j]
      BY ZenonT(60), <1>0, <1>1, <2>6, <3>1, CharWithin
    <3> QED
      BY <3>1, <3>2, <3>3
  <2>9. CharAt(s) \in DigitChars
    <3>1. 1 \in 1 .. a /\ s + 1 - 1 = s
      BY <2>5, <2>6
    <3> QED
      BY <2>5, <2>8, <3>1
  <2>10. ~StarPrec(k) /\ ~Minus(k)
    BY <2>9, EndsApart DEF StarPrec, Minus
  <2>11. PrecStart(k) = s
    BY <2>7, <2>10 DEF PrecStart
  <2>12. Skip(s, DigitChars) = u
    <3>1. CharAt(u) \notin DigitChars
      BY <1>2, <2>6, EndsApart
    <3>2. ASSUME NEW l \in s .. u - 1 PROVE CharAt(l) \in DigitChars
      <4>1. (l - s) + 1 \in 1 .. a /\ s + ((l - s) + 1) - 1 = l
        BY SMTT(30), <2>5, <2>6
      <4> QED
        BY <2>5, <2>8, <4>1
    <3> HIDE DEF s, u
    <3> QED
      BY <2>6, <3>1, <3>2, SkipIs DEF IsSkip, z
  <2>13. Number(s, u) = v
    <3> HIDE DEF s
    <3> QED
      BY <2>2, <2>6, <2>8, NumberIs
  <2>14. PrecEnd(k) = u
    BY <2>7, <2>10, <2>11, <2>12 DEF PrecEnd
  <2> HIDE DEF s, u
  <2> QED
    BY <2>3, <2>4, <2>6, <2>7, <2>10, <2>11, <2>13, <2>14 DEF Dot, r
<1>7. CASE \E v \in Ints : d.prec = << v >> /\ d.starPrec /\ text = << ".", "*" >>
  <2>0. PICK v \in Ints : d.prec = << v >> /\ d.starPrec /\ text = << ".", "*" >>
    BY <1>7
  <2>1. /\ Len(text) = 2 /\ text[1] = "." /\ text[2] = "*"
        /\ 1 \in 1 .. Len(text) /\ 2 \in 1 .. Len(text) /\ Len(text) \in Nat
    BY <2>0
  <2>11. d.prec # << >>
    BY <2>0
  <2> HIDE DEF text
  <2>2. CharAt(q + 1) = "." /\ CharAt(q + 2) = "*"
    BY <1>0, <1>1, <2>1, CharWithin
  <2>3. k = q + 1 /\ k + 1 = q + 2 /\ k + 2 = r + 1 /\ k \in Nat
    BY <1>1, <1>3, <2>1
  <2>4. Dot(k) /\ StarPrec(k) /\ ~Minus(k)
    BY <2>2, <2>3 DEF Dot, StarPrec, Minus
  <2>6. PrecStart(k) = k + 2 /\ PrecEnd(k) = k + 2
    BY <2>4 DEF PrecStart, PrecEnd
  <2> QED
    BY <2>0, <2>3, <2>4, <2>6, <2>11 DEF Dot, r
<1> QED
  BY <1>4, <1>5, <1>6, <1>7, PrecTexts

(* The width, from the index k *)
WidthEnd(k) == IF CharAt(k) = "*" THEN k + 1 ELSE Skip(k, DigitChars)

LEMMA WidthIs ==
  ASSUME format \in Seq(Characters), NEW d, IsDirectiveItem(d), NEW p \in Nat, Layout(d, p),
         NEW k, k = BehindFlags(d, p) + 1
  PROVE  /\ CharAt(k) = "*" <=> d.starWidth
         /\ WidthEnd(k) = BehindWidth(d, p) + 1
         /\ ~d.starWidth => /\ Number(k, WidthEnd(k)) = IF d.width = << >> THEN 0 ELSE d.width[1]
                            /\ WidthEnd(k) > k <=> d.width # << >>
         /\ d.starWidth => d.width # << >>
         /\ CharAt(k) \notin FlagChars
         /\ k \in 1 .. Len(format)
<1> DEFINE q == BehindFlags(d, p)
           r == BehindWidth(d, p)
           w == r + 1
           text == WidthText(d)
<1>0. Len(format) \in Nat
  OBVIOUS
<1>1. q \in Nat /\ r \in Nat /\ r = q + Len(text) /\ Within(format, q, text)
  BY DEF Layout, BehindWidth
<1>2. CharAt(w) \in Ends \cup { "." } /\ w \in 1 .. Len(format)
  <2>1. CharAt(w) \in Ends \cup { "." }
    BY PrecisionIs
  <2>2. w <= Len(format)
    <3>1. BehindLength(d, p) + 1 \in 1 .. Len(format)
      BY ModifierIs
    <3>2. /\ BehindLength(d, p) = BehindPrec(d, p) + Len(Length(d.type)) /\ BehindLength(d, p) \in Nat
          /\ BehindPrec(d, p) = r + Len(PrecText(d)) /\ BehindPrec(d, p) \in Nat
      BY DEF Layout, BehindLength, BehindPrec
    <3>3. Len(Length(d.type)) \in Nat /\ Len(PrecText(d)) \in Nat
      BY Pieces
    <3> DEFINE a == BehindLength(d, p)
               b == Len(Length(d.type))
               e == BehindPrec(d, p)
               g == Len(PrecText(d))
    <3>4. /\ a + 1 \in 1 .. Len(format) /\ a = e + b /\ e = r + g
          /\ a \in Nat /\ b \in Nat /\ e \in Nat /\ g \in Nat /\ r \in Nat
      BY <1>1, <3>1, <3>2, <3>3
    <3> HIDE DEF a, b, r, e, g
    <3> QED
      BY <1>0, <3>4
  <2> HIDE DEF r
  <2> QED
    BY <1>0, <1>1, <2>1, <2>2
<1>3. k = q + 1 /\ k \in Nat \ {0} /\ w = r + 1
  BY <1>1
<1> HIDE DEF q, r, w
<1>4. CASE d.width = << >> /\ ~d.starWidth /\ text = << >>
  <2>1. w = k
    BY <1>1, <1>3, <1>4
  <2>2. CharAt(k) # "*" /\ CharAt(k) \notin FlagChars /\ CharAt(k) \notin DigitChars
    BY <1>2, <2>1, EndsApart
  <2>3. k \in k .. Len(format) + 1 /\ k \in 1 .. Len(format) /\ \A l \in k .. k - 1 : FALSE
    BY <1>0, <1>2, <1>3, <2>1
  <2>4. Skip(k, DigitChars) = k
    BY <1>3, <2>2, <2>3, SkipIs DEF IsSkip
  <2>5. WidthEnd(k) = k /\ Number(k, k) = 0
    BY <1>3, <2>2, <2>4, NumberNone DEF WidthEnd
  <2>6. WidthEnd(k) = w /\ Number(k, WidthEnd(k)) = 0 /\ ~(WidthEnd(k) > k)
    BY <1>3, <2>1, <2>5
  <2> QED
    BY <1>4, <2>2, <2>3, <2>6 DEF w, r
<1>5. CASE \E v \in Counts \ {0} : d.width = << v >> /\ ~d.starWidth /\ text = Decimal(v)
  <2>0. PICK v \in Counts \ {0} : d.width = << v >> /\ ~d.starWidth /\ text = Decimal(v)
    BY <1>5
  <2> DEFINE a == Len(text)
             z == Len(format)
  <2>1. IsDecimal(text, v) /\ v \in Nat
    BY <2>0, DecimalIs, IntsFacts
  <2>2. d.width # << >> /\ d.width[1] = v /\ ~d.starWidth
    BY <2>0
  <2> HIDE DEF text
  <2>3. a \in Nat \ {0} /\ (\A l \in 1 .. a : text[l] \in DigitChars) /\ text[1] # "0"
    BY <2>1 DEF IsDecimal
  <2>4. w = k + a /\ w > k /\ w \in k .. z + 1 /\ k \in 1 .. z /\ k \in Nat
    <3>1. a \in Nat \ {0} /\ r = q + a
      BY <1>1, <2>3
    <3> HIDE DEF a, z
    <3> QED
      BY <1>0, <1>1, <1>2, <1>3, <3>1 DEF z
  <2>5. ASSUME NEW l \in 1 .. a PROVE CharAt(k + l - 1) = text[l]
    <3>1. k + l - 1 = q + l
      BY <1>1, <1>3
    <3> QED
      BY <1>0, <1>1, <2>3, <3>1, CharWithin
  <2>6. CharAt(k) \in DigitChars /\ CharAt(k) # "0"
    <3>1. 1 \in 1 .. a /\ k + 1 - 1 = k
      BY <1>3, <2>3
    <3> QED
      BY <2>3, <2>5, <3>1
  <2>7. CharAt(k) # "*" /\ CharAt(k) \notin FlagChars
    BY <2>6 DEF DigitChars, FlagChars
  <2>8. Skip(k, DigitChars) = w
    <3>1. CharAt(w) \notin DigitChars
      BY <1>2, EndsApart
    <3>2. ASSUME NEW l \in k .. w - 1 PROVE CharAt(l) \in DigitChars
      <4>1. (l - k) + 1 \in 1 .. a /\ k + ((l - k) + 1) - 1 = l
        BY <1>3, <2>3, <2>4
      <4> QED
        BY <2>3, <2>5, <4>1
    <3> QED
      BY <1>3, <2>4, <3>1, <3>2, SkipIs DEF IsSkip, z
  <2>9. Number(k, w) = v
    BY <2>1, <2>4, <2>5, NumberIs
  <2>10. WidthEnd(k) = w
    BY <2>7, <2>8 DEF WidthEnd
  <2> QED
    BY <2>2, <2>4, <2>7, <2>9, <2>10 DEF w, r
<1>6. CASE \E v \in Ints : d.width = << v >> /\ d.starWidth /\ text = << "*" >>
  <2>0. PICK v \in Ints : d.width = << v >> /\ d.starWidth /\ text = << "*" >>
    BY <1>6
  <2> DEFINE one == 1
  <2>1. /\ Len(text) = one /\ text[one] = "*" /\ one \in 1 .. Len(text)
        /\ Len(text) \in Nat /\ one = 1
    BY <2>0
  <2>11. d.width # << >>
    BY <2>0
  <2> HIDE DEF text, one
  <2>2. CharAt(q + one) = "*"
    BY <1>0, <1>1, <2>1, CharWithin
  <2>3. k = q + one /\ w = k + 1 /\ k \in 1 .. Len(format)
    BY <1>0, <1>1, <1>2, <1>3, <2>1
  <2>4. CharAt(k) = "*" /\ CharAt(k) \notin FlagChars /\ WidthEnd(k) = w
    BY <2>2, <2>3, EndsApart DEF WidthEnd
  <2> QED
    BY <2>0, <2>3, <2>4, <2>11 DEF w, r
<1> QED
  BY <1>4, <1>5, <1>6, WidthTexts

-----------------------------------------------------------------------------
(* The flags, behind a "%" at the index k *)
FlagsEnd(k) == Skip(k + 1, FlagChars)
Flagged(k, x) == x \in Between(k + 1, FlagsEnd(k))

LEMMA FlagsAre ==
  ASSUME format \in Seq(Characters), NEW d, IsDirectiveItem(d), NEW p \in Nat, Layout(d, p),
         NEW k, k = p + 1
  PROVE  /\ CharAt(k) = "%"
         /\ FlagsEnd(k) = BehindFlags(d, p) + 1
         /\ \A x : Flagged(k, x) <=> HasFlag(d, x)
<1> DEFINE q == p + 1
           r == BehindFlags(d, p)
           w == r + 1
           j == k + 1
           text == d.flags
           first == << "%" >>
           one == 1
<1>0. Len(format) \in Nat
  OBVIOUS
<1>1. /\ q \in Nat /\ r \in Nat /\ r = q + Len(text) /\ Within(format, q, text)
      /\ Within(format, p, first)
  <2>1. r \in Nat /\ Within(format, q, text) /\ Within(format, p, first)
    BY DEF Layout
  <2>2. q \in Nat
    OBVIOUS
  <2>3. r = q + Len(text)
    BY DEF BehindFlags
  <2> QED
    BY <2>1, <2>2, <2>3
<1>2. CharAt(w) \notin FlagChars /\ w \in 1 .. Len(format)
  BY WidthIs
<1>3. text \in Seq(FlagChars) /\ Len(text) \in Nat
  <2>1. text \in Seq(FlagChars)
    BY DEF IsDirectiveItem
  <2> HIDE DEF text
  <2> QED
    BY <2>1
<1>4. /\ Len(first) = 1 /\ first[one] = "%" /\ one \in 1 .. Len(first) /\ Len(first) \in Nat
      /\ one = 1
  OBVIOUS
<1>5. j = q + 1 /\ w = r + 1 /\ k = q /\ k = p + one /\ j \in Nat \ {0}
  OBVIOUS
<1>6. HasFlag(d, "0") <=> \E l \in DOMAIN text : text[l] = "0"
  BY DEF HasFlag
<1>7. \A x : HasFlag(d, x) <=> \E l \in 1 .. Len(text) : text[l] = x
  <2>1. DOMAIN text = 1 .. Len(text)
    BY <1>3
  <2> QED
    BY <2>1 DEF HasFlag
<1>12. FlagsEnd(k) = Skip(j, FlagChars) /\ \A x : Flagged(k, x) <=> x \in Between(j, FlagsEnd(k))
  BY DEF FlagsEnd, Flagged
<1> HIDE DEF q, r, w, j, text, first, one
<1>8. CharAt(k) = "%"
  <2>1. CharAt(p + one) = first[one]
    BY <1>0, <1>1, <1>4, CharWithin
  <2> QED
    BY <1>4, <1>5, <2>1
<1>9. \A l \in 1 .. Len(text) : CharAt(q + l) = text[l] /\ text[l] \in FlagChars
  BY <1>0, <1>1, <1>3, CharWithin
<1>10. \A l \in j .. w - 1 : l - q \in 1 .. Len(text) /\ q + (l - q) = l
  <2> DEFINE a == Len(text)
  <2>1. a \in Nat
    BY <1>3
  <2>2. r = q + a
    BY <1>1
  <2> HIDE DEF a
  <2>4. q \in Nat /\ r \in Nat /\ j = q + 1 /\ w - 1 = r
    BY <1>1, <1>5
  <2>3. \A l \in j .. w - 1 : l - q \in 1 .. a /\ q + (l - q) = l
    BY <2>1, <2>2, <2>4
  <2> QED
    BY <2>3 DEF a
<1>11. \A l \in 1 .. Len(text) : q + l \in j .. w - 1
  <2> DEFINE a == Len(text)
  <2>1. a \in Nat
    BY <1>3
  <2>2. r = q + a
    BY <1>1
  <2> HIDE DEF a
  <2>3. \A l \in 1 .. a : q + l \in j .. w - 1
    BY SMTT(30), <1>1, <1>5, <2>1, <2>2
  <2> QED
    BY <2>3 DEF a
<1>13. FlagsEnd(k) = w
  <2>1. w \in j .. Len(format) + 1
    <3> DEFINE a == Len(text)
    <3>1. a \in Nat /\ r = q + a
      BY <1>1, <1>3
    <3> HIDE DEF a
    <3> QED
      BY SMTT(30), <1>0, <1>1, <1>2, <1>5, <3>1
  <2>2. \A l \in j .. w - 1 : CharAt(l) \in FlagChars
    <3> SUFFICES ASSUME NEW l \in j .. w - 1 PROVE CharAt(l) \in FlagChars
      OBVIOUS
    <3> DEFINE m == l - q
    <3>1. m \in 1 .. Len(text) /\ q + m = l
      BY <1>10
    <3> HIDE DEF m
    <3> QED
      BY <1>9, <3>1
  <2>3. Skip(j, FlagChars) = w
    BY <1>2, <1>5, <2>1, <2>2, SkipIs DEF IsSkip
  <2> QED
    BY <1>12, <2>3
<1>14. ASSUME NEW x PROVE Flagged(k, x) <=> HasFlag(d, x)
  <2>1. Flagged(k, x) <=> \E l \in j .. w - 1 : CharAt(l) = x
    BY <1>12, <1>13 DEF Between
  <2>2. ASSUME NEW l \in j .. w - 1, CharAt(l) = x PROVE \E m \in 1 .. Len(text) : text[m] = x
    <3> DEFINE m == l - q
    <3>1. m \in 1 .. Len(text) /\ q + m = l
      BY <1>10
    <3> HIDE DEF m
    <3> QED
      BY <1>9, <2>2, <3>1
  <2>3. ASSUME NEW m \in 1 .. Len(text), text[m] = x PROVE \E l \in j .. w - 1 : CharAt(l) = x
    BY <1>9, <1>11, <2>3
  <2> QED
    BY <1>7, <2>1, <2>2, <2>3
<1> QED
  BY <1>8, <1>13, <1>14 DEF w, r

\* A directive that has its flags' end at f, its width's at w, its precision's at e.
PrecOpt(w, conv) ==
  CASE conv \in { "%", "c", "p" } \/ ~Dot(w) \/ Minus(w) -> "none"
    [] StarPrec(w) -> "star"
    [] OTHER -> "literal"
Behind(e) == Modifier(e)[2]
Parsed(k, f, w, e) ==
  [ left |-> Flagged(k, "-"),
    zero |-> /\ Flagged(k, "0") /\ ~Flagged(k, "-")
             /\ CharAt(Behind(e)) # "s"
             /\ CharAt(Behind(e)) \in Integer => PrecOpt(w, CharAt(Behind(e))) = "none",
    prepend |-> IF Flagged(k, "+") THEN << "+" >>
                ELSE IF Flagged(k, " ") THEN << " " >> ELSE << >>,
    alt |-> Flagged(k, "#"),
    widthOpt |-> IF CharAt(f) = "*" THEN "star" ELSE IF w > f THEN "literal" ELSE "none",
    width |-> IF CharAt(f) = "*" THEN 0 ELSE Number(f, w),
    precOpt |-> PrecOpt(w, CharAt(Behind(e))),
    prec |-> IF Dot(w) /\ ~StarPrec(w) THEN Number(PrecStart(w), e) ELSE 0,
    mod |-> Modifier(e)[1],
    conv |-> CharAt(Behind(e)),
    end |-> IF CharAt(Behind(e)) \in Conversions THEN Behind(e) + 1 ELSE 0 ]

LEMMA ParseIs ==
  ASSUME NEW k, NEW f, f = FlagsEnd(k), NEW w, w = WidthEnd(f), NEW e, e = PrecEnd(w)
  PROVE  Parse(k) = Parsed(k, f, w, e)
BY DEF Parse, Parsed, FlagsEnd, WidthEnd, PrecEnd, PrecStart, Dot, StarPrec, Minus, Flagged,
       PrecOpt, Behind

LEMMA ItemArgumentsAre ==
  ASSUME NEW d, IsDirective(d), IsDirectiveItem(d)
  PROVE  /\ ItemArguments(d) = (IF d.starWidth THEN << Unsigned(d.width[1]) >> ELSE << >>)
                               \o (IF d.starPrec THEN << Unsigned(d.prec[1]) >> ELSE << >>)
                               \o (IF d.conv = "%" THEN << >> ELSE << d.val >>)
         /\ d.starWidth => d.width # << >> /\ d.width[1] \in Ints /\ Unsigned(d.width[1]) \in Nat
         /\ d.starPrec => d.prec # << >> /\ d.prec[1] \in Ints /\ Unsigned(d.prec[1]) \in Nat
         /\ d.val \in Nat
<1>1. d.val \in Nat
  BY ItemFacts
<1>2. d.starWidth => \E v \in Ints : d.width = << v >>
  BY DEF IsDirectiveItem
<1>3. d.starPrec => \E v \in Ints : d.prec = << v >>
  BY DEF IsDirectiveItem
<1>4. d.starWidth => d.width # << >> /\ d.width[1] \in Ints
  BY <1>2
<1>5. d.starPrec => d.prec # << >> /\ d.prec[1] \in Ints
  BY <1>3
<1>6. \A v \in Ints : Unsigned(v) \in Nat
  BY IntComesBack
<1> QED
  BY <1>1, <1>4, <1>5, <1>6 DEF ItemArguments

StarsOf(d) == (IF d.starWidth THEN 1 ELSE 0) + (IF d.starPrec THEN 1 ELSE 0)
ArgumentsOf(d) == StarsOf(d) + (IF d.conv = "%" THEN 0 ELSE 1)

LEMMA OneWord ==
  /\ << >> \in Seq(Nat) /\ Len(<< >>) = 0
  /\ \A x \in Nat : << x >> \in Seq(Nat) /\ Len(<< x >>) = 1 /\ << x >>[1] = x
OBVIOUS

LEMMA ArgumentsLaid ==
  ASSUME NEW d, IsDirective(d), IsDirectiveItem(d), NEW j \in Nat
  PROVE  /\ ItemArguments(d) \in Seq(Nat) /\ Len(ItemArguments(d)) = ArgumentsOf(d)
         /\ Len(args) \in Nat /\ Within(args, j, ItemArguments(d)) =>
              /\ d.starWidth => args[j + 1] = Unsigned(d.width[1])
              /\ d.starPrec => args[IF d.starWidth THEN j + 2 ELSE j + 1] = Unsigned(d.prec[1])
              /\ d.conv # "%" => args[j + StarsOf(d) + 1] = d.val
<1> DEFINE a == IF d.starWidth THEN << Unsigned(d.width[1]) >> ELSE << >>
           b == IF d.starPrec THEN << Unsigned(d.prec[1]) >> ELSE << >>
           e == IF d.conv = "%" THEN << >> ELSE << d.val >>
           ab == a \o b
           all == ab \o e
           one == 1
<1>1. /\ a \in Seq(Nat) /\ Len(a) = (IF d.starWidth THEN 1 ELSE 0)
      /\ d.starWidth => Len(a) = 1 /\ a[one] = Unsigned(d.width[1])
  <2>1. CASE d.starWidth
    <3> DEFINE x == Unsigned(d.width[1])
    <3>1. x \in Nat /\ a = << x >>
      BY <2>1, ItemArgumentsAre
    <3> HIDE DEF x, a
    <3>2. a \in Seq(Nat) /\ Len(a) = 1 /\ a[1] = x
      BY <3>1, OneWord
    <3> QED
      BY <2>1, <3>2 DEF x
  <2>2. CASE ~(d.starWidth)
    <3>1. a = << >>
      BY <2>2
    <3> HIDE DEF a
    <3> QED
      BY <2>2, <3>1, OneWord
  <2> QED
    BY <2>1, <2>2
<1>2. /\ b \in Seq(Nat) /\ Len(b) = (IF d.starPrec THEN 1 ELSE 0)
      /\ d.starPrec => Len(b) = 1 /\ b[one] = Unsigned(d.prec[1])
  <2>1. CASE d.starPrec
    <3> DEFINE x == Unsigned(d.prec[1])
    <3>1. x \in Nat /\ b = << x >>
      BY <2>1, ItemArgumentsAre
    <3> HIDE DEF x, b
    <3>2. b \in Seq(Nat) /\ Len(b) = 1 /\ b[1] = x
      BY <3>1, OneWord
    <3> QED
      BY <2>1, <3>2 DEF x
  <2>2. CASE ~(d.starPrec)
    <3>1. b = << >>
      BY <2>2
    <3> HIDE DEF b
    <3> QED
      BY <2>2, <3>1, OneWord
  <2> QED
    BY <2>1, <2>2
<1>3. /\ e \in Seq(Nat) /\ Len(e) = (IF d.conv = "%" THEN 0 ELSE 1)
      /\ d.conv # "%" => Len(e) = 1 /\ e[one] = d.val
  <2>1. CASE d.conv # "%"
    <3> DEFINE x == d.val
    <3>1. x \in Nat /\ e = << x >>
      BY <2>1, ItemArgumentsAre
    <3> HIDE DEF x, e
    <3>2. e \in Seq(Nat) /\ Len(e) = 1 /\ e[1] = x
      BY <3>1, OneWord
    <3> QED
      BY <2>1, <3>2 DEF x
  <2>2. CASE ~(d.conv # "%")
    <3>1. e = << >>
      BY <2>2
    <3> HIDE DEF e
    <3> QED
      BY <2>2, <3>1, OneWord
  <2> QED
    BY <2>1, <2>2
<1>4. ItemArguments(d) = all
  BY ItemArgumentsAre
<1>5. one = 1 /\ one \in Nat
  OBVIOUS
<1> HIDE DEF a, b, e, one
<1>6. ab \in Seq(Nat) /\ Len(ab) = Len(a) + Len(b)
  BY <1>1, <1>2, JoinedType
<1> HIDE DEF ab
<1>7. all \in Seq(Nat) /\ Len(all) = Len(ab) + Len(e)
  BY <1>3, <1>6, JoinedType
<1> HIDE DEF all
<1>8. Len(all) = ArgumentsOf(d) /\ Len(ab) = StarsOf(d) /\ StarsOf(d) \in Nat
  BY <1>1, <1>2, <1>3, <1>6, <1>7 DEF ArgumentsOf, StarsOf
<1>9. ASSUME Len(args) \in Nat, Within(args, j, all)
      PROVE  /\ d.starWidth => args[j + 1] = Unsigned(d.width[1])
             /\ d.starPrec => args[IF d.starWidth THEN j + 2 ELSE j + 1] = Unsigned(d.prec[1])
             /\ d.conv # "%" => args[j + StarsOf(d) + 1] = d.val
  <2>1. Within(args, j, ab) /\ Within(args, j + Len(ab), e)
    <3>1. ab \in Seq(Nat) /\ e \in Seq(Nat)
      BY <1>3, <1>6
    <3> QED
      BY <1>9, <3>1, WithinParts DEF all
  <2>2. Within(args, j, a) /\ Within(args, j + Len(a), b)
    <3>1. a \in Seq(Nat) /\ b \in Seq(Nat)
      BY <1>1, <1>2
    <3> QED
      BY <1>9, <2>1, <3>1, WithinParts DEF ab
  <2>3. ASSUME d.starWidth PROVE args[j + 1] = Unsigned(d.width[1])
    <3>1. one \in 1 .. Len(a)
      BY <1>1, <1>5, <2>3
    <3> QED
      BY <1>1, <1>5, <2>2, <2>3, <3>1 DEF Within
  <2>4. ASSUME d.starPrec PROVE args[IF d.starWidth THEN j + 2 ELSE j + 1] = Unsigned(d.prec[1])
    <3>1. one \in 1 .. Len(b)
      BY <1>2, <1>5, <2>4
    <3>2. args[(j + Len(a)) + one] = Unsigned(d.prec[1])
      BY <1>2, <2>2, <2>4, <3>1 DEF Within
    <3>3. (j + Len(a)) + one = IF d.starWidth THEN j + 2 ELSE j + 1
      BY <1>1, <1>5
    <3> QED
      BY <3>2, <3>3
  <2>5. ASSUME d.conv # "%" PROVE args[j + StarsOf(d) + 1] = d.val
    <3>1. one \in 1 .. Len(e)
      BY <1>3, <1>5, <2>5
    <3>2. args[(j + Len(ab)) + one] = d.val
      BY <1>3, <2>1, <2>5, <3>1 DEF Within
    <3>3. (j + Len(ab)) + one = j + StarsOf(d) + 1
      BY <1>5, <1>8
    <3> QED
      BY <3>2, <3>3
  <2> QED
    BY <2>3, <2>4, <2>5
<1> QED
  BY <1>4, <1>7, <1>8, <1>9

\* What a directive's text says of it, once it is parsed.
Reads(fs, d) ==
  /\ fs.conv = d.conv /\ fs.mod = d.type
  /\ fs.left <=> HasFlag(d, "-")
  /\ fs.zero <=> KeepsZero(d)
  /\ fs.prepend = IF HasFlag(d, "+") THEN << "+" >>
                  ELSE IF HasFlag(d, " ") THEN << " " >> ELSE << >>
  /\ fs.alt <=> HasFlag(d, "#")
  /\ fs.widthOpt = IF d.starWidth THEN "star" ELSE IF d.width = << >> THEN "none" ELSE "literal"
  /\ ~d.starWidth => fs.width = IF d.width = << >> THEN 0 ELSE d.width[1]
  /\ fs.precOpt = IF d.starPrec THEN "star" ELSE IF d.prec = << >> THEN "none" ELSE "literal"
  /\ ~d.starPrec => fs.prec = IF d.prec = << >> THEN 0 ELSE d.prec[1]

FieldsAre(fs, k, f, w, e) ==
  /\ fs.left = Flagged(k, "-") /\ fs.alt = Flagged(k, "#")
  /\ fs.zero <=> /\ Flagged(k, "0") /\ ~Flagged(k, "-")
                 /\ CharAt(Behind(e)) # "s"
                 /\ CharAt(Behind(e)) \in Integer => PrecOpt(w, CharAt(Behind(e))) = "none"
  /\ fs.prepend = IF Flagged(k, "+") THEN << "+" >>
                  ELSE IF Flagged(k, " ") THEN << " " >> ELSE << >>
  /\ fs.widthOpt = IF CharAt(f) = "*" THEN "star" ELSE IF w > f THEN "literal" ELSE "none"
  /\ fs.width = IF CharAt(f) = "*" THEN 0 ELSE Number(f, w)
  /\ fs.precOpt = PrecOpt(w, CharAt(Behind(e)))
  /\ fs.prec = IF Dot(w) /\ ~StarPrec(w) THEN Number(PrecStart(w), e) ELSE 0
  /\ fs.mod = Modifier(e)[1] /\ fs.conv = CharAt(Behind(e))
  /\ fs.end = IF CharAt(Behind(e)) \in Conversions THEN Behind(e) + 1 ELSE 0

LEMMA ParsedFields ==
  ASSUME NEW k, NEW f, NEW w, NEW e, NEW fs, fs = Parsed(k, f, w, e)
  PROVE  FieldsAre(fs, k, f, w, e)
<1>1. fs.left = Flagged(k, "-")
  BY DEF Parsed
<1>2. fs.alt = Flagged(k, "#")
  BY DEF Parsed
<1>3. fs.zero <=> /\ Flagged(k, "0") /\ ~Flagged(k, "-")
                  /\ CharAt(Behind(e)) # "s"
                  /\ CharAt(Behind(e)) \in Integer => PrecOpt(w, CharAt(Behind(e))) = "none"
  BY DEF Parsed
<1>4. fs.prepend = IF Flagged(k, "+") THEN << "+" >>
                   ELSE IF Flagged(k, " ") THEN << " " >> ELSE << >>
  BY DEF Parsed
<1>5. fs.widthOpt = IF CharAt(f) = "*" THEN "star" ELSE IF w > f THEN "literal" ELSE "none"
  BY DEF Parsed
<1>6. fs.width = IF CharAt(f) = "*" THEN 0 ELSE Number(f, w)
  BY DEF Parsed
<1>7. fs.precOpt = PrecOpt(w, CharAt(Behind(e)))
  BY DEF Parsed
<1>8. fs.prec = IF Dot(w) /\ ~StarPrec(w) THEN Number(PrecStart(w), e) ELSE 0
  BY DEF Parsed
<1>9. fs.mod = Modifier(e)[1] /\ fs.conv = CharAt(Behind(e))
  BY DEF Parsed
<1>10. fs.end = IF CharAt(Behind(e)) \in Conversions THEN Behind(e) + 1 ELSE 0
  BY DEF Parsed
<1> QED
  BY <1>1, <1>2, <1>3, <1>4, <1>5, <1>6, <1>7, <1>8, <1>9, <1>10 DEF FieldsAre

LEMMA DirectiveRead ==
  ASSUME format \in Seq(Characters), NEW d, Proper(d), NEW p \in Nat, Layout(d, p),
         NEW k, k = p + 1
  PROVE  /\ CharAt(k) = "%" /\ Reads(Parse(k), d)
         /\ Parse(k).end = p + Len(RenderItem(d)) + 1 /\ Parse(k).end \in Nat /\ Parse(k).end # 0
         /\ \E f, w, e : Parse(k) = Parsed(k, f, w, e)
<1> DEFINE f == BehindFlags(d, p) + 1
           w == BehindWidth(d, p) + 1
           e == BehindPrec(d, p) + 1
           l == BehindLength(d, p) + 1
<1>1. IsDirective(d) /\ IsDirectiveItem(d) /\ Defined(d)
  BY DEF Proper
<1>2. CharAt(k) = "%" /\ FlagsEnd(k) = f /\ \A x : Flagged(k, x) <=> HasFlag(d, x)
  BY <1>1, FlagsAre
<1>3. /\ CharAt(f) = "*" <=> d.starWidth
      /\ WidthEnd(f) = w
      /\ ~d.starWidth => /\ Number(f, w) = IF d.width = << >> THEN 0 ELSE d.width[1]
                         /\ w > f <=> d.width # << >>
  BY <1>1, WidthIs
<1>4. /\ Dot(w) <=> d.prec # << >>
      /\ StarPrec(w) <=> d.starPrec
      /\ ~Minus(w)
      /\ PrecEnd(w) = e
      /\ Dot(w) /\ ~StarPrec(w) => Number(PrecStart(w), e) = d.prec[1]
  BY <1>1, PrecisionIs
<1>5. Modifier(e) = << d.type, l >> /\ CharAt(l) = d.conv
  BY <1>1, ModifierIs
<1>6. l + 1 = p + Len(RenderItem(d)) + 1 /\ l \in Nat
  BY DEF Layout
<1>7. d.conv \in Conversions
  BY <1>1, ItemFacts
<1>8. d.conv \in { "c", "p", "%" } => d.prec = << >>
  BY <1>1 DEF Defined
<1>9. d.starPrec => d.prec # << >>
  BY <1>1, ItemArgumentsAre
<1> HIDE DEF f, w, e, l
<1>10. Parse(k) = Parsed(k, f, w, e)
  BY <1>2, <1>3, <1>4, ParseIs
<1>11. Behind(e) = l /\ Modifier(e)[1] = d.type
  BY <1>5 DEF Behind
<1>12. PrecOpt(w, d.conv) = IF d.starPrec THEN "star" ELSE IF d.prec = << >> THEN "none" ELSE "literal"
  BY <1>4, <1>8, <1>9 DEF PrecOpt
<1> DEFINE fs == Parse(k)
<1> HIDE DEF fs
<1>30. fs = Parsed(k, f, w, e)
  BY <1>10 DEF fs
<1>31. FieldsAre(fs, k, f, w, e)
  BY <1>30, ParsedFields
<1>13. /\ fs.conv = d.conv /\ fs.mod = d.type /\ fs.end = l + 1
       /\ fs.precOpt = PrecOpt(w, d.conv)
  <2>1. /\ fs.precOpt = PrecOpt(w, CharAt(Behind(e)))
        /\ fs.mod = Modifier(e)[1] /\ fs.conv = CharAt(Behind(e))
        /\ fs.end = IF CharAt(Behind(e)) \in Conversions THEN Behind(e) + 1 ELSE 0
    BY <1>31 DEF FieldsAre
  <2> QED
    BY <1>5, <1>7, <1>11, <2>1
<1>14. /\ fs.left = Flagged(k, "-") /\ fs.alt = Flagged(k, "#")
       /\ fs.prepend = IF Flagged(k, "+") THEN << "+" >>
                       ELSE IF Flagged(k, " ") THEN << " " >> ELSE << >>
  BY <1>31 DEF FieldsAre
<1>15. fs.zero <=> /\ Flagged(k, "0") /\ ~Flagged(k, "-") /\ d.conv # "s"
                   /\ d.conv \in Integer => PrecOpt(w, d.conv) = "none"
  <2>1. fs.zero <=> /\ Flagged(k, "0") /\ ~Flagged(k, "-")
                    /\ CharAt(Behind(e)) # "s"
                    /\ CharAt(Behind(e)) \in Integer => PrecOpt(w, CharAt(Behind(e))) = "none"
    BY <1>31 DEF FieldsAre
  <2> QED
    BY <1>5, <1>11, <2>1
<1>16. /\ fs.widthOpt = IF CharAt(f) = "*" THEN "star" ELSE IF w > f THEN "literal" ELSE "none"
       /\ fs.width = IF CharAt(f) = "*" THEN 0 ELSE Number(f, w)
       /\ fs.prec = IF Dot(w) /\ ~StarPrec(w) THEN Number(PrecStart(w), e) ELSE 0
  BY <1>31 DEF FieldsAre
<1>17. d.starWidth => d.width # << >>
  BY <1>1, ItemArgumentsAre
<1>32. (Flagged(k, "0") <=> HasFlag(d, "0")) /\ (Flagged(k, "-") <=> HasFlag(d, "-"))
  BY <1>2
<1>18. fs.zero <=> KeepsZero(d)
  <2>1. PrecOpt(w, d.conv) = "none" <=> d.prec = << >>
    BY <1>9, <1>12
  <2>2. ASSUME fs.zero PROVE KeepsZero(d)
    <3>1. /\ Flagged(k, "0") /\ ~Flagged(k, "-") /\ d.conv # "s"
          /\ d.conv \in Integer => PrecOpt(w, d.conv) = "none"
      BY <1>15, <2>2
    <3> QED
      BY <1>32, <2>1, <3>1 DEF KeepsZero
  <2>3. ASSUME KeepsZero(d) PROVE fs.zero
    <3>1. /\ Flagged(k, "0") /\ ~Flagged(k, "-") /\ d.conv # "s"
          /\ d.conv \in Integer => PrecOpt(w, d.conv) = "none"
      BY <1>32, <2>1, <2>3 DEF KeepsZero
    <3> QED
      BY <1>15, <3>1
  <2> QED
    BY <2>2, <2>3
<1>19. /\ fs.widthOpt = IF d.starWidth THEN "star" ELSE IF d.width = << >> THEN "none" ELSE "literal"
       /\ ~d.starWidth => fs.width = IF d.width = << >> THEN 0 ELSE d.width[1]
       /\ ~d.starPrec => fs.prec = IF d.prec = << >> THEN 0 ELSE d.prec[1]
  BY <1>3, <1>4, <1>16
<1>20. /\ fs.left <=> HasFlag(d, "-")
       /\ fs.prepend = IF HasFlag(d, "+") THEN << "+" >>
                             ELSE IF HasFlag(d, " ") THEN << " " >> ELSE << >>
       /\ fs.alt <=> HasFlag(d, "#")
  BY <1>2, <1>14
<1>33. fs.precOpt = IF d.starPrec THEN "star" ELSE IF d.prec = << >> THEN "none" ELSE "literal"
  BY <1>12, <1>13
<1>21. Reads(fs, d)
  BY <1>13, <1>18, <1>19, <1>20, <1>33 DEF Reads
<1> QED
  BY <1>2, <1>6, <1>10, <1>13, <1>21 DEF fs

(* WithStars, field by field *)
WidthRead(fs) == IF fs.widthOpt = "star" THEN Signed(args[arg], IntBits) ELSE fs.width
PrecRead(fs) == IF fs.precOpt = "star" THEN Signed(args[AfterWidth(fs)], IntBits) ELSE fs.prec
StarsSet(all, fs) ==
  /\ all.conv = fs.conv /\ all.mod = fs.mod /\ all.zero = fs.zero
  /\ all.prepend = fs.prepend /\ all.alt = fs.alt /\ all.end = fs.end
  /\ all.left <=> fs.left \/ WidthRead(fs) < 0
  /\ all.widthOpt = IF fs.widthOpt = "star" THEN "literal" ELSE fs.widthOpt
  /\ all.width = IF WidthRead(fs) < 0 THEN -WidthRead(fs) ELSE WidthRead(fs)
  /\ all.precOpt = IF fs.precOpt # "star" THEN fs.precOpt
                   ELSE IF PrecRead(fs) < 0 THEN "none" ELSE "literal"
  /\ all.prec = PrecRead(fs)

LEMMA StarsRead ==
  ASSUME NEW k, NEW f, NEW w, NEW e, NEW fs, fs = Parsed(k, f, w, e)
  PROVE  StarsSet(WithStars(fs), fs)
<1> DEFINE all == WithStars(fs)
<1>1. all.conv = fs.conv /\ all.mod = fs.mod /\ all.end = fs.end
  BY DEF WithStars, Parsed
<1>2. all.zero = fs.zero
  BY DEF WithStars, Parsed
<1>3. all.prepend = fs.prepend /\ all.alt = fs.alt
  BY DEF WithStars, Parsed
<1>4. all.left <=> fs.left \/ WidthRead(fs) < 0
  BY DEF WithStars, Parsed, WidthRead
<1>5. all.widthOpt = IF fs.widthOpt = "star" THEN "literal" ELSE fs.widthOpt
  BY DEF WithStars, Parsed
<1>6. all.width = IF WidthRead(fs) < 0 THEN -WidthRead(fs) ELSE WidthRead(fs)
  BY DEF WithStars, Parsed, WidthRead
<1>7. all.precOpt = IF fs.precOpt # "star" THEN fs.precOpt
                    ELSE IF PrecRead(fs) < 0 THEN "none" ELSE "literal"
  BY DEF WithStars, Parsed, PrecRead
<1>8. all.prec = PrecRead(fs)
  BY DEF WithStars, Parsed, PrecRead
<1> HIDE DEF all
<1> QED
  BY <1>1, <1>2, <1>3, <1>4, <1>5, <1>6, <1>7, <1>8 DEF StarsSet, all

LEMMA MeansIs ==
  ASSUME format \in Seq(Characters), NEW d, Proper(d), NEW p \in Nat, Layout(d, p),
         arg \in Nat \ {0}, Len(args) \in Nat, Within(args, arg - 1, ItemArguments(d)),
         NEW k, k = p + 1
  PROVE  /\ Means(WithStars(Parse(k)), d)
         /\ WithStars(Parse(k)).end = p + Len(RenderItem(d)) + 1
         /\ ValueArg(Parse(k)) = arg + StarsOf(d)
         /\ d.conv # "%" => args[ValueArg(Parse(k))] = d.val
<1> DEFINE fs == Parse(k)
           all == WithStars(fs)
           j == arg - 1
<1>1. IsDirective(d) /\ IsDirectiveItem(d)
  BY DEF Proper
<1>2. Reads(fs, d) /\ fs.end = p + Len(RenderItem(d)) + 1
  BY DirectiveRead
<1>3. StarsSet(all, fs)
  <2>1. PICK f, w, e : fs = Parsed(k, f, w, e)
    BY DirectiveRead
  <2> HIDE DEF fs
  <2> QED
    BY <2>1, StarsRead
<1>4. j \in Nat /\ arg = j + 1 /\ Within(args, j, ItemArguments(d))
  OBVIOUS
<1> HIDE DEF fs, all, j
<1>5. /\ d.starWidth => args[j + 1] = Unsigned(d.width[1])
      /\ d.starPrec => args[IF d.starWidth THEN j + 2 ELSE j + 1] = Unsigned(d.prec[1])
      /\ d.conv # "%" => args[j + StarsOf(d) + 1] = d.val
  BY <1>1, <1>4, ArgumentsLaid
<1>6. /\ d.starWidth => d.width # << >> /\ d.width[1] \in Ints
      /\ d.starPrec => d.prec # << >> /\ d.prec[1] \in Ints
  BY <1>1, ItemArgumentsAre
<1>7. /\ fs.widthOpt = "star" <=> d.starWidth
      /\ fs.precOpt = "star" <=> d.starPrec
  BY <1>2 DEF Reads
<1>8. AfterWidth(fs) = (IF d.starWidth THEN j + 2 ELSE j + 1) /\ ValueArg(fs) = arg + StarsOf(d)
  BY <1>4, <1>7 DEF AfterWidth, ValueArg, StarsOf
<1>9. /\ d.width # << >> => d.width[1] \in Int
      /\ d.prec # << >> => d.prec[1] \in Int
  BY <1>1, ItemFacts
<1>10. WidthRead(fs) = IF d.width = << >> THEN 0 ELSE d.width[1]
  <2>1. CASE d.starWidth
    <3>1. WidthRead(fs) = Signed(Unsigned(d.width[1]), IntBits)
      BY <1>4, <1>5, <1>7, <2>1 DEF WidthRead
    <3> QED
      BY <1>6, <2>1, <3>1, IntComesBack
  <2>2. CASE ~d.starWidth
    BY <1>2, <1>7, <2>2 DEF WidthRead, Reads
  <2> QED
    BY <2>1, <2>2
<1>11. PrecRead(fs) = IF d.prec = << >> THEN 0 ELSE d.prec[1]
  <2>1. CASE d.starPrec
    <3>1. PrecRead(fs) = Signed(Unsigned(d.prec[1]), IntBits)
      BY <1>5, <1>7, <1>8, <2>1 DEF PrecRead
    <3> QED
      BY <1>6, <2>1, <3>1, IntComesBack
  <2>2. CASE ~d.starPrec
    BY <1>2, <1>7, <2>2 DEF PrecRead, Reads
  <2> QED
    BY <2>1, <2>2
<1>12. ~d.starPrec /\ d.prec # << >> => d.prec[1] >= 0
  <2>1. ~d.starPrec => d.prec = << >> \/ \E v \in Counts : d.prec = << v >>
    BY <1>1 DEF IsDirectiveItem
  <2>2. \A v \in Counts : d.prec = << v >> => d.prec[1] >= 0
    BY IntsFacts
  <2> QED
    BY <2>1, <2>2
<1>13. all.conv = d.conv /\ all.mod = d.type /\ all.end = p + Len(RenderItem(d)) + 1
  BY <1>2, <1>3 DEF Reads, StarsSet
<1>14. all.zero <=> KeepsZero(d)
  BY <1>2, <1>3 DEF Reads, StarsSet
<1>15. /\ all.prepend = IF HasFlag(d, "+") THEN << "+" >>
                        ELSE IF HasFlag(d, " ") THEN << " " >> ELSE << >>
       /\ all.alt <=> HasFlag(d, "#")
  BY <1>2, <1>3 DEF Reads, StarsSet
<1>16. all.left <=> LeftJustified(d)
  <2>1. (all.left <=> fs.left \/ WidthRead(fs) < 0) /\ (fs.left <=> HasFlag(d, "-"))
    BY <1>2, <1>3 DEF Reads, StarsSet
  <2>2. WidthRead(fs) < 0 <=> d.width # << >> /\ d.width[1] < 0
    BY <1>10
  <2> QED
    BY <2>1, <2>2 DEF LeftJustified
<1>17. all.widthOpt = IF d.width = << >> THEN "none" ELSE "literal"
  BY <1>2, <1>3, <1>6, <1>7 DEF Reads, StarsSet
<1>18. all.width = FieldWidth(d)
  <2>1. all.width = IF WidthRead(fs) < 0 THEN -WidthRead(fs) ELSE WidthRead(fs)
    BY <1>3 DEF StarsSet
  <2> QED
    BY <1>9, <1>10, <2>1 DEF FieldWidth
<1>19. all.precOpt = IF PrecisionGiven(d) THEN "literal" ELSE "none"
  <2>1. all.precOpt = IF fs.precOpt # "star" THEN fs.precOpt
                      ELSE IF PrecRead(fs) < 0 THEN "none" ELSE "literal"
    BY <1>3 DEF StarsSet
  <2>2. fs.precOpt = IF d.starPrec THEN "star" ELSE IF d.prec = << >> THEN "none" ELSE "literal"
    BY <1>2 DEF Reads
  <2> QED
    BY <1>6, <1>9, <1>11, <1>12, <2>1, <2>2 DEF PrecisionGiven
<1>20. /\ PrecisionGiven(d) => all.prec = d.prec[1]
       /\ ~PrecisionGiven(d) => all.prec \in Int /\ all.prec <= 0
  <2>1. all.prec = PrecRead(fs)
    BY <1>3 DEF StarsSet
  <2> QED
    BY <1>9, <1>11, <2>1 DEF PrecisionGiven
<1>21. Means(all, d)
  BY <1>13, <1>14, <1>15, <1>16, <1>17, <1>18, <1>19, <1>20 DEF Means
<1>22. d.conv # "%" => args[ValueArg(fs)] = d.val
  <2>1. j + StarsOf(d) + 1 = ValueArg(fs)
    BY <1>4, <1>8 DEF StarsOf
  <2> QED
    BY <1>5, <2>1
<1> QED
  BY <1>8, <1>13, <1>21, <1>22 DEF fs, all

LEMMA GoesOnFacts ==
  /\ "NUL" \notin GoesOn
  /\ \A x : x \notin GoesOn => /\ x \notin FlagChars /\ x \notin DigitChars /\ x \notin Conversions
                               /\ x \notin { "*", ".", "h", "l", "j", "z", "t" }
  /\ \A x : x \in FlagChars \cup DigitChars =>
              x \notin Conversions /\ x \notin { "*", ".", "h", "l", "j", "z", "t" }
<1>1. "NUL" \notin GoesOn
  BY DEF GoesOn, FlagChars, DigitChars, Conversions
<1>2. ASSUME NEW x, x \notin GoesOn
      PROVE  /\ x \notin FlagChars /\ x \notin DigitChars /\ x \notin Conversions
             /\ x \notin { "*", ".", "h", "l", "j", "z", "t" }
  BY <1>2 DEF GoesOn
<1>3. ASSUME NEW x, x \in FlagChars \cup DigitChars
      PROVE  x \notin Conversions /\ x \notin { "*", ".", "h", "l", "j", "z", "t" }
  BY <1>3 DEF FlagChars, DigitChars, Conversions
<1> QED
  BY <1>1, <1>2, <1>3

\* Flags and digits from behind m on, then something that goes on no directive.
BreaksOff(m, k) ==
  /\ CharAt(k) \notin GoesOn
  /\ \A l \in m + 1 .. k - 1 : CharAt(l) \in FlagChars \cup DigitChars

LEMMA NoDirective ==
  ASSUME format \in Seq(Characters), NEW m \in Nat \ {0}, NEW k \in m + 1 .. Len(format) + 1,
         BreaksOff(m, k)
  PROVE  Parse(m).end = 0
<1> DEFINE f == FlagsEnd(m)
           w == WidthEnd(f)
           e == PrecEnd(w)
           j == m + 1
<1>0. Len(format) \in Nat /\ j \in Nat \ {0} /\ k \in j .. Len(format) + 1 /\ k \in Nat
  OBVIOUS
<1>1. CharAt(k) \notin GoesOn /\ \A l \in j .. k - 1 : CharAt(l) \in FlagChars \cup DigitChars
  BY DEF BreaksOff
<1>2. f = Skip(j, FlagChars)
  BY DEF FlagsEnd
<1>3. Parse(m) = Parsed(m, f, w, e)
  BY ParseIs
<1>4. w = IF CharAt(f) = "*" THEN f + 1 ELSE Skip(f, DigitChars)
  BY DEF WidthEnd
<1> HIDE DEF f, j
<1>5. f \in j .. k
  BY <1>0, <1>1, <1>2, GoesOnFacts, SkipStops
<1>6. CharAt(f) # "*"
  <2>1. CASE f = k
    BY <1>1, <2>1, GoesOnFacts
  <2>2. CASE f # k
    <3>1. f \in j .. k - 1
      BY <1>0, <1>5, <2>2
    <3> QED
      BY <1>1, <3>1, GoesOnFacts
  <2> QED
    BY <2>1, <2>2
<1>7. w \in f .. k /\ CharAt(w) \notin DigitChars
  <2>1. f \in Nat \ {0} /\ k \in f .. Len(format) + 1 /\ CharAt(k) \notin DigitChars
    BY <1>0, <1>1, <1>5, GoesOnFacts
  <2>2. w = Skip(f, DigitChars)
    BY <1>4, <1>6
  <2> HIDE DEF w
  <2> QED
    BY <2>1, <2>2, SkipStops DEF IsSkip
<1> HIDE DEF w, e
<1>8. CharAt(w) \notin Conversions /\ CharAt(w) \notin { "*", ".", "h", "l", "j", "z", "t" }
  <2>1. CASE w = k
    BY <1>1, <2>1, GoesOnFacts
  <2>2. CASE w # k
    <3>1. w \in j .. k - 1
      BY <1>0, <1>5, <1>7, <2>2
    <3> QED
      BY <1>1, <3>1, GoesOnFacts
  <2> QED
    BY <2>1, <2>2
<1>9. e = w
  <2>1. w \in Nat
    BY <1>0, <1>5, <1>7
  <2>2. ~Dot(w)
    BY <1>8 DEF Dot
  <2>3. PrecStart(w) = w
    BY <2>1, <2>2 DEF PrecStart, StarPrec, Minus
  <2> QED
    BY <2>2, <2>3 DEF PrecEnd, e
<1>10. Behind(e) = w
  <2>1. Modifier(w) = << "int", w >>
    BY <1>8 DEF Modifier
  <2> QED
    BY <1>9, <2>1 DEF Behind
<1>11. FieldsAre(Parse(m), m, f, w, e)
  BY <1>3, ParsedFields
<1> QED
  BY <1>8, <1>10, <1>11 DEF FieldsAre

LEMMA TextIsCopied ==
  ASSUME format \in Seq(Characters), NEW text, NEW last, IsText(text, last), NEW p \in Nat,
         Within(format, p, text), last => p + Len(text) = Len(format),
         NEW r \in 1 .. Len(text), NEW m, m = p + r, text[r] = "%"
  PROVE  Parse(m).end = 0
<1> DEFINE a == Len(text)
           z == Len(format)
<1>0. a \in Nat /\ z \in Nat /\ DOMAIN text = 1 .. a /\ p + a <= z
  BY DEF IsText, Within
<1>1. PICK s \in r + 1 .. a + 1 :
        /\ \A j \in r + 1 .. s - 1 : text[j] \in FlagChars \cup DigitChars
        /\ IF s \in DOMAIN text THEN text[s] \notin GoesOn ELSE last
  <2>1. \A x \in DOMAIN text : text[x] = "%" =>
          \E y \in x + 1 .. Len(text) + 1 :
            /\ \A j \in x + 1 .. y - 1 : text[j] \in FlagChars \cup DigitChars
            /\ IF y \in DOMAIN text THEN text[y] \notin GoesOn ELSE last
    BY DEF IsText
  <2> QED
    BY <1>0, <2>1
<1>2. \A j \in 1 .. a : CharAt(p + j) = text[j]
  BY <1>0, CharWithin
<1>3. last => p + a = z
  OBVIOUS
<1> HIDE DEF a, z
<1> DEFINE k == p + s
<1>4. k \in m + 1 .. z + 1 /\ m \in Nat \ {0} /\ r \in Nat /\ s \in Nat
  BY <1>0, <1>1
<1>5. CharAt(k) \notin GoesOn
  <2>1. CASE s \in 1 .. a
    BY <1>0, <1>1, <1>2, <2>1
  <2>2. CASE s \notin 1 .. a
    <3>1. last /\ s = a + 1
      BY <1>0, <1>1, <1>4, <2>2
    <3>2. k = z + 1 /\ ~(k <= z)
      BY <1>0, <1>3, <3>1
    <3> HIDE DEF k
    <3>3. CharAt(k) = "NUL"
      BY <3>2 DEF CharAt, z
    <3> QED
      BY <3>3, GoesOnFacts
  <2> QED
    BY <2>1, <2>2
<1>6. ASSUME NEW l \in m + 1 .. k - 1 PROVE CharAt(l) \in FlagChars \cup DigitChars
  <2> DEFINE j == l - p
  <2>1. j \in r + 1 .. s - 1 /\ j \in 1 .. a /\ l = p + j
    BY <1>0, <1>1, <1>4
  <2> HIDE DEF j, k
  <2> QED
    BY <1>1, <1>2, <2>1
<1>7. BreaksOff(m, k)
  BY <1>5, <1>6 DEF BreaksOff
<1> HIDE DEF k
<1> QED
  BY <1>4, <1>7, NoDirective DEF z

-----------------------------------------------------------------------------
(* A format and what is made from it, item by item *)
Rendered(its) == [ l \in DOMAIN its |-> RenderItem(its[l]) ]
Taken(its) == [ l \in DOMAIN its |-> ItemArguments(its[l]) ]
Prints(its) == [ l \in DOMAIN its |-> ExpectedItem(its[l]) ]

RenderedTo(its, k) == Offset(Rendered(its), Characters, k)
TakenTo(its, k) == Offset(Taken(its), Nat, k)
PrintedTo(its, k) == Offset(Prints(its), Characters, k)

Meant(its) == IsFormat(its) /\ Agreed(its)

\* There is a way to read every directive.
LEMMA SomeMeaning ==
  ASSUME NEW d, Proper(d)
  PROVE  \E fs : Means(fs, d)
<1> DEFINE fs == [ conv |-> d.conv, mod |-> d.type, left |-> LeftJustified(d), zero |-> KeepsZero(d),
                   prepend |-> IF HasFlag(d, "+") THEN << "+" >>
                               ELSE IF HasFlag(d, " ") THEN << " " >> ELSE << >>,
                   alt |-> HasFlag(d, "#"),
                   widthOpt |-> IF d.width = << >> THEN "none" ELSE "literal",
                   width |-> FieldWidth(d),
                   precOpt |-> IF PrecisionGiven(d) THEN "literal" ELSE "none",
                   prec |-> IF PrecisionGiven(d) THEN d.prec[1] ELSE 0 ]
<1>1. Means(fs, d)
  <2>1. fs.conv = d.conv /\ fs.mod = d.type
    OBVIOUS
  <2>2. fs.left <=> LeftJustified(d)
    OBVIOUS
  <2>3. fs.zero <=> KeepsZero(d)
    OBVIOUS
  <2>4. fs.prepend = IF HasFlag(d, "+") THEN << "+" >>
                     ELSE IF HasFlag(d, " ") THEN << " " >> ELSE << >>
    OBVIOUS
  <2>5. fs.alt <=> HasFlag(d, "#")
    OBVIOUS
  <2>6. /\ fs.widthOpt = IF d.width = << >> THEN "none" ELSE "literal"
        /\ fs.width = FieldWidth(d)
        /\ fs.precOpt = IF PrecisionGiven(d) THEN "literal" ELSE "none"
    OBVIOUS
  <2>7. fs.prec = IF PrecisionGiven(d) THEN d.prec[1] ELSE 0
    OBVIOUS
  <2> HIDE DEF fs
  <2>8. /\ PrecisionGiven(d) => fs.prec = d.prec[1]
        /\ ~PrecisionGiven(d) => fs.prec \in Int /\ fs.prec <= 0
    BY <2>7
  <2> QED
    BY <2>1, <2>2, <2>3, <2>4, <2>5, <2>6, <2>8 DEF Means
<1> QED
  BY <1>1

LEMMA ItemIs ==
  ASSUME NEW its, Meant(its), NEW k \in DOMAIN its, NEW d, d = its[k]
  PROVE  /\ IsDirective(d) => Proper(d)
         /\ ~IsDirective(d) => /\ IsText(d.text, k = Len(its))
                               /\ RenderItem(d) = d.text /\ ExpectedItem(d) = d.text
                               /\ ItemArguments(d) = << >>
<1>1. IF IsDirective(d) THEN IsDirectiveItem(d) ELSE IsText(d.text, k = Len(its))
  BY DEF Meant, IsFormat
<1>2. Defined(d) /\ ~ZeroWithNegativeStar(d)
  BY DEF Meant, Agreed
<1>3. IsDirective(d) => Proper(d)
  BY <1>1, <1>2 DEF Proper
<1>4. ~IsDirective(d) => /\ RenderItem(d) = d.text /\ ExpectedItem(d) = d.text
                         /\ ItemArguments(d) = << >>
  BY DEF RenderItem, ExpectedItem, ItemArguments
<1> QED
  BY <1>1, <1>3, <1>4

LEMMA ItemTyped ==
  ASSUME NEW its, Meant(its), NEW k \in DOMAIN its
  PROVE  /\ RenderItem(its[k]) \in Seq(Characters) /\ ExpectedItem(its[k]) \in Seq(Characters)
         /\ ItemArguments(its[k]) \in Seq(Nat) /\ RenderItem(its[k]) # << >>
<1> DEFINE d == its[k]
           none == << >>
<1>0. none \in Seq(Nat)
  OBVIOUS
<1>3. 0 \in Nat
  OBVIOUS
<1> HIDE DEF d, none
<1>1. CASE IsDirective(d)
  <2>1. Proper(d) /\ IsDirectiveItem(d)
    BY <1>1, ItemIs DEF d, Proper
  <2>2. PICK fs : Means(fs, d)
    BY <2>1, SomeMeaning
  <2>3. ExpectedItem(d) \in Seq(Characters)
    BY <2>1, <2>2, FieldIsItem
  <2>4. RenderItem(d) \in Seq(Characters) /\ Len(RenderItem(d)) >= 1
    BY <1>1, <1>3, <2>1, DirectiveLaid
  <2>5. ItemArguments(d) \in Seq(Nat)
    BY <1>1, <1>3, <2>1, ArgumentsLaid
  <2>6. RenderItem(d) # << >>
    <3>1. Len(<< >>) = 0
      OBVIOUS
    <3> QED
      BY <2>4, <3>1
  <2> QED
    BY <2>3, <2>4, <2>5, <2>6 DEF d
<1>2. CASE ~IsDirective(d)
  <2>1. /\ IsText(d.text, k = Len(its)) /\ RenderItem(d) = d.text /\ ExpectedItem(d) = d.text
        /\ ItemArguments(d) = << >>
    BY <1>2, ItemIs DEF d
  <2>2. d.text \in Seq(Characters) /\ d.text # << >>
    BY <2>1 DEF IsText
  <2> QED
    BY <1>0, <2>1, <2>2 DEF d, none
<1> QED
  BY <1>1, <1>2

LEMMA SameDomain ==
  ASSUME NEW its, NEW N \in Nat, DOMAIN its = 1 .. N, NEW X, NEW S, DOMAIN S = 1 .. N,
         S = [ l \in DOMAIN its |-> S[l] ], \A l \in DOMAIN its : S[l] \in Seq(X)
  PROVE  S \in Seq(Seq(X)) /\ Len(S) = N
<1>1. S \in [1 .. N -> Seq(X)]
  OBVIOUS
<1> QED
  BY <1>1

LEMMA AllLaid ==
  ASSUME NEW its, Meant(its)
  PROVE  /\ Len(its) \in Nat /\ DOMAIN its = 1 .. Len(its)
         /\ Laid(Rendered(its), Characters, Render(its)) /\ Len(Rendered(its)) = Len(its)
         /\ Laid(Taken(its), Nat, Arguments(its)) /\ Len(Taken(its)) = Len(its)
         /\ Laid(Prints(its), Characters, Expected(its)) /\ Len(Prints(its)) = Len(its)
<1> DEFINE N == Len(its)
<1>1. its \in Seq(Range(its))
  BY DEF Meant, IsFormat
<1>2. N \in Nat /\ DOMAIN its = 1 .. N
  BY <1>1
<1> HIDE DEF N
<1>3. Rendered(its) \in Seq(Seq(Characters)) /\ Len(Rendered(its)) = N
  <2> DEFINE S == Rendered(its)
  <2>1. S = [ l \in DOMAIN its |-> RenderItem(its[l]) ]
    BY DEF Rendered
  <2> HIDE DEF S
  <2>2. /\ DOMAIN S = 1 .. N /\ S = [ l \in DOMAIN its |-> S[l] ]
        /\ \A l \in DOMAIN its : S[l] = RenderItem(its[l])
    BY <1>2, <2>1
  <2>3. \A l \in DOMAIN its : S[l] \in Seq(Characters)
    BY <2>2, ItemTyped
  <2>4. S \in Seq(Seq(Characters)) /\ Len(S) = N
    BY <1>2, <2>2, <2>3, SameDomain
  <2> QED
    BY <2>4 DEF S
<1>4. Taken(its) \in Seq(Seq(Nat)) /\ Len(Taken(its)) = N
  <2> DEFINE S == Taken(its)
  <2>1. S = [ l \in DOMAIN its |-> ItemArguments(its[l]) ]
    BY DEF Taken
  <2> HIDE DEF S
  <2>2. /\ DOMAIN S = 1 .. N /\ S = [ l \in DOMAIN its |-> S[l] ]
        /\ \A l \in DOMAIN its : S[l] = ItemArguments(its[l])
    BY <1>2, <2>1
  <2>3. \A l \in DOMAIN its : S[l] \in Seq(Nat)
    BY <2>2, ItemTyped
  <2>4. S \in Seq(Seq(Nat)) /\ Len(S) = N
    BY <1>2, <2>2, <2>3, SameDomain
  <2> QED
    BY <2>4 DEF S
<1>5. Prints(its) \in Seq(Seq(Characters)) /\ Len(Prints(its)) = N
  <2> DEFINE S == Prints(its)
  <2>1. S = [ l \in DOMAIN its |-> ExpectedItem(its[l]) ]
    BY DEF Prints
  <2> HIDE DEF S
  <2>2. /\ DOMAIN S = 1 .. N /\ S = [ l \in DOMAIN its |-> S[l] ]
        /\ \A l \in DOMAIN its : S[l] = ExpectedItem(its[l])
    BY <1>2, <2>1
  <2>3. \A l \in DOMAIN its : S[l] \in Seq(Characters)
    BY <2>2, ItemTyped
  <2>4. S \in Seq(Seq(Characters)) /\ Len(S) = N
    BY <1>2, <2>2, <2>3, SameDomain
  <2> QED
    BY <2>4 DEF S
<1>6. Laid(Rendered(its), Characters, Render(its))
  BY <1>3, PiecesLaid DEF Render, Rendered
<1>7. Laid(Taken(its), Nat, Arguments(its))
  BY <1>4, PiecesLaid DEF Arguments, Taken
<1>8. Laid(Prints(its), Characters, Expected(its))
  BY <1>5, PiecesLaid DEF Expected, Prints
<1> QED
  BY <1>2, <1>3, <1>4, <1>5, <1>6, <1>7, <1>8 DEF N

\* How far the three have come behind an item.
ItemFollows(its, k) ==
  /\ RenderedTo(its, k) = RenderedTo(its, k - 1) + Len(RenderItem(its[k]))
  /\ TakenTo(its, k) = TakenTo(its, k - 1) + Len(ItemArguments(its[k]))
  /\ PrintedTo(its, k) = PrintedTo(its, k - 1) + Len(ExpectedItem(its[k]))
  /\ Within(Render(its), RenderedTo(its, k - 1), RenderItem(its[k]))
  /\ Within(Arguments(its), TakenTo(its, k - 1), ItemArguments(its[k]))
  /\ Within(Expected(its), PrintedTo(its, k - 1), ExpectedItem(its[k]))

LEMMA ItemsFollow ==
  ASSUME NEW its, Meant(its)
  PROVE  /\ Len(its) \in Nat /\ DOMAIN its = 1 .. Len(its)
         /\ Render(its) \in Seq(Characters) /\ Arguments(its) \in Seq(Nat)
         /\ Expected(its) \in Seq(Characters)
         /\ \A k \in 0 .. Len(its) : /\ RenderedTo(its, k) \in Nat /\ TakenTo(its, k) \in Nat
                                      /\ PrintedTo(its, k) \in Nat
         /\ RenderedTo(its, 0) = 0 /\ TakenTo(its, 0) = 0 /\ PrintedTo(its, 0) = 0
         /\ RenderedTo(its, Len(its)) = Len(Render(its))
         /\ TakenTo(its, Len(its)) = Len(Arguments(its))
         /\ PrintedTo(its, Len(its)) = Len(Expected(its))
         /\ \A k \in 1 .. Len(its) : ItemFollows(its, k)
<1> DEFINE R == Rendered(its)
           T == Taken(its)
           P == Prints(its)
           N == Len(its)
<1>1. /\ N \in Nat /\ DOMAIN its = 1 .. N
      /\ Laid(R, Characters, Render(its)) /\ Len(R) = N
      /\ Laid(T, Nat, Arguments(its)) /\ Len(T) = N
      /\ Laid(P, Characters, Expected(its)) /\ Len(P) = N
  BY AllLaid
<1>2. \A k \in 1 .. N : /\ R[k] = RenderItem(its[k]) /\ T[k] = ItemArguments(its[k])
                        /\ P[k] = ExpectedItem(its[k])
  BY <1>1 DEF Rendered, Taken, Prints
<1>3. \A k : /\ RenderedTo(its, k) = Offset(R, Characters, k) /\ TakenTo(its, k) = Offset(T, Nat, k)
             /\ PrintedTo(its, k) = Offset(P, Characters, k)
  BY DEF RenderedTo, TakenTo, PrintedTo
<1> HIDE DEF R, T, P, N
<1>4. /\ Render(its) \in Seq(Characters)
      /\ RenderedTo(its, 0) = 0 /\ RenderedTo(its, N) = Len(Render(its))
      /\ \A k \in 0 .. N : RenderedTo(its, k) \in Nat
      /\ \A k \in 1 .. N : /\ RenderedTo(its, k) = RenderedTo(its, k - 1) + Len(RenderItem(its[k]))
                            /\ Within(Render(its), RenderedTo(its, k - 1), RenderItem(its[k]))
  BY <1>1, <1>2, <1>3 DEF Laid
<1>5. /\ Arguments(its) \in Seq(Nat)
      /\ TakenTo(its, 0) = 0 /\ TakenTo(its, N) = Len(Arguments(its))
      /\ \A k \in 0 .. N : TakenTo(its, k) \in Nat
      /\ \A k \in 1 .. N : /\ TakenTo(its, k) = TakenTo(its, k - 1) + Len(ItemArguments(its[k]))
                            /\ Within(Arguments(its), TakenTo(its, k - 1), ItemArguments(its[k]))
  BY <1>1, <1>2, <1>3 DEF Laid
<1>6. /\ Expected(its) \in Seq(Characters)
      /\ PrintedTo(its, 0) = 0 /\ PrintedTo(its, N) = Len(Expected(its))
      /\ \A k \in 0 .. N : PrintedTo(its, k) \in Nat
      /\ \A k \in 1 .. N : /\ PrintedTo(its, k) = PrintedTo(its, k - 1) + Len(ExpectedItem(its[k]))
                            /\ Within(Expected(its), PrintedTo(its, k - 1), ExpectedItem(its[k]))
  BY <1>1, <1>2, <1>3 DEF Laid
<1>7. \A k \in 1 .. N : ItemFollows(its, k)
  BY <1>4, <1>5, <1>6 DEF ItemFollows
<1> QED
  BY <1>1, <1>4, <1>5, <1>6, <1>7 DEF N

-----------------------------------------------------------------------------
(* What the buffer holds *)

\* As much as fits of the first o.n characters of a text.
Holds(o, z, text) ==
  /\ o.n <= Len(text)
  /\ o.cur = IF o.n < z THEN o.n ELSE z
  /\ \A l \in 1 .. o.cur : o.buf[l - 1] = text[l]

LEMMA BufPutcIs ==
  ASSUME NEW o, Shape(o), size \in Nat, NEW ch, NEW b, b = BufPutc(o, ch)
  PROVE  /\ b.n = o.n
         /\ o.cur < size => b.cur = o.cur + 1 /\ b.buf = [ o.buf EXCEPT ![o.cur] = ch ]
         /\ ~(o.cur < size) => b.cur = o.cur /\ b.buf = o.buf
<1>1. CASE o.cur < size
  <2>1. b = [ buf |-> [ o.buf EXCEPT ![o.cur] = ch ], cur |-> o.cur + 1, n |-> o.n ]
    <3> DEFINE d == [ o EXCEPT !.buf[o.cur] = ch ]
    <3>1. d = [ buf |-> [ o.buf EXCEPT ![o.cur] = ch ], cur |-> o.cur, n |-> o.n ]
      BY DEF Shape
    <3>2. b = [ d EXCEPT !.cur = @ + 1 ]
      BY <1>1 DEF BufPutc
    <3> HIDE DEF d
    <3> QED
      BY <3>1, <3>2
  <2> QED
    BY <1>1, <2>1
<1>2. CASE ~(o.cur < size)
  BY <1>2 DEF BufPutc
<1> QED
  BY <1>1, <1>2

LEMMA PutcIs ==
  ASSUME NEW o, Shape(o), size \in Nat, NEW ch, NEW b, b = Putc(o, ch)
  PROVE  /\ b.n = o.n + 1
         /\ o.cur < size => b.cur = o.cur + 1 /\ b.buf = [ o.buf EXCEPT ![o.cur] = ch ]
         /\ ~(o.cur < size) => b.cur = o.cur /\ b.buf = o.buf
<1> DEFINE e == BufPutc(o, ch)
<1>1. Shape(e) /\ e.n = o.n
  BY PutWithinBuffer
<1>2. b = [ e EXCEPT !.n = @ + 1 ]
  BY DEF Putc
<1>3. /\ o.cur < size => e.cur = o.cur + 1 /\ e.buf = [ o.buf EXCEPT ![o.cur] = ch ]
      /\ ~(o.cur < size) => e.cur = o.cur /\ e.buf = o.buf
  BY BufPutcIs
<1> HIDE DEF e
<1>4. b.n = e.n + 1 /\ b.cur = e.cur /\ b.buf = e.buf
  BY <1>1, <1>2 DEF Shape
<1> QED
  BY <1>1, <1>3, <1>4

LEMMA HoldsMore ==
  ASSUME NEW o, Shape(o), size \in Nat, NEW X, NEW text \in Seq(X), Holds(o, size, text),
         NEW w, w = o.n + 1, w <= Len(text), NEW b, b = Putc(o, text[w])
  PROVE  Holds(b, size, text) /\ b.n = w
<1> DEFINE ch == text[w]
<1>1. /\ o.n \in Nat /\ o.cur \in Nat /\ o.cur <= size /\ DOMAIN o.buf = -1 .. size
      /\ o.cur = (IF o.n < size THEN o.n ELSE size) /\ \A l \in 1 .. o.cur : o.buf[l - 1] = text[l]
      /\ o.n <= Len(text)
  BY DEF Shape, Holds
<1>2. /\ b.n = o.n + 1
      /\ o.cur < size => b.cur = o.cur + 1 /\ b.buf = [ o.buf EXCEPT ![o.cur] = ch ]
      /\ ~(o.cur < size) => b.cur = o.cur /\ b.buf = o.buf
  BY PutcIs
<1>0. Len(text) \in Nat
  OBVIOUS
<1> HIDE DEF ch
<1>3. b.n = w /\ b.n <= Len(text)
  BY <1>2
<1>4. b.cur = IF b.n < size THEN b.n ELSE size
  BY <1>1, <1>2
<1>5. ASSUME NEW l \in 1 .. b.cur PROVE b.buf[l - 1] = text[l]
  <2>1. CASE o.cur < size
    <3>1. o.cur = o.n /\ b.cur = w /\ w = o.cur + 1 /\ o.cur \in -1 .. size
      BY <1>1, <1>2, <2>1
    <3>2. CASE l = w
      <4>1. l - 1 = o.cur
        BY <1>1, <3>1, <3>2
      <4>2. b.buf[o.cur] = ch
        BY <1>1, <1>2, <2>1, <3>1
      <4> QED
        BY <3>2, <4>1, <4>2 DEF ch
    <3>3. CASE l # w
      <4>1. l \in 1 .. o.cur /\ l - 1 # o.cur /\ l - 1 \in -1 .. size
        BY <1>1, <3>1, <3>3
      <4>2. b.buf[l - 1] = o.buf[l - 1]
        BY <1>1, <1>2, <2>1, <4>1
      <4> QED
        BY <1>1, <4>1, <4>2
    <3> QED
      BY <3>2, <3>3
  <2>2. CASE ~(o.cur < size)
    BY <1>1, <1>2, <2>2
  <2> QED
    BY <2>1, <2>2
<1> QED
  BY <1>3, <1>4, <1>5 DEF Holds

\* The ends: what fits stays, with a NUL behind it.
LEMMA TerminateHolds ==
  ASSUME NEW o, Shape(o), size \in Nat, NEW X, NEW text \in Seq(X), Holds(o, size, text),
         o.n = Len(text), NEW t, t = Terminate(o)
  PROVE  /\ t.n = Len(text) /\ Shape(t)
         /\ size > 0 =>
              LET fits == IF Len(text) <= size - 1 THEN Len(text) ELSE size - 1
              IN t.buf[fits] = "NUL" /\ \A l \in 1 .. fits : t.buf[l - 1] = text[l]
<1> DEFINE L == Len(text)
           fits == IF L <= size - 1 THEN L ELSE size - 1
           b == BufPutc(o, "NUL")
<1>1. /\ o.n \in Nat /\ o.cur \in Nat /\ o.cur <= size /\ DOMAIN o.buf = -1 .. size
      /\ o.cur = (IF o.n < size THEN o.n ELSE size) /\ \A l \in 1 .. o.cur : o.buf[l - 1] = text[l]
      /\ o.n = L /\ L \in Nat
  BY DEF Shape, Holds
<1>2. /\ b.n = o.n /\ Shape(b)
      /\ o.cur < size => b.cur = o.cur + 1 /\ b.buf = [ o.buf EXCEPT ![o.cur] = "NUL" ]
      /\ ~(o.cur < size) => b.cur = o.cur /\ b.buf = o.buf
  BY BufPutcIs, PutWithinBuffer
<1>3. t = IF size > 0 THEN [ b EXCEPT !.buf[size - 1] = "NUL" ] ELSE b
  BY DEF Terminate
<1> HIDE DEF b, L, fits
<1>4. CASE ~(size > 0)
  BY <1>1, <1>2, <1>3, <1>4 DEF L
<1>5. CASE size > 0
  <2>1. t = [ buf |-> [ b.buf EXCEPT ![size - 1] = "NUL" ], cur |-> b.cur, n |-> b.n ]
    BY <1>2, <1>3, <1>5 DEF Shape
  <2>2. t.n = L /\ Shape(t) /\ t.buf = [ b.buf EXCEPT ![size - 1] = "NUL" ] /\ DOMAIN b.buf = -1 .. size
    BY <1>1, <1>2, <2>1 DEF Shape
  <2>3. fits \in 0 .. size - 1 /\ fits <= L /\ fits <= o.cur /\ fits \in Nat /\ size - 1 \in -1 .. size
    BY <1>1, <1>5 DEF fits
  <2>4. t.buf[fits] = "NUL"
    <3>1. CASE fits = size - 1
      BY <2>2, <2>3, <3>1
    <3>2. CASE fits # size - 1
      <4>1. fits = L /\ L < size - 1 /\ o.cur = L /\ o.cur < size /\ fits \in -1 .. size
        BY <1>1, <1>5, <2>3, <3>2 DEF fits
      <4>2. b.buf[fits] = "NUL"
        BY <1>1, <1>2, <4>1
      <4> QED
        BY <2>2, <2>3, <3>2, <4>1, <4>2
    <3> QED
      BY <3>1, <3>2
  <2>5. ASSUME NEW l \in 1 .. fits PROVE t.buf[l - 1] = text[l]
    <3>1. l \in 1 .. o.cur /\ l - 1 # size - 1 /\ l - 1 # o.cur /\ l - 1 \in -1 .. size
      BY <1>1, <1>5, <2>3
    <3>2. b.buf[l - 1] = o.buf[l - 1]
      BY <1>1, <1>2, <3>1
    <3> QED
      BY <1>1, <2>2, <3>1, <3>2
  <2> QED
    BY <2>2, <2>4, <2>5 DEF fits, L
<1> QED
  BY <1>4, <1>5

-----------------------------------------------------------------------------
(* The call, between two steps *)

\* The first k items are read and, but for the field f, written; of the next
\* one, a text, j characters are.
Stage(its, z, o, a, r, f, k, j) ==
  /\ j > 0 => /\ k < Len(its) /\ ~IsDirective(its[k + 1]) /\ j < Len(its[k + 1].text)
              /\ f = << >>
  /\ a = RenderedTo(its, k) + j + 1
  /\ r = TakenTo(its, k) + 1
  /\ f \in Seq(Characters) /\ o.n + Len(f) = PrintedTo(its, k) + j
  /\ Within(Expected(its), o.n, f)
  /\ Holds(o, z, Expected(its))
Reached(its, z, o, a, r, f) ==
  \E k \in 0 .. Len(its) : \E j \in Nat : Stage(its, z, o, a, r, f, k, j)
Progress == Reached(items, size, out, at, arg, field)

Called == /\ format = Render(items) /\ args = Arguments(items)
          /\ entry = "kprintf" => size = MessageMax

\* Where the format is read when a field is not being written.
LEMMA Here ==
  ASSUME Meant(items), Called, NEW k \in 0 .. Len(items), NEW j \in Nat,
         Stage(items, size, out, at, arg, field, k, j)
  PROVE  /\ k = Len(items) => j = 0 /\ CharAt(at) = "NUL"
         /\ k # Len(items) =>
              /\ k + 1 \in DOMAIN items /\ ItemFollows(items, k + 1)
              /\ Len(RenderItem(items[k + 1])) \in Nat /\ j < Len(RenderItem(items[k + 1]))
              /\ CharAt(at) = RenderItem(items[k + 1])[j + 1] /\ CharAt(at) # "NUL"
<1> DEFINE N == Len(items)
           a == RenderedTo(items, k)
           z == Len(format)
<1>1. /\ N \in Nat /\ DOMAIN items = 1 .. N /\ format \in Seq(Characters)
      /\ \A l \in 0 .. N : RenderedTo(items, l) \in Nat
      /\ RenderedTo(items, N) = z
      /\ \A l \in 1 .. N : ItemFollows(items, l)
  BY ItemsFollow DEF Called
<1>2. z \in Nat /\ a \in Nat /\ k \in 0 .. N
  <2>1. z \in Nat
    BY <1>1
  <2> QED
    BY <1>1, <2>1
<1>3. /\ j > 0 => k < N /\ ~IsDirective(items[k + 1]) /\ j < Len(items[k + 1].text)
      /\ at = a + j + 1
  BY DEF Stage
<1> HIDE DEF N, a, z
<1>4. CASE k = N
  <2>1. j = 0 /\ a = z
    BY <1>1, <1>2, <1>3, <1>4 DEF a
  <2>2. ~(at <= z)
    BY <1>2, <1>3, <2>1
  <2>3. CharAt(at) = "NUL"
    BY <2>2 DEF CharAt, z
  <2> QED
    BY <1>4, <2>1, <2>3 DEF N
<1>5. CASE k # N
  <2> DEFINE l == k + 1
             d == items[l]
             s == RenderItem(d)
             b == Len(s)
             i1 == j + 1
  <2>1. l \in 1 .. N /\ l - 1 = k /\ l \in DOMAIN items
    BY <1>1, <1>2, <1>5
  <2>2. ItemFollows(items, l)
    BY <1>1, <2>1
  <2>3. s \in Seq(Characters) /\ s # << >>
    BY <2>1, ItemTyped
  <2>4. b \in Nat /\ b > 0
    BY <2>3
  <2>5. ~IsDirective(d) => s = d.text
    BY <2>1, ItemIs
  <2>6. Within(format, a, s)
    BY <2>1, <2>2 DEF ItemFollows, Called, a
  <2>7. j > 0 => ~IsDirective(d) /\ j < Len(d.text)
    BY <1>3
  <2> HIDE DEF d, s, l
  <2>8. j < b
    BY <2>4, <2>5, <2>7
  <2>9. i1 \in 1 .. b /\ at = a + i1 /\ s[i1] \in Characters
    <3>1. i1 \in 1 .. b /\ at = a + i1
      BY <1>2, <1>3, <2>4, <2>8
    <3> HIDE DEF i1
    <3> QED
      BY <2>3, <3>1
  <2> HIDE DEF i1
  <2>10. CharAt(at) = s[i1]
    BY <1>2, <2>4, <2>6, <2>9, CharWithin DEF z
  <2>11. CharAt(at) # "NUL"
    BY <2>9, <2>10, CharacterAssumption
  <2> QED
    BY <1>5, <2>1, <2>2, <2>4, <2>8, <2>10, <2>11 DEF d, s, l, b, i1, N
<1> QED
  BY <1>4, <1>5

LEMMA PutFieldProgress ==
  ASSUME PrintInv, Meant(items), Called, Progress, PutField
  PROVE  Progress'
<1> DEFINE E == Expected(items)
           ch == Head(field)
           rest == Tail(field)
           w == out.n + 1
           one == 1
<1>1. PICK k \in 0 .. Len(items), j \in Nat : Stage(items, size, out, at, arg, field, k, j)
  BY DEF Progress, Reached
<1>2. /\ field # << >> /\ out' = Putc(out, ch) /\ field' = rest
      /\ UNCHANGED << items, at, arg, size >>
  BY DEF PutField
<1>3. /\ field \in Seq(Characters) /\ out.n + Len(field) = PrintedTo(items, k) + j
      /\ Within(E, out.n, field) /\ Holds(out, size, E)
      /\ j = 0 \/ field = << >>
  BY <1>1 DEF Stage
<1>4. E \in Seq(Characters) /\ PrintedTo(items, k) \in Nat
  BY ItemsFollow
<1>5. /\ ch = field[one] /\ rest \in Seq(Characters) /\ Len(field) = Len(rest) + 1 /\ Len(rest) \in Nat
      /\ \A l \in 1 .. Len(rest) : rest[l] = field[l + 1]
  BY <1>2, <1>3
<1>6. Shape(out) /\ size \in Nat /\ out.n \in Nat
  BY DEF PrintInv, Shape
<1>7. j = 0
  BY <1>2, <1>3
<1> HIDE DEF E, ch, rest, w, one
<1>8. out.n + Len(field) <= Len(E) /\ \A l \in 1 .. Len(field) : E[out.n + l] = field[l]
  BY <1>3 DEF Within
<1>9. Len(E) \in Nat
  BY <1>4
<1>10. /\ w <= Len(E) /\ w \in Nat /\ w + Len(rest) = out.n + Len(field)
       /\ one \in 1 .. Len(field) /\ out.n + one = w
       /\ \A l \in 1 .. Len(rest) : l + 1 \in 1 .. Len(field) /\ out.n + (l + 1) = w + l
  <2> DEFINE g == Len(rest)
             e == Len(field)
             z == Len(E)
             q == out.n
  <2>1. g \in Nat /\ z \in Nat /\ e = g + 1 /\ q \in Nat /\ q + e <= z /\ one = 1
    BY <1>5, <1>6, <1>8, <1>9 DEF one
  <2>2. w = q + 1
    BY DEF w
  <2> HIDE DEF g, e, z, q, one, w
  <2>3. /\ w <= z /\ w \in Nat /\ w + g = q + e /\ one \in 1 .. e /\ q + one = w
    BY <2>1, <2>2
  <2>4. \A l \in 1 .. g : l + 1 \in 1 .. e /\ q + (l + 1) = w + l
    BY <2>1, <2>2
  <2> QED
    BY <2>3, <2>4 DEF g, e, z, q
<1>11. ch = E[w]
  BY <1>5, <1>8, <1>10
<1>12. Holds(out', size, E) /\ out'.n = w
  <2>1. out' = Putc(out, E[w]) /\ w = out.n + 1
    BY <1>2, <1>11 DEF w
  <2>2. w <= Len(E)
    BY <1>10
  <2>3. E \in Seq(Characters)
    BY <1>4
  <2>4. Shape(out) /\ size \in Nat
    BY <1>6
  <2>5. Holds(out, size, E)
    BY <1>3
  <2> QED
    BY <2>1, <2>2, <2>3, <2>4, <2>5, HoldsMore
<1>13. Within(E, w, rest)
  <2>1. \A l \in 1 .. Len(rest) : E[w + l] = rest[l]
    BY <1>5, <1>8, <1>10
  <2>2. w + Len(rest) <= Len(E)
    BY <1>8, <1>10
  <2> QED
    BY <2>1, <2>2 DEF Within
<1>14. w + Len(rest) = PrintedTo(items, k) + j
  BY <1>3, <1>10
<1>15. Stage(items, size, out', at, arg, rest, k, j)
  BY <1>1, <1>5, <1>7, <1>12, <1>13, <1>14 DEF Stage, E
<1>16. Reached(items, size, out', at, arg, rest)
  BY <1>15 DEF Reached
<1> QED
  BY <1>2, <1>16 DEF Progress

\* A directive of the format is read as one, and nothing else is.
LEMMA DirectiveStarts ==
  ASSUME Meant(items), Called, NEW k \in 0 .. Len(items), NEW j \in Nat,
         Stage(items, size, out, at, arg, field, k, j), k # Len(items)
  PROVE  /\ IsDirective(items[k + 1]) => /\ j = 0 /\ CharAt(at) = "%" /\ Parse(at).end # 0
                                         /\ Layout(items[k + 1], RenderedTo(items, k))
                                         /\ at = RenderedTo(items, k) + 1
         /\ ~IsDirective(items[k + 1]) => (CharAt(at) = "%" => Parse(at).end = 0)
<1> DEFINE N == Len(items)
           l == k + 1
           d == items[l]
           p == RenderedTo(items, k)
<1>1. /\ N \in Nat /\ DOMAIN items = 1 .. N /\ format \in Seq(Characters) /\ p \in Nat
      /\ RenderedTo(items, N) = Len(format)
  BY ItemsFollow DEF Called
<1>2. /\ l \in DOMAIN items /\ ItemFollows(items, l)
      /\ Len(RenderItem(d)) \in Nat /\ j < Len(RenderItem(d))
      /\ CharAt(at) = RenderItem(d)[j + 1]
  BY Here
<1>3. l - 1 = k
  OBVIOUS
<1>4. at = p + j + 1 /\ (j > 0 => ~IsDirective(d))
  BY DEF Stage
<1> HIDE DEF l
<1>5. Within(format, p, RenderItem(d)) /\ RenderedTo(items, l) = p + Len(RenderItem(d))
  BY <1>2, <1>3 DEF ItemFollows, Called
<1> HIDE DEF N, d, p
<1>6. ASSUME IsDirective(d)
      PROVE  j = 0 /\ CharAt(at) = "%" /\ Parse(at).end # 0 /\ Layout(d, p) /\ at = p + 1
  <2>1. Proper(d) /\ IsDirectiveItem(d)
    BY <1>2, <1>6, ItemIs DEF d, Proper
  <2>2. Layout(d, p)
    BY <1>1, <1>5, <1>6, <2>1, DirectiveLaid
  <2>3. j = 0 /\ at = p + 1
    BY <1>1, <1>4, <1>6
  <2>4. CharAt(at) = "%" /\ Parse(at).end # 0
    BY <1>1, <2>1, <2>2, <2>3, DirectiveRead
  <2> QED
    BY <2>2, <2>3, <2>4
<1>7. ASSUME ~IsDirective(d), CharAt(at) = "%" PROVE Parse(at).end = 0
  <2> DEFINE text == d.text
             last == l = Len(items)
             r == j + 1
  <2>1. IsText(text, last) /\ RenderItem(d) = text
    BY <1>2, <1>7, ItemIs DEF d
  <2>2. Within(format, p, text) /\ Len(text) \in Nat /\ j < Len(text)
    BY <1>2, <1>5, <2>1
  <2>3. last => p + Len(text) = Len(format)
    BY <1>1, <1>5, <2>1 DEF N
  <2>4. at = p + r /\ text[r] = "%"
    BY <1>1, <1>2, <1>4, <1>7, <2>1
  <2>5. r \in 1 .. Len(text)
    BY <2>2
  <2> HIDE DEF text, last, r
  <2> QED
    BY <1>1, <2>1, <2>2, <2>3, <2>4, <2>5, TextIsCopied
<1> QED
  BY <1>6, <1>7 DEF d, p, l

LEMMA CopyProgress ==
  ASSUME PrintInv, Meant(items), Called, Progress, Copy
  PROVE  Progress'
<1> DEFINE E == Expected(items)
           N == Len(items)
           none == << >>
           w == out.n + 1
<1>1. PICK k \in 0 .. Len(items), j \in Nat : Stage(items, size, out, at, arg, field, k, j)
  BY DEF Progress, Reached
<1>2. /\ field = none /\ out' = Putc(out, CharAt(at)) /\ at' = at + 1
      /\ CharAt(at) # "NUL" /\ (CharAt(at) = "%" => Parse(at).end = 0)
      /\ UNCHANGED << items, arg, field, size >>
  BY DEF Copy
<1>3. k # Len(items)
  BY <1>1, <1>2, Here
<1> DEFINE l == k + 1
           d == items[l]
           i1 == j + 1
<1>4. ~IsDirective(d)
  BY <1>1, <1>2, <1>3, DirectiveStarts
<1>5. l \in DOMAIN items /\ ItemFollows(items, l) /\ CharAt(at) = RenderItem(d)[i1]
  BY <1>1, <1>3, Here
<1>6. /\ IsText(d.text, l = N) /\ RenderItem(d) = d.text
      /\ ExpectedItem(d) = d.text /\ ItemArguments(d) = << >>
  BY <1>4, <1>5, ItemIs
<1>7. j < Len(d.text) /\ Len(d.text) \in Nat
  BY <1>1, <1>3, <1>6, Here
<1>8. /\ N \in Nat /\ DOMAIN items = 1 .. N /\ E \in Seq(Characters)
      /\ \A m \in 0 .. N :
           RenderedTo(items, m) \in Nat /\ PrintedTo(items, m) \in Nat /\ TakenTo(items, m) \in Nat
  BY ItemsFollow
<1>9. /\ at = RenderedTo(items, k) + j + 1 /\ arg = TakenTo(items, k) + 1
      /\ out.n + Len(field) = PrintedTo(items, k) + j
      /\ Holds(out, size, E)
  BY <1>1 DEF Stage
<1>10. Shape(out) /\ size \in Nat /\ out.n \in Nat
  BY DEF PrintInv, Shape
<1>11. none \in Seq(Characters) /\ Len(none) = 0 /\ Len(E) \in Nat
  BY <1>8
<1>12. l - 1 = k /\ k \in 0 .. N /\ i1 \in Nat
  OBVIOUS
<1>13. /\ RenderedTo(items, l) = RenderedTo(items, k) + Len(d.text)
       /\ PrintedTo(items, l) = PrintedTo(items, k) + Len(d.text)
       /\ TakenTo(items, l) = TakenTo(items, k) + Len(none)
       /\ Within(E, PrintedTo(items, k), d.text)
  BY <1>5, <1>6, <1>12 DEF ItemFollows
<1> HIDE DEF E, N, none, w, l, d, i1
<1>14. PrintedTo(items, k) \in Nat /\ RenderedTo(items, k) \in Nat /\ TakenTo(items, k) \in Nat
  BY <1>8, <1>12
<1>15. out.n = PrintedTo(items, k) + j
  BY <1>2, <1>9, <1>10, <1>11
<1>16. i1 \in 1 .. Len(d.text) /\ i1 = j + 1 /\ w = PrintedTo(items, k) + i1
  BY <1>7, <1>14, <1>15 DEF i1, w
<1>17. w <= Len(E) /\ E[w] = CharAt(at)
  <2>1. E[w] = d.text[i1] /\ PrintedTo(items, k) + Len(d.text) <= Len(E)
    BY <1>13, <1>16 DEF Within
  <2> QED
    BY <1>5, <1>6, <1>7, <1>11, <1>14, <1>16, <2>1
<1>18. Holds(out', size, E) /\ out'.n = w
  <2>1. out' = Putc(out, E[w]) /\ w = out.n + 1
    BY <1>2, <1>17 DEF w
  <2>2. E \in Seq(Characters) /\ Holds(out, size, E) /\ w <= Len(E)
    BY <1>8, <1>9, <1>17
  <2> QED
    BY <1>10, <2>1, <2>2, HoldsMore
<1>19. Within(E, w, none)
  BY <1>10, <1>11, <1>17 DEF Within, w
<1>20. CASE i1 < Len(d.text)
  <2>1. at' = RenderedTo(items, k) + i1 + 1
    BY SMTT(30), <1>2, <1>9, <1>14, <1>16
  <2>2. w + Len(none) = PrintedTo(items, k) + i1
    BY <1>11, <1>14, <1>16
  <2>3. k < Len(items) /\ d = items[k + 1]
    <3>1. d = items[k + 1]
      BY DEF d, l
    <3>2. k # N /\ N \in Nat /\ k \in 0 .. N
      BY <1>3, <1>8, <1>12 DEF N
    <3>3. k < N
      BY <3>2
    <3> QED
      BY <3>1, <3>3 DEF N
  <2>4. Stage(items, size, out', at', arg, none, k, i1)
    BY <1>4, <1>9, <1>11, <1>18, <1>19, <1>20, <2>1, <2>2, <2>3 DEF Stage, E
  <2>5. Reached(items, size, out', at', arg, none)
    BY <1>12, <2>4 DEF Reached
  <2> QED
    BY <1>2, <2>5 DEF Progress
<1>21. CASE ~(i1 < Len(d.text))
  <2> DEFINE zero == 0
  <2>1. i1 = Len(d.text) /\ zero = 0 /\ zero \in Nat
    BY <1>7, <1>16, <1>21
  <2> HIDE DEF zero
  <2>7. at' = RenderedTo(items, l) + zero + 1
    <3> DEFINE a == RenderedTo(items, k)
               b == RenderedTo(items, l)
    <3>1. a \in Nat /\ b = a + i1 /\ at' = (a + j + 1) + 1 /\ i1 = j + 1
      BY <1>2, <1>9, <1>13, <1>14, <1>16, <2>1
    <3> HIDE DEF a, b
    <3>2. at' = b + zero + 1
      BY <2>1, <3>1
    <3> QED
      BY <3>2 DEF b
  <2>8. arg = TakenTo(items, l) + 1
    BY <1>9, <1>11, <1>13, <1>14
  <2>2. at' = RenderedTo(items, l) + zero + 1 /\ arg = TakenTo(items, l) + 1
    BY <2>7, <2>8
  <2>3. w + Len(none) = PrintedTo(items, l) + zero
    BY <1>11, <1>13, <1>14, <1>16, <2>1
  <2>4. Stage(items, size, out', at', arg, none, l, zero)
    BY <1>11, <1>18, <1>19, <2>1, <2>2, <2>3 DEF Stage, E
  <2>5. l \in 0 .. Len(items)
    BY <1>5, <1>8 DEF N
  <2>6. Reached(items, size, out', at', arg, none)
    BY <2>1, <2>4, <2>5 DEF Reached
  <2> QED
    BY <1>2, <2>6 DEF Progress
<1> QED
  BY <1>20, <1>21

LEMMA DirectiveProgress ==
  ASSUME PrintInv, Meant(items), Called, Progress, Directive
  PROVE  Progress'
<1> DEFINE E == Expected(items)
           N == Len(items)
           none == << >>
           zero == 0
<1>1. PICK k \in 0 .. Len(items), j \in Nat : Stage(items, size, out, at, arg, field, k, j)
  BY DEF Progress, Reached
<1> DEFINE l == k + 1
           d == items[l]
           p == RenderedTo(items, k)
           fs == WithStars(Parse(at))
           next == ValueArg(Parse(at))
           word == IF fs.conv = "%" THEN 0 ELSE args[next]
           new == Field(fs, Convert(fs, word))
<1>2. /\ field = none /\ CharAt(at) = "%" /\ Parse(at).end # 0
      /\ UNCHANGED << items, out, size >>
  BY DEF Directive
<1>3. /\ field' = new /\ at' = fs.end
      /\ arg' = IF fs.conv = "%" THEN next ELSE next + 1
  BY DEF Directive
<1>4. k # Len(items)
  <2>1. "%" # "NUL"
    OBVIOUS
  <2> QED
    BY <1>1, <1>2, <2>1, Here
<1>5. IsDirective(d)
  BY <1>1, <1>2, <1>4, DirectiveStarts
<1>6. j = 0 /\ Layout(d, p) /\ at = p + 1
  BY <1>1, <1>4, <1>5, DirectiveStarts
<1>7. l \in DOMAIN items /\ ItemFollows(items, l)
  BY <1>1, <1>4, Here
<1>8. Proper(d) /\ IsDirectiveItem(d)
  BY <1>5, <1>7, ItemIs DEF Proper
<1>9. /\ N \in Nat /\ DOMAIN items = 1 .. N /\ E \in Seq(Characters)
      /\ format \in Seq(Characters) /\ args \in Seq(Nat)
      /\ \A m \in 0 .. N :
           RenderedTo(items, m) \in Nat /\ PrintedTo(items, m) \in Nat /\ TakenTo(items, m) \in Nat
  BY ItemsFollow DEF Called
<1>10. /\ arg = TakenTo(items, k) + 1
       /\ out.n + Len(field) = PrintedTo(items, k) + j
       /\ Holds(out, size, E)
  BY <1>1 DEF Stage
<1>11. Shape(out) /\ size \in Nat /\ out.n \in Nat
  BY DEF PrintInv, Shape
<1>12. Len(none) = 0 /\ l - 1 = k /\ k \in 0 .. N /\ zero = 0 /\ zero \in Nat
  OBVIOUS
<1>13. Len(args) \in Nat
  BY <1>9
<1>14. /\ RenderedTo(items, l) = p + Len(RenderItem(d))
       /\ PrintedTo(items, l) = PrintedTo(items, k) + Len(ExpectedItem(d))
       /\ TakenTo(items, l) = TakenTo(items, k) + Len(ItemArguments(d))
       /\ Within(E, PrintedTo(items, k), ExpectedItem(d))
       /\ Within(args, TakenTo(items, k), ItemArguments(d))
  BY <1>7, <1>12 DEF ItemFollows, Called
<1> HIDE DEF E, N, none, zero, l, d, p, fs, next, word, new
<1>15. p \in Nat /\ PrintedTo(items, k) \in Nat /\ TakenTo(items, k) \in Nat
  BY <1>9, <1>12 DEF p
<1>16. arg - 1 = TakenTo(items, k) /\ arg \in Nat \ {0}
  BY <1>10, <1>15
<1>17. /\ Means(fs, d) /\ fs.end = p + Len(RenderItem(d)) + 1
       /\ next = arg + StarsOf(d) /\ (d.conv # "%" => args[next] = d.val)
  <2>1. Within(args, arg - 1, ItemArguments(d))
    BY <1>14, <1>16
  <2> QED
    BY <1>6, <1>8, <1>9, <1>13, <1>15, <1>16, <2>1, MeansIs DEF fs, next
<1>18. fs.conv = d.conv
  BY <1>17 DEF Means
<1>19. new = ExpectedItem(d) /\ ExpectedItem(d) \in Seq(Characters)
  <2>1. d.conv # "%" => word = d.val
    BY <1>17, <1>18 DEF word
  <2> QED
    BY <1>8, <1>17, <2>1, FieldIsItem DEF new
<1>20. at' = RenderedTo(items, l) + zero + 1
  <2> DEFINE a == RenderedTo(items, l)
  <2>1. a \in Nat
    BY <1>7, <1>9 DEF N
  <2>2. at' = a + 1
    BY <1>3, <1>14, <1>17
  <2> HIDE DEF a
  <2> QED
    BY <1>12, <2>1, <2>2 DEF a
<1>21. arg' = TakenTo(items, l) + 1
  <2>1. Len(ItemArguments(d)) = ArgumentsOf(d)
    BY <1>5, <1>8, <1>12, ArgumentsLaid
  <2>2. StarsOf(d) \in Nat
    BY DEF StarsOf
  <2>3. arg' = IF d.conv = "%" THEN next ELSE next + 1
    BY <1>3, <1>18
  <2> QED
    BY SMTT(30), <1>10, <1>14, <1>15, <1>17, <2>1, <2>2, <2>3 DEF ArgumentsOf
<1>22. out.n = PrintedTo(items, k)
  BY <1>2, <1>6, <1>10, <1>11, <1>12, <1>15
<1>23. Stage(items, size, out, at', arg', new, l, zero)
  <2>1. out.n + Len(new) = PrintedTo(items, l) + zero
    <3>1. Len(new) \in Nat
      BY <1>19
    <3> QED
      BY <1>12, <1>14, <1>15, <1>19, <1>22, <3>1
  <2> QED
    BY <1>10, <1>12, <1>14, <1>19, <1>20, <1>21, <1>22, <2>1 DEF Stage, E
<1>24. l \in 0 .. Len(items)
  BY <1>7, <1>9 DEF N
<1>25. Reached(items, size, out, at', arg', new)
  BY <1>12, <1>23, <1>24 DEF Reached
<1> QED
  BY <1>2, <1>3, <1>25 DEF Progress

\* What a call has done when it returns.
Printed ==
  LET text == Expected(items)
  IN /\ out.n = Len(text)
     /\ arg = Len(args) + 1
     /\ size > 0 =>
          LET fits == Min({ Len(text), size - 1 })
          IN /\ out.buf[fits] = "NUL"
             /\ \A l \in 1 .. fits : out.buf[l - 1] = text[l]
     /\ entry = "kprintf" => shown = IF Len(text) < MessageMax THEN text ELSE << >>

LEMMA LesserOf ==
  ASSUME NEW a \in Nat, NEW b \in Nat
  PROVE  Min({ a, b }) = IF a <= b THEN a ELSE b
<1> DEFINE S == { a, b }
<1>1. S \subseteq Nat /\ S # {} /\ a \in S /\ b \in S
  OBVIOUS
<1>2. Min(S) \in S /\ \A k \in S : Min(S) <= k
  <2> HIDE DEF S
  <2> QED
    BY <1>1, MinIs
<1>3. Min(S) = a \/ Min(S) = b
  BY <1>2
<1>4. Min(S) <= a /\ Min(S) <= b
  BY <1>1, <1>2
<1> DEFINE m == Min(S)
<1> HIDE DEF m
<1>5. m = IF a <= b THEN a ELSE b
  BY <1>3, <1>4 DEF m
<1> QED
  BY <1>5 DEF m

LEMMA ReturnPrints ==
  ASSUME PrintInv, Meant(items), Called, Progress, Return
  PROVE  Printed'
<1> DEFINE E == Expected(items)
           N == Len(items)
           L == Len(E)
           t == Terminate(out)
           fits == IF L <= size - 1 THEN L ELSE size - 1
<1>1. PICK k \in 0 .. Len(items), j \in Nat : Stage(items, size, out, at, arg, field, k, j)
  BY DEF Progress, Reached
<1>2. /\ field = << >> /\ CharAt(at) = "NUL" /\ (Kprintf \/ Vsnprintf)
      /\ UNCHANGED << items, args, entry, size, arg >>
  BY DEF Return
<1>3. k = Len(items) /\ j = 0
  BY <1>1, <1>2, Here
<1>4. /\ E \in Seq(Characters) /\ PrintedTo(items, N) = L /\ TakenTo(items, N) = Len(args) /\ L \in Nat
  BY ItemsFollow DEF Called
<1>5. /\ arg = TakenTo(items, N) + 1 /\ out.n + Len(field) = PrintedTo(items, N) + j
      /\ Holds(out, size, E)
  BY <1>1, <1>3 DEF Stage
<1>6. /\ Shape(out) /\ size \in Nat /\ out.n \in Nat
      /\ (entry = "kprintf" => size > 0 /\ size = MessageMax)
  BY DEF PrintInv, Shape, Called
<1>7. Len(<< >>) = 0
  OBVIOUS
<1> HIDE DEF E, N, L, t, fits
<1>8. out.n = L /\ arg = Len(args) + 1
  BY <1>2, <1>3, <1>4, <1>5, <1>6, <1>7
<1>9. /\ t.n = L /\ Shape(t)
      /\ size > 0 => t.buf[fits] = "NUL" /\ \A l \in 1 .. fits : t.buf[l - 1] = E[l]
  BY <1>4, <1>5, <1>6, <1>8, TerminateHolds DEF t, L, fits
<1>10. size > 0 => fits = Min({ L, size - 1 }) /\ fits \in 0 .. size - 1
  <2> SUFFICES ASSUME size > 0 PROVE fits = Min({ L, size - 1 }) /\ fits \in 0 .. size - 1
    OBVIOUS
  <2> DEFINE b == size - 1
  <2>1. b \in Nat
    BY <1>6
  <2>2. fits = IF L <= b THEN L ELSE b
    BY DEF fits
  <2> HIDE DEF b
  <2>3. fits = Min({ L, b }) /\ fits \in 0 .. b
    BY <1>4, <2>1, <2>2, LesserOf
  <2> QED
    BY <2>3 DEF b
<1>11. CASE Kprintf
  <2>1. /\ out' = t /\ entry = "kprintf"
        /\ shown' = IF out.n < size THEN [ l \in 1 .. out.n |-> out'.buf[l - 1] ] ELSE << >>
    BY <1>11 DEF Kprintf, t
  <2>2. shown' = IF L < MessageMax THEN E ELSE << >>
    <3>1. CASE L < size
      <4>1. fits = L /\ size > 0
        BY <1>4, <1>6, <3>1 DEF fits
      <4>2. \A l \in 1 .. L : t.buf[l - 1] = E[l]
        BY <1>9, <4>1
      <4>3. shown' = [ l \in 1 .. L |-> t.buf[l - 1] ]
        BY <1>8, <2>1, <3>1
      <4>4. [ l \in 1 .. L |-> t.buf[l - 1] ] = [ l \in 1 .. L |-> E[l] ]
        BY <4>2
      <4>5. E = [ l \in 1 .. L |-> E[l] ]
        BY <1>4 DEF L
      <4> QED
        BY <1>6, <2>1, <3>1, <4>3, <4>4, <4>5
    <3>2. CASE ~(L < size)
      BY <1>6, <1>8, <2>1, <3>2
    <3> QED
      BY <3>1, <3>2
  <2>3. size > 0 => /\ t.buf[Min({ L, size - 1 })] = "NUL"
                    /\ \A l \in 1 .. Min({ L, size - 1 }) : t.buf[l - 1] = E[l]
    BY <1>9, <1>10
  <2> QED
    BY <1>2, <1>8, <1>9, <2>1, <2>2, <2>3 DEF Printed, E, L
<1>12. CASE Vsnprintf
  <2>1. out' = CutAgain(t) /\ entry = "vsnprintf"
    BY <1>12 DEF Vsnprintf, t
  <2>2. /\ out'.n = L
        /\ size > 0 => out'.buf[fits] = "NUL" /\ \A l \in 1 .. fits : out'.buf[l - 1] = E[l]
    <3>1. CASE t.n >= size
      <4>1. out' = [ buf |-> [ t.buf EXCEPT ![size - 1] = "NUL" ], cur |-> t.cur, n |-> t.n ]
        BY <1>9, <2>1, <3>1 DEF CutAgain, Shape
      <4>2. out'.n = L /\ out'.buf = [ t.buf EXCEPT ![size - 1] = "NUL" ] /\ DOMAIN t.buf = -1 .. size
        BY <1>9, <4>1 DEF Shape
      <4>3. ASSUME size > 0
            PROVE  out'.buf[fits] = "NUL" /\ \A l \in 1 .. fits : out'.buf[l - 1] = E[l]
        <5>1. /\ fits = size - 1 /\ fits \in -1 .. size
              /\ \A l \in 1 .. fits : l - 1 \in -1 .. size /\ l - 1 # fits
          BY <1>4, <1>6, <1>9, <3>1, <4>3 DEF fits
        <5> QED
          BY <1>9, <4>2, <4>3, <5>1
      <4> QED
        BY <4>2, <4>3
    <3>2. CASE ~(t.n >= size)
      BY <1>9, <2>1, <3>2 DEF CutAgain
    <3> QED
      BY <3>1, <3>2
  <2>3. size > 0 => /\ out'.buf[Min({ L, size - 1 })] = "NUL"
                    /\ \A l \in 1 .. Min({ L, size - 1 }) : out'.buf[l - 1] = E[l]
    BY <1>10, <2>2
  <2> QED
    BY <1>2, <1>8, <2>1, <2>2, <2>3 DEF Printed, E, L
<1> QED
  BY <1>2, <1>11, <1>12

\* PrintInv, and how far the call has come, or what it has done.
PrintsInv ==
  /\ PrintInv /\ IsFormat(items) /\ Called
  /\ Agreed(items) => IF returned THEN Printed ELSE Progress

LEMMA InitPrints == Init => PrintsInv
<1> SUFFICES ASSUME Init PROVE PrintsInv
  OBVIOUS
<1>1. PrintInv
  BY PrintInvInit
<1>2. IsFormat(items) /\ Called /\ returned = FALSE
  BY PrintfAssumption DEF Init, Called
<1>3. ASSUME Agreed(items) PROVE Progress
  <2> DEFINE zero == 0
             E == Expected(items)
             none == << >>
  <2>1. Meant(items)
    BY <1>2, <1>3 DEF Meant
  <2>2. /\ RenderedTo(items, zero) = zero /\ TakenTo(items, zero) = zero
        /\ PrintedTo(items, zero) = zero
        /\ Len(items) \in Nat /\ E \in Seq(Characters)
    BY <2>1, ItemsFollow
  <2>3. /\ at = 1 /\ arg = 1 /\ field = none /\ out.cur = 0 /\ out.n = 0
    BY DEF Init
  <2>4. size \in Nat
    BY <1>1 DEF PrintInv
  <2>5. none \in Seq(Characters) /\ Len(none) = 0 /\ Len(E) \in Nat /\ zero = 0 /\ zero \in Nat
    BY <2>2
  <2> HIDE DEF zero, E, none
  <2>6. Holds(out, size, E)
    BY <2>3, <2>4, <2>5 DEF Holds
  <2>7. Within(E, out.n, none)
    BY <2>3, <2>5 DEF Within
  <2>8. Stage(items, size, out, at, arg, field, zero, zero)
    BY <2>2, <2>3, <2>5, <2>6, <2>7 DEF Stage, E
  <2>9. zero \in 0 .. Len(items)
    BY <2>2, <2>5
  <2> QED
    BY <2>5, <2>8, <2>9 DEF Progress, Reached
<1> QED
  BY <1>1, <1>2, <1>3 DEF PrintsInv

LEMMA PrintsStep == PrintsInv /\ [Next]_vars => PrintsInv'
<1> SUFFICES ASSUME PrintsInv, [Next]_vars PROVE PrintsInv'
  OBVIOUS
<1>1. PrintInv /\ PrintInv' /\ IsFormat(items) /\ Called
  BY PrintInvStep DEF PrintsInv
<1>2. UNCHANGED << items, format, args, entry, size >>
  BY DEF Next, Copy, Directive, PutField, Return, vars
<1>3. IsFormat(items)' /\ Called' /\ (Agreed(items)' <=> Agreed(items))
  BY <1>1, <1>2 DEF Called
<1>4. ASSUME Agreed(items) PROVE (IF returned THEN Printed ELSE Progress)'
  <2>1. Meant(items) /\ (IF returned THEN Printed ELSE Progress)
    BY <1>1, <1>4 DEF Meant, PrintsInv
  <2>2. CASE Copy
    <3>1. ~returned /\ ~returned'
      BY <1>1, <2>2 DEF Copy, PrintInv
    <3> QED
      BY <1>1, <2>1, <2>2, <3>1, CopyProgress
  <2>3. CASE Directive
    <3>1. ~returned /\ ~returned'
      BY <1>1, <2>3 DEF Directive, PrintInv
    <3> QED
      BY <1>1, <2>1, <2>3, <3>1, DirectiveProgress
  <2>4. CASE PutField
    <3>1. ~returned /\ ~returned'
      BY <1>1, <2>4 DEF PutField, PrintInv
    <3> QED
      BY <1>1, <2>1, <2>4, <3>1, PutFieldProgress
  <2>5. CASE Return
    <3>1. ~returned /\ returned'
      BY <2>5 DEF Return
    <3> QED
      BY <1>1, <2>1, <2>5, <3>1, ReturnPrints
  <2>6. CASE UNCHANGED vars
    BY <2>1, <2>6 DEF vars, Printed, Progress
  <2> QED
    BY <2>2, <2>3, <2>4, <2>5, <2>6 DEF Next
<1> QED
  BY <1>1, <1>3, <1>4 DEF PrintsInv

\* For every format, arguments, values of the C types and size of the buffer:
\* what nanoprintf writes, counts and leaves in the buffer, and what kprintf
\* shows, is what the C standard says the format prints.
THEOREM PrintsAsC == Spec => []PrintsAsISO
<1>1. PrintsInv => PrintsAsISO
  BY DEF PrintsInv, Printed, PrintsAsISO
<1> QED
  BY InitPrints, PrintsStep, <1>1, PTL DEF Spec

-----------------------------------------------------------------------------
(* The loops of string.c *)

Typed ==
  /\ fn \in {"memcpy", "memmove", "memset", "memcmp"}
  /\ dest \in Nat /\ src \in Nat /\ n \in Nat /\ c \in Int
  /\ \A k \in 0 .. n - 1 : dest + k \in Address /\ src + k \in Address
  /\ before \in [Address -> Byte]
  /\ i \in 0 .. n
  /\ done \in BOOLEAN
  /\ fn = "memcpy" => \A j, k \in 0 .. n - 1 : dest + j # src + k

Filled(last) ==
  [a \in Address |-> IF a - dest \in 0 .. last - 1 THEN LowByte ELSE before[a]]

\* What each loop has done so far.
SoFar ==
  /\ Forward => memory = Copied(0, i)
  /\ Backward => memory = Copied(i, n)
  /\ fn = "memmove" /\ src = dest => memory = before
  /\ fn = "memset" => memory = Filled(i)
  /\ fn = "memcmp" => memory = before /\ Agree(i)

\* How each function returns.
AtReturn ==
  /\ done /\ (Forward \/ fn = "memset") => i = n
  /\ done /\ Backward => i = 0
  /\ ~done => result = 0
  /\ done /\ fn = "memcmp" =>
       \/ result = 0 /\ i = n
       \/ /\ i < n /\ before[dest + i] # before[src + i]
          /\ result = IF before[dest + i] < before[src + i] THEN -1 ELSE 1

LoopInv == Typed /\ SoFar /\ AtReturn

-----------------------------------------------------------------------------
LEMMA MemoryBeforeCopies ==
  ASSUME Typed
  PROVE  before = Copied(0, 0) /\ before = Copied(n, n) /\ before = Filled(0)
<1>1. before = [a \in Address |-> before[a]]
  BY DEF Typed
<1>2. \A d \in Int : d \notin 0 .. 0 - 1 /\ d \notin n .. n - 1
  BY DEF Typed
<1>3. \A a \in Address : a - dest \in Int
  BY DEF Typed, Address
<1> QED
  BY <1>1, <1>2, <1>3 DEF Copied, Filled

LEMMA LoopInvInit == Call => LoopInv
<1> SUFFICES ASSUME Call PROVE LoopInv
  OBVIOUS
<1>1. Typed
  <2>1. \A k \in 0 .. n - 1 : dest + k \in Address /\ src + k \in Address
    BY DEF Call, Address
  <2>2. fn = "memcpy" => \A j, k \in 0 .. n - 1 : dest + j # src + k
    BY DEF Call, Apart, From
  <2>3. c \in Int
    BY DEF Call
  <2>4. i \in 0 .. n
    BY DEF Call
  <2> QED
    BY <2>1, <2>2, <2>3, <2>4 DEF Call, Typed, Address
<1>2. SoFar
  <2>1. Backward => ~Forward
    BY <1>1 DEF Forward, Backward, Typed
  <2>2. Agree(0)
    BY DEF Agree
  <2> QED
    BY <1>1, <2>1, <2>2, MemoryBeforeCopies DEF Call, SoFar, Backward
<1>3. AtReturn
  BY DEF Call, AtReturn
<1> QED
  BY <1>1, <1>2, <1>3 DEF LoopInv

\* One more byte at the upper end of what has been copied, or at the lower end.
LEMMA OneMoreByte ==
  ASSUME Typed, NEW first \in 0 .. n, NEW last \in 0 .. n, NEW k \in 0 .. n - 1,
         NEW lo \in 0 .. n, NEW hi \in 0 .. n,
         \/ k = last /\ first <= last /\ lo = first /\ hi = last + 1
         \/ k = first - 1 /\ first <= last /\ lo = first - 1 /\ hi = last
  PROVE  [Copied(first, last) EXCEPT ![dest + k] = before[src + k]] = Copied(lo, hi)
<1> DEFINE new == [Copied(first, last) EXCEPT ![dest + k] = before[src + k]]
<1>1. \A a \in Address : new[a] = Copied(lo, hi)[a]
  <2> TAKE a \in Address
  <2>1. a \in Nat /\ dest \in Nat /\ src \in Nat
    BY DEF Typed, Address
  <2>2. CASE a = dest + k
    <3>1. a - dest = k /\ k \in lo .. hi - 1
      BY <2>1, <2>2
    <3> QED
      BY <2>2, <3>1 DEF Copied
  <2>3. CASE a # dest + k
    <3>1. new[a] = Copied(first, last)[a]
      BY <2>3 DEF Copied
    <3>2. a - dest \in first .. last - 1 <=> a - dest \in lo .. hi - 1
      BY <2>1, <2>3
    <3> QED
      BY <3>1, <3>2 DEF Copied
  <2> QED
    BY <2>2, <2>3
<1>2. new = [a \in Address |-> new[a]]
  BY DEF Copied
<1>3. Copied(lo, hi) = [a \in Address |-> Copied(lo, hi)[a]]
  BY DEF Copied
<1> QED
  BY <1>1, <1>2, <1>3

LEMMA OneMoreFilled ==
  ASSUME Typed, NEW k \in 0 .. n, NEW m \in 0 .. n, m = k + 1
  PROVE  [Filled(k) EXCEPT ![dest + k] = LowByte] = Filled(m)
<1> DEFINE new == [Filled(k) EXCEPT ![dest + k] = LowByte]
<1>1. \A a \in Address : new[a] = Filled(m)[a]
  <2> TAKE a \in Address
  <2>1. a \in Nat /\ dest \in Nat
    BY DEF Typed, Address
  <2>2. CASE a = dest + k
    <3>1. a - dest \in 0 .. m - 1
      BY <2>1, <2>2
    <3> QED
      BY <2>2, <3>1 DEF Filled
  <2>3. CASE a # dest + k
    <3>1. new[a] = Filled(k)[a]
      BY <2>3 DEF Filled
    <3>2. a - dest \in 0 .. k - 1 <=> a - dest \in 0 .. m - 1
      BY <2>1, <2>3
    <3> QED
      BY <3>1, <3>2 DEF Filled
  <2> QED
    BY <2>2, <2>3
<1>2. new = [a \in Address |-> new[a]]
  BY DEF Filled
<1>3. Filled(m) = [a \in Address |-> Filled(m)[a]]
  BY DEF Filled
<1> QED
  BY <1>1, <1>2, <1>3

LEMMA StepForward == LoopInv /\ CopyForward => LoopInv'
<1> SUFFICES ASSUME LoopInv, CopyForward PROVE LoopInv'
  OBVIOUS
<1>1. Typed /\ i \in 0 .. n - 1 /\ Forward /\ ~done /\ memory = Copied(0, i)
  BY DEF LoopInv, SoFar, CopyForward, Typed
<1>2. UNCHANGED << fn, dest, src, c, n, before, done, result >> /\ i' = i + 1
  BY DEF CopyForward, arguments
\* The byte has not been overwritten: the copy is behind it, or elsewhere.
<1>3. memory[src + i] = before[src + i]
  <2>1. src + i \in Address /\ src \in Nat /\ dest \in Nat
    BY <1>1 DEF Typed
  <2>2. src + i - dest \notin 0 .. i - 1
    <3>1. CASE fn = "memcpy"
      <4>1. \A k \in 0 .. n - 1 : dest + k # src + i
        BY <1>1, <3>1 DEF Typed
      <4>2. i \in Nat /\ n \in Nat
        BY <1>1 DEF Typed
      <4> QED
        BY <1>1, <2>1, <4>1, <4>2
    <3>2. CASE src > dest
      BY <1>1, <2>1, <3>2
    <3> QED
      BY <1>1, <3>1, <3>2 DEF Forward
  <2> QED
    BY <1>1, <2>1, <2>2 DEF Copied
<1>4. memory' = Copied(0, i + 1)
  <2>1. 0 \in 0 .. n /\ i \in 0 .. n /\ i + 1 \in 0 .. n /\ 0 <= i
    BY <1>1 DEF Typed
  <2>2. [Copied(0, i) EXCEPT ![dest + i] = before[src + i]] = Copied(0, i + 1)
    BY <1>1, <2>1, OneMoreByte
  <2> QED
    BY <1>1, <1>3, <2>2 DEF CopyForward
<1>5. Copied(0, i + 1) = Copied(0, i)'
  BY <1>2 DEF Copied
<1>6. Typed'
  BY <1>1, <1>2 DEF Typed
<1>7. ~Backward /\ fn \notin {"memset", "memcmp"} /\ ~(fn = "memmove" /\ src = dest)
  BY <1>1 DEF Forward, Backward, Typed
<1>8. SoFar'
  BY <1>2, <1>4, <1>5, <1>7 DEF SoFar, Backward
<1>9. AtReturn'
  BY <1>1, <1>2, <1>7 DEF LoopInv, AtReturn, Backward
<1> QED
  BY <1>6, <1>8, <1>9 DEF LoopInv

LEMMA StepBackward == LoopInv /\ CopyBackward => LoopInv'
<1> SUFFICES ASSUME LoopInv, CopyBackward PROVE LoopInv'
  OBVIOUS
<1>1. Typed /\ i \in 1 .. n /\ Backward /\ ~done /\ memory = Copied(i, n)
  BY DEF LoopInv, SoFar, CopyBackward, Typed
<1>2. UNCHANGED << fn, dest, src, c, n, before, done, result >> /\ i' = i - 1
  BY DEF CopyBackward, arguments
<1>3. dest \in Nat /\ src \in Nat /\ n \in Nat /\ src < dest /\ fn = "memmove"
  BY <1>1 DEF Typed, Backward
\* The byte has not been overwritten: the copy is in front of it.
<1>4. memory[src + i - 1] = before[src + (i - 1)]
  <2> DEFINE a == src + (i - 1)
  <2>1. a \in Address /\ src + i - 1 = a
    BY <1>1, <1>3 DEF Typed
  <2>2. a - dest \notin i .. n - 1
    BY <1>1, <1>3
  <2> HIDE DEF a
  <2>3. memory[a] = before[a]
    BY <1>1, <2>1, <2>2 DEF Copied
  <2> QED
    BY <2>1, <2>3 DEF a
<1>5. memory' = Copied(i - 1, n)
  <2>1. i \in 0 .. n /\ n \in 0 .. n /\ i - 1 \in 0 .. n - 1 /\ i - 1 \in 0 .. n /\ i <= n
    BY <1>1, <1>3
  <2>2. [Copied(i, n) EXCEPT ![dest + (i - 1)] = before[src + (i - 1)]] = Copied(i - 1, n)
    BY <1>1, <2>1, OneMoreByte
  <2>3. dest + i - 1 = dest + (i - 1)
    BY <1>1, <1>3
  <2> QED
    BY <1>1, <1>4, <2>2, <2>3 DEF CopyBackward
<1>6. Copied(i - 1, n) = Copied(i, n)'
  BY <1>2 DEF Copied
<1>7. Typed'
  BY <1>1, <1>2 DEF Typed
<1>8. ~Forward
  BY <1>3 DEF Forward
<1>9. SoFar'
  BY <1>2, <1>3, <1>5, <1>6, <1>8 DEF SoFar, Forward
<1>10. AtReturn'
  BY <1>1, <1>2, <1>3, <1>8 DEF LoopInv, AtReturn, Forward
<1> QED
  BY <1>7, <1>9, <1>10 DEF LoopInv

LEMMA StepFill == LoopInv /\ Fill => LoopInv'
<1> SUFFICES ASSUME LoopInv, Fill PROVE LoopInv'
  OBVIOUS
<1>1. Typed /\ i \in 0 .. n - 1 /\ fn = "memset" /\ ~done /\ memory = Filled(i)
  BY DEF LoopInv, SoFar, Fill, Typed
<1>2. UNCHANGED << fn, dest, src, c, n, before, done, result >> /\ i' = i + 1
  BY DEF Fill, arguments
<1> LowByte' = LowByte
  BY <1>2 DEF LowByte
<1>3. [Filled(i) EXCEPT ![dest + i] = LowByte] = Filled(i + 1)
  <2>1. i \in 0 .. n /\ i + 1 \in 0 .. n
    BY <1>1 DEF Typed
  <2> QED
    BY <1>1, <2>1, OneMoreFilled
<1>4. memory' = Filled(i)'
  BY <1>1, <1>2, <1>3 DEF Fill, Filled
<1>5. Typed'
  BY <1>1, <1>2 DEF Typed
<1>6. ~Forward /\ ~Backward
  BY <1>1 DEF Forward, Backward
<1>7. SoFar'
  BY <1>1, <1>2, <1>4, <1>6 DEF SoFar, Forward, Backward
<1>8. AtReturn'
  BY <1>1, <1>2, <1>6 DEF LoopInv, AtReturn, Forward, Backward
<1> QED
  BY <1>5, <1>7, <1>8 DEF LoopInv

LEMMA StepCompare == LoopInv /\ Compare => LoopInv'
<1> SUFFICES ASSUME LoopInv, Compare PROVE LoopInv'
  OBVIOUS
<1>1. /\ Typed /\ i \in 0 .. n - 1 /\ fn = "memcmp" /\ ~done
      /\ memory = before /\ Agree(i) /\ result = 0
  BY DEF LoopInv, SoFar, AtReturn, Compare, Typed
<1>2. UNCHANGED << fn, dest, src, c, n, before, memory >>
  BY DEF Compare, arguments
<1>3. ~Forward /\ ~Backward
  BY <1>1 DEF Forward, Backward
<1>4. CASE memory[dest + i] # memory[src + i]
  <2>1. /\ done' = TRUE /\ i' = i
        /\ result' = IF before[dest + i] < before[src + i] THEN -1 ELSE 1
    BY <1>1, <1>4 DEF Compare
  <2>2. Typed'
    BY <1>1, <1>2, <2>1 DEF Typed
  <2>3. SoFar'
    BY <1>1, <1>2, <1>3, <2>1 DEF SoFar, Forward, Backward, Agree
  <2>4. AtReturn'
    <3>1. i < n /\ before[dest + i] # before[src + i]
      BY <1>1, <1>4 DEF Typed
    <3>2. /\ i' < n' /\ before'[dest' + i'] # before'[src' + i']
          /\ result' = IF before'[dest' + i'] < before'[src' + i'] THEN -1 ELSE 1
      BY <1>2, <2>1, <3>1
    <3> QED
      BY <1>1, <1>2, <1>3, <2>1, <3>2 DEF AtReturn, Forward, Backward
  <2> QED
    BY <2>2, <2>3, <2>4 DEF LoopInv
<1>5. CASE memory[dest + i] = memory[src + i]
  <2>1. done' = done /\ result' = result /\ i' = i + 1
    BY <1>5 DEF Compare
  <2>2. Typed'
    BY <1>1, <1>2, <2>1 DEF Typed
  <2>3. Agree(i)'
    BY <1>1, <1>2, <1>5, <2>1 DEF Agree
  <2>4. SoFar'
    BY <1>1, <1>2, <1>3, <2>3 DEF SoFar, Forward, Backward
  <2>5. AtReturn'
    BY <1>1, <2>1 DEF AtReturn
  <2> QED
    BY <2>2, <2>4, <2>5 DEF LoopInv
<1> QED
  BY <1>4, <1>5

LEMMA StepReturn == LoopInv /\ EndOfLoop => LoopInv'
<1> SUFFICES ASSUME LoopInv, EndOfLoop PROVE LoopInv'
  OBVIOUS
<1>1. /\ UNCHANGED << fn, dest, src, c, n, before, memory, i, result >>
      /\ done' = TRUE /\ result = 0
  BY DEF LoopInv, AtReturn, EndOfLoop, arguments
<1>2. Typed'
  BY <1>1 DEF LoopInv, Typed
<1>3. SoFar'
  BY <1>1 DEF LoopInv, SoFar, Forward, Backward, Copied, Filled, LowByte, Agree
<1>4. AtReturn'
  <2>1. i \in 0 .. n /\ n \in Nat
    BY DEF LoopInv, Typed
  <2>2. Backward => i = 0
    BY DEF EndOfLoop
  <2>3. Forward \/ fn \in {"memset", "memcmp"} => i = n
    <3>1. Forward \/ fn \in {"memset", "memcmp"} =>
            ~Backward /\ ~(fn = "memmove" /\ src = dest)
      BY DEF Forward, Backward, LoopInv, Typed
    <3> QED
      BY <2>1, <3>1 DEF EndOfLoop
  <2> QED
    BY <1>1, <2>2, <2>3 DEF AtReturn, Forward, Backward
<1> QED
  BY <1>2, <1>3, <1>4 DEF LoopInv

LEMMA LoopInvStep == LoopInv /\ [Iterate]_callvars => LoopInv'
<1> SUFFICES ASSUME LoopInv, [Iterate]_callvars PROVE LoopInv'
  OBVIOUS
<1>1. CASE UNCHANGED callvars
  BY <1>1 DEF callvars, LoopInv, Typed, SoFar, AtReturn, Forward, Backward, Copied, Filled, LowByte, Agree
<1> QED
  BY <1>1, StepForward, StepBackward, StepFill, StepCompare, StepReturn DEF Iterate

-----------------------------------------------------------------------------
LEMMA LoopInvCopies == LoopInv => CopiesWhatWasThere
<1> SUFFICES ASSUME LoopInv, done, fn \in {"memcpy", "memmove"}
             PROVE  memory = Copied(0, n)
  BY DEF CopiesWhatWasThere
<1>1. CASE Forward
  BY <1>1 DEF LoopInv, SoFar, AtReturn
<1>2. CASE Backward
  BY <1>2 DEF LoopInv, SoFar, AtReturn
<1>3. CASE fn = "memmove" /\ src = dest
  <2>1. \A a \in Address : Copied(0, n)[a] = before[a]
    <3> TAKE a \in Address
    <3>1. src + (a - dest) = a
      BY <1>3 DEF LoopInv, Typed, Address
    <3> QED
      BY <3>1 DEF Copied
  <2>2. Copied(0, n) = [a \in Address |-> before[a]]
    BY <2>1 DEF Copied
  <2> QED
    BY <1>3, <2>2 DEF LoopInv, SoFar, Typed
<1> QED
  BY <1>1, <1>2, <1>3 DEF Forward, Backward, LoopInv, Typed

LEMMA LoopInvOrders == LoopInv => OrdersByFirstDifference
<1> SUFFICES ASSUME LoopInv, done, fn = "memcmp"
             PROVE  /\ memory = before
                    /\ result = 0 <=> Agree(n)
                    /\ result # 0 => \E k \in 0 .. n - 1 :
                         /\ Agree(k)
                         /\ result = IF before[dest + k] < before[src + k] THEN -1 ELSE 1
                         /\ before[dest + k] # before[src + k]
  BY DEF OrdersByFirstDifference
<1>1. memory = before /\ Agree(i) /\ i \in 0 .. n /\ n \in Nat
  BY DEF LoopInv, SoFar, Typed
<1>2. CASE result = 0 /\ i = n
  BY <1>1, <1>2
<1>3. CASE /\ i < n /\ before[dest + i] # before[src + i]
           /\ result = IF before[dest + i] < before[src + i] THEN -1 ELSE 1
  <2>1. i \in 0 .. n - 1 /\ result # 0
    BY <1>1, <1>3
  <2>2. ~Agree(n)
    BY <1>3, <2>1 DEF Agree
  <2> QED
    BY <1>1, <1>3, <2>1, <2>2
<1> QED
  BY <1>2, <1>3 DEF LoopInv, AtReturn

\* memcpy and memmove: for every length and every overlap the destination gets
\* what the source held before the call, and nothing else is written.
THEOREM CopiesAlwaysRight == CallSpec => []CopiesWhatWasThere
<1>1. Call => LoopInv
  BY LoopInvInit
<1>2. LoopInv /\ [Iterate]_callvars => LoopInv'
  BY LoopInvStep
<1>3. LoopInv => CopiesWhatWasThere
  BY LoopInvCopies
<1> QED
  BY <1>1, <1>2, <1>3, PTL DEF CallSpec

\* memset: every byte of the range and no other, whatever the sign of c.
THEOREM FillsAlwaysRight == CallSpec => []FillsTheRange
<1>1. Call => LoopInv
  BY LoopInvInit
<1>2. LoopInv /\ [Iterate]_callvars => LoopInv'
  BY LoopInvStep
<1>3. LoopInv => FillsTheRange
  BY DEF LoopInv, SoFar, AtReturn, Filled, FillsTheRange
<1> QED
  BY <1>1, <1>2, <1>3, PTL DEF CallSpec

\* memcmp: zero for equal ranges only, else the order of the first difference.
THEOREM ComparesAlwaysRight == CallSpec => []OrdersByFirstDifference
<1>1. Call => LoopInv
  BY LoopInvInit
<1>2. LoopInv /\ [Iterate]_callvars => LoopInv'
  BY LoopInvStep
<1>3. LoopInv => OrdersByFirstDifference
  BY LoopInvOrders
<1> QED
  BY <1>1, <1>2, <1>3, PTL DEF CallSpec
=============================================================================
