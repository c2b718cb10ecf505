------------------------------ MODULE Strings ------------------------------
(***************************************************************************)
(* The functions of src/lib/string.c.  A behaviour is one call; a step is  *)
(* one iteration of its loop, on memory that others leave alone.           *)
(***************************************************************************)
EXTENDS Integers

\* No range wraps around the end of memory.
Address == Nat
Byte == 0 .. 255

VARIABLES
  fn,             \* the function
  dest, src,      \* its pointers: dest is s of memset, they are s1, s2 of memcmp
  c, n,
  memory,         \* address -> byte
  before,         \* memory when the function was called
  i,
  done,           \* FALSE while it runs
  result          \* what memcmp returns

callvars == << fn, dest, src, c, n, memory, before, i, done, result >>
arguments == << fn, dest, src, c, n, before >>

From(p) == {p + k : k \in 0 .. n - 1}

LowByte == c % 256      \* (uint8_t)c

\* The arguments of memcpy are restrict: what it copies to is not what it
\* copies from.
Apart == From(dest) \cap From(src) = {}

Forward == fn = "memcpy" \/ (fn = "memmove" /\ src > dest)
Backward == fn = "memmove" /\ src < dest

Call ==
  /\ fn \in {"memcpy", "memmove", "memset", "memcmp"}
  /\ dest \in Address /\ src \in Address /\ n \in Nat
  /\ fn = "memcpy" => Apart
  /\ c \in Int
  /\ before \in [Address -> Byte]
  /\ memory = before
  /\ i = IF Backward THEN n ELSE 0
  /\ done = FALSE /\ result = 0

-----------------------------------------------------------------------------
CopyForward ==
  /\ ~done /\ Forward /\ i < n
  /\ memory' = [memory EXCEPT ![dest + i] = memory[src + i]]
  /\ i' = i + 1
  /\ UNCHANGED << arguments, done, result >>

CopyBackward ==
  /\ ~done /\ Backward /\ i > 0
  /\ memory' = [memory EXCEPT ![dest + i - 1] = memory[src + i - 1]]
  /\ i' = i - 1
  /\ UNCHANGED << arguments, done, result >>

Fill ==
  /\ ~done /\ fn = "memset" /\ i < n
  /\ memory' = [memory EXCEPT ![dest + i] = LowByte]
  /\ i' = i + 1
  /\ UNCHANGED << arguments, done, result >>

Compare ==
  /\ ~done /\ fn = "memcmp" /\ i < n
  /\ IF memory[dest + i] # memory[src + i]
       THEN /\ done' = TRUE
            /\ result' = IF memory[dest + i] < memory[src + i] THEN -1 ELSE 1
            /\ UNCHANGED i
       ELSE i' = i + 1 /\ UNCHANGED << done, result >>
  /\ UNCHANGED << arguments, memory >>

\* The loop has done, or there was none: memmove onto itself.
EndOfLoop ==
  /\ ~done
  /\ IF Backward THEN i = 0
     ELSE i >= n \/ (fn = "memmove" /\ src = dest)
  /\ done' = TRUE
  /\ UNCHANGED << arguments, memory, i, result >>

Iterate == CopyForward \/ CopyBackward \/ Fill \/ Compare \/ EndOfLoop

CallSpec == Call /\ [][Iterate]_callvars

-----------------------------------------------------------------------------
(* Properties *)

\* Memory with the bytes first to last - 1 of the source at the destination.
Copied(first, last) ==
  [a \in Address |-> IF a - dest \in first .. last - 1 THEN before[src + (a - dest)]
                                                       ELSE before[a]]

\* memmove copies what was there before the call, however the two ranges
\* overlap, and writes nothing else; so does memcpy when they do not.
CopiesWhatWasThere ==
  done /\ fn \in {"memcpy", "memmove"} => memory = Copied(0, n)

\* memset fills its range with the low byte of c, of a negative one too.
FillsTheRange ==
  done /\ fn = "memset" =>
    memory = [a \in Address |-> IF a - dest \in 0 .. n - 1 THEN LowByte ELSE before[a]]

\* The first difference, as unsigned bytes, decides what memcmp returns.
Agree(k) == \A j \in 0 .. k - 1 : before[dest + j] = before[src + j]
OrdersByFirstDifference ==
  done /\ fn = "memcmp" =>
    /\ memory = before
    /\ result = 0 <=> Agree(n)
    /\ result # 0 => \E k \in 0 .. n - 1 :
         /\ Agree(k)
         /\ result = IF before[dest + k] < before[src + k] THEN -1 ELSE 1
         /\ before[dest + k] # before[src + k]
=============================================================================
