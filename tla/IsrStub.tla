------------------------------ MODULE IsrStub -------------------------------
(***************************************************************************)
(* What src/sys/idt-stub.S does to the stack and the registers between an  *)
(* interrupt and the handler, and between the handler and iretq.           *)
(*                                                                         *)
(* A machine is [reg, sp, mem]: the registers by name, the stack pointer   *)
(* and the memory, both counted in words of eight bytes.  The stack grows  *)
(* down and sp is the word pushed last.                                    *)
(***************************************************************************)
EXTENDS Integers, Sequences

\* The pushes of isr_handler_stub, in order.  (The last six go through rax.)
SaveOrder == << "rax", "rbx", "rcx", "rdx", "rbp", "rdi", "rsi", "r8", "r9",
                "r10", "r11", "r12", "r13", "r14", "r15",
                "cr0", "cr2", "cr3", "cr4", "ds", "es" >>
General == 1 .. 15

\* The members of struct register_ctx, in order.
ContextOrder == << "es", "ds", "cr4", "cr3", "cr2", "cr0",
                   "r15", "r14", "r13", "r12", "r11", "r10", "r9", "r8",
                   "rsi", "rdi", "rbp", "rdx", "rcx", "rbx", "rax",
                   "vector", "err", "rip", "cs", "rflags", "rsp", "ss" >>

Vectors == 0 .. 255

\* The vectors for which the stub pushes no zero, and those for which the
\* processor pushes an error code.
StubErrorCodes == {8, 10, 11, 12, 13, 14, 17, 30}
ProcessorErrorCodes == {8, 10, 11, 12, 13, 14, 17, 21, 29, 30}

-----------------------------------------------------------------------------
\* Pushes the words of s, the first one first.
Pushed(m, s) ==
  [reg |-> m.reg,
   sp  |-> m.sp - Len(s),
   mem |-> [a \in Int |-> IF m.sp - Len(s) <= a /\ a < m.sp THEN s[m.sp - a]
                                                            ELSE m.mem[a]]]

\* The processor aligns the stack to 16 bytes and pushes what iretq needs.
Delivered(m, v, code) ==
  LET frame == << m.reg["ss"], m.sp, m.reg["rflags"], m.reg["cs"], m.reg["rip"] >>
      aligned == [m EXCEPT !.sp = 2 * (@ \div 2)]
  IN Pushed(Pushed(aligned, frame), IF v \in ProcessorErrorCodes THEN << code >> ELSE << >>)

\* _isr<v>
Entered(m, v) ==
  Pushed(Pushed(m, IF v \in StubErrorCodes THEN << >> ELSE << 0 >>), << v >>)

\* isr_handler_stub up to the call
Saved(m) == Pushed(m, [k \in 1 .. 21 |-> m.reg[SaveOrder[k]]])

\* The machine when the handler is called; its sp is the argument ctx, and the
\* word 168 bytes above it selects the handler.
AtCall(m, v, code) == Saved(Entered(Delivered(m, v, code), v))
Called(m) == m.mem[m.sp + 21]
Context(m, k) == m.mem[m.sp + k - 1]

\* A handler returns with the stack pointer it was called with and what lies
\* above unchanged; it may leave anything in the registers and below.
HandlerReturns(m, n) == n.sp = m.sp /\ \A a \in Int : a >= m.sp => n.mem[a] = m.mem[a]

\* isr_handler_stub after the call: six words are dropped, fifteen popped, the
\* vector and the code dropped, and the rest is iretq.  A register that is
\* neither popped nor taken by iretq is what the handler left.
Popped(m, k) == m.mem[m.sp + 6 + 15 - k]
Resumed(m) ==
  [general |-> [k \in General |-> Popped(m, k)],
   rip     |-> m.mem[m.sp + 23],
   cs      |-> m.mem[m.sp + 24],
   rflags  |-> m.mem[m.sp + 25],
   sp      |-> m.mem[m.sp + 26],
   ss      |-> m.mem[m.sp + 27]]

=============================================================================
