--------------------------------- MODULE Idt --------------------------------
(***************************************************************************)
(* The way of an interrupt through one CPU: the gates of idt_init, the     *)
(* stubs of olive/src/sys/idt.asm, idt_handler and the table of IRQ        *)
(* handlers in olive/src/sys/idt.c.                                        *)
(*                                                                         *)
(* The stack is a sequence of words, its top at the end.  A word is a      *)
(* register (or a field of the CPU's frame) paired with the level of the   *)
(* code that it belongs to: level 0 is the kernel's main thread, level n+1 *)
(* what interrupted level n.  Of what all this prints, the model has when  *)
(* printf_lock is taken: Console has the text.                             *)
(* Definitions named Bad are faulty variants, as in PMM.tla.               *)
(***************************************************************************)
EXTENDS Integers, Sequences, Functions

CONSTANTS
  Vectors,   \* the interrupts and exceptions that occur
  Handlers,  \* the functions that may be registered for an IRQ
  Chains,    \* what rbp of the interrupted main thread may lead to
  MaxLevel   \* bound: interrupts that are in progress at a time

ASSUME VectorsAssumption == Vectors \subseteq 0 .. 255

IRQ_BASE  == 32
IRQ_COUNT == 16

NULL == "null"

ASSUME HandlersAssumption == NULL \notin Handlers

(* Saved frame pointers, so many of them up to NULL, to an address where   *)
(* nothing is mapped, or to a frame that leads to itself.                  *)
ASSUME ChainsAssumption ==
  Chains \subseteq [frames : Nat \ {0}, end : {"null", "unmapped", "itself"}]

VARIABLES
  words,         \* the stack
  regs,          \* the general registers
  enabled,       \* the interrupt flag
  pc,            \* where the innermost interrupt stands, or "run"
  arrived,       \* history: for each interrupt in progress, what it was
  irq_handlers,
  printf_lock,   \* the level whose putchar holds it, or Nobody
  chain,         \* of Chains
  left           \* the frames in front of _backtrace

trace_vars == <<chain, left>>
vars == <<words, regs, enabled, pc, arrived, irq_handlers, printf_lock, trace_vars>>

level == Len(arrived)

Nobody == -1

Irqs == {v - IRQ_BASE : v \in Vectors \cap (IRQ_BASE .. IRQ_BASE + IRQ_COUNT - 1)}

-----------------------------------------------------------------------------
(* The CPU and the tables.                                                 *)

(* idt_init sets gates for the exceptions and the IRQs only. *)
Gates == (0 .. 31) \cup (IRQ_BASE .. IRQ_BASE + IRQ_COUNT - 1)

(* The exceptions for which the CPU pushes an error code. *)
PushesError == {8, 10, 11, 12, 13, 14, 17, 21, 29, 30}

(* The stubs that rely on it: the _isr_err lines of idt.asm. *)
BadStubsWithError == {8, 10, 11, 12, 13, 14, 30}
StubsWithError == {8, 10, 11, 12, 13, 14, 17, 30}

(* exception_info[v].fatal *)
Fatal == {0, 2} \cup (4 .. 14) \cup {16, 17, 18, 30}

(* pushaq and popaq.  popaq drops what it took from ds, cr2 and cr3.       *)
General == <<"rax", "rbx", "rcx", "rdx", "rsi", "rdi", "rbp", "r8", "r9", "r10", "r11",
             "r12", "r13", "r14", "r15">>

Pushed == General \o <<"cr3", "cr2", "ds">>

BadPopped == <<"r15", "r14", "r13", "r12", "r11", "r10", "r9", "r8", "rbp", "rsi", "rdi",
               "rdx", "rcx", "rbx", "rax">>
Popped == <<"r15", "r14", "r13", "r12", "r11", "r10", "r9", "r8", "rbp", "rdi", "rsi",
            "rdx", "rcx", "rbx", "rax">>

(* int_frame_t, from its lowest address upwards. *)
Fields == <<"ds", "cr2", "cr3", "r15", "r14", "r13", "r12", "r11", "r10", "r9", "r8", "rbp",
            "rdi", "rsi", "rdx", "rcx", "rbx", "rax", "vector", "err", "rip", "cs", "rflags",
            "rsp", "ss">>

(* The field of the frame that idt_handler finds on top of the stack. *)
Field(f) ==
  LET k == CHOOSE n \in 1 .. Len(Fields) : Fields[n] = f
  IN words[Len(words) + 1 - k]

CpuFrame(e) == << <<"ss", e>>, <<"rsp", e>>, <<"rflags", e>>, <<"cs", e>>, <<"rip", e>> >>

Registers(e) == [r \in Range(General) |-> <<r, e>>]

Init ==
  /\ words = <<>>
  /\ regs = Registers(0)
  /\ enabled = TRUE
  /\ pc = "run"
  /\ arrived = <<>>
  /\ irq_handlers = [i \in Irqs |-> NULL]
  /\ printf_lock = Nobody
  /\ chain \in Chains
  /\ left = 0

-----------------------------------------------------------------------------
(* Without a gate the CPU raises #GP instead.  The gates are interrupt     *)
(* gates.                                                                  *)
Interrupted(v) ==
  LET w == IF v \in Gates THEN v ELSE 13
  IN /\ words' = words \o CpuFrame(level)
                   \o (IF w \in PushesError THEN << <<"err", w>> >> ELSE <<>>)
     /\ arrived' = Append(arrived, [vector |-> w, depth |-> Len(words), regs |-> regs,
                                    enabled |-> enabled, pc |-> pc])
     /\ enabled' = FALSE
     /\ pc' = "stub"

(* An exception comes to whatever runs, in putchar as well, and before the *)
(* way back; an IRQ when the flag is set.  (The pushes of a stub are one   *)
(* step, Stub, in which nothing comes: an NMI, which could, is left out.)  *)
Deliver(v) ==
  /\ level < MaxLevel
  /\ pc \in {"run", "decide", "invoke", "backtrace", "leave"}
  /\ v \in 32 .. 255 => enabled
  /\ Interrupted(v)
  /\ UNCHANGED <<regs, irq_handlers, printf_lock, trace_vars>>

(* The stack with what the stub and pushaq put on top. *)
Saved(v) ==
  words
  \o (IF v \in StubsWithError THEN <<>> ELSE << <<"err", 0>> >>)
  \o << <<"vector", v>> >>
  \o [n \in 1 .. Len(Pushed) |->
        IF Pushed[n] \in Range(General) THEN regs[Pushed[n]] ELSE <<Pushed[n], level>>]

BadStub ==
  /\ pc = "stub"
  /\ words' = Saved(arrived[level].vector)
  /\ enabled' = TRUE
  /\ pc' = "decide"
  /\ UNCHANGED <<regs, arrived, irq_handlers, printf_lock, trace_vars>>

(* The stub, with its cli, and _int_stub up to its call. *)
Stub ==
  /\ pc = "stub"
  /\ words' = Saved(arrived[level].vector)
  /\ enabled' = FALSE
  /\ pc' = "decide"
  /\ UNCHANGED <<regs, arrived, irq_handlers, printf_lock, trace_vars>>

-----------------------------------------------------------------------------
(* putchar holds printf_lock for every character.  All the code below      *)
(* prints, and gets past its lines only when nobody holds the lock: if     *)
(* code that it interrupted does, it spins for ever.                       *)
Printing == {"run", "decide", "invoke", "backtrace"}

TakeLock ==
  /\ pc \in Printing
  /\ printf_lock = Nobody
  /\ printf_lock' = level
  /\ UNCHANGED <<words, regs, enabled, pc, arrived, irq_handlers, trace_vars>>

DropLock ==
  /\ pc \in Printing
  /\ printf_lock = level
  /\ printf_lock' = Nobody
  /\ UNCHANGED <<words, regs, enabled, pc, arrived, irq_handlers, trace_vars>>

(* idt_handler.  A fatal exception is reported, with a backtrace; other    *)
(* vectors are logged, unless a handler is registered for them.  Compiled  *)
(* code keeps rbx, rbp and r12 to r15, and leaves its own in the others.   *)
Kept == {"rbx", "rbp", "r12", "r13", "r14", "r15"}

Clobbered == [r \in Range(General) |-> IF r \in Kept THEN regs[r] ELSE <<r, level>>]

irq == Field("vector")[2] - IRQ_BASE

(* The stubs leave rbp alone, so the frames of a handler are linked to     *)
(* those of the code that it interrupted: idt_handler's and its callee's.  *)
Frames == 2 * level + chain.frames

Decide ==
  LET v == Field("vector")[2]
  IN /\ pc = "decide"
     /\ printf_lock = Nobody
     /\ regs' = Clobbered
     /\ pc' = IF v \in Fatal THEN "backtrace"
              ELSE IF irq \in Irqs /\ irq_handlers[irq] # NULL THEN "invoke" ELSE "leave"
     /\ left' = IF v \in Fatal THEN Frames ELSE left
     /\ UNCHANGED <<words, enabled, arrived, irq_handlers, printf_lock, chain>>

(* _backtrace: from the saved rbp of one frame to the next, until one is   *)
(* NULL.  Then idt_handler calls hcf.                                      *)
BadNextFrame ==
  /\ pc = "backtrace"
  /\ printf_lock = Nobody
  /\ left > 0 \/ chain.end # "unmapped"
  /\ left' = IF left > 0 THEN left - 1 ELSE chain.frames
  /\ UNCHANGED <<words, regs, enabled, pc, arrived, irq_handlers, printf_lock, chain>>

NextFrame ==
  /\ pc = "backtrace"
  /\ printf_lock = Nobody
  /\ left > 0 \/ chain.end = "itself"
  /\ left' = IF left > 0 THEN left - 1 ELSE chain.frames
  /\ UNCHANGED <<words, regs, enabled, pc, arrived, irq_handlers, printf_lock, chain>>

BacktraceEnds ==
  /\ pc = "backtrace"
  /\ printf_lock = Nobody
  /\ left = 0
  /\ chain.end = "null"
  /\ pc' = "halted"
  /\ UNCHANGED <<words, regs, enabled, arrived, irq_handlers, printf_lock, trace_vars>>

(* The read of the next rbp is a page fault, which is fatal as well, and   *)
(* whose own backtrace comes to the same place.                            *)
BacktraceFaults ==
  /\ pc = "backtrace"
  /\ printf_lock = Nobody
  /\ left = 0
  /\ chain.end = "unmapped"
  /\ level < MaxLevel
  /\ Interrupted(14)
  /\ UNCHANGED <<regs, irq_handlers, printf_lock, trace_vars>>

(* The call through the table, which idt_handler reads a second time.  The *)
(* handler may register itself or another, or deregister itself.           *)
Invoke ==
  /\ pc = "invoke"
  /\ printf_lock = Nobody
  /\ IF irq_handlers[irq] = NULL
     THEN pc' = "wild" /\ UNCHANGED irq_handlers
     ELSE /\ pc' = "leave"
          /\ \E h \in Handlers \cup {NULL}, n \in Irqs :
               irq_handlers' = [irq_handlers EXCEPT ![n] = h]
  /\ UNCHANGED <<words, regs, enabled, arrived, printf_lock, trace_vars>>

(* popaq, the two words of the stub, and iretq. *)
Leave ==
  LET general == Len(words) - 3
      cpu     == general - Len(Popped) - 2
  IN /\ pc = "leave"
     /\ regs' = [r \in Range(General) |->
                   LET n == CHOOSE k \in 1 .. Len(Popped) : Popped[k] = r
                   IN words[general + 1 - n]]
     /\ words' = SubSeq(words, 1, cpu - 5)
     /\ pc' = IF words[cpu] = <<"rip", level - 1>> THEN arrived[level].pc ELSE "wild"
     /\ enabled' = arrived[level].enabled
     /\ arrived' = SubSeq(arrived, 1, level - 1)
     /\ UNCHANGED <<irq_handlers, printf_lock, trace_vars>>

(* idt_irq_register and idt_irq_deregister, from the main thread. *)
Register(n, h) ==
  /\ pc = "run"
  /\ printf_lock = Nobody
  /\ n \in Irqs
  /\ irq_handlers' = [irq_handlers EXCEPT ![n] = h]
  /\ UNCHANGED <<words, regs, enabled, pc, arrived, printf_lock, trace_vars>>

Advance ==
  \/ Stub \/ Decide \/ Invoke \/ Leave
  \/ NextFrame \/ BacktraceEnds \/ BacktraceFaults

Next ==
  \/ \E v \in Vectors : Deliver(v)
  \/ Advance \/ TakeLock \/ DropLock
  \/ \E n \in Irqs, h \in Handlers \cup {NULL} : Register(n, h)

Spec == Init /\ [][Next]_vars

(* The CPU runs on; and the code of one handler and what it prints are     *)
(* finite, so neither its own characters nor exceptions keep it at one     *)
(* place for ever.                                                         *)
FairSpec ==
  /\ Spec
  /\ \A n \in 1 .. MaxLevel :
       SF_vars(Advance /\ level = n) /\ SF_vars(DropLock /\ level = n)

-----------------------------------------------------------------------------
(* What idt_handler finds in its frame is what happened: the vector, the   *)
(* CPU's error code or 0, and the place and the registers of the code that *)
(* was interrupted.                                                        *)
FrameIsTrue ==
  pc = "decide" =>
    LET a == arrived[level]
    IN /\ Field("vector") = <<"vector", a.vector>>
       /\ Field("err") = <<"err", IF a.vector \in PushesError THEN a.vector ELSE 0>>
       /\ \A f \in {"rip", "cs", "rflags", "rsp", "ss"} : Field(f) = <<f, level - 1>>
       /\ \A r \in Range(General) : Field(r) = a.regs[r]

(* Code that was interrupted goes on with the registers and the stack that *)
(* it had, however deep the interrupts were nested.                        *)
ContextIsRestored ==
  [][Len(arrived') < level =>
       /\ regs' = arrived[level].regs
       /\ Len(words') = arrived[level].depth
       /\ pc' = arrived[level].pc]_vars

(* The table still holds the handler that idt_handler checked for when it  *)
(* calls through it.                                                       *)
NoWildCall == pc # "wild"

(* An exception came while some putchar held printf_lock: its handler      *)
(* waits for the code that it interrupted.                                 *)
CaughtInPutchar == printf_lock \in 0 .. level - 1

(* A fatal exception brings the CPU to hcf, however many other exceptions  *)
(* come on the way, unless one comes inside a putchar: nothing else keeps  *)
(* it from there, if the interrupted code kept its chain of frames.  (If   *)
(* it did not, _backtrace goes around, or faults in fault after fault.)    *)
FatalHalts ==
  (pc = "stub" /\ arrived[level].vector \in Fatal /\ chain.end = "null")
    ~> (pc = "halted" \/ CaughtInPutchar)

(* idt.c:214 and idt.c:218 are about to print frame.err as the error code  *)
(* of a Control Protection (21) and a VMM Communication Exception (29): the *)
(* frame holds what the CPU pushed.  (No such line is ever printed, as the *)
(* switch is reached for fatal exceptions only and these two are not; but  *)
(* the frame that idt_handler gets is the same.)                           *)
ErrorCodeIsInFrame ==
  pc = "decide" /\ arrived[level].vector \in {21, 29} =>
    Field("err") = <<"err", arrived[level].vector>>

=============================================================================
