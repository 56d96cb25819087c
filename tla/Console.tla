------------------------------- MODULE Console ------------------------------
(***************************************************************************)
(* The kernel's console, olive/src/lib/printf.c: printf and puts, which    *)
(* send their characters one by one through putchar to the serial port and *)
(* to the screen, under printf_lock.                                       *)
(*                                                                         *)
(* A CPU runs its program of calls.  An interrupt may come between any two *)
(* steps; idt_handler then prints on top of the interrupted call, and      *)
(* returns to it when the call of its own is done.  Interrupts come        *)
(* through interrupt gates, so they do not nest.                           *)
(*                                                                         *)
(* A character is the tuple of its CPU, of its call (0 for a handler's)    *)
(* and of its place in the text.  ft_ctx is set: nothing prints before.    *)
(* Definitions named Bad are faulty variants, as in PMM.tla.               *)
(***************************************************************************)
EXTENDS Integers, Sequences

CONSTANTS
  Cpus,
  Programs,    \* what the CPUs may have to print: sequences of calls [fn, length]
  Report,      \* how many characters idt_handler prints
  Interrupts,  \* bound: interrupts that one CPU takes
  BufferSize   \* sizeof(buffer) in vfprintf: 1024

ASSUME ProgramAssumption ==
  \A p \in Programs :
    p \in [Cpus -> Seq([fn : {"printf", "puts"}, length : Nat])]

ASSUME SizesAssumption == Report \in Nat /\ Interrupts \in Nat /\ BufferSize \in Nat

VARIABLES
  program,      \* the calls that each CPU makes
  printf_lock,  \* is the spinlock taken?
  stack,        \* the calls in progress on each CPU, the innermost last
  done,         \* the calls of its program that each CPU has behind it
  irqs,         \* the interrupts that each CPU has taken
  com1, screen  \* what the serial port and flanterm were sent

vars == <<program, printf_lock, stack, done, irqs, com1, screen>>

Init ==
  /\ program \in Programs
  /\ printf_lock = FALSE
  /\ stack = [c \in Cpus |-> <<>>]
  /\ done = [c \in Cpus |-> 0]
  /\ irqs = [c \in Cpus |-> 0]
  /\ com1 = <<>>
  /\ screen = <<>>

-----------------------------------------------------------------------------
(* vfprintf drops a text that does not fit its buffer; puts adds a newline. *)
ToSend(f) == IF f.fn = "puts" THEN f.length + 1
             ELSE IF f.length < BufferSize THEN f.length ELSE 0

BadMore(f) == f.sent + 1 < ToSend(f)
More(f) == f.sent < ToSend(f)

Frame(fn, length, call) ==
  [fn |-> fn, length |-> length, call |-> call, sent |-> 0,
   pc |-> IF fn = "puts" THEN "enter" ELSE "chars"]

Top(c) == stack[c][Len(stack[c])]

Push(c, f) == stack' = [stack EXCEPT ![c] = Append(@, f)]

Pop(c) == stack' = [stack EXCEPT ![c] = SubSeq(@, 1, Len(@) - 1)]

Update(c, f) == stack' = [stack EXCEPT ![c] = Append(SubSeq(@, 1, Len(@) - 1), f)]

Goto(c, l) == Update(c, [Top(c) EXCEPT !.pc = l])

At(c, l) == stack[c] # <<>> /\ Top(c).pc = l

Call(c) ==
  /\ stack[c] = <<>>
  /\ done[c] < Len(program[c])
  /\ LET p == program[c][done[c] + 1]
     IN Push(c, Frame(p.fn, p.length, done[c] + 1))
  /\ UNCHANGED <<program, printf_lock, done, irqs, com1, screen>>

(* puts keeps the lock while it calls putchar. *)
EnterPuts(c) ==
  /\ At(c, "enter")
  /\ ~printf_lock
  /\ printf_lock' = TRUE
  /\ Goto(c, "chars")
  /\ UNCHANGED <<program, done, irqs, com1, screen>>

(* putchar, step by step. *)
BadAcquire(c) ==
  /\ At(c, "chars")
  /\ More(Top(c))
  /\ printf_lock' = TRUE
  /\ Goto(c, "com1")
  /\ UNCHANGED <<program, done, irqs, com1, screen>>

Acquire(c) ==
  /\ At(c, "chars")
  /\ More(Top(c))
  /\ ~printf_lock
  /\ printf_lock' = TRUE
  /\ Goto(c, "com1")
  /\ UNCHANGED <<program, done, irqs, com1, screen>>

Char(c) == <<c, Top(c).call, Top(c).sent + 1>>

WriteCom1(c) ==
  /\ At(c, "com1")
  /\ com1' = Append(com1, Char(c))
  /\ Goto(c, "screen")
  /\ UNCHANGED <<program, printf_lock, done, irqs, screen>>

WriteScreen(c) ==
  /\ At(c, "screen")
  /\ screen' = Append(screen, Char(c))
  /\ Goto(c, "release")
  /\ UNCHANGED <<program, printf_lock, done, irqs, com1>>

BadRelease(c) ==
  /\ At(c, "release")
  /\ Update(c, [Top(c) EXCEPT !.pc = "chars", !.sent = @ + 1])
  /\ UNCHANGED <<program, printf_lock, done, irqs, com1, screen>>

Release(c) ==
  /\ At(c, "release")
  /\ printf_lock' = FALSE
  /\ Update(c, [Top(c) EXCEPT !.pc = "chars", !.sent = @ + 1])
  /\ UNCHANGED <<program, done, irqs, com1, screen>>

(* The text is out: puts releases its own lock, and the call returns, to   *)
(* the program or out of the interrupt.                                    *)
Return(c) ==
  /\ At(c, "chars")
  /\ ~More(Top(c))
  /\ printf_lock' = (printf_lock /\ Top(c).fn # "puts")
  /\ done' = IF Top(c).call = 0 THEN done ELSE [done EXCEPT ![c] = @ + 1]
  /\ Pop(c)
  /\ UNCHANGED <<program, irqs, com1, screen>>

Step(c) ==
  \/ Call(c) \/ EnterPuts(c) \/ Acquire(c) \/ WriteCom1(c) \/ WriteScreen(c)
  \/ Release(c) \/ Return(c)

(* An interrupt that nobody registered a handler for: idt_handler warns    *)
(* and returns.                                                            *)
Interrupt(c) ==
  /\ irqs[c] < Interrupts
  /\ \A n \in 1 .. Len(stack[c]) : stack[c][n].call # 0
  /\ irqs' = [irqs EXCEPT ![c] = @ + 1]
  /\ Push(c, Frame("printf", Report, 0))
  /\ UNCHANGED <<program, printf_lock, done, com1, screen>>

Next == \E c \in Cpus : Step(c) \/ Interrupt(c)

Spec == Init /\ [][Next]_vars

(* Every CPU runs. *)
FairSpec == Spec /\ \A c \in Cpus : WF_vars(Step(c))

-----------------------------------------------------------------------------
TypeOK ==
  /\ printf_lock \in BOOLEAN
  /\ \A c \in Cpus :
       /\ Len(stack[c]) <= 2
       /\ done[c] <= Len(program[c])
       /\ \A n \in 1 .. Len(stack[c]) :
            /\ stack[c][n].pc \in {"enter", "chars", "com1", "screen", "release"}
            /\ stack[c][n].sent <= ToSend(stack[c][n])
            /\ stack[c][n].pc \in {"com1", "screen", "release"} => printf_lock

(* The two devices are sent the same characters in the same order, whoever *)
(* prints: the screen is behind the serial port by at most the character   *)
(* that is on its way.                                                     *)
SinksAgree ==
  /\ Len(com1) - Len(screen) \in {0, 1}
  /\ screen = SubSeq(com1, 1, Len(screen))

(* How much of the text of each call is out, and the order of the program. *)
Shown(f) == f.sent + IF f.pc = "release" THEN 1 ELSE 0

ShownOf(c, j) ==
  IF j <= done[c] THEN ToSend(program[c][j])
  ELSE IF j = done[c] + 1 /\ stack[c] # <<>> /\ stack[c][1].call # 0 THEN Shown(stack[c][1])
  ELSE 0

TextOf(c, j) == {<<c, j, k>> : k \in 1 .. ShownOf(c, j)}

Before(x, y) == x[2] < y[2] \/ (x[2] = y[2] /\ x[3] < y[3])

(* Nothing is lost, doubled or out of order on the way: what the screen    *)
(* shows of the program of a CPU is the texts of the calls behind it, as   *)
(* far as they fit the buffer, and of the call in progress what it sent,   *)
(* in the order of the program.                                            *)
OutputIsComplete ==
  \A c \in Cpus :
    LET own == {i \in DOMAIN screen : screen[i][1] = c /\ screen[i][2] # 0}
    IN /\ {screen[i] : i \in own} = UNION {TextOf(c, j) : j \in DOMAIN program[c]}
       /\ \A i, k \in own : i < k => Before(screen[i], screen[k])

(* A CPU waits for a lock that it holds itself: in putchar called by puts, *)
(* or in a handler on top of a putchar.  Nobody will release it.           *)
Holds(f) == f.pc \in {"com1", "screen", "release"} \/ (f.fn = "puts" /\ f.pc # "enter")

Waits(f) == f.pc = "enter" \/ (f.pc = "chars" /\ More(f))

WaitsForItself(c) ==
  /\ stack[c] # <<>>
  /\ Waits(Top(c))
  /\ \E n \in 1 .. Len(stack[c]) : Holds(stack[c][n])

(* That is the only way to get stuck: unless it happens on some CPU, every *)
(* CPU gets the lock as often as it needs it, and its calls all return.    *)
CallsReturn ==
  [](\A c \in Cpus : ~WaitsForItself(c)) =>
    \A c \in Cpus : <>(done[c] = Len(program[c]) /\ stack[c] = <<>>)

(* idt.c:259 warns of an IRQ without a handler: "interrupt ignored".  The  *)
(* code that it interrupted goes on.                                       *)
InterruptsAreIgnored == \A c \in Cpus : (stack[c] # <<>>) ~> (stack[c] = <<>>)

=============================================================================
