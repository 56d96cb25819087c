------------------------------ MODULE IdtProofs -----------------------------
(***************************************************************************)
(* Proofs about the way of an interrupt, for every set of vectors without  *)
(* the two whose stubs push a zero over the CPU's error code, every depth  *)
(* of nesting, any handlers and any chain of frames.                       *)
(***************************************************************************)
EXTENDS Idt, SequenceTheorems, TLAPS

-----------------------------------------------------------------------------
(* The inductive invariant.  A finished frame is 25 words: 5 of the CPU,   *)
(* the error code, the vector, 15 general registers, cr3, cr2 and ds.      *)
Names == Range(General) \cup {"cr3", "cr2", "ds", "err", "vector", "rip", "cs", "rflags", "rsp", "ss"}

Word == Names \X Nat

Regs == [Range(General) -> Word]

Arrival == [vector : 0 .. 255, depth : Nat, regs : Regs, enabled : BOOLEAN,
            pc : {"run", "decide", "invoke", "backtrace", "leave"}]

Before(k) == 25 * (k - 1)

ErrorOf(v) == IF v \in PushesError THEN v ELSE 0

ErrorWord(v) == IF v \in PushesError THEN << <<"err", v>> >> ELSE <<>>

CpuPart(k) ==
  /\ words[Before(k) + 1] = <<"ss", k - 1>>
  /\ words[Before(k) + 2] = <<"rsp", k - 1>>
  /\ words[Before(k) + 3] = <<"rflags", k - 1>>
  /\ words[Before(k) + 4] = <<"cs", k - 1>>
  /\ words[Before(k) + 5] = <<"rip", k - 1>>

ErrorPart(k) == words[Before(k) + 6] = <<"err", ErrorOf(arrived[k].vector)>>

StubPart(k) ==
  /\ words[Before(k) + 7] = <<"vector", arrived[k].vector>>
  /\ \A n \in 1 .. 15 : words[Before(k) + 7 + n] = arrived[k].regs[General[n]]

WholeFrame(k) == CpuPart(k) /\ ErrorPart(k) /\ StubPart(k)

Types ==
  /\ words \in Seq(Word)
  /\ regs \in Regs
  /\ enabled \in BOOLEAN
  /\ arrived \in Seq(Arrival)
  /\ irq_handlers \in [Irqs -> Handlers \cup {NULL}]
  /\ pc \in {"run", "stub", "decide", "invoke", "leave", "backtrace", "halted"}

StackInv ==
  /\ \A k \in 1 .. level : arrived[k].depth = Before(k) /\ arrived[k].vector \notin {21, 29}
  /\ pc = "stub" =>
       /\ level > 0
       /\ Len(words) = Before(level) + (IF arrived[level].vector \in PushesError THEN 6 ELSE 5)
       /\ CpuPart(level)
       /\ arrived[level].vector \in PushesError => ErrorPart(level)
       /\ regs = arrived[level].regs
  /\ pc # "stub" => Len(words) = 25 * level
  /\ \A k \in 1 .. level : k < level \/ pc # "stub" => WholeFrame(k)

(* Interrupts are enabled in the main thread only, so it alone can be      *)
(* interrupted by an IRQ.                                                  *)
NestInv ==
  /\ pc = "run" <=> level = 0
  /\ enabled => level = 0
  /\ \A k \in 1 .. level :
       /\ arrived[k].pc = "run" <=> k = 1
       /\ arrived[k].enabled => k = 1
       /\ k > 1 => arrived[k].vector < 32

(* Who is about to call through the table has found a handler in it.       *)
Registered ==
  LET i == arrived[1].vector - IRQ_BASE
  IN i \in Irqs /\ irq_handlers[i] # NULL

CallInv ==
  /\ pc = "invoke" => level = 1 /\ Registered
  /\ \A k \in 1 .. level : arrived[k].pc = "invoke" => k = 2 /\ Registered

IdtInv == Types /\ StackInv /\ NestInv /\ CallInv

-----------------------------------------------------------------------------
(* The four places that write the layout of the stack down agree.          *)
LEMMA Fifteen ==
  ASSUME NEW n \in 1 .. 15
  PROVE  n \in {1, 2, 3, 4, 5, 6, 7, 8, 9, 10, 11, 12, 13, 14, 15}
  OBVIOUS

LEMMA TwentyFive ==
  ASSUME NEW n \in 1 .. 25
  PROVE  n \in {1, 2, 3, 4, 5, 6, 7, 8, 9, 10, 11, 12, 13, 14, 15, 16, 17, 18, 19, 20, 21, 22, 23,
                24, 25}
  OBVIOUS

LEMMA FieldOrder ==
  /\ Len(Fields) = 25
  /\ \A n \in 1 .. 15 : Fields[19 - n] = General[n]
  /\ Fields[19] = "vector" /\ Fields[20] = "err" /\ Fields[21] = "rip" /\ Fields[22] = "cs"
  /\ Fields[23] = "rflags" /\ Fields[24] = "rsp" /\ Fields[25] = "ss"
  /\ \A n, k \in 1 .. 25 : Fields[n] = Fields[k] => n = k
  <1>1. Len(Fields) = 25
    BY DEF Fields
  <1>2. \A n \in 1 .. 15 : Fields[19 - n] = General[n]
    BY Fifteen DEF General, Fields
  <1>3. /\ Fields[19] = "vector" /\ Fields[20] = "err" /\ Fields[21] = "rip" /\ Fields[22] = "cs"
        /\ Fields[23] = "rflags" /\ Fields[24] = "rsp" /\ Fields[25] = "ss"
    BY DEF Fields
  <1>4. \A n, k \in 1 .. 25 : Fields[n] = Fields[k] => n = k
    <2> DEFINE at == [ds |-> 1, cr2 |-> 2, cr3 |-> 3, r15 |-> 4, r14 |-> 5, r13 |-> 6, r12 |-> 7,
                      r11 |-> 8, r10 |-> 9, r9 |-> 10, r8 |-> 11, rbp |-> 12, rdi |-> 13,
                      rsi |-> 14, rdx |-> 15, rcx |-> 16, rbx |-> 17, rax |-> 18, vector |-> 19,
                      err |-> 20, rip |-> 21, cs |-> 22, rflags |-> 23, rsp |-> 24, ss |-> 25]
    <2>1. \A n \in 1 .. 25 : at[Fields[n]] = n
      BY TwentyFive DEF Fields
    <2> QED
      BY <2>1
  <1> QED
    BY <1>1, <1>2, <1>3, <1>4

LEMMA GeneralOrder ==
  /\ Len(General) = 15 /\ DOMAIN General = 1 .. 15 /\ Len(Popped) = 15
  /\ \A n \in 1 .. 15 : General[n] \in Names /\ Popped[16 - n] = General[n]
  /\ \A n, k \in 1 .. 15 : General[n] = General[k] => n = k
  <1>1. Len(General) = 15 /\ DOMAIN General = 1 .. 15 /\ Len(Popped) = 15
    BY DEF General, Popped
  <1>2. \A n \in 1 .. 15 : General[n] \in Names /\ Popped[16 - n] = General[n]
    <2>1. \A n \in 1 .. 15 : General[n] \in Names
      BY <1>1 DEF Names, Range
    <2>2. \A n \in 1 .. 15 : Popped[16 - n] = General[n]
      BY Fifteen DEF General, Popped
    <2> QED
      BY <2>1, <2>2
  <1>3. \A n, k \in 1 .. 15 : General[n] = General[k] => n = k
    <2> SUFFICES ASSUME NEW n \in 1 .. 15, NEW k \in 1 .. 15, General[n] = General[k]
                 PROVE  n = k
      OBVIOUS
    <2>1. 19 - n \in 1 .. 25 /\ 19 - k \in 1 .. 25 /\ Fields[19 - n] = Fields[19 - k]
      BY FieldOrder
    <2>2. 19 - n = 19 - k
      BY <2>1, FieldOrder
    <2> QED
      BY <2>2
  <1> QED
    BY <1>1, <1>2, <1>3

LEMMA PushedOrder ==
  /\ Len(Pushed) = 18
  /\ \A n \in 1 .. 15 : Pushed[n] = General[n]
  /\ \A n \in 1 .. 18 : Pushed[n] \in Names
  <1>1. General \in Seq(Names) /\ <<"cr3", "cr2", "ds">> \in Seq(Names)
    <2>1. \A n \in 1 .. 15 : General[n] \in Names
      BY GeneralOrder
    <2>2. General \in [1 .. 15 -> Names]
      BY <2>1, GeneralOrder DEF General
    <2>3. "cr3" \in Names /\ "cr2" \in Names /\ "ds" \in Names
      BY DEF Names
    <2> PICK S : S = Names
      OBVIOUS
    <2>4. <<"cr3", "cr2", "ds">> \in Seq(S)
      BY <2>3
    <2>5. General \in Seq(S)
      BY <2>2, SeqDef
    <2> QED
      BY <2>4, <2>5
  <1> PICK t : t = <<"cr3", "cr2", "ds">>
    OBVIOUS
  <1>2. /\ Pushed \in Seq(Names) /\ Len(Pushed) = 18
        /\ \A n \in 1 .. 15 : Pushed[n] = General[n]
    <2>1. Pushed = General \o t /\ Len(t) = 3 /\ t \in Seq(Names)
      BY <1>1 DEF Pushed
    <2> PICK g : g = General
      OBVIOUS
    <2>2. /\ g \o t \in Seq(Names)
          /\ Len(g \o t) = Len(g) + Len(t)
          /\ \A i \in 1 .. Len(g) + Len(t) :
               (g \o t)[i] = IF i <= Len(g) THEN g[i] ELSE t[i - Len(g)]
      BY <1>1, <2>1, ConcatProperties
    <2>3. Len(g) = 15
      BY GeneralOrder
    <2>4. Pushed = g \o t
      BY <2>1
    <2> QED
      BY <2>1, <2>2, <2>3, <2>4
  <1>3. \A n \in 1 .. 18 : Pushed[n] \in Names
    BY <1>2, ElementOfSeq
  <1> QED
    BY <1>2, <1>3

LEMMA FieldAt ==
  ASSUME NEW n \in 1 .. 25
  PROVE  Field(Fields[n]) = words[Len(words) + 1 - n]
  <1> DEFINE k == CHOOSE i \in 1 .. Len(Fields) : Fields[i] = Fields[n]
  <1>1. k = n
    BY FieldOrder
  <1> HIDE DEF k
  <1> QED
    BY <1>1 DEF Field, k

LEMMA PoppedAt ==
  ASSUME NEW n \in 1 .. 15
  PROVE  (CHOOSE k \in 1 .. Len(Popped) : Popped[k] = General[n]) = 16 - n
  <1>1. \A k \in 1 .. 15 : Popped[k] = General[n] => k = 16 - n
    <2> SUFFICES ASSUME NEW k \in 1 .. 15, Popped[k] = General[n]
                 PROVE  k = 16 - n
      OBVIOUS
    <2>1. 16 - k \in 1 .. 15 /\ 16 - (16 - k) = k
      OBVIOUS
    <2>2. General[16 - k] = General[n]
      BY <2>1, GeneralOrder
    <2> QED
      BY <2>1, <2>2, GeneralOrder
  <1>2. 16 - n \in 1 .. Len(Popped) /\ Popped[16 - n] = General[n]
    BY GeneralOrder
  <1> QED
    BY <1>1, <1>2, GeneralOrder

LEMMA InGeneral ==
  /\ \A r \in Range(General) : r \in Names /\ \E n \in 1 .. 15 : r = General[n]
  /\ \A n \in 1 .. 15 : General[n] \in Range(General)
  BY GeneralOrder DEF Range

-----------------------------------------------------------------------------
(* What each step does to the stack.                                       *)
LEMMA Concat ==
  ASSUME NEW S, NEW s \in Seq(S), NEW t \in Seq(S)
  PROVE  /\ s \o t \in Seq(S)
         /\ Len(s) \in Nat /\ Len(t) \in Nat
         /\ Len(s \o t) = Len(s) + Len(t)
         /\ \A i \in 1 .. Len(s) : (s \o t)[i] = s[i]
         /\ \A i \in Len(s) + 1 .. Len(s) + Len(t) : (s \o t)[i] = t[i - Len(s)]
  <1>1. /\ s \o t \in Seq(S)
        /\ Len(s \o t) = Len(s) + Len(t)
        /\ \A i \in 1 .. Len(s) + Len(t) :
             (s \o t)[i] = IF i <= Len(s) THEN s[i] ELSE t[i - Len(s)]
    BY ConcatProperties
  <1>2. Len(s) \in Nat /\ Len(t) \in Nat
    BY LenProperties
  <1> QED
    BY <1>1, <1>2

LEMMA WordFacts ==
  ASSUME NEW e \in Nat
  PROVE  /\ CpuFrame(e) \in Seq(Word) /\ Len(CpuFrame(e)) = 5
         /\ << <<"err", e>> >> \in Seq(Word) /\ << <<"vector", e>> >> \in Seq(Word)
         /\ <<>> \in Seq(Word)
  <1>1. /\ <<"ss", e>> \in Word /\ <<"rsp", e>> \in Word /\ <<"rflags", e>> \in Word
        /\ <<"cs", e>> \in Word /\ <<"rip", e>> \in Word
        /\ <<"err", e>> \in Word /\ <<"vector", e>> \in Word
    BY DEF Word, Names
  <1> QED
    BY <1>1 DEF CpuFrame

(* A sequence of words in three parts. *)
Joined(y, s, t, u) ==
  /\ y \in Seq(Word) /\ Len(y) = Len(s) + Len(t) + Len(u)
  /\ \A i \in 1 .. Len(s) : y[i] = s[i]
  /\ \A i \in 1 .. Len(t) : y[Len(s) + i] = t[i]
  /\ \A i \in 1 .. Len(u) : y[Len(s) + Len(t) + i] = u[i]

LEMMA Concats ==
  ASSUME NEW s \in Seq(Word), NEW t \in Seq(Word), NEW u \in Seq(Word)
  PROVE  Joined(s \o t \o u, s, t, u)
  <1> PICK S : S = Word
    OBVIOUS
  <1> PICK a : a = Len(s)
    OBVIOUS
  <1> PICK b : b = Len(t)
    OBVIOUS
  <1> PICK c : c = Len(u)
    OBVIOUS
  <1>1. /\ s \o t \in Seq(S)
        /\ a \in Nat /\ b \in Nat /\ c \in Nat
        /\ Len(s \o t) = a + b
        /\ \A i \in 1 .. a : (s \o t)[i] = s[i]
        /\ \A i \in a + 1 .. a + b : (s \o t)[i] = t[i - a]
    BY Concat
  <1>2. /\ s \o t \o u \in Seq(S)
        /\ Len(s \o t \o u) = a + b + c
        /\ \A i \in 1 .. a + b : (s \o t \o u)[i] = (s \o t)[i]
        /\ \A i \in a + b + 1 .. a + b + c : (s \o t \o u)[i] = u[i - (a + b)]
    BY <1>1, Concat
  <1>3. \A i \in 1 .. a : (s \o t \o u)[i] = s[i]
    BY <1>1, <1>2
  <1>4. ASSUME NEW i \in 1 .. b
        PROVE  (s \o t \o u)[a + i] = t[i]
    <2> PICK k : k = a + i
      OBVIOUS
    <2>1. k \in 1 .. a + b /\ k \in a + 1 .. a + b /\ k - a = i
      BY <1>1
    <2>2. (s \o t \o u)[k] = (s \o t)[k] /\ (s \o t)[k] = t[k - a]
      BY <1>1, <1>2, <2>1
    <2>3. (s \o t \o u)[k] = t[i]
      BY <2>1, <2>2
    <2> QED
      BY <2>3
  <1>5. ASSUME NEW i \in 1 .. c
        PROVE  (s \o t \o u)[a + b + i] = u[i]
    <2> PICK k : k = a + b + i
      OBVIOUS
    <2>1. k \in a + b + 1 .. a + b + c /\ k - (a + b) = i
      BY <1>1
    <2>2. (s \o t \o u)[k] = u[k - (a + b)]
      BY <1>2, <2>1
    <2>3. (s \o t \o u)[k] = u[i]
      BY <2>1, <2>2
    <2> QED
      BY <2>3
  <1> QED
    BY <1>2, <1>3, <1>4, <1>5 DEF Joined

(* The CPU pushes its frame, and the error code where it pushes one.       *)
Framed(y, s, b, n, v) ==
  /\ y \in Seq(Word)
  /\ Len(y) = b + (IF v \in PushesError THEN 6 ELSE 5)
  /\ \A i \in 1 .. b : y[i] = s[i]
  /\ y[b + 1] = <<"ss", n>> /\ y[b + 2] = <<"rsp", n>> /\ y[b + 3] = <<"rflags", n>>
  /\ y[b + 4] = <<"cs", n>> /\ y[b + 5] = <<"rip", n>>
  /\ v \in PushesError => y[b + 6] = <<"err", v>>

LEMMA CpuPushes ==
  ASSUME NEW s \in Seq(Word), NEW n \in Nat, NEW v \in Nat
  PROVE  Framed(s \o CpuFrame(n) \o ErrorWord(v), s, Len(s), n, v)
  <1>1. CpuFrame(n) \in Seq(Word) /\ Len(CpuFrame(n)) = 5
    BY WordFacts
  <1>2. ErrorWord(v) \in Seq(Word) /\ Len(ErrorWord(v)) = (IF v \in PushesError THEN 1 ELSE 0)
    <2>1. CASE v \in PushesError
      <3>1. ErrorWord(v) = << <<"err", v>> >> /\ ErrorWord(v) \in Seq(Word)
        BY <2>1, WordFacts DEF ErrorWord
      <3> QED
        BY <2>1, <3>1
    <2>2. CASE v \notin PushesError
      BY <2>2, EmptySeq DEF ErrorWord
    <2> QED
      BY <2>1, <2>2
  <1>3. Joined(s \o CpuFrame(n) \o ErrorWord(v), s, CpuFrame(n), ErrorWord(v))
    BY <1>1, <1>2, Concats, Zenon
  <1> PICK t : t = CpuFrame(n)
    OBVIOUS
  <1> PICK u : u = ErrorWord(v)
    OBVIOUS
  <1> PICK y : y = s \o CpuFrame(n) \o ErrorWord(v)
    OBVIOUS
  <1> PICK b : b = Len(s)
    OBVIOUS
  <1> PICK c : c = IF v \in PushesError THEN 1 ELSE 0
    OBVIOUS
  <1>4. /\ y \in Seq(Word) /\ Len(y) = b + 5 + c /\ b \in Nat
        /\ \A i \in 1 .. b : y[i] = s[i]
        /\ \A i \in 1 .. 5 : y[b + i] = t[i]
        /\ \A i \in 1 .. c : y[b + 5 + i] = u[i]
    <2>1. Joined(y, s, t, u) /\ Len(s) = b /\ Len(t) = 5 /\ Len(u) = c
      BY <1>1, <1>2, <1>3
    <2>2. b \in Nat
      BY LenProperties
    <2> QED
      BY <2>1, <2>2 DEF Joined
  <1>5. /\ y[b + 1] = t[1] /\ y[b + 2] = t[2] /\ y[b + 3] = t[3] /\ y[b + 4] = t[4]
        /\ y[b + 5] = t[5]
    <2>1. 1 \in 1 .. 5 /\ 2 \in 1 .. 5 /\ 3 \in 1 .. 5 /\ 4 \in 1 .. 5 /\ 5 \in 1 .. 5
      OBVIOUS
    <2> QED
      BY <1>4, <2>1, Zenon
  <1>6. /\ t[1] = <<"ss", n>> /\ t[2] = <<"rsp", n>> /\ t[3] = <<"rflags", n>>
        /\ t[4] = <<"cs", n>> /\ t[5] = <<"rip", n>>
    BY DEF CpuFrame
  <1>7. ASSUME v \in PushesError
        PROVE  y[b + 6] = <<"err", v>>
    <2>1. 1 \in 1 .. c /\ u[1] = <<"err", v>> /\ b + 5 + 1 = b + 6
      BY <1>4, <1>7 DEF ErrorWord
    <2>2. y[b + 5 + 1] = u[1]
      BY <1>4, <2>1, Zenon
    <2> QED
      BY <2>1, <2>2
  <1>8. Len(y) = b + (IF v \in PushesError THEN 6 ELSE 5)
    BY <1>4
  <1>9. Framed(y, s, b, n, v)
    BY <1>4, <1>5, <1>6, <1>7, <1>8 DEF Framed
  <1> QED
    BY <1>9

(* A frame below the top of the stack stays what it is.                    *)
LEMMA FrameStays ==
  ASSUME NEW k \in Nat, k > 0, WholeFrame(k), arrived'[k] = arrived[k],
         \A i \in 1 .. 25 * k : words'[i] = words[i]
  PROVE  WholeFrame(k)'
  <1>1. \A i \in 1 .. 25 : Before(k) + i \in 1 .. 25 * k
    BY DEF Before
  <1>2. \A i \in 1 .. 25 : words'[Before(k) + i] = words[Before(k) + i]
    BY <1>1
  <1>3. CpuPart(k)'
    BY <1>2 DEF WholeFrame, CpuPart
  <1>4. ErrorPart(k)'
    BY <1>2 DEF WholeFrame, ErrorPart
  <1>5. StubPart(k)'
    <2>1. words'[Before(k) + 7] = <<"vector", arrived'[k].vector>>
      BY <1>2 DEF WholeFrame, StubPart
    <2>2. ASSUME NEW n \in 1 .. 15
          PROVE  words'[Before(k) + 7 + n] = arrived'[k].regs[General[n]]
      <3>1. 7 + n \in 1 .. 25 /\ Before(k) + 7 + n = Before(k) + (7 + n)
        BY DEF Before
      <3> QED
        BY <1>2, <3>1 DEF WholeFrame, StubPart
    <2> QED
      BY <2>1, <2>2 DEF StubPart
  <1> QED
    BY <1>3, <1>4, <1>5 DEF WholeFrame

(* Steps of the C code leave the stack alone.                              *)
LEMMA SameStack ==
  ASSUME IdtInv, UNCHANGED <<words, arrived>>, pc # "stub", pc' # "stub"
  PROVE  StackInv'
  <1>1. \A k \in 1 .. level : WholeFrame(k)'
    BY DEF IdtInv, StackInv, WholeFrame, CpuPart, ErrorPart, StubPart
  <1> QED
    BY <1>1 DEF IdtInv, StackInv, level

LEMMA LevelFacts ==
  ASSUME Types
  PROVE  /\ level \in Nat /\ level = Len(arrived) /\ Len(words) \in Nat
         /\ \A k \in 1 .. level : arrived[k] \in Arrival
  BY LenProperties, ElementOfSeq DEF Types, level

LEMMA InterruptedKeepsInv ==
  ASSUME IdtInv, NEW v \in 0 .. 255, v \notin {21, 29}, Interrupted(v), level > 0 => v < 32,
         pc \in {"run", "decide", "invoke", "backtrace", "leave"},
         UNCHANGED <<regs, irq_handlers>>, enabled' = FALSE
  PROVE  IdtInv'
  <1> USE DEF IdtInv
  <1> DEFINE w == IF v \in Gates THEN v ELSE 13
  <1> PICK vec : vec = w
    OBVIOUS
  <1> PICK n : n = level
    OBVIOUS
  <1> PICK a : a = [vector |-> vec, depth |-> Len(words), regs |-> regs, enabled |-> enabled,
                    pc |-> pc]
    OBVIOUS
  <1>1. vec \in 0 .. 255 /\ vec \notin {21, 29} /\ (n > 0 => vec < 32)
    OBVIOUS
  <1>2. words' = words \o CpuFrame(n) \o ErrorWord(vec)
        /\ arrived' = Append(arrived, a) /\ pc' = "stub"
    BY DEF Interrupted, ErrorWord
  <1> HIDE DEF w
  <1>3. /\ n \in Nat /\ n = Len(arrived) /\ Len(words) = 25 * n
        /\ words \in Seq(Word) /\ arrived \in Seq(Arrival)
    BY LevelFacts DEF StackInv, Types
  <1>4. a \in Arrival /\ a.vector = vec /\ a.depth = 25 * n /\ a.regs = regs
        /\ a.enabled = enabled /\ a.pc = pc
    BY <1>1, <1>3 DEF Arrival, Types
  <1>5. /\ arrived' \in Seq(Arrival) /\ Len(arrived') = n + 1 /\ arrived'[n + 1] = a
        /\ \A k \in 1 .. n : arrived'[k] = arrived[k]
    BY <1>2, <1>3, <1>4, AppendProperties
  <1> PICK b : b = 25 * n
    OBVIOUS
  <1>6. /\ words' \in Seq(Word)
        /\ Len(words') = b + (IF vec \in PushesError THEN 6 ELSE 5)
        /\ \A i \in 1 .. b : words'[i] = words[i]
        /\ words'[b + 1] = <<"ss", n>> /\ words'[b + 2] = <<"rsp", n>>
        /\ words'[b + 3] = <<"rflags", n>> /\ words'[b + 4] = <<"cs", n>>
        /\ words'[b + 5] = <<"rip", n>>
        /\ vec \in PushesError => words'[b + 6] = <<"err", vec>>
    <2>1. b \in Nat /\ Len(words) = b /\ vec \in Nat
      BY <1>1, <1>3
    <2>2. Framed(words \o CpuFrame(n) \o ErrorWord(vec), words, Len(words), n, vec)
      BY <1>3, <2>1, CpuPushes, Zenon
    <2>3. Framed(words', words, b, n, vec)
      BY <1>2, <2>1, <2>2
    <2> QED
      BY <2>3 DEF Framed
  <1>7. level' = n + 1 /\ Before(n + 1) = b /\ b \in Nat
    BY <1>3, <1>5 DEF level, Before
  <1>8. Types'
    BY <1>2, <1>5, <1>6 DEF Types
  <1>9. StackInv'
    <2>1. \A k \in 1 .. n + 1 : arrived'[k].depth = Before(k) /\ arrived'[k].vector \notin {21, 29}
      <3>1. \A k \in 1 .. n : arrived'[k].depth = Before(k) /\ arrived'[k].vector \notin {21, 29}
        BY <1>5 DEF StackInv
      <3>2. \A k \in 1 .. n + 1 : k \in 1 .. n \/ k = n + 1
        BY <1>3
      <3> QED
        BY <1>1, <1>4, <1>5, <1>7, <3>1, <3>2
    <2>2. CpuPart(n + 1)'
      <3>1. n + 1 - 1 = n
        BY <1>3
      <3>2. /\ words'[Before(n + 1) + 1] = <<"ss", n>> /\ words'[Before(n + 1) + 2] = <<"rsp", n>>
            /\ words'[Before(n + 1) + 3] = <<"rflags", n>> /\ words'[Before(n + 1) + 4] = <<"cs", n>>
            /\ words'[Before(n + 1) + 5] = <<"rip", n>>
        BY <1>6, <1>7
      <3> PICK k : k = n + 1
        OBVIOUS
      <3>3. CpuPart(k)'
        BY <1>3, <3>1, <3>2 DEF CpuPart, Before
      <3> QED
        BY <3>3
    <2>3. vec \in PushesError => ErrorPart(n + 1)'
      BY <1>4, <1>5, <1>6, <1>7 DEF ErrorPart, ErrorOf
    <2>4. ASSUME NEW k \in 1 .. n
          PROVE  WholeFrame(k)'
      <3>1. WholeFrame(k) /\ k \in Nat /\ k > 0 /\ 25 * k <= b
        BY <1>3 DEF StackInv
      <3>2. \A i \in 1 .. 25 * k : i \in 1 .. b
        BY <1>7, <3>1
      <3>3. \A i \in 1 .. 25 * k : words'[i] = words[i]
        BY <1>6, <3>2
      <3> QED
        BY <1>5, <3>1, <3>3, FrameStays
    <2>5. \A k \in 1 .. n + 1 : k < n + 1 => k \in 1 .. n
      BY <1>3
    <2>6. level' > 0 /\ regs' = arrived'[level'].regs
      BY <1>3, <1>4, <1>5, <1>7
    <2>7. Len(words') = Before(level') + (IF arrived'[level'].vector \in PushesError THEN 6 ELSE 5)
      <3>1. arrived'[level'].vector = vec /\ Before(level') = b
        BY <1>4, <1>5, <1>7
      <3> QED
        BY <1>6, <3>1
    <2> QED
      BY <1>2, <1>4, <1>5, <1>7, <2>1, <2>2, <2>3, <2>4, <2>5, <2>6, <2>7 DEF StackInv
  <1>10. NestInv'
    <2>1. \A k \in 1 .. n + 1 : k \in 1 .. n \/ k = n + 1
      BY <1>3
    <2>2. \A k \in 1 .. n : /\ arrived'[k].pc = "run" <=> k = 1
                            /\ arrived'[k].enabled => k = 1
                            /\ k > 1 => arrived'[k].vector < 32
      BY <1>5 DEF NestInv
    <2>3. /\ a.pc = "run" <=> n + 1 = 1
          /\ a.enabled => n + 1 = 1
          /\ n + 1 > 1 => a.vector < 32
      BY <1>1, <1>3, <1>4 DEF NestInv
    <2> QED
      BY <1>2, <1>3, <1>5, <1>7, <2>1, <2>2, <2>3 DEF NestInv
  <1>11. CallInv'
    <2>1. \A k \in 1 .. n + 1 : k \in 1 .. n \/ k = n + 1
      BY <1>3
    <2>2. n > 0 => arrived'[1] = arrived[1]
      BY <1>3, <1>5
    <2>3. n > 0 /\ Registered => Registered'
      BY <2>2 DEF Registered
    <2>4. ASSUME NEW k \in 1 .. n, arrived'[k].pc = "invoke"
          PROVE  k = 2 /\ Registered'
      <3>1. arrived[k].pc = "invoke" /\ n > 0
        BY <1>3, <1>5, <2>4
      <3> QED
        BY <2>3, <3>1, Zenon DEF CallInv
    <2>5. a.pc = "invoke" => n + 1 = 2 /\ Registered'
      <3>1. pc = "invoke" => n = 1 /\ Registered
        BY DEF CallInv
      <3>2. a.pc = pc
        BY <1>4
      <3>3. n = 1 => n > 0 /\ n + 1 = 2
        OBVIOUS
      <3> QED
        BY <2>3, <3>1, <3>2, <3>3, Zenon
    <2> QED
      BY <1>2, <1>5, <1>7, <2>1, <2>4, <2>5 DEF CallInv
  <1> QED
    BY <1>8, <1>9, <1>10, <1>11

-----------------------------------------------------------------------------
(* The frame that idt_handler finds.                                       *)
LEMMA FrameFound ==
  ASSUME Types, level > 0, WholeFrame(level), Len(words) = 25 * level
  PROVE  /\ Field("vector") = <<"vector", arrived[level].vector>>
         /\ Field("err") = <<"err", ErrorOf(arrived[level].vector)>>
         /\ Field("rip") = <<"rip", level - 1>> /\ Field("cs") = <<"cs", level - 1>>
         /\ Field("rflags") = <<"rflags", level - 1>> /\ Field("rsp") = <<"rsp", level - 1>>
         /\ Field("ss") = <<"ss", level - 1>>
         /\ \A n \in 1 .. 15 : Field(General[n]) = arrived[level].regs[General[n]]
  <1> PICK k : k = level
    OBVIOUS
  <1>1. k \in Nat /\ k > 0 /\ Len(words) = Before(k) + 25
    BY LevelFacts DEF Before
  <1>2. Before(k) \in Int
    BY <1>1 DEF Before
  <1>3. ASSUME NEW n \in 1 .. 25
        PROVE  Field(Fields[n]) = words[Before(k) + (26 - n)]
    <2>1. Field(Fields[n]) = words[Len(words) + 1 - n]
      BY FieldAt
    <2>2. Len(words) + 1 - n = Before(k) + (26 - n)
      BY <1>1, <1>2
    <2> QED
      BY <2>1, <2>2
  <1>4. /\ 19 \in 1 .. 25 /\ 20 \in 1 .. 25 /\ 21 \in 1 .. 25 /\ 22 \in 1 .. 25
        /\ 23 \in 1 .. 25 /\ 24 \in 1 .. 25 /\ 25 \in 1 .. 25
    OBVIOUS
  <1>5. /\ Field("vector") = words[Before(k) + (26 - 19)]
        /\ Field("err") = words[Before(k) + (26 - 20)]
        /\ Field("rip") = words[Before(k) + (26 - 21)]
        /\ Field("cs") = words[Before(k) + (26 - 22)]
        /\ Field("rflags") = words[Before(k) + (26 - 23)]
        /\ Field("rsp") = words[Before(k) + (26 - 24)]
        /\ Field("ss") = words[Before(k) + (26 - 25)]
    <2>1. /\ Fields[19] = "vector" /\ Fields[20] = "err" /\ Fields[21] = "rip"
          /\ Fields[22] = "cs" /\ Fields[23] = "rflags" /\ Fields[24] = "rsp"
          /\ Fields[25] = "ss"
      BY FieldOrder
    <2>2. Field("vector") = words[Before(k) + (26 - 19)]
      BY <1>3, <1>4, <2>1, Zenon
    <2>3. Field("err") = words[Before(k) + (26 - 20)]
      BY <1>3, <1>4, <2>1, Zenon
    <2>4. Field("rip") = words[Before(k) + (26 - 21)]
      BY <1>3, <1>4, <2>1, Zenon
    <2>5. Field("cs") = words[Before(k) + (26 - 22)]
      BY <1>3, <1>4, <2>1, Zenon
    <2>6. Field("rflags") = words[Before(k) + (26 - 23)]
      BY <1>3, <1>4, <2>1, Zenon
    <2>7. Field("rsp") = words[Before(k) + (26 - 24)]
      BY <1>3, <1>4, <2>1, Zenon
    <2>8. Field("ss") = words[Before(k) + (26 - 25)]
      BY <1>3, <1>4, <2>1, Zenon
    <2> QED
      BY <2>2, <2>3, <2>4, <2>5, <2>6, <2>7, <2>8
  <1>6. /\ 26 - 19 = 7 /\ 26 - 20 = 6 /\ 26 - 21 = 5 /\ 26 - 22 = 4 /\ 26 - 23 = 3
        /\ 26 - 24 = 2 /\ 26 - 25 = 1
    OBVIOUS
  <1>7. /\ Field("vector") = <<"vector", arrived[level].vector>>
        /\ Field("err") = <<"err", ErrorOf(arrived[level].vector)>>
        /\ Field("rip") = <<"rip", level - 1>> /\ Field("cs") = <<"cs", level - 1>>
        /\ Field("rflags") = <<"rflags", level - 1>> /\ Field("rsp") = <<"rsp", level - 1>>
        /\ Field("ss") = <<"ss", level - 1>>
    BY <1>5, <1>6 DEF WholeFrame, CpuPart, ErrorPart, StubPart
  <1>8. ASSUME NEW n \in 1 .. 15
        PROVE  Field(General[n]) = arrived[level].regs[General[n]]
    <2> PICK m : m = 19 - n
      OBVIOUS
    <2>1. m \in 1 .. 25 /\ Before(k) + (26 - m) = Before(k) + 7 + n
      BY <1>2
    <2>2. Fields[m] = General[n]
      BY FieldOrder
    <2>3. Field(Fields[m]) = words[Before(k) + (26 - m)]
      BY <1>3, <2>1
    <2>4. words[Before(k) + 7 + n] = arrived[k].regs[General[n]]
      BY DEF WholeFrame, StubPart
    <2> QED
      BY <2>1, <2>2, <2>3, <2>4
  <1> QED
    BY <1>7, <1>8

(* What pushaq and the words before it hold.                               *)
LEMMA StubPushes ==
  ASSUME Types
  PROVE  LET saved == [n \in 1 .. Len(Pushed) |->
                         IF Pushed[n] \in Range(General) THEN regs[Pushed[n]]
                         ELSE <<Pushed[n], level>>]
         IN /\ saved \in Seq(Word) /\ Len(saved) = 18
            /\ \A n \in 1 .. 15 : saved[n] = regs[General[n]]
  <1> DEFINE saved == [n \in 1 .. Len(Pushed) |->
                         IF Pushed[n] \in Range(General) THEN regs[Pushed[n]]
                         ELSE <<Pushed[n], level>>]
  <1>1. Len(Pushed) = 18
    BY PushedOrder
  <1>2. ASSUME NEW n \in 1 .. 18
        PROVE  saved[n] \in Word
    <2>1. Pushed[n] \in Names /\ level \in Nat
      BY PushedOrder, LevelFacts
    <2>2. Pushed[n] \in Range(General) => regs[Pushed[n]] \in Word
      BY DEF Types, Regs
    <2>3. <<Pushed[n], level>> \in Word
      BY <2>1 DEF Word
    <2> QED
      BY <1>1, <2>2, <2>3
  <1>3. saved = [n \in 1 .. 18 |-> saved[n]]
    BY <1>1
  <1>4. \A n \in 1 .. 15 : saved[n] = regs[General[n]]
    BY <1>1, PushedOrder, InGeneral
  <1> HIDE DEF saved
  <1>5. saved \in [1 .. 18 -> Word]
    BY <1>2, <1>3
  <1>6. saved \in Seq(Word) /\ Len(saved) = 18
    <2> PICK S : S = Word
      OBVIOUS
    <2>1. saved \in [1 .. 18 -> S] /\ 18 \in Nat
      BY <1>5
    <2>2. saved \in Seq(S)
      BY <2>1, SeqDef
    <2> PICK m : m = Len(saved)
      OBVIOUS
    <2>3. m \in Nat /\ 1 .. m = 1 .. 18
      BY <2>1, <2>2, LenProperties
    <2>4. \A i : i \in 1 .. m <=> i \in 1 .. 18
      BY <2>3, Zenon
    <2>5. (18 \in 1 .. m <=> 18 \in 1 .. 18) /\ (m \in 1 .. m <=> m \in 1 .. 18)
      BY <2>4, Zenon
    <2>6. m = 18
      BY <2>3, <2>5
    <2> QED
      BY <2>2, <2>6
  <1>7. saved \in Seq(Word) /\ Len(saved) = 18 /\ \A n \in 1 .. 15 : saved[n] = regs[General[n]]
    BY <1>4, <1>6
  <1> QED
    BY <1>7 DEF saved

Stubbed(y, s, b, x, v, r) ==
  /\ y \in Seq(Word) /\ Len(y) = b + 25
  /\ \A i \in 1 .. b + 5 : y[i] = s[i]
  /\ y[b + 6] = <<"err", x>> /\ y[b + 7] = <<"vector", v>>
  /\ \A n \in 1 .. 15 : y[b + 7 + n] = r[n]

ErrorIn(s, e, b, x) ==
  \/ Len(s) = b + 6 /\ Len(e) = 0 /\ s[b + 6] = <<"err", x>>
  \/ Len(s) = b + 5 /\ Len(e) = 1 /\ e[1] = <<"err", x>>

ErrorAt(y, s, b, x) ==
  /\ y \in Seq(Word) /\ Len(y) = b + 6
  /\ \A i \in 1 .. b + 5 : y[i] = s[i]
  /\ y[b + 6] = <<"err", x>>

LEMMA ErrorPushed ==
  ASSUME NEW s \in Seq(Word), NEW e \in Seq(Word), NEW b \in Nat, NEW x,
         ErrorIn(s, e, b, x)
  PROVE  ErrorAt(s \o e, s, b, x)
  <1> PICK S : S = Word
    OBVIOUS
  <1> PICK l : l = Len(s)
    OBVIOUS
  <1> PICK y : y = s \o e
    OBVIOUS
  <1>1. /\ y \in Seq(S) /\ Len(y) = l + Len(e) /\ l \in Nat /\ Len(e) \in Nat
        /\ \A i \in 1 .. l : y[i] = s[i]
        /\ \A i \in l + 1 .. l + Len(e) : y[i] = e[i - l]
    BY Concat
  <1>2. CASE l = b + 6 /\ Len(e) = 0 /\ s[b + 6] = <<"err", x>>
    <2>1. \A i \in 1 .. b + 6 : y[i] = s[i]
      BY <1>1, <1>2
    <2>2. b + 6 \in 1 .. b + 6 /\ \A i \in 1 .. b + 5 : i \in 1 .. b + 6
      OBVIOUS
    <2>3. y[b + 6] = s[b + 6] /\ \A i \in 1 .. b + 5 : y[i] = s[i]
      BY <2>1, <2>2, Zenon
    <2>4. Len(y) = b + 6
      BY <1>1, <1>2
    <2> QED
      BY <1>1, <1>2, <2>3, <2>4 DEF ErrorAt
  <1>3. CASE l = b + 5 /\ Len(e) = 1 /\ e[1] = <<"err", x>>
    <2> PICK i : i = b + 6
      OBVIOUS
    <2>1. i \in l + 1 .. l + Len(e) /\ i - l = 1
      BY <1>3
    <2>2. y[i] = e[i - l]
      BY <1>1, <2>1
    <2>3. y[b + 6] = e[1]
      BY <2>1, <2>2
    <2>4. Len(y) = b + 6
      BY <1>1, <1>3
    <2>5. \A j \in 1 .. b + 5 : y[j] = s[j]
      BY <1>1, <1>3
    <2> QED
      BY <1>1, <1>3, <2>3, <2>4, <2>5 DEF ErrorAt
  <1>4. \/ l = b + 6 /\ Len(e) = 0 /\ s[b + 6] = <<"err", x>>
        \/ l = b + 5 /\ Len(e) = 1 /\ e[1] = <<"err", x>>
    BY DEF ErrorIn
  <1> QED
    BY <1>2, <1>3, <1>4, Zenon DEF ErrorAt

LEMMA StubbedWords ==
  ASSUME NEW s \in Seq(Word), NEW e \in Seq(Word), NEW r \in Seq(Word), Len(r) = 18,
         NEW b \in Nat, NEW v \in Nat, NEW x, ErrorIn(s, e, b, x)
  PROVE  Stubbed(s \o e \o << <<"vector", v>> >> \o r, s, b, x, v, r)
  <1> PICK t : t = s \o e
    OBVIOUS
  <1>1. /\ t \in Seq(Word) /\ Len(t) = b + 6
        /\ \A i \in 1 .. b + 5 : t[i] = s[i]
        /\ t[b + 6] = <<"err", x>>
    <2>1. ErrorAt(s \o e, s, b, x)
      BY ErrorPushed, Zenon
    <2> QED
      BY <2>1 DEF ErrorAt
  <1> PICK q : q = << <<"vector", v>> >>
    OBVIOUS
  <1>2. q \in Seq(Word) /\ Len(q) = 1 /\ q[1] = <<"vector", v>>
    BY WordFacts
  <1> PICK y : y = s \o e \o << <<"vector", v>> >> \o r
    OBVIOUS
  <1>3. Joined(t \o q \o r, t, q, r)
    BY <1>1, <1>2, Concats, Zenon
  <1>4. Joined(y, t, q, r)
    BY <1>3
  <1>5. /\ y \in Seq(Word) /\ Len(y) = b + 6 + 1 + 18
        /\ \A i \in 1 .. b + 6 : y[i] = t[i]
        /\ \A i \in 1 .. 1 : y[b + 6 + i] = q[i]
        /\ \A i \in 1 .. 18 : y[b + 6 + 1 + i] = r[i]
    BY <1>1, <1>2, <1>4 DEF Joined
  <1>6. y[b + 7] = <<"vector", v>>
    <2>1. 1 \in 1 .. 1 /\ b + 6 + 1 = b + 7
      OBVIOUS
    <2>2. y[b + 6 + 1] = q[1]
      BY <1>5, <2>1, Zenon
    <2> QED
      BY <1>2, <2>1, <2>2
  <1>7. ASSUME NEW n \in 1 .. 15
        PROVE  y[b + 7 + n] = r[n]
    <2>1. n \in 1 .. 18 /\ b + 6 + 1 + n = b + 7 + n
      OBVIOUS
    <2>2. y[b + 6 + 1 + n] = r[n]
      BY <1>5, <2>1, Zenon
    <2> QED
      BY <2>1, <2>2
  <1>8. /\ y[b + 6] = <<"err", x>> /\ \A i \in 1 .. b + 5 : y[i] = s[i]
        /\ Len(y) = b + 25
    <2>1. b + 6 \in 1 .. b + 6 /\ \A i \in 1 .. b + 5 : i \in 1 .. b + 6
      OBVIOUS
    <2>2. y[b + 6] = t[b + 6] /\ \A i \in 1 .. b + 5 : y[i] = t[i]
      BY <1>5, <2>1, Zenon
    <2>3. b + 6 + 1 + 18 = b + 25
      OBVIOUS
    <2>4. Len(y) = b + 25
      BY <1>5, <2>3, Zenon
    <2>5. \A i \in 1 .. b + 5 : y[i] = s[i]
      BY <1>1, <2>2
    <2> QED
      BY <1>1, <2>2, <2>4, <2>5
  <1>9. Stubbed(y, s, b, x, v, r)
    BY <1>5, <1>6, <1>7, <1>8 DEF Stubbed
  <1> QED
    BY <1>9

(* The words that a stub pushes complete the frame.                        *)
LEMMA StubStacks ==
  ASSUME Types, StackInv, Stub
  PROVE  Stubbed(words', words, Before(level), ErrorOf(arrived[level].vector),
                 arrived[level].vector, [n \in 1 .. 15 |-> regs[General[n]]])
  <1> DEFINE e == IF arrived[level].vector \in StubsWithError THEN <<>> ELSE << <<"err", 0>> >>
             saved == [n \in 1 .. Len(Pushed) |->
                         IF Pushed[n] \in Range(General) THEN regs[Pushed[n]]
                         ELSE <<Pushed[n], level>>]
  <1> PICK k : k = level
    OBVIOUS
  <1> PICK v : v = arrived[k].vector
    OBVIOUS
  <1> PICK b : b = Before(k)
    OBVIOUS
  <1> PICK x : x = ErrorOf(v)
    OBVIOUS
  <1>1. words' = words \o e \o << <<"vector", v>> >> \o saved /\ pc = "stub"
    BY DEF Stub, Saved
  <1>2. saved \in Seq(Word) /\ Len(saved) = 18 /\ \A n \in 1 .. 15 : saved[n] = regs[General[n]]
    BY StubPushes
  <1>3. k \in Nat /\ k > 0 /\ arrived[k] \in Arrival /\ k \in 1 .. level
    BY <1>1, LevelFacts DEF StackInv
  <1>4. v \in 0 .. 255 /\ v \notin {21, 29} /\ words \in Seq(Word)
    BY <1>3 DEF StackInv, Arrival, Types
  <1>5. v \in StubsWithError <=> v \in PushesError
    BY <1>4 DEF StubsWithError, PushesError
  <1>8. e \in Seq(Word) /\ ErrorIn(words, e, b, x)
    <2>1. CASE v \in PushesError
      <3>1. e = <<>>
        BY <1>5, <2>1
      <3>2. e \in Seq(Word) /\ Len(e) = 0
        BY <3>1
      <3>3. Len(words) = b + 6 /\ words[b + 6] = <<"err", x>>
        BY <1>1, <2>1 DEF StackInv, ErrorPart
      <3> QED
        BY <3>2, <3>3, Zenon DEF ErrorIn
    <2>2. CASE v \notin PushesError
      <3>1. e = << <<"err", 0>> >> /\ x = 0
        BY <1>5, <2>2 DEF ErrorOf
      <3>2. e \in Seq(Word) /\ Len(e) = 1 /\ e[1] = <<"err", x>>
        BY <3>1, WordFacts
      <3>3. Len(words) = b + 5
        BY <1>1, <2>2 DEF StackInv
      <3> QED
        BY <3>2, <3>3, Zenon DEF ErrorIn
    <2> QED
      BY <2>1, <2>2
  <1> HIDE DEF e, saved
  <1>9. b \in Nat /\ v \in Nat
    <2>1. b \in Nat
      BY <1>3 DEF Before
    <2>2. \A i \in 0 .. 255 : i \in Nat
      OBVIOUS
    <2>3. v \in Nat
      BY <1>4, <2>2, Zenon
    <2> QED
      BY <2>1, <2>3
  <1>10. Stubbed(words \o e \o << <<"vector", v>> >> \o saved, words, b, x, v, saved)
    BY <1>2, <1>4, <1>8, <1>9, StubbedWords, Zenon
  <1>11. Stubbed(words', words, b, x, v, saved)
    BY <1>1, <1>10
  <1> QED
    BY <1>2, <1>11 DEF Stubbed

LEMMA StubKeepsInv ==
  ASSUME IdtInv, Stub
  PROVE  IdtInv'
  <1> USE DEF IdtInv
  <1> PICK k : k = level
    OBVIOUS
  <1> PICK v : v = arrived[k].vector
    OBVIOUS
  <1> PICK b : b = Before(k)
    OBVIOUS
  <1> PICK r : r = [n \in 1 .. 15 |-> regs[General[n]]]
    OBVIOUS
  <1>1. /\ pc = "stub" /\ pc' = "decide"
        /\ UNCHANGED <<regs, arrived, irq_handlers>>
        /\ enabled' = FALSE
    BY DEF Stub
  <1>2. /\ words' \in Seq(Word) /\ Len(words') = b + 25
        /\ \A i \in 1 .. b + 5 : words'[i] = words[i]
        /\ words'[b + 6] = <<"err", ErrorOf(v)>> /\ words'[b + 7] = <<"vector", v>>
        /\ \A n \in 1 .. 15 : words'[b + 7 + n] = r[n]
    BY StubStacks DEF Stubbed
  <1>3. k \in Nat /\ k > 0 /\ b \in Nat /\ b = 25 * (k - 1) /\ k = Len(arrived)
    <2>1. k \in Nat /\ k = Len(arrived) /\ k > 0
      BY <1>1, LevelFacts DEF StackInv
    <2> QED
      BY <2>1 DEF Before
  <1>4. CpuPart(k) /\ regs = arrived[k].regs
    BY <1>1 DEF StackInv
  <1>10. Types'
    BY <1>1, <1>2 DEF Types
  <1>11. WholeFrame(k)'
    <2>1. CpuPart(k)'
      <3>1. \A i \in 1 .. 5 : b + i \in 1 .. b + 5 
        BY <1>3
      <3>2. \A i \in 1 .. 5 : words'[b + i] = words[b + i]
        BY <1>2, <3>1
      <3>3. /\ words'[b + 1] = words[b + 1] /\ words'[b + 2] = words[b + 2]
            /\ words'[b + 3] = words[b + 3] /\ words'[b + 4] = words[b + 4]
            /\ words'[b + 5] = words[b + 5]
        BY <3>2
      <3> QED
        BY <1>4, <3>3 DEF CpuPart
    <2>2. ErrorPart(k)'
      BY <1>1, <1>2 DEF ErrorPart
    <2>3. StubPart(k)'
      <3>1. \A n \in 1 .. 15 : words'[b + 7 + n] = arrived[k].regs[General[n]]
        BY <1>2, <1>4
      <3> QED
        BY <1>1, <1>2, <3>1 DEF StubPart
    <2> QED
      BY <2>1, <2>2, <2>3 DEF WholeFrame
  <1>12. ASSUME NEW m \in 1 .. k, m < k
         PROVE  WholeFrame(m)'
    <2>1. WholeFrame(m) /\ m \in Nat /\ m > 0 /\ 25 * m <= b
      BY <1>3, <1>12 DEF StackInv
    <2>2. \A i \in 1 .. 25 * m : i \in 1 .. b + 5
      BY <1>3, <2>1
    <2>3. \A i \in 1 .. 25 * m : words'[i] = words[i]
      BY <1>2, <2>2
    <2>4. arrived'[m] = arrived[m]
      BY <1>1
    <2> QED
      BY <2>1, <2>3, <2>4, FrameStays
  <1>13. StackInv'
    <2>1. level' = k /\ Len(words') = 25 * k
      BY <1>1, <1>2, <1>3 DEF level
    <2>2. \A m \in 1 .. k : m = k \/ m < k
      BY <1>3
    <2>3. \A m \in 1 .. k : WholeFrame(m)'
      BY <1>11, <1>12, <2>2
    <2> QED
      BY <1>1, <2>1, <2>3 DEF StackInv
  <1>14. NestInv' /\ CallInv'
    BY <1>1, <1>3 DEF NestInv, CallInv, Registered, level
  <1> QED
    BY <1>10, <1>13, <1>14

-----------------------------------------------------------------------------
(* The vector that the C code reads is that of the interrupt.              *)
LEMMA VectorFound ==
  ASSUME Types, StackInv, NestInv, pc \in {"decide", "invoke", "backtrace"}
  PROVE  /\ level \in Nat /\ level > 0 /\ arrived[level] \in Arrival
         /\ Len(words) = 25 * level /\ WholeFrame(level)
         /\ Field("vector")[2] = arrived[level].vector
         /\ arrived[level].vector \in 0 .. 255
         /\ level > 1 => arrived[level].vector < 32
  <1>1. level \in Nat /\ level > 0
    BY LevelFacts DEF NestInv
  <1>2. level \in 1 .. level
    BY <1>1
  <1>3. arrived[level] \in Arrival
    BY <1>2, LevelFacts
  <1>4. Len(words) = 25 * level /\ WholeFrame(level)
    BY <1>2 DEF StackInv
  <1>5. Field("vector") = <<"vector", arrived[level].vector>>
    BY <1>1, <1>4, FrameFound
  <1>6. Field("vector")[2] = arrived[level].vector
    BY <1>5
  <1>7. arrived[level].vector \in 0 .. 255
    BY <1>3 DEF Arrival
  <1>8. level > 1 => arrived[level].vector < 32
    BY <1>2 DEF NestInv
  <1> QED
    BY <1>1, <1>3, <1>4, <1>6, <1>7, <1>8

LEMMA IrqsAreOfMain ==
  ASSUME NEW v \in 0 .. 255, v - IRQ_BASE \in Irqs
  PROVE  v >= 32
  BY DEF Irqs, IRQ_BASE, IRQ_COUNT

LEMMA DecideKeepsInv ==
  ASSUME IdtInv, Decide
  PROVE  IdtInv'
  <1> USE DEF IdtInv
  <1>1. /\ pc = "decide" /\ regs' = Clobbered
        /\ UNCHANGED <<words, enabled, arrived, irq_handlers>>
        /\ pc' \in {"backtrace", "invoke", "leave"}
        /\ pc' = "invoke" => irq \in Irqs /\ irq_handlers[irq] # NULL
    BY DEF Decide
  <1>2. /\ level \in Nat /\ level > 0
        /\ Field("vector")[2] = arrived[level].vector
        /\ arrived[level].vector \in 0 .. 255
        /\ level > 1 => arrived[level].vector < 32
    BY <1>1, VectorFound
  <1>3. regs' \in Regs
    <2>1. ASSUME NEW r \in Range(General)
          PROVE  Clobbered[r] \in Word
      <3>1. regs[r] \in Word
        BY DEF Types, Regs
      <3>2. r \in Names
        BY InGeneral
      <3>3. <<r, level>> \in Word
        BY <1>2, <3>2 DEF Word
      <3> QED
        BY <3>1, <3>3 DEF Clobbered
    <2>2. Clobbered = [r \in Range(General) |-> Clobbered[r]]
      BY DEF Clobbered
    <2> QED
      BY <1>1, <2>1, <2>2 DEF Regs
  <1>4. Types'
    BY <1>1, <1>3 DEF Types
  <1>5. StackInv'
    <2>1. pc # "stub" /\ pc' # "stub" /\ UNCHANGED <<words, arrived>>
      BY <1>1
    <2> QED
      BY <2>1, SameStack
  <1>6. NestInv'
    <2>1. level' = level /\ pc' # "run"
      BY <1>1 DEF level
    <2> QED
      BY <1>1, <1>2, <2>1 DEF NestInv
  <1>7. CallInv'
    <2>1. level' = level /\ (Registered => Registered')
      BY <1>1 DEF level, Registered
    <2>2. pc' = "invoke" => level = 1 /\ Registered
      <3> HAVE pc' = "invoke"
      <3>1. irq = arrived[level].vector - IRQ_BASE
        BY <1>2 DEF irq
      <3>2. arrived[level].vector >= 32
        BY <1>1, <1>2, <3>1, IrqsAreOfMain
      <3>3. level = 1
        BY <1>2, <3>2
      <3> QED
        BY <1>1, <3>1, <3>3 DEF Registered
    <2>3. \A k \in 1 .. level : arrived'[k].pc = "invoke" => k = 2 /\ Registered'
      BY <1>1, <2>1 DEF CallInv
    <2> QED
      BY <2>1, <2>2, <2>3 DEF CallInv
  <1> QED
    BY <1>4, <1>5, <1>6, <1>7

LEMMA BacktraceKeepsInv ==
  ASSUME IdtInv, NextFrame \/ BacktraceEnds
  PROVE  IdtInv'
  <1> USE DEF IdtInv
  <1>1. /\ pc = "backtrace" /\ pc' \in {"backtrace", "halted"}
        /\ UNCHANGED <<words, regs, enabled, arrived, irq_handlers>>
    BY DEF NextFrame, BacktraceEnds
  <1>2. Types'
    BY <1>1 DEF Types
  <1>3. StackInv'
    <2>1. pc # "stub" /\ pc' # "stub" /\ UNCHANGED <<words, arrived>>
      BY <1>1
    <2> QED
      BY <2>1, SameStack
  <1>4. NestInv' /\ CallInv'
    BY <1>1 DEF NestInv, CallInv, Registered, level
  <1> QED
    BY <1>2, <1>3, <1>4

(* idt_handler finds in the table, the second time, what it found before.  *)
LEMMA InvokeFindsIt ==
  ASSUME IdtInv, pc = "invoke"
  PROVE  level = 1 /\ irq_handlers[irq] # NULL
  <1>1. level = 1 /\ Registered
    BY DEF IdtInv, CallInv
  <1>2. Field("vector")[2] = arrived[level].vector
    BY VectorFound DEF IdtInv
  <1> QED
    BY <1>1, <1>2 DEF irq, Registered

LEMMA InvokeKeepsInv ==
  ASSUME IdtInv, Invoke
  PROVE  IdtInv'
  <1> USE DEF IdtInv
  <1>1. level = 1 /\ irq_handlers[irq] # NULL
    BY InvokeFindsIt DEF Invoke
  <1>2. /\ pc = "invoke" /\ pc' = "leave"
        /\ UNCHANGED <<words, regs, enabled, arrived>>
        /\ \E h \in Handlers \cup {NULL}, n \in Irqs :
             irq_handlers' = [irq_handlers EXCEPT ![n] = h]
    BY <1>1 DEF Invoke
  <1>3. Types'
    BY <1>2 DEF Types
  <1>4. StackInv'
    <2>1. pc # "stub" /\ pc' # "stub" /\ UNCHANGED <<words, arrived>>
      BY <1>2
    <2> QED
      BY <2>1, SameStack
  <1>5. NestInv'
    BY <1>1, <1>2 DEF NestInv, level
  <1>6. CallInv'
    <2>1. level' = 1
      BY <1>1, <1>2 DEF level
    <2>2. \A k \in 1 .. 1 : arrived'[k].pc # "invoke"
      BY <1>1, <1>2 DEF CallInv
    <2> QED
      BY <1>2, <2>1, <2>2 DEF CallInv
  <1> QED
    BY <1>3, <1>4, <1>5, <1>6

LEMMA RegisterKeepsInv ==
  ASSUME IdtInv, NEW n \in Irqs, NEW h \in Handlers \cup {NULL}, Register(n, h)
  PROVE  IdtInv'
  <1> USE DEF IdtInv
  <1>1. /\ pc = "run" /\ UNCHANGED <<words, regs, enabled, pc, arrived>>
        /\ irq_handlers' = [irq_handlers EXCEPT ![n] = h]
    BY DEF Register
  <1>2. level = 0
    BY <1>1 DEF NestInv
  <1>3. Types'
    BY <1>1 DEF Types
  <1>4. StackInv'
    <2>1. pc # "stub" /\ pc' # "stub" /\ UNCHANGED <<words, arrived>>
      BY <1>1
    <2> QED
      BY <2>1, SameStack
  <1>5. NestInv' /\ CallInv'
    BY <1>1, <1>2 DEF NestInv, CallInv, level
  <1> QED
    BY <1>3, <1>4, <1>5

LEMMA DeliverKeepsInv ==
  ASSUME Vectors \cap {21, 29} = {}, IdtInv, NEW v \in Vectors, Deliver(v)
  PROVE  IdtInv'
  <1>1. v \in 0 .. 255 /\ v \notin {21, 29}
    BY VectorsAssumption
  <1>2. /\ Interrupted(v) /\ pc \in {"run", "decide", "invoke", "backtrace", "leave"}
        /\ UNCHANGED <<regs, irq_handlers>> /\ enabled' = FALSE
        /\ v \in 32 .. 255 => enabled
    BY DEF Deliver, Interrupted
  <1>3. level > 0 => v < 32
    <2>1. enabled => level = 0
      BY DEF IdtInv, NestInv
    <2>2. level \in Nat
      BY LevelFacts DEF IdtInv
    <2> QED
      BY <1>1, <1>2, <2>1, <2>2
  <1> QED
    BY <1>1, <1>2, <1>3, InterruptedKeepsInv

LEMMA FaultKeepsInv ==
  ASSUME IdtInv, BacktraceFaults
  PROVE  IdtInv'
  <1>1. /\ Interrupted(14) /\ pc = "backtrace"
        /\ UNCHANGED <<regs, irq_handlers>> /\ enabled' = FALSE
    BY DEF BacktraceFaults, Interrupted
  <1>2. 14 \in 0 .. 255 /\ 14 \notin {21, 29} /\ 14 < 32
    OBVIOUS
  <1> QED
    BY <1>1, <1>2, InterruptedKeepsInv

-----------------------------------------------------------------------------
(* What popaq and iretq find is what the CPU and pushaq left.              *)
LEMMA LeaveRestores ==
  ASSUME IdtInv, Leave
  PROVE  /\ level \in Nat /\ level > 0 /\ arrived[level] \in Arrival /\ Len(words) = 25 * level
         /\ regs' = arrived[level].regs
         /\ pc' = arrived[level].pc
         /\ words' = SubSeq(words, 1, Before(level))
         /\ enabled' = arrived[level].enabled
         /\ arrived' = SubSeq(arrived, 1, level - 1)
         /\ irq_handlers' = irq_handlers
  <1> USE DEF IdtInv
  <1> PICK k : k = level
    OBVIOUS
  <1> PICK b : b = Before(k)
    OBVIOUS
  <1>1. /\ k \in Nat /\ k > 0 /\ arrived[k] \in Arrival /\ Len(words) = 25 * k /\ WholeFrame(k)
        /\ k \in 1 .. level
    <2>1. pc = "leave"
      BY DEF Leave
    <2>2. k \in Nat /\ k > 0
      BY <2>1, LevelFacts DEF NestInv
    <2>3. k \in 1 .. level
      BY <2>2
    <2> QED
      BY <2>1, <2>2, <2>3, LevelFacts DEF StackInv
  <1>2. b \in Nat /\ Len(words) = b + 25
    BY <1>1 DEF Before
  <1>3. Len(Popped) = 15
    BY GeneralOrder
  <1> PICK g : g = Len(words) - 3
    OBVIOUS
  <1> PICK c : c = g - Len(Popped) - 2
    OBVIOUS
  <1>4. g = b + 22 /\ c = b + 5 /\ c - 5 = b
    BY <1>2, <1>3
  <1>5. /\ regs' = [r \in Range(General) |->
                      words[g + 1 - (CHOOSE n \in 1 .. Len(Popped) : Popped[n] = r)]]
        /\ words' = SubSeq(words, 1, c - 5)
        /\ pc' = IF words[c] = <<"rip", level - 1>> THEN arrived[level].pc ELSE "wild"
        /\ enabled' = arrived[level].enabled
        /\ arrived' = SubSeq(arrived, 1, level - 1)
        /\ irq_handlers' = irq_handlers
    BY DEF Leave
  <1>6. regs' = arrived[k].regs
    <2>1. arrived[k].regs \in Regs
      BY <1>1 DEF Arrival
    <2>2. ASSUME NEW r \in Range(General)
          PROVE  words[g + 1 - (CHOOSE n \in 1 .. Len(Popped) : Popped[n] = r)]
                   = arrived[k].regs[r]
      <3>1. PICK n \in 1 .. 15 : r = General[n]
        BY InGeneral
      <3>2. (CHOOSE m \in 1 .. Len(Popped) : Popped[m] = r) = 16 - n
        BY <3>1, PoppedAt
      <3>3. g + 1 - (16 - n) = b + 7 + n
        BY <1>2, <1>4
      <3>4. words[b + 7 + n] = arrived[k].regs[General[n]]
        BY <1>1 DEF WholeFrame, StubPart
      <3> QED
        BY <3>1, <3>2, <3>3, <3>4
    <2>3. arrived[k].regs = [r \in Range(General) |-> arrived[k].regs[r]]
      BY <2>1 DEF Regs
    <2> QED
      BY <1>5, <2>2, <2>3
  <1>7. pc' = arrived[k].pc
    <2>1. words[b + 5] = <<"rip", k - 1>>
      BY <1>1 DEF WholeFrame, CpuPart
    <2> QED
      BY <1>4, <1>5, <2>1
  <1>8. words' = SubSeq(words, 1, b)
    BY <1>4, <1>5
  <1> QED
    BY <1>1, <1>5, <1>6, <1>7, <1>8

LEMMA Cut ==
  ASSUME NEW S, NEW s \in Seq(S), NEW n \in Nat, n <= Len(s)
  PROVE  /\ SubSeq(s, 1, n) \in Seq(S) /\ Len(SubSeq(s, 1, n)) = n
         /\ \A i \in 1 .. n : SubSeq(s, 1, n)[i] = s[i]
  <1>1. Len(s) \in Nat /\ \A i \in 1 .. Len(s) : s[i] \in S
    BY LenProperties, ElementOfSeq
  <1>2. \A i \in 1 .. n : s[i] \in S
    BY <1>1
  <1>3. SubSeq(s, 1, n) = [i \in 1 .. n |-> s[i]]
    BY <1>1
  <1>4. SubSeq(s, 1, n) \in Seq(S)
    BY <1>2, <1>3, SeqDef
  <1> QED
    BY <1>3, <1>4

LEMMA LeaveKeepsInv ==
  ASSUME IdtInv, Leave
  PROVE  IdtInv'
  <1> USE DEF IdtInv
  <1> PICK k : k = level
    OBVIOUS
  <1> PICK n : n = k - 1
    OBVIOUS
  <1> PICK a : a = arrived[k]
    OBVIOUS
  <1>1. /\ k \in Nat /\ k > 0 /\ a \in Arrival /\ Len(words) = 25 * k
        /\ regs' = a.regs /\ pc' = a.pc /\ enabled' = a.enabled
        /\ words' = SubSeq(words, 1, Before(k))
        /\ arrived' = SubSeq(arrived, 1, n)
        /\ irq_handlers' = irq_handlers
    BY LeaveRestores
  <1>2. n \in Nat /\ Before(k) = 25 * n /\ k = n + 1 /\ 25 * n \in Nat
    BY <1>1 DEF Before
  <1>3. /\ regs' \in Regs /\ enabled' \in BOOLEAN
        /\ pc' \in {"run", "decide", "invoke", "backtrace", "leave"}
    BY <1>1 DEF Arrival
  <1>4. words \in Seq(Word) /\ arrived \in Seq(Arrival) /\ k = Len(arrived)
    BY DEF Types, level
  <1>5. /\ words' \in Seq(Word) /\ Len(words') = 25 * n
        /\ \A i \in 1 .. 25 * n : words'[i] = words[i]
    <2>1. 25 * n <= Len(words)
      BY <1>1, <1>2
    <2> QED
      BY <1>1, <1>2, <1>4, <2>1, Cut
  <1>6. /\ arrived' \in Seq(Arrival) /\ Len(arrived') = n
        /\ \A i \in 1 .. n : arrived'[i] = arrived[i]
    <2>1. n <= Len(arrived)
      BY <1>2, <1>4
    <2> QED
      BY <1>1, <1>2, <1>4, <2>1, Cut
  <1>7. level' = n
    BY <1>6 DEF level
  <1>8. k \in 1 .. level /\ \A m \in 1 .. n : m \in 1 .. level /\ m < level
    BY <1>1, <1>2
  <1>9. Types'
    BY <1>1, <1>3, <1>5, <1>6 DEF Types
  <1>10. StackInv'
    <2>1. ASSUME NEW m \in 1 .. n
          PROVE  WholeFrame(m)'
      <3>1. WholeFrame(m) /\ m \in Nat /\ m > 0
        BY <1>8 DEF StackInv
      <3>2. \A i \in 1 .. 25 * m : i \in 1 .. 25 * n
        BY <1>2, <3>1
      <3>3. \A i \in 1 .. 25 * m : words'[i] = words[i]
        BY <1>5, <3>2
      <3>4. arrived'[m] = arrived[m]
        BY <1>6
      <3> QED
        BY <3>1, <3>3, <3>4, FrameStays
    <2>2. \A m \in 1 .. n : arrived'[m].depth = Before(m) /\ arrived'[m].vector \notin {21, 29}
      BY <1>6, <1>8 DEF StackInv
    <2>3. pc' # "stub"
      BY <1>3
    <2> QED
      BY <1>5, <1>7, <2>1, <2>2, <2>3 DEF StackInv
  <1>11. NestInv'
    <2>1. /\ a.pc = "run" <=> k = 1
          /\ a.enabled => k = 1
      BY <1>8 DEF NestInv
    <2>2. k = 1 <=> n = 0
      BY <1>2
    <2>3. \A m \in 1 .. n : /\ arrived'[m].pc = "run" <=> m = 1
                            /\ arrived'[m].enabled => m = 1
                            /\ m > 1 => arrived'[m].vector < 32
      BY <1>6, <1>8 DEF NestInv
    <2> QED
      BY <1>1, <1>7, <2>1, <2>2, <2>3 DEF NestInv
  <1>12. CallInv'
    <2>1. n > 0 => arrived'[1] = arrived[1]
      BY <1>2, <1>6
    <2>2. n > 0 /\ Registered => Registered'
      BY <1>1, <2>1 DEF Registered
    <2>3. a.pc = "invoke" => k = 2 /\ Registered
      BY <1>8 DEF CallInv
    <2>4. k = 2 => n = 1 /\ n > 0
      BY <1>2
    <2>5. pc' = "invoke" => level' = 1 /\ Registered'
      BY <1>1, <1>7, <2>2, <2>3, <2>4, Zenon
    <2>6. ASSUME NEW m \in 1 .. n, arrived'[m].pc = "invoke"
          PROVE  m = 2 /\ Registered'
      <3>1. m = 2 /\ Registered
        BY <1>6, <1>8, <2>6 DEF CallInv
      <3>2. n > 0
        BY <1>2, <2>6
      <3> QED
        BY <2>2, <3>1, <3>2, Zenon
    <2> QED
      BY <1>7, <2>5, <2>6 DEF CallInv
  <1> QED
    BY <1>9, <1>10, <1>11, <1>12

-----------------------------------------------------------------------------
(* The kernel begins with an empty stack and an empty table.               *)
LEMMA InitIdtInv ==
  ASSUME Init
  PROVE  IdtInv
  <1>1. regs \in Regs
    <2>1. \A r \in Range(General) : <<r, 0>> \in Word
      BY InGeneral DEF Word
    <2> QED
      BY <2>1 DEF Init, Registers, Regs
  <1>2. level = 0 /\ words = <<>> /\ arrived = <<>> /\ pc = "run" /\ Len(words) = 0
    BY DEF Init, level
  <1>3. Types
    <2>1. words \in Seq(Word) /\ arrived \in Seq(Arrival)
      BY <1>2
    <2>2. irq_handlers \in [Irqs -> Handlers \cup {NULL}]
      BY DEF Init
    <2> QED
      BY <1>1, <2>1, <2>2 DEF Init, Types
  <1>4. StackInv /\ NestInv /\ CallInv
    BY <1>2 DEF StackInv, NestInv, CallInv
  <1> QED
    BY <1>3, <1>4 DEF IdtInv

(* Printing, and doing nothing. *)
LEMMA SameIdtInv ==
  ASSUME IdtInv, UNCHANGED <<words, regs, enabled, pc, arrived, irq_handlers>>
  PROVE  IdtInv'
  BY DEF IdtInv, Types, StackInv, NestInv, CallInv, WholeFrame, CpuPart, ErrorPart,
         StubPart, Registered, level

LEMMA NextIdtInv ==
  ASSUME Vectors \cap {21, 29} = {}, IdtInv, [Next]_vars
  PROVE  IdtInv'
  <1>1. CASE \E v \in Vectors : Deliver(v)
    BY <1>1, DeliverKeepsInv
  <1>2. CASE Stub
    BY <1>2, StubKeepsInv
  <1>3. CASE Decide
    BY <1>3, DecideKeepsInv
  <1>4. CASE Invoke
    BY <1>4, InvokeKeepsInv
  <1>5. CASE Leave
    BY <1>5, LeaveKeepsInv
  <1>6. CASE NextFrame \/ BacktraceEnds
    BY <1>6, BacktraceKeepsInv
  <1>7. CASE BacktraceFaults
    BY <1>7, FaultKeepsInv
  <1>8. CASE \E n \in Irqs, h \in Handlers \cup {NULL} : Register(n, h)
    BY <1>8, RegisterKeepsInv
  <1>9. CASE TakeLock \/ DropLock \/ UNCHANGED vars
    <2>1. UNCHANGED <<words, regs, enabled, pc, arrived, irq_handlers>>
      BY <1>9 DEF TakeLock, DropLock, vars
    <2> QED
      BY <2>1, SameIdtInv
  <1> QED
    BY <1>1, <1>2, <1>3, <1>4, <1>5, <1>6, <1>7, <1>8, <1>9 DEF Next, Advance

LEMMA IdtInvHolds ==
  ASSUME Vectors \cap {21, 29} = {}
  PROVE  Spec => []IdtInv
  <1>1. Init => IdtInv
    BY InitIdtInv
  <1>2. IdtInv /\ [Next]_vars => IdtInv'
    BY NextIdtInv
  <1> QED
    BY <1>1, <1>2, PTL DEF Spec

(* However deeply interrupts are nested, what idt_handler reads from its   *)
(* int_frame_t is the vector, the error code and the registers and place   *)
(* of the code interrupted, if the two exceptions whose stubs of idt.asm   *)
(* push a second word for the error code do not occur.                     *)
THEOREM IdtFrameIsTrue ==
  ASSUME Vectors \cap {21, 29} = {}
  PROVE  Spec => []FrameIsTrue
  <1>1. IdtInv => FrameIsTrue
    <2> SUFFICES ASSUME IdtInv, pc = "decide"
                 PROVE  FrameIsTrue
      BY DEF FrameIsTrue
    <2>1. level > 0 /\ Len(words) = 25 * level /\ WholeFrame(level) /\ Types
      BY VectorFound DEF IdtInv
    <2>2. /\ Field("vector") = <<"vector", arrived[level].vector>>
          /\ Field("err") = <<"err", ErrorOf(arrived[level].vector)>>
          /\ Field("rip") = <<"rip", level - 1>> /\ Field("cs") = <<"cs", level - 1>>
          /\ Field("rflags") = <<"rflags", level - 1>> /\ Field("rsp") = <<"rsp", level - 1>>
          /\ Field("ss") = <<"ss", level - 1>>
          /\ \A n \in 1 .. 15 : Field(General[n]) = arrived[level].regs[General[n]]
      BY <2>1, FrameFound
    <2>3. \A f \in {"rip", "cs", "rflags", "rsp", "ss"} : Field(f) = <<f, level - 1>>
      BY <2>2
    <2>4. \A r \in Range(General) : Field(r) = arrived[level].regs[r]
      BY <2>2, InGeneral
    <2> QED
      BY <2>2, <2>3, <2>4 DEF FrameIsTrue, ErrorOf
  <1> QED
    BY <1>1, IdtInvHolds, PTL

(* idt_handler reads irq_handlers twice, to test and to call; handlers may *)
(* register and deregister themselves and others, and exceptions come in   *)
(* between.  It never calls NULL, and iretq never finds a word that is not *)
(* the return address of the code interrupted.                             *)
THEOREM IdtNoWildCall ==
  ASSUME Vectors \cap {21, 29} = {}
  PROVE  Spec => []NoWildCall
  <1>1. IdtInv => NoWildCall
    BY DEF IdtInv, Types, NoWildCall
  <1> QED
    BY <1>1, IdtInvHolds, PTL

(* popaq and iretq give every interrupted code its registers, its stack    *)
(* and its place back, after any number of nested interrupts.              *)
THEOREM IdtContextIsRestored ==
  ASSUME Vectors \cap {21, 29} = {}
  PROVE  Spec => ContextIsRestored
  <1> DEFINE Restored == Len(arrived') < level =>
                           /\ regs' = arrived[level].regs
                           /\ Len(words') = arrived[level].depth
                           /\ pc' = arrived[level].pc
  <1>1. ASSUME IdtInv, [Next]_vars
        PROVE  [Restored]_vars
    <2>1. CASE Leave
      <3>1. /\ level \in Nat /\ level > 0 /\ Len(words) = 25 * level
            /\ regs' = arrived[level].regs /\ pc' = arrived[level].pc
            /\ words' = SubSeq(words, 1, Before(level))
        BY <1>1, <2>1, LeaveRestores
      <3>2. Before(level) \in Nat /\ Before(level) <= Len(words) /\ level \in 1 .. level
        BY <3>1 DEF Before
      <3>3. Len(words') = Before(level)
        BY <1>1, <3>1, <3>2, Cut DEF IdtInv, Types
      <3>4. arrived[level].depth = Before(level)
        BY <1>1, <3>2 DEF IdtInv, StackInv
      <3> QED
        BY <3>1, <3>3, <3>4
    <2>2. CASE UNCHANGED arrived
      <3>1. level \in Nat /\ Len(arrived') = level
        BY <1>1, <2>2, LevelFacts DEF IdtInv, level
      <3>2. ~(Len(arrived') < level)
        BY <3>1
      <3> QED
        BY <3>2
    <2>3. ASSUME NEW v, Interrupted(v)
          PROVE  Restored
      <3>1. \E a : arrived' = Append(arrived, a)
        BY <2>3 DEF Interrupted
      <3>2. arrived \in Seq(Arrival) /\ level = Len(arrived) /\ level \in Nat
        BY <1>1, LevelFacts DEF IdtInv, Types
      <3>3. Len(arrived') = level + 1
        BY <3>1, <3>2
      <3>4. ~(Len(arrived') < level)
        BY <3>2, <3>3
      <3> QED
        BY <3>4
    <2>4. \/ Leave \/ UNCHANGED arrived \/ \E v : Interrupted(v)
      BY <1>1 DEF Next, Advance, Deliver, Stub, TakeLock, DropLock, Decide, Invoke,
                  NextFrame, BacktraceEnds, BacktraceFaults, Register, vars
    <2> QED
      BY <2>1, <2>2, <2>3, <2>4
  <1> HIDE DEF Restored
  <1>2. IdtInv /\ [Next]_vars => [Restored]_vars
    BY <1>1
  <1>3. Spec => [][Restored]_vars
    BY <1>2, IdtInvHolds, PTL DEF Spec
  <1> QED
    BY <1>3 DEF ContextIsRestored, Restored
=============================================================================
