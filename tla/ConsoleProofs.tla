---------------------------- MODULE ConsoleProofs ---------------------------
(***************************************************************************)
(* Proofs about the console, for any number of CPUs, any programs and any  *)
(* number of interrupts on top of them.                                    *)
(***************************************************************************)
EXTENDS Console, SequenceTheorems, TLAPS

FrameType ==
  [fn : {"printf", "puts"}, length : Nat, call : Nat, sent : Nat,
   pc : {"enter", "chars", "com1", "screen", "release"}]

CharType == Cpus \X Nat \X Nat

Types ==
  /\ program \in [Cpus -> Seq([fn : {"printf", "puts"}, length : Nat])]
  /\ printf_lock \in BOOLEAN
  /\ stack \in [Cpus -> Seq(FrameType)]
  /\ done \in [Cpus -> Nat]
  /\ irqs \in [Cpus -> Nat]
  /\ com1 \in Seq(CharType)
  /\ screen \in Seq(CharType)

-----------------------------------------------------------------------------
(* What the operators on a stack of calls do.                              *)

LEMMA TopType ==
  ASSUME Types, NEW c \in Cpus, stack[c] # <<>>
  PROVE  /\ Len(stack[c]) \in Nat \ {0}
         /\ Top(c) = stack[c][Len(stack[c])]
         /\ Top(c) \in FrameType
  BY EmptySeq, ElementOfSeq DEF Types, Top

LEMMA AllButLast ==
  ASSUME NEW S, NEW s \in Seq(S), Len(s) \in Nat \ {0}
  PROVE  /\ SubSeq(s, 1, Len(s) - 1) \in Seq(S)
         /\ Len(SubSeq(s, 1, Len(s) - 1)) = Len(s) - 1
         /\ \A n \in 1 .. Len(s) - 1 : SubSeq(s, 1, Len(s) - 1)[n] = s[n]
  <1> DEFINE m == Len(s) - 1
             t == SubSeq(s, 1, m)
  <1>1. m \in Nat /\ \A n \in 1 .. m : s[n] \in S
    BY ElementOfSeq
  <1> HIDE DEF m
  <1>2. /\ t \in Seq(S)
        /\ Len(t) = IF 1 <= m THEN m - 1 + 1 ELSE 0
        /\ \A n \in 1 .. m - 1 + 1 : t[n] = s[1 + n - 1]
    BY <1>1, SubSeqProperties
  <1> HIDE DEF t
  <1>3. Len(t) = m /\ \A n \in 1 .. m : t[n] = s[n]
    BY <1>1, <1>2
  <1> QED
    BY <1>2, <1>3 DEF t, m

LEMMA UpdateTop ==
  ASSUME Types, NEW c \in Cpus, stack[c] # <<>>, NEW f \in FrameType, Update(c, f)
  PROVE  /\ stack' \in [Cpus -> Seq(FrameType)]
         /\ \A d \in Cpus : Len(stack'[d]) = Len(stack[d])
         /\ \A d \in Cpus : \A n \in 1 .. Len(stack[d]) :
              stack'[d][n] = IF d = c /\ n = Len(stack[c]) THEN f ELSE stack[d][n]
  <1> DEFINE s == stack[c]
             t == SubSeq(s, 1, Len(s) - 1)
  <1>1. s \in Seq(FrameType) /\ Len(s) \in Nat \ {0}
    BY TopType DEF Types
  <1>2. /\ t \in Seq(FrameType)
        /\ Len(t) = Len(s) - 1
        /\ \A n \in 1 .. Len(s) - 1 : t[n] = s[n]
    BY <1>1, AllButLast
  <1>3. stack' = [stack EXCEPT ![c] = Append(t, f)]
    BY DEF Update
  <1> HIDE DEF s, t
  <1>4. /\ Append(t, f) \in Seq(FrameType)
        /\ Len(Append(t, f)) = Len(s)
        /\ \A n \in 1 .. Len(s) : Append(t, f)[n] = IF n = Len(s) THEN f ELSE s[n]
    BY <1>1, <1>2
  <1> QED
    BY <1>3, <1>4 DEF Types, s

LEMMA PushOne ==
  ASSUME Types, NEW c \in Cpus, NEW f \in FrameType, Push(c, f)
  PROVE  /\ stack' \in [Cpus -> Seq(FrameType)]
         /\ \A d \in Cpus : Len(stack'[d]) = Len(stack[d]) + (IF d = c THEN 1 ELSE 0)
         /\ \A d \in Cpus : \A n \in 1 .. Len(stack'[d]) :
              stack'[d][n] = IF d = c /\ n = Len(stack[c]) + 1 THEN f ELSE stack[d][n]
  <1> DEFINE s == stack[c]
  <1>1. s \in Seq(FrameType) /\ \A d \in Cpus : Len(stack[d]) \in Nat
    BY LenProperties DEF Types
  <1>2. stack' = [stack EXCEPT ![c] = Append(s, f)]
    BY DEF Push
  <1> HIDE DEF s
  <1>3. /\ Append(s, f) \in Seq(FrameType)
        /\ Len(Append(s, f)) = Len(s) + 1
        /\ \A n \in 1 .. Len(s) + 1 : Append(s, f)[n] = IF n = Len(s) + 1 THEN f ELSE s[n]
    BY <1>1
  <1> QED
    BY <1>1, <1>2, <1>3 DEF Types, s

LEMMA PopOne ==
  ASSUME Types, NEW c \in Cpus, stack[c] # <<>>, Pop(c)
  PROVE  /\ stack' \in [Cpus -> Seq(FrameType)]
         /\ \A d \in Cpus : Len(stack'[d]) = Len(stack[d]) - (IF d = c THEN 1 ELSE 0)
         /\ \A d \in Cpus : \A n \in 1 .. Len(stack'[d]) : stack'[d][n] = stack[d][n]
  <1> DEFINE s == stack[c]
             t == SubSeq(s, 1, Len(s) - 1)
  <1>1. s \in Seq(FrameType) /\ Len(s) \in Nat \ {0} /\ \A d \in Cpus : Len(stack[d]) \in Nat
    BY TopType, LenProperties DEF Types
  <1>2. /\ t \in Seq(FrameType)
        /\ Len(t) = Len(s) - 1
        /\ \A n \in 1 .. Len(s) - 1 : t[n] = s[n]
    BY <1>1, AllButLast
  <1>3. stack' = [stack EXCEPT ![c] = t]
    BY DEF Pop
  <1> HIDE DEF s, t
  <1>4. /\ stack' \in [Cpus -> Seq(FrameType)]
        /\ stack'[c] = t
        /\ \A d \in Cpus \ {c} : stack'[d] = stack[d]
    BY <1>2, <1>3 DEF Types
  <1>5. Len(stack'[c]) = Len(s) - 1 /\ \A n \in 1 .. Len(stack'[c]) : stack'[c][n] = s[n]
    BY <1>2, <1>4
  <1> QED
    BY <1>1, <1>4, <1>5 DEF s

-----------------------------------------------------------------------------
(* The inductive invariant.                                                *)

Depths(c) == 1 .. Len(stack[c])

(* The lock is what it should be: taken as long as a call holds it, and    *)
(* held by one call, of whatever CPU, at a time.  A puts comes no further  *)
(* than to the lock that it holds itself.                                  *)
LockInv ==
  /\ \A c \in Cpus : \A n \in Depths(c) : Holds(stack[c][n]) => printf_lock
  /\ \A c, d \in Cpus : \A n \in Depths(c), m \in Depths(d) :
       Holds(stack[c][n]) /\ Holds(stack[d][m]) => c = d /\ n = m
  /\ \A c \in Cpus : \A n \in Depths(c) :
       stack[c][n].fn = "puts" => stack[c][n].pc \in {"enter", "chars"}

(* The screen is behind by the character of the call that is about to      *)
(* write it.                                                               *)
SinkInv ==
  /\ \A c \in Cpus : \A n \in Depths(c) :
       stack[c][n].pc = "screen" =>
         com1 = Append(screen, <<c, stack[c][n].call, stack[c][n].sent + 1>>)
  /\ com1 = screen \/ \E c \in Cpus : \E n \in Depths(c) : stack[c][n].pc = "screen"

(* Calls of the program are outermost, handlers on top of at most one.     *)
CallInv ==
  \A c \in Cpus :
    /\ Len(stack[c]) <= 2
    /\ done[c] <= Len(program[c])
    /\ \A n \in Depths(c) :
         /\ stack[c][n].call # 0 => n = 1 /\ done[c] < Len(program[c])
         /\ stack[c][n].sent <= ToSend(stack[c][n])
         /\ stack[c][n].pc \in {"com1", "screen", "release"} => More(stack[c][n])

ConsoleInv == Types /\ LockInv /\ SinkInv /\ CallInv

(* What a step makes of the call on top: itself, with another pc, and with *)
(* one character more behind it at the end of putchar.                     *)
Advanced(f, pc, sent) == [f EXCEPT !.pc = pc, !.sent = sent]

LEMMA AdvancedType ==
  ASSUME NEW f \in FrameType, NEW sent \in Nat,
         NEW pc \in {"enter", "chars", "com1", "screen", "release"}
  PROVE  /\ Advanced(f, pc, sent) \in FrameType
         /\ Advanced(f, pc, sent).pc = pc
         /\ Advanced(f, pc, sent).sent = sent
         /\ Advanced(f, pc, sent).fn = f.fn
         /\ Advanced(f, pc, sent).call = f.call
         /\ Advanced(f, pc, sent).length = f.length
         /\ ToSend(Advanced(f, pc, sent)) = ToSend(f)
  BY DEF Advanced, FrameType, ToSend

LEMMA ToSendType ==
  ASSUME NEW f \in FrameType
  PROVE  ToSend(f) \in Nat
  BY DEF ToSend, FrameType

(* The frames after a step within the call on top of the stack of c.       *)
Moved(c, pc, sent) ==
  /\ stack' \in [Cpus -> Seq(FrameType)]
  /\ \A d \in Cpus : Len(stack'[d]) = Len(stack[d])
  /\ \A d \in Cpus : \A n \in 1 .. Len(stack[d]) :
       ~(d = c /\ n = Len(stack[c])) => stack'[d][n] = stack[d][n]
  /\ LET g == stack'[c][Len(stack[c])]
     IN /\ g.pc = pc /\ g.sent = sent /\ g.call = Top(c).call /\ g.fn = Top(c).fn
        /\ ToSend(g) = ToSend(Top(c))

LEMMA AdvanceKeepsCallInv ==
  ASSUME ConsoleInv, NEW c \in Cpus, stack[c] # <<>>,
         NEW pc \in {"enter", "chars", "com1", "screen", "release"}, NEW sent \in Nat,
         Update(c, Advanced(Top(c), pc, sent)),
         sent <= ToSend(Top(c)),
         pc \in {"com1", "screen", "release"} => sent < ToSend(Top(c)),
         UNCHANGED <<done, program>>
  PROVE  CallInv' /\ Moved(c, pc, sent)
  <1> DEFINE g == Advanced(Top(c), pc, sent)
  <1>1. Top(c) \in FrameType /\ Top(c) = stack[c][Len(stack[c])] /\ Len(stack[c]) \in Nat \ {0}
    BY TopType DEF ConsoleInv
  <1>2. /\ g \in FrameType /\ g.call = Top(c).call /\ g.sent = sent /\ g.pc = pc
        /\ g.fn = Top(c).fn
        /\ ToSend(g) = ToSend(Top(c))
    <2>1. g \in FrameType
      BY <1>1, AdvancedType
    <2>2. g.call = Top(c).call /\ g.sent = sent /\ g.pc = pc /\ g.fn = Top(c).fn
      BY <1>1 DEF Advanced, FrameType
    <2>3. ToSend(g) = ToSend(Top(c))
      BY <1>1 DEF Advanced, FrameType, ToSend
    <2> QED
      BY <2>1, <2>2, <2>3
  <1> HIDE DEF g
  <1>3. /\ stack' \in [Cpus -> Seq(FrameType)]
        /\ \A d \in Cpus : Len(stack'[d]) = Len(stack[d])
        /\ \A d \in Cpus : \A n \in 1 .. Len(stack[d]) :
             stack'[d][n] = IF d = c /\ n = Len(stack[c]) THEN g ELSE stack[d][n]
    BY <1>2, UpdateTop DEF g, ConsoleInv
  <1>4. CallInv'
    BY <1>1, <1>2, <1>3 DEF ConsoleInv, CallInv, Depths, More
  <1>5. Moved(c, pc, sent)
    BY <1>1, <1>2, <1>3 DEF Moved
  <1> QED
    BY <1>4, <1>5

(* Goto and the step of Release advance the call.                          *)
LEMMA GotoAdvances ==
  ASSUME NEW f \in FrameType,
         NEW pc \in {"enter", "chars", "com1", "screen", "release"}
  PROVE  /\ [f EXCEPT !.pc = pc] = Advanced(f, pc, f.sent)
         /\ [f EXCEPT !.pc = pc, !.sent = @ + 1] = Advanced(f, pc, f.sent + 1)
         /\ f.sent \in Nat
  BY DEF Advanced, FrameType

(* A step that stays within the call on top, by its new pc.                *)
LEMMA GotoMoves ==
  ASSUME ConsoleInv, NEW c \in Cpus, stack[c] # <<>>,
         NEW pc \in {"enter", "chars", "com1", "screen", "release"},
         Goto(c, pc),
         pc \in {"com1", "screen", "release"} => More(Top(c)),
         UNCHANGED <<done, program>>
  PROVE  CallInv' /\ Moved(c, pc, Top(c).sent)
  <1>1. Top(c) \in FrameType /\ Top(c) = stack[c][Len(stack[c])] /\ Len(stack[c]) \in Nat \ {0}
    BY TopType DEF ConsoleInv
  <1>2. Update(c, Advanced(Top(c), pc, Top(c).sent)) /\ Top(c).sent \in Nat
    BY <1>1, GotoAdvances DEF Goto
  <1>3. Top(c).sent <= ToSend(Top(c))
    BY <1>1 DEF ConsoleInv, CallInv, Depths
  <1>4. pc \in {"com1", "screen", "release"} => Top(c).sent < ToSend(Top(c))
    BY DEF More
  <1> QED
    BY <1>2, <1>3, <1>4, AdvanceKeepsCallInv

(* Taking the lock. *)
LEMMA AcquireKeepsInv ==
  ASSUME ConsoleInv, NEW c \in Cpus, EnterPuts(c) \/ Acquire(c)
  PROVE  ConsoleInv'
  <1>1. /\ stack[c] # <<>>
        /\ Top(c) \in FrameType /\ Top(c) = stack[c][Len(stack[c])] /\ Len(stack[c]) \in Nat \ {0}
    BY TopType DEF ConsoleInv, EnterPuts, Acquire, At
  <1>2. /\ ~printf_lock /\ printf_lock' = TRUE
        /\ UNCHANGED <<program, done, irqs, com1, screen>>
    BY DEF EnterPuts, Acquire
  <1>3. PICK pc \in {"chars", "com1"} :
          /\ Goto(c, pc)
          /\ pc = "com1" => More(Top(c)) /\ Top(c).pc = "chars"
    BY DEF EnterPuts, Acquire, At
  <1>4. CallInv' /\ Moved(c, pc, Top(c).sent)
    BY <1>1, <1>2, <1>3, GotoMoves
  <1>5. \A d \in Cpus : \A n \in Depths(d) : ~Holds(stack[d][n])
    BY <1>2 DEF ConsoleInv, LockInv
  <1>6. pc = "com1" => Top(c).fn # "puts"
    BY <1>1, <1>3, <1>5 DEF Depths, Holds
  <1>7. LockInv'
    <2>1. \A d \in Cpus : Depths(d)' = Depths(d)
      BY <1>4 DEF Moved, Depths
    <2>2. \A d \in Cpus : \A n \in Depths(d) :
            ~(d = c /\ n = Len(stack[c])) => stack'[d][n] = stack[d][n]
      BY <1>4 DEF Moved, Depths
    <2>3. \A d \in Cpus : \A n \in Depths(d) :
            Holds(stack'[d][n]) => d = c /\ n = Len(stack[c])
      BY <1>5, <2>2
    <2>4. /\ stack'[c][Len(stack[c])].pc = pc
          /\ stack'[c][Len(stack[c])].fn = Top(c).fn
      BY <1>4 DEF Moved
    <2>5. \A d \in Cpus : \A n \in Depths(d) :
            stack[d][n].fn = "puts" => stack[d][n].pc \in {"enter", "chars"}
      BY DEF ConsoleInv, LockInv
    <2>6. \A d \in Cpus : \A n \in Depths(d) :
            stack'[d][n].fn = "puts" => stack'[d][n].pc \in {"enter", "chars"}
      BY <1>3, <1>6, <2>2, <2>4, <2>5
    <2> QED
      BY <1>2, <2>1, <2>3, <2>6 DEF LockInv
  <1>8. SinkInv'
    BY <1>1, <1>2, <1>3, <1>4, <1>5 DEF Moved, ConsoleInv, SinkInv, Depths, Holds
  <1> QED
    BY <1>2, <1>4, <1>7, <1>8 DEF ConsoleInv, Types, Moved

(* The two writes. *)
LEMMA WritesKeepInv ==
  ASSUME ConsoleInv, NEW c \in Cpus, WriteCom1(c) \/ WriteScreen(c)
  PROVE  ConsoleInv'
  <1> DEFINE top == Len(stack[c])
  <1>1. /\ stack[c] # <<>>
        /\ Top(c) \in FrameType /\ Top(c) = stack[c][top] /\ top \in Nat \ {0}
    BY TopType DEF ConsoleInv, WriteCom1, WriteScreen, At
  <1>2. UNCHANGED <<program, printf_lock, done, irqs>>
    BY DEF WriteCom1, WriteScreen
  <1>3. top \in Depths(c) /\ Top(c).pc \in {"com1", "screen"} /\ Holds(stack[c][top])
    BY <1>1 DEF WriteCom1, WriteScreen, At, Depths, Holds
  <1>4. More(Top(c)) /\ Top(c).fn # "puts"
    BY <1>1, <1>3 DEF ConsoleInv, CallInv, LockInv
  <1>5. \A d \in Cpus : \A n \in Depths(d) : Holds(stack[d][n]) => d = c /\ n = top
    BY <1>3 DEF ConsoleInv, LockInv
  <1>6. \A d \in Cpus : \A n \in Depths(d) : stack[d][n].pc = "screen" => d = c /\ n = top
    BY <1>5 DEF Holds
  <1>7. Char(c) \in CharType /\ Char(c) = <<c, Top(c).call, Top(c).sent + 1>>
    BY <1>1 DEF Char, CharType, FrameType
  <1>8. CASE WriteCom1(c)
    <2>1. CallInv' /\ Moved(c, "screen", Top(c).sent)
      BY <1>1, <1>2, <1>4, <1>8, GotoMoves DEF WriteCom1
    <2>2. com1 = screen
      BY <1>1, <1>6, <1>8 DEF ConsoleInv, SinkInv, WriteCom1, At
    <2>3. com1' = Append(screen, <<c, Top(c).call, Top(c).sent + 1>>) /\ screen' = screen
          /\ com1' \in Seq(CharType)
      BY <1>7, <1>8, <2>2 DEF WriteCom1, ConsoleInv, Types
    <2>4. LockInv'
      <3>1. \A d \in Cpus : \A n \in Depths(d)' :
              n \in Depths(d) /\ (~(d = c /\ n = top) => stack'[d][n] = stack[d][n])
        BY <2>1 DEF Moved, Depths
      <3>2. stack'[c][top].pc = "screen" /\ stack'[c][top].fn # "puts"
        BY <1>4, <2>1 DEF Moved
      <3>3. \A d \in Cpus : \A n \in Depths(d)' : Holds(stack'[d][n]) => d = c /\ n = top
        BY <1>5, <3>1
      <3>4. printf_lock' = TRUE
        BY <1>2, <1>3 DEF ConsoleInv, LockInv, Types
      <3>5. \A d \in Cpus : \A n \in Depths(d)' :
              stack'[d][n].fn = "puts" => stack'[d][n].pc \in {"enter", "chars"}
        BY <3>1, <3>2 DEF ConsoleInv, LockInv
      <3> QED
        BY <3>3, <3>4, <3>5 DEF LockInv, Holds
    <2>5. SinkInv'
      <3>1. /\ top \in Depths(c)'
            /\ stack'[c][top].pc = "screen"
            /\ stack'[c][top].call = Top(c).call /\ stack'[c][top].sent = Top(c).sent
        BY <1>1, <2>1 DEF Moved, Depths
      <3>2. \A d \in Cpus : \A n \in Depths(d)' :
              stack'[d][n].pc = "screen" => d = c /\ n = top
        BY <1>1, <1>6, <2>1 DEF Moved, Depths
      <3> HIDE DEF top
      <3> QED
        BY <2>3, <3>1, <3>2 DEF SinkInv
    <2> QED
      BY <1>2, <2>1, <2>3, <2>4, <2>5 DEF ConsoleInv, Types, Moved
  <1>9. CASE WriteScreen(c)
    <2>1. CallInv' /\ Moved(c, "release", Top(c).sent)
      BY <1>1, <1>2, <1>4, <1>9, GotoMoves DEF WriteScreen
    <2>2. com1 = Append(screen, <<c, Top(c).call, Top(c).sent + 1>>)
      BY <1>1, <1>3, <1>9 DEF ConsoleInv, SinkInv, WriteScreen, At
    <2>3. com1' = com1 /\ screen' = com1
      BY <1>7, <1>9, <2>2 DEF WriteScreen
    <2>4. LockInv'
      <3>1. \A d \in Cpus : \A n \in Depths(d)' :
              n \in Depths(d) /\ (~(d = c /\ n = top) => stack'[d][n] = stack[d][n])
        BY <2>1 DEF Moved, Depths
      <3>2. stack'[c][top].pc = "release" /\ stack'[c][top].fn # "puts"
        BY <1>4, <2>1 DEF Moved
      <3>3. \A d \in Cpus : \A n \in Depths(d)' : Holds(stack'[d][n]) => d = c /\ n = top
        BY <1>5, <3>1
      <3>4. printf_lock' = TRUE
        BY <1>2, <1>3 DEF ConsoleInv, LockInv, Types
      <3>5. \A d \in Cpus : \A n \in Depths(d)' :
              stack'[d][n].fn = "puts" => stack'[d][n].pc \in {"enter", "chars"}
        BY <3>1, <3>2 DEF ConsoleInv, LockInv
      <3> QED
        BY <3>3, <3>4, <3>5 DEF LockInv, Holds
    <2>5. SinkInv'
      BY <1>1, <1>6, <2>1, <2>3 DEF Moved, SinkInv, Depths
    <2> QED
      BY <1>2, <2>1, <2>3, <2>4, <2>5 DEF ConsoleInv, Types, Moved
  <1> QED
    BY <1>8, <1>9

(* Giving the lock back at the end of putchar. *)
LEMMA ReleaseKeepsInv ==
  ASSUME ConsoleInv, NEW c \in Cpus, Release(c)
  PROVE  ConsoleInv'
  <1> DEFINE top == Len(stack[c])
  <1>1. /\ stack[c] # <<>>
        /\ Top(c) \in FrameType /\ Top(c) = stack[c][top] /\ top \in Nat \ {0}
    BY TopType DEF ConsoleInv, Release, At
  <1>2. printf_lock' = FALSE /\ UNCHANGED <<program, done, irqs, com1, screen>>
    BY DEF Release
  <1>3. top \in Depths(c) /\ Top(c).pc = "release" /\ Holds(stack[c][top])
    BY <1>1 DEF Release, At, Depths, Holds
  <1>4. More(Top(c)) /\ Top(c).fn # "puts"
    BY <1>1, <1>3 DEF ConsoleInv, CallInv, LockInv
  <1>5. \A d \in Cpus : \A n \in Depths(d) : Holds(stack[d][n]) => d = c /\ n = top
    BY <1>3 DEF ConsoleInv, LockInv
  <1>6. \A d \in Cpus : \A n \in Depths(d) : stack[d][n].pc # "screen"
    BY <1>1, <1>3, <1>5 DEF Holds
  <1>7. CallInv' /\ Moved(c, "chars", Top(c).sent + 1)
    <2>1. Update(c, Advanced(Top(c), "chars", Top(c).sent + 1)) /\ Top(c).sent \in Nat
      BY <1>1, GotoAdvances DEF Release
    <2>2. Top(c).sent + 1 <= ToSend(Top(c))
      BY <1>1, <1>4, <2>1, ToSendType DEF More
    <2>3. Top(c).sent + 1 \in Nat
      BY <2>1
    <2> QED
      BY <1>1, <1>2, <2>1, <2>2, <2>3, AdvanceKeepsCallInv
  <1>8. LockInv'
    <2>1. ASSUME NEW d \in Cpus, NEW n \in Depths(d)'
          PROVE  /\ n \in Depths(d)
                 /\ ~Holds(stack'[d][n])
                 /\ stack'[d][n].fn = "puts" => stack'[d][n].pc \in {"enter", "chars"}
      <3>1. n \in Depths(d)
        BY <1>7 DEF Moved, Depths
      <3>2. CASE d = c /\ n = top
        BY <1>1, <1>4, <1>7, <3>1, <3>2 DEF Moved, Holds
      <3>3. CASE ~(d = c /\ n = top)
        <4>1. stack'[d][n] = stack[d][n]
          BY <1>7, <3>1, <3>3 DEF Moved, Depths
        <4>2. ~Holds(stack[d][n])
          BY <1>5, <3>1, <3>3
        <4>3. stack[d][n].fn = "puts" => stack[d][n].pc \in {"enter", "chars"}
          BY <3>1 DEF ConsoleInv, LockInv
        <4>4. QED
          BY <3>1, <4>1, <4>2, <4>3
      <3> QED
        BY <3>1, <3>2, <3>3
    <2> QED
      BY <2>1 DEF LockInv
  <1>9. SinkInv'
    BY <1>1, <1>2, <1>6, <1>7 DEF Moved, ConsoleInv, SinkInv, Depths
  <1> QED
    BY <1>2, <1>7, <1>8, <1>9 DEF ConsoleInv, Types, Moved

(* The end of a call.  A puts takes its lock along. *)
LEMMA ReturnKeepsInv ==
  ASSUME ConsoleInv, NEW c \in Cpus, Return(c)
  PROVE  ConsoleInv'
  <1> DEFINE top == Len(stack[c])
  <1>1. /\ stack[c] # <<>>
        /\ Top(c) \in FrameType /\ Top(c) = stack[c][top] /\ top \in Nat \ {0}
    BY TopType DEF ConsoleInv, Return, At
  <1>2. UNCHANGED <<program, irqs, com1, screen>>
    BY DEF Return
  <1>3. top \in Depths(c) /\ Top(c).pc = "chars"
    BY <1>1 DEF Return, At, Depths
  <1>4. /\ stack' \in [Cpus -> Seq(FrameType)]
        /\ \A d \in Cpus : Len(stack'[d]) = Len(stack[d]) - (IF d = c THEN 1 ELSE 0)
        /\ \A d \in Cpus : \A n \in 1 .. Len(stack'[d]) : stack'[d][n] = stack[d][n]
    BY <1>1, PopOne DEF ConsoleInv, Return
  <1>5. \A d \in Cpus : Len(stack[d]) \in Nat
    BY LenProperties DEF ConsoleInv, Types
  <1>6. \A d \in Cpus : \A n \in Depths(d)' :
          n \in Depths(d) /\ ~(d = c /\ n = top) /\ stack'[d][n] = stack[d][n]
    BY <1>1, <1>4, <1>5 DEF Depths
  <1>7. \A d \in Cpus : \A n \in Depths(d) : ~(d = c /\ n = top) => n \in Depths(d)'
    BY <1>1, <1>4, <1>5 DEF Depths
  <1>8. LockInv'
    <2>1. CASE Top(c).fn = "puts"
      <3>1. printf_lock' = FALSE
        BY <2>1 DEF Return, ConsoleInv, Types
      <3>2. \A d \in Cpus : \A n \in Depths(d) : Holds(stack[d][n]) => d = c /\ n = top
        BY <1>1, <1>3, <2>1 DEF ConsoleInv, LockInv, Holds
      <3> QED
        BY <1>6, <3>2 DEF ConsoleInv, LockInv, Holds
    <2>2. CASE Top(c).fn # "puts"
      <3>1. printf_lock' = printf_lock
        BY <2>2 DEF Return, ConsoleInv, Types
      <3> QED
        BY <1>6, <3>1 DEF ConsoleInv, LockInv, Holds
    <2> QED
      BY <2>1, <2>2
  <1>10. SinkInv'
    <2>1. \A d \in Cpus : \A n \in Depths(d) : stack[d][n].pc = "screen" => n \in Depths(d)'
      BY <1>1, <1>3, <1>7
    <2> QED
      BY <1>2, <1>6, <2>1 DEF ConsoleInv, SinkInv
  <1>11. /\ done' \in [Cpus -> Nat]
         /\ CallInv'
    <2>1. \A d \in Cpus : done[d] \in Nat /\ Len(program[d]) \in Nat
      BY LenProperties DEF ConsoleInv, Types
    <2>2. /\ done' \in [Cpus -> Nat]
          /\ \A d \in Cpus \ {c} : done'[d] = done[d]
          /\ done'[c] <= Len(program[c])
          /\ top # 1 => done'[c] = done[c]
      <3>1. CASE Top(c).call = 0
        BY <2>1, <3>1 DEF Return, ConsoleInv, CallInv, Types
      <3>2. CASE Top(c).call # 0
        <4>1. top = 1 /\ done[c] < Len(program[c])
          BY <1>1, <1>3, <3>2 DEF ConsoleInv, CallInv
        <4>2. done' = [done EXCEPT ![c] = @ + 1]
          BY <3>2 DEF Return
        <4> QED
          BY <2>1, <4>1, <4>2 DEF ConsoleInv, Types
      <3> QED
        BY <3>1, <3>2
    <2>3. top = 1 => \A n : n \notin Depths(c)'
      <3>1. Len(stack'[c]) = top - 1
        BY <1>4
      <3> QED
        BY <1>1, <3>1 DEF Depths
    <2>4. \A d \in Cpus : Len(stack'[d]) <= Len(stack[d])
      BY <1>4, <1>5
    <2>5. ASSUME NEW d \in Cpus
          PROVE  /\ Len(stack'[d]) <= 2
                 /\ done'[d] <= Len(program[d])
      <3>1. Len(stack[d]) <= 2 /\ done[d] <= Len(program[d])
        BY DEF ConsoleInv, CallInv
      <3>2. Len(stack'[d]) \in Nat
        BY <1>4, LenProperties
      <3> QED
        BY <1>5, <2>2, <2>4, <3>1, <3>2
    <2>6. ASSUME NEW d \in Cpus, NEW n \in Depths(d)'
          PROVE  /\ stack'[d][n].call # 0 => n = 1 /\ done'[d] < Len(program[d])
                 /\ stack'[d][n].sent <= ToSend(stack'[d][n])
                 /\ stack'[d][n].pc \in {"com1", "screen", "release"} => More(stack'[d][n])
      <3>1. n \in Depths(d) /\ stack'[d][n] = stack[d][n]
        BY <1>6, <2>6
      <3>2. done'[d] = done[d]
        BY <2>2, <2>3, <2>6
      <3> QED
        BY <3>1, <3>2 DEF ConsoleInv, CallInv
    <2> QED
      BY <1>2, <2>2, <2>5, <2>6 DEF CallInv
  <1>12. printf_lock' \in BOOLEAN
    BY DEF Return
  <1> QED
    BY <1>2, <1>4, <1>8, <1>10, <1>11, <1>12 DEF ConsoleInv, Types

(* A new call on top, of the program or of idt_handler. *)
LEMMA PushKeepsInv ==
  ASSUME ConsoleInv, NEW c \in Cpus, Call(c) \/ Interrupt(c)
  PROVE  ConsoleInv'
  <1> DEFINE top == Len(stack[c]) + 1
  <1>1. /\ UNCHANGED <<program, printf_lock, done, com1, screen>>
        /\ irqs' \in [Cpus -> Nat]
    <2>1. CASE Call(c)
      BY <2>1 DEF Call, ConsoleInv, Types
    <2>2. CASE Interrupt(c)
      BY <2>2 DEF Interrupt, ConsoleInv, Types
    <2> QED
      BY <2>1, <2>2
  <1>2. \A d \in Cpus : Len(stack[d]) \in Nat /\ Len(program[d]) \in Nat
    BY LenProperties DEF ConsoleInv, Types
  <1>3. PICK fn \in {"printf", "puts"}, length \in Nat, call \in Nat :
          /\ Push(c, Frame(fn, length, call))
          /\ top <= 2
          /\ call # 0 => top = 1 /\ done[c] < Len(program[c])
    <2>1. CASE Call(c)
      <3>1. /\ done[c] + 1 \in 1 .. Len(program[c])
            /\ program[c] \in Seq([fn : {"printf", "puts"}, length : Nat])
            /\ Len(stack[c]) = 0
        BY <1>2, <2>1, EmptySeq DEF Call, ConsoleInv, Types
      <3>2. program[c][done[c] + 1] \in [fn : {"printf", "puts"}, length : Nat]
        BY <3>1, ElementOfSeq
      <3>3. done[c] + 1 \in Nat /\ done[c] < Len(program[c])
        BY <2>1 DEF Call, ConsoleInv, Types
      <3>4. Push(c, Frame(program[c][done[c] + 1].fn, program[c][done[c] + 1].length, done[c] + 1))
        BY <2>1 DEF Call
      <3> QED
        BY <3>1, <3>2, <3>3, <3>4
    <2>2. CASE Interrupt(c)
      <3>1. \A n \in Depths(c) : n = 1
        BY <2>2 DEF Interrupt, ConsoleInv, CallInv, Depths
      <3>2. Len(stack[c]) <= 1
        <4>1. Len(stack[c]) # 0 => Len(stack[c]) \in Depths(c)
          BY <1>2 DEF Depths
        <4> QED
          BY <1>2, <3>1, <4>1
      <3>3. Report \in Nat /\ Push(c, Frame("printf", Report, 0))
        BY <2>2, SizesAssumption DEF Interrupt
      <3> QED
        BY <1>2, <3>2, <3>3
    <2> QED
      BY <2>1, <2>2
  <1> DEFINE f == Frame(fn, length, call)
  <1>4. /\ f \in FrameType /\ f.call = call /\ f.sent = 0 /\ f.pc \in {"enter", "chars"}
        /\ f.fn = "puts" => f.pc = "enter"
    BY DEF Frame, FrameType
  <1>5. f.sent <= ToSend(f)
    BY <1>4, ToSendType
  <1>6. ~Holds(f)
    BY <1>4 DEF Holds
  <1> HIDE DEF f
  <1>7. /\ stack' \in [Cpus -> Seq(FrameType)]
        /\ \A d \in Cpus : Len(stack'[d]) = Len(stack[d]) + (IF d = c THEN 1 ELSE 0)
        /\ \A d \in Cpus : \A n \in 1 .. Len(stack'[d]) :
             stack'[d][n] = IF d = c /\ n = Len(stack[c]) + 1 THEN f ELSE stack[d][n]
    BY <1>3, <1>4, PushOne DEF f, ConsoleInv
  <1>8. \A d \in Cpus : \A n \in Depths(d)' :
          \/ d = c /\ n = top /\ stack'[d][n] = f
          \/ n \in Depths(d) /\ ~(d = c /\ n = top) /\ stack'[d][n] = stack[d][n]
    <2> SUFFICES ASSUME NEW d \in Cpus, NEW n \in Depths(d)'
                 PROVE  \/ d = c /\ n = top /\ stack'[d][n] = f
                        \/ n \in Depths(d) /\ ~(d = c /\ n = top) /\ stack'[d][n] = stack[d][n]
      OBVIOUS
    <2>1. n \in 1 .. Len(stack[d]) + (IF d = c THEN 1 ELSE 0)
      BY <1>7 DEF Depths
    <2>2. stack'[d][n] = IF d = c /\ n = top THEN f ELSE stack[d][n]
      BY <1>7 DEF Depths
    <2>3. CASE d = c /\ n = top
      BY <2>2, <2>3
    <2>4. CASE ~(d = c /\ n = top)
      <3>1. n \in Depths(d)
        <4>1. CASE d = c
          BY <1>2, <2>1, <2>4, <4>1 DEF Depths
        <4>2. CASE d # c
          BY <1>2, <2>1, <4>2 DEF Depths
        <4> QED
          BY <4>1, <4>2
      <3> QED
        BY <2>2, <2>4, <3>1
    <2> QED
      BY <2>3, <2>4
  <1>9. \A d \in Cpus : \A n \in Depths(d) : n \in Depths(d)' /\ stack'[d][n] = stack[d][n]
    <2> SUFFICES ASSUME NEW d \in Cpus, NEW n \in Depths(d)
                 PROVE  n \in Depths(d)' /\ stack'[d][n] = stack[d][n]
      OBVIOUS
    <2>1. Len(stack'[d]) \in Nat /\ Len(stack'[d]) >= Len(stack[d])
      <3>1. CASE d = c
        <4>1. Len(stack'[d]) = Len(stack[d]) + 1
          BY <1>7, <3>1
        <4> QED
          BY <1>2, <4>1
      <3>2. CASE d # c
        <4>1. Len(stack'[d]) = Len(stack[d]) + 0
          BY <1>7, <3>2
        <4> QED
          BY <1>2, <4>1
      <3> QED
        BY <3>1, <3>2
    <2>2. n \in 1 .. Len(stack[d])
      BY DEF Depths
    <2>3. n \in 1 .. Len(stack'[d]) /\ ~(d = c /\ n = top)
      BY <1>2, <2>1, <2>2
    <2> QED
      BY <1>7, <2>3 DEF Depths
  <1>10. LockInv'
    BY <1>1, <1>4, <1>6, <1>8 DEF ConsoleInv, LockInv
  <1>11. SinkInv'
    BY <1>1, <1>4, <1>8, <1>9 DEF ConsoleInv, SinkInv
  <1>12. CallInv'
    <2>1. ASSUME NEW d \in Cpus
          PROVE  Len(stack'[d]) <= 2 /\ done'[d] <= Len(program'[d])
      <3>1. Len(stack[d]) <= 2 /\ done[d] <= Len(program[d])
        BY DEF ConsoleInv, CallInv
      <3>2. program' = program /\ done' = done
        BY <1>1
      <3>3. CASE d = c
        <4>1. Len(stack'[c]) = top
          BY <1>7
        <4> QED
          BY <1>3, <3>1, <3>2, <3>3, <4>1
      <3>4. CASE d # c
        <4>1. Len(stack'[d]) = Len(stack[d]) + 0
          BY <1>7, <3>4
        <4> QED
          BY <1>2, <3>1, <3>2, <4>1
      <3> QED
        BY <3>3, <3>4
    <2>2. ASSUME NEW d \in Cpus, NEW n \in Depths(d)'
          PROVE  /\ stack'[d][n].call # 0 => n = 1 /\ done'[d] < Len(program'[d])
                 /\ stack'[d][n].sent <= ToSend(stack'[d][n])
                 /\ stack'[d][n].pc \in {"com1", "screen", "release"} => More(stack'[d][n])
      <3>1. CASE d = c /\ n = top /\ stack'[d][n] = f
        BY <1>1, <1>3, <1>4, <1>5, <3>1
      <3>2. CASE n \in Depths(d) /\ stack'[d][n] = stack[d][n]
        BY <1>1, <3>2 DEF ConsoleInv, CallInv
      <3> QED
        BY <1>8, <3>1, <3>2
    <2> QED
      BY <2>1, <2>2 DEF CallInv
  <1> QED
    BY <1>1, <1>7, <1>10, <1>11, <1>12 DEF ConsoleInv, Types

-----------------------------------------------------------------------------
LEMMA ConsoleInvInit ==
  ASSUME Init
  PROVE  ConsoleInv
  <1>1. program \in [Cpus -> Seq([fn : {"printf", "puts"}, length : Nat])]
    BY ProgramAssumption DEF Init
  <1>2. /\ \A c \in Cpus : stack[c] = <<>> /\ Len(stack[c]) = 0
        /\ stack \in [Cpus -> Seq(FrameType)]
    BY EmptySeq DEF Init
  <1>3. Types
    BY <1>1, <1>2, EmptySeq DEF Init, Types
  <1>4. \A c \in Cpus : \A n : n \notin Depths(c)
    BY <1>2 DEF Depths
  <1>5. LockInv /\ SinkInv
    BY <1>4 DEF Init, LockInv, SinkInv
  <1>6. \A c \in Cpus : done[c] = 0 /\ Len(program[c]) \in Nat
    BY <1>1, LenProperties DEF Init
  <1>7. ASSUME NEW c \in Cpus
        PROVE  Len(stack[c]) <= 2 /\ done[c] <= Len(program[c])
    <2>1. Len(stack[c]) = 0
      BY <1>2
    <2>2. done[c] = 0 /\ Len(program[c]) \in Nat
      BY <1>6
    <2> QED
      BY <2>1, <2>2
  <1>8. CallInv
    BY <1>4, <1>7 DEF CallInv
  <1> QED
    BY <1>3, <1>5, <1>8 DEF ConsoleInv

LEMMA ConsoleInvStep ==
  ASSUME ConsoleInv, [Next]_vars
  PROVE  ConsoleInv'
  <1>1. CASE Next
    <2>1. PICK c \in Cpus : Step(c) \/ Interrupt(c)
      BY <1>1 DEF Next
    <2>2. CASE Call(c) \/ Interrupt(c)
      BY <2>2, PushKeepsInv
    <2>3. CASE EnterPuts(c) \/ Acquire(c)
      BY <2>3, AcquireKeepsInv
    <2>4. CASE WriteCom1(c) \/ WriteScreen(c)
      BY <2>4, WritesKeepInv
    <2>5. CASE Release(c)
      BY <2>5, ReleaseKeepsInv
    <2>6. CASE Return(c)
      BY <2>6, ReturnKeepsInv
    <2> QED
      BY <2>1, <2>2, <2>3, <2>4, <2>5, <2>6 DEF Step
  <1>2. CASE UNCHANGED vars
    <2>1. UNCHANGED <<program, printf_lock, done, irqs, stack, com1, screen>>
      BY <1>2 DEF vars
    <2>2. \A c \in Cpus : Depths(c)' = Depths(c)
      BY <2>1 DEF Depths
    <2>3. Types' /\ LockInv' /\ SinkInv'
      BY <2>1, <2>2 DEF ConsoleInv, Types, LockInv, SinkInv, Holds
    <2>4. CallInv'
      BY <2>1, <2>2 DEF ConsoleInv, CallInv, More, ToSend
    <2> QED
      BY <2>3, <2>4 DEF ConsoleInv
  <1> QED
    BY <1>1, <1>2

LEMMA ConsoleInvariant == Spec => []ConsoleInv
  BY ConsoleInvInit, ConsoleInvStep, PTL DEF Spec

(* The console keeps its types: no more than a call of the program and a   *)
(* handler's on top of it are in progress on a CPU, no call sends more     *)
(* than its text, and whoever is between the lock and the release in       *)
(* putchar finds printf_lock taken.                                        *)
THEOREM ConsoleTypeOK == Spec => []TypeOK
  <1>1. ConsoleInv => TypeOK
    <2> SUFFICES ASSUME ConsoleInv PROVE TypeOK
      OBVIOUS
    <2>1. ASSUME NEW c \in Cpus, NEW n \in 1 .. Len(stack[c])
          PROVE  /\ stack[c][n].pc \in {"enter", "chars", "com1", "screen", "release"}
                 /\ stack[c][n].sent <= ToSend(stack[c][n])
                 /\ stack[c][n].pc \in {"com1", "screen", "release"} => printf_lock
      <3>1. stack[c][n] \in FrameType
        BY <2>1, ElementOfSeq DEF ConsoleInv, Types
      <3>2. Holds(stack[c][n]) => printf_lock
        BY <2>1 DEF ConsoleInv, LockInv, Depths
      <3>3. stack[c][n].sent <= ToSend(stack[c][n])
        BY <2>1 DEF ConsoleInv, CallInv, Depths
      <3> QED
        BY <3>1, <3>2, <3>3 DEF FrameType, Holds
    <2> QED
      BY <2>1 DEF TypeOK, ConsoleInv, CallInv, Types
  <1> QED
    BY <1>1, ConsoleInvariant, PTL

(* putchar writes to the serial port and to the screen under one lock, so  *)
(* the two are sent the same characters in the same order, whatever calls  *)
(* of whatever CPUs, and interrupts on top of them, are interleaved.       *)
THEOREM ConsoleSinksAgree == Spec => []SinksAgree
  <1>1. ConsoleInv => SinksAgree
    <2> SUFFICES ASSUME ConsoleInv PROVE SinksAgree
      OBVIOUS
    <2>1. screen \in Seq(CharType) /\ Len(screen) \in Nat
      BY LenProperties DEF ConsoleInv, Types
    <2>2. CASE com1 = screen
      <3>1. SubSeq(screen, 1, Len(screen)) = screen
        BY <2>1, SubSeqFull
      <3> QED
        BY <2>1, <2>2, <3>1 DEF SinksAgree
    <2>3. CASE com1 # screen
      <3>1. PICK c \in Cpus : \E n \in Depths(c) : stack[c][n].pc = "screen"
        BY <2>3 DEF ConsoleInv, SinkInv
      <3>2. PICK n \in Depths(c) : stack[c][n].pc = "screen"
        BY <3>1
      <3> DEFINE x == <<c, stack[c][n].call, stack[c][n].sent + 1>>
      <3>3. com1 = Append(screen, x)
        BY <3>2 DEF ConsoleInv, SinkInv
      <3>4. stack[c][n] \in FrameType
        BY ElementOfSeq DEF ConsoleInv, Types, Depths
      <3>5. x \in CharType
        BY <3>4 DEF CharType, FrameType
      <3> HIDE DEF x
      <3>6. /\ com1 \in Seq(CharType)
            /\ Len(com1) = Len(screen) + 1
            /\ \A k \in 1 .. Len(screen) : com1[k] = screen[k]
        BY <2>1, <3>3, <3>5
      <3>7. /\ SubSeq(com1, 1, Len(screen)) \in Seq(CharType)
            /\ Len(SubSeq(com1, 1, Len(screen))) = Len(screen)
            /\ \A k \in 1 .. Len(screen) : SubSeq(com1, 1, Len(screen))[k] = com1[k]
        <4>1. Len(com1) - 1 = Len(screen) /\ Len(com1) \in Nat \ {0}
          BY <2>1, <3>6
        <4> QED
          BY <3>6, <4>1, AllButLast
      <3>8. SubSeq(com1, 1, Len(screen)) = screen
        BY <2>1, <3>6, <3>7, SeqEqual
      <3> QED
        BY <2>1, <3>6, <3>8 DEF SinksAgree
    <2> QED
      BY <2>2, <2>3
  <1> QED
    BY <1>1, ConsoleInvariant, PTL

-----------------------------------------------------------------------------
(* What the screen shows.  A call of the program that is in progress is    *)
(* the next one, with that one's text, so Shown of its frame counts how    *)
(* much of that text is out.                                               *)
FrameInv ==
  \A c \in Cpus : \A n \in Depths(c) :
    stack[c][n].call # 0 =>
      /\ stack[c][n].call = done[c] + 1
      /\ ToSend(stack[c][n]) = ToSend(program[c][done[c] + 1])

Own(c) == {i \in DOMAIN screen : screen[i][1] = c /\ screen[i][2] # 0}

Out(c) == {screen[i] : i \in Own(c)}

Expected(c) == UNION {TextOf(c, j) : j \in DOMAIN program[c]}

InOrder(c) == \A i, k \in Own(c) : i < k => Before(screen[i], screen[k])

LEMMA OutputParts ==
  OutputIsComplete <=> \A c \in Cpus : Out(c) = Expected(c) /\ InOrder(c)
  BY DEF OutputIsComplete, Out, Expected, InOrder, Own

OutputInv == ConsoleInv /\ FrameInv /\ OutputIsComplete

LEMMA FrameTypes ==
  ASSUME ConsoleInv, NEW c \in Cpus
  PROVE  /\ Len(stack[c]) \in Nat
         /\ Len(program[c]) \in Nat /\ DOMAIN program[c] = 1 .. Len(program[c])
         /\ done[c] \in Nat
         /\ \A n \in Depths(c) : stack[c][n] \in FrameType
         /\ stack[c] # <<>> => 1 \in Depths(c) /\ Len(stack[c]) \in Depths(c)
         /\ stack[c] = <<>> => Depths(c) = {}
         /\ \A j \in DOMAIN program[c] : ToSend(program[c][j]) \in Nat
         /\ \A n \in Depths(c) : Shown(stack[c][n]) \in Nat /\ ToSend(stack[c][n]) \in Nat
  <1>1. /\ stack[c] \in Seq(FrameType) /\ done[c] \in Nat
        /\ program[c] \in Seq([fn : {"printf", "puts"}, length : Nat])
    BY DEF ConsoleInv, Types
  <1>2. \A n \in Depths(c) : stack[c][n] \in FrameType
    BY <1>1, ElementOfSeq DEF Depths
  <1>3. /\ Len(stack[c]) \in Nat /\ Len(program[c]) \in Nat
        /\ DOMAIN program[c] = 1 .. Len(program[c])
    BY <1>1, LenProperties
  <1>4. ASSUME NEW j \in DOMAIN program[c]
        PROVE  ToSend(program[c][j]) \in Nat
    <2>1. program[c][j] \in [fn : {"printf", "puts"}, length : Nat]
      BY <1>1, <1>3, ElementOfSeq
    <2> QED
      BY <2>1 DEF ToSend
  <1>5. \A n \in Depths(c) : Shown(stack[c][n]) \in Nat /\ ToSend(stack[c][n]) \in Nat
    <2> SUFFICES ASSUME NEW n \in Depths(c)
                 PROVE  Shown(stack[c][n]) \in Nat /\ ToSend(stack[c][n]) \in Nat
      OBVIOUS
    <2>1. stack[c][n].sent \in Nat
      BY <1>2 DEF FrameType
    <2> QED
      BY <1>2, <2>1, ToSendType DEF Shown
  <1>6. /\ stack[c] # <<>> => 1 \in Depths(c) /\ Len(stack[c]) \in Depths(c)
        /\ stack[c] = <<>> => Depths(c) = {}
    <2>1. stack[c] # <<>> => Len(stack[c]) > 0
      BY <1>1, <1>3, EmptySeq
    <2>2. stack[c] = <<>> => Len(stack[c]) = 0
      BY EmptySeq
    <2> QED
      BY <1>3, <2>1, <2>2 DEF Depths
  <1> QED
    BY <1>1, <1>2, <1>3, <1>4, <1>5, <1>6

(* A step that leaves the screen and what is shown of each call alone.     *)
LEMMA NothingShown ==
  ASSUME OutputIsComplete, screen' = screen, program' = program,
         \A c \in Cpus : \A j \in DOMAIN program[c] : ShownOf(c, j)' = ShownOf(c, j)
  PROVE  OutputIsComplete'
  <1>1. \A c \in Cpus : Own(c)' = Own(c)
    BY DEF Own
  <1>2. \A c \in Cpus : Expected(c)' = Expected(c)
    <2>1. \A c \in Cpus : \A j \in DOMAIN program[c] : TextOf(c, j)' = TextOf(c, j)
      BY DEF TextOf
    <2> QED
      BY <2>1 DEF Expected
  <1>3. \A c \in Cpus : Out(c)' = Out(c) /\ (InOrder(c) => InOrder(c)')
    BY <1>1 DEF Out, InOrder, Before
  <1>4. OutputIsComplete' <=> \A c \in Cpus : Out(c)' = Expected(c)' /\ InOrder(c)'
    BY DEF OutputIsComplete, Out, Expected, InOrder, Own
  <1> QED
    BY <1>2, <1>3, <1>4, OutputParts

(* What is shown of each call depends on the frame at the bottom of the    *)
(* stack of its CPU alone.                                                 *)
LEMMA ShownUnmoved ==
  ASSUME NEW c \in Cpus, NEW j, done'[c] = done[c], program' = program,
         stack'[c] = <<>> <=> stack[c] = <<>>,
         stack[c] # <<>> => /\ stack'[c][1].call = stack[c][1].call
                            /\ stack[c][1].call # 0 => Shown(stack'[c][1]) = Shown(stack[c][1])
  PROVE  ShownOf(c, j)' = ShownOf(c, j)
  <1>1. ToSend(program[c][j])' = ToSend(program[c][j])
    BY DEF ToSend
  <1>2. Shown(stack[c][1])' = Shown(stack'[c][1])
    BY DEF Shown
  <1> QED
    BY <1>1, <1>2 DEF ShownOf

(* A step within the call on top keeps FrameInv. *)
LEMMA MovedKeepsFrameInv ==
  ASSUME ConsoleInv, FrameInv, NEW c \in Cpus, stack[c] # <<>>,
         NEW pc, NEW sent, Moved(c, pc, sent), UNCHANGED <<done, program>>
  PROVE  /\ FrameInv'
         /\ \A d \in Cpus : stack'[d] = <<>> <=> stack[d] = <<>>
         /\ \A d \in Cpus : stack[d] # <<>> => stack'[d][1].call = stack[d][1].call
         /\ \A d \in Cpus : (d # c \/ Len(stack[c]) # 1) /\ stack[d] # <<>> =>
              Shown(stack'[d][1]) = Shown(stack[d][1])
  <1>1. \A d \in Cpus : Depths(d)' = Depths(d)
    BY DEF Moved, Depths
  <1>2. Top(c) = stack[c][Len(stack[c])] /\ Len(stack[c]) \in Depths(c)
    BY FrameTypes DEF Top
  <1>3. \A d \in Cpus : \A n \in Depths(d) :
          /\ stack'[d][n].call = stack[d][n].call
          /\ ToSend(stack'[d][n]) = ToSend(stack[d][n])
          /\ ~(d = c /\ n = Len(stack[c])) => stack'[d][n] = stack[d][n]
    BY <1>2 DEF Moved, Depths
  <1>4. FrameInv'
    <2>1. ASSUME NEW d \in Cpus, NEW n \in Depths(d), stack'[d][n].call # 0
          PROVE  /\ stack'[d][n].call = done'[d] + 1
                 /\ ToSend(stack'[d][n]) = ToSend(program[d][done[d] + 1])
      BY <1>3, <2>1 DEF FrameInv
    <2>2. \A d \in Cpus : ToSend(program[d][done[d] + 1])' = ToSend(program[d][done[d] + 1])
      BY DEF ToSend
    <2>3. \A d \in Cpus : \A n \in Depths(d) : ToSend(stack[d][n])' = ToSend(stack'[d][n])
      BY DEF ToSend
    <2> QED
      BY <1>1, <2>1, <2>2, <2>3 DEF FrameInv
  <1>5. \A d \in Cpus : stack'[d] = <<>> <=> stack[d] = <<>>
    <2> SUFFICES ASSUME NEW d \in Cpus PROVE stack'[d] = <<>> <=> stack[d] = <<>>
      OBVIOUS
    <2>1. stack[d] \in Seq(FrameType) /\ stack'[d] \in Seq(FrameType) /\ Len(stack'[d]) = Len(stack[d])
      BY DEF Moved, ConsoleInv, Types
    <2> QED
      BY <2>1, EmptySeq
  <1>6. \A d \in Cpus : stack[d] # <<>> => 1 \in Depths(d)
    BY FrameTypes
  <1>7. \A d \in Cpus : (d # c \/ Len(stack[c]) # 1) /\ stack[d] # <<>> =>
          stack'[d][1] = stack[d][1]
    BY <1>3, <1>6
  <1> QED
    BY <1>3, <1>4, <1>5, <1>6, <1>7

(* The steps of putchar other than the write to the screen. *)
LEMMA SilentKeepsOutputInv ==
  ASSUME OutputInv, NEW c \in Cpus,
         EnterPuts(c) \/ Acquire(c) \/ WriteCom1(c) \/ Release(c)
  PROVE  FrameInv' /\ OutputIsComplete'
  <1>1. /\ stack[c] # <<>>
        /\ Top(c) \in FrameType /\ Top(c) = stack[c][Len(stack[c])] /\ Len(stack[c]) \in Nat \ {0}
        /\ Len(stack[c]) \in Depths(c)
    BY TopType, FrameTypes DEF OutputInv, ConsoleInv, EnterPuts, Acquire, WriteCom1, Release, At
  <1>2. UNCHANGED <<program, done, screen>>
    BY DEF EnterPuts, Acquire, WriteCom1, Release
  <1>3. \E pc, sent : Moved(c, pc, sent) /\ sent + (IF pc = "release" THEN 1 ELSE 0) = Shown(Top(c))
    <2>1. CASE EnterPuts(c) \/ Acquire(c) \/ WriteCom1(c)
      <3>1. PICK pc \in {"chars", "com1", "screen"} :
              Goto(c, pc) /\ (pc # "chars" => More(Top(c))) /\ Top(c).pc # "release"
        <4>1. CASE EnterPuts(c)
          BY <4>1 DEF EnterPuts, At
        <4>2. CASE Acquire(c)
          BY <4>2 DEF Acquire, At
        <4>3. CASE WriteCom1(c)
          <5>1. Top(c).pc = "com1"
            BY <4>3 DEF WriteCom1, At
          <5>2. More(Top(c))
            BY <1>1, <5>1 DEF OutputInv, ConsoleInv, CallInv
          <5> QED
            BY <4>3, <5>1, <5>2 DEF WriteCom1
        <4> QED
          BY <2>1, <4>1, <4>2, <4>3
      <3>2. Moved(c, pc, Top(c).sent)
        BY <1>1, <1>2, <3>1, GotoMoves DEF OutputInv
      <3>3. Top(c).sent + 0 = Shown(Top(c))
        BY <3>1 DEF Shown
      <3> QED
        BY <3>1, <3>2, <3>3
    <2>2. CASE Release(c)
      <3>1. Top(c).pc = "release"
        BY <2>2 DEF Release, At
      <3>2. More(Top(c))
        BY <1>1, <3>1 DEF OutputInv, ConsoleInv, CallInv
      <3>3. Update(c, Advanced(Top(c), "chars", Top(c).sent + 1)) /\ Top(c).sent \in Nat
        BY <1>1, <2>2, GotoAdvances DEF Release
      <3>4. Top(c).sent + 1 <= ToSend(Top(c)) /\ Top(c).sent + 1 \in Nat
        BY <1>1, <3>2, <3>3, ToSendType DEF More
      <3>5. Moved(c, "chars", Top(c).sent + 1)
        BY <1>1, <1>2, <3>3, <3>4, AdvanceKeepsCallInv DEF OutputInv
      <3>6. Top(c).sent + 1 + 0 = Shown(Top(c))
        BY <3>1, <3>3 DEF Shown
      <3> QED
        BY <3>5, <3>6
    <2> QED
      BY <2>1, <2>2
  <1>4. PICK pc, sent :
          Moved(c, pc, sent) /\ sent + (IF pc = "release" THEN 1 ELSE 0) = Shown(Top(c))
    BY <1>3
  <1>5. /\ FrameInv'
        /\ \A d \in Cpus : stack'[d] = <<>> <=> stack[d] = <<>>
        /\ \A d \in Cpus : stack[d] # <<>> => stack'[d][1].call = stack[d][1].call
        /\ \A d \in Cpus : (d # c \/ Len(stack[c]) # 1) /\ stack[d] # <<>> =>
             Shown(stack'[d][1]) = Shown(stack[d][1])
    BY <1>1, <1>2, <1>4, MovedKeepsFrameInv DEF OutputInv
  <1>6. Shown(stack'[c][Len(stack[c])]) = Shown(Top(c))
    BY <1>4 DEF Moved, Shown
  <1>7. \A d \in Cpus : stack[d] # <<>> => Shown(stack'[d][1]) = Shown(stack[d][1])
    BY <1>1, <1>5, <1>6
  <1>8. \A d \in Cpus : \A j \in DOMAIN program[d] : ShownOf(d, j)' = ShownOf(d, j)
    BY <1>2, <1>5, <1>7, ShownUnmoved
  <1> QED
    BY <1>2, <1>5, <1>8, NothingShown DEF OutputInv

(* A new call on top, of the program or of idt_handler, has nothing out.   *)
LEMMA PushKeepsOutputInv ==
  ASSUME OutputInv, NEW c \in Cpus, Call(c) \/ Interrupt(c)
  PROVE  FrameInv' /\ OutputIsComplete'
  <1>1. UNCHANGED <<program, done, screen>>
    BY DEF Call, Interrupt
  <1>2. PICK f \in FrameType :
          /\ Push(c, f)
          /\ f.call # 0 => /\ stack[c] = <<>> /\ f.call = done[c] + 1 /\ Shown(f) = 0
                           /\ ToSend(f) = ToSend(program[c][done[c] + 1])
    <2>1. CASE Call(c)
      <3> DEFINE p == program[c][done[c] + 1]
                 f == Frame(p.fn, p.length, done[c] + 1)
      <3>1. done[c] + 1 \in DOMAIN program[c] /\ done[c] + 1 \in Nat
        BY <2>1, FrameTypes DEF OutputInv, Call
      <3>2. p \in [fn : {"printf", "puts"}, length : Nat]
        BY <3>1, FrameTypes, ElementOfSeq DEF OutputInv, ConsoleInv, Types
      <3>3. Push(c, f) /\ stack[c] = <<>>
        BY <2>1 DEF Call
      <3> HIDE DEF p
      <3>4. f \in FrameType /\ f.call = done[c] + 1 /\ Shown(f) = 0 /\ ToSend(f) = ToSend(p)
        BY <3>1, <3>2 DEF Frame, FrameType, Shown, ToSend
      <3> QED
        BY <3>3, <3>4 DEF p
    <2>2. CASE Interrupt(c)
      <3>1. Frame("printf", Report, 0) \in FrameType /\ Frame("printf", Report, 0).call = 0
        BY SizesAssumption DEF Frame, FrameType
      <3> QED
        BY <2>2, <3>1 DEF Interrupt
    <2> QED
      BY <2>1, <2>2
  <1>3. /\ stack' \in [Cpus -> Seq(FrameType)]
        /\ \A d \in Cpus : Len(stack'[d]) = Len(stack[d]) + (IF d = c THEN 1 ELSE 0)
        /\ \A d \in Cpus : \A n \in 1 .. Len(stack'[d]) :
             stack'[d][n] = IF d = c /\ n = Len(stack[c]) + 1 THEN f ELSE stack[d][n]
    BY <1>2, PushOne DEF OutputInv, ConsoleInv
  <1>4. \A d \in Cpus \ {c} : stack'[d] = stack[d]
    BY <1>2 DEF Push, OutputInv, ConsoleInv, Types
  <1>5. /\ Len(stack[c]) \in Nat /\ Len(stack'[c]) = Len(stack[c]) + 1
        /\ stack[c] = <<>> <=> Len(stack[c]) = 0
        /\ stack'[c] # <<>>
    <2>1. Len(stack'[c]) = Len(stack[c]) + 1
      BY <1>3
    <2> QED
      BY <1>3, <2>1, FrameTypes, EmptySeq DEF OutputInv, ConsoleInv, Types
  <1>6. FrameInv'
    <2>1. ASSUME NEW d \in Cpus, NEW n \in Depths(d)', stack'[d][n].call # 0
          PROVE  /\ stack'[d][n].call = done[d] + 1
                 /\ ToSend(stack'[d][n]) = ToSend(program[d][done[d] + 1])
      <3>1. CASE d = c /\ n = Len(stack[c]) + 1
        <4>1. stack'[d][n] = f
          BY <1>3, <3>1 DEF Depths
        <4> QED
          BY <1>2, <2>1, <3>1, <4>1
      <3>2. CASE ~(d = c /\ n = Len(stack[c]) + 1)
        <4>1. stack'[d][n] = stack[d][n]
          BY <1>3, <3>2 DEF Depths
        <4>2. n \in Depths(d)
          <5>1. CASE d = c
            BY <1>5, <3>2, <5>1 DEF Depths
          <5>2. CASE d # c
            BY <1>4, <5>2 DEF Depths
          <5> QED
            BY <5>1, <5>2
        <4> QED
          BY <2>1, <4>1, <4>2 DEF OutputInv, FrameInv
      <3> QED
        BY <3>1, <3>2
    <2>2. \A d \in Cpus : ToSend(program[d][done[d] + 1])' = ToSend(program[d][done[d] + 1])
      BY <1>1 DEF ToSend
    <2>3. \A d \in Cpus : \A n \in Depths(d)' : ToSend(stack[d][n])' = ToSend(stack'[d][n])
      BY DEF ToSend
    <2> QED
      BY <1>1, <2>1, <2>2, <2>3 DEF FrameInv
  <1>7. ASSUME NEW d \in Cpus, NEW j \in DOMAIN program[d]
        PROVE  ShownOf(d, j)' = ShownOf(d, j)
    <2>1. CASE d # c
      BY <1>1, <1>4, <2>1, ShownUnmoved
    <2>2. CASE d = c /\ stack[c] # <<>>
      <3>1. stack'[c][1] = stack[c][1]
        BY <1>3, <1>5, <2>2
      <3> QED
        BY <1>1, <1>5, <2>2, <3>1, ShownUnmoved
    <2>3. CASE d = c /\ stack[c] = <<>>
      <3>1. stack'[c][1] = f
        BY <1>3, <1>5, <2>3
      <3>2. ToSend(program[c][j])' = ToSend(program[c][j])
        BY <1>1 DEF ToSend
      <3>3. f.call # 0 => Shown(stack[c][1])' = 0
        BY <1>2, <3>1 DEF Shown
      <3> QED
        BY <1>1, <2>3, <3>1, <3>2, <3>3 DEF ShownOf
    <2> QED
      BY <2>1, <2>2, <2>3
  <1> QED
    BY <1>1, <1>6, <1>7, NothingShown DEF OutputInv

(* A call that returns has sent its whole text.                            *)
LEMMA ReturnKeepsOutputInv ==
  ASSUME OutputInv, NEW c \in Cpus, Return(c)
  PROVE  FrameInv' /\ OutputIsComplete'
  <1> DEFINE top == Len(stack[c])
  <1>1. /\ stack[c] # <<>>
        /\ Top(c) \in FrameType /\ Top(c) = stack[c][top] /\ top \in Nat \ {0}
        /\ top \in Depths(c) /\ 1 \in Depths(c)
    BY TopType, FrameTypes DEF OutputInv, ConsoleInv, Return, At
  <1>2. UNCHANGED <<program, screen>>
    BY DEF Return
  <1>3. /\ stack' \in [Cpus -> Seq(FrameType)]
        /\ \A d \in Cpus : Len(stack'[d]) = Len(stack[d]) - (IF d = c THEN 1 ELSE 0)
        /\ \A d \in Cpus : \A n \in 1 .. Len(stack'[d]) : stack'[d][n] = stack[d][n]
    BY <1>1, PopOne DEF OutputInv, ConsoleInv, Return
  <1>4. \A d \in Cpus \ {c} : stack'[d] = stack[d]
    BY DEF Return, Pop, OutputInv, ConsoleInv, Types
  <1>5. /\ Len(stack'[c]) = top - 1
        /\ stack'[c] = <<>> <=> top = 1
    <2>1. Len(stack'[c]) = top - 1 /\ stack'[c] \in Seq(FrameType)
      BY <1>3
    <2>2. stack'[c] = <<>> <=> Len(stack'[c]) = 0
      BY <2>1, EmptySeq
    <2> HIDE DEF top
    <2> QED
      BY <1>1, <2>1, <2>2
  <1>6. /\ done[c] \in Nat
        /\ Top(c).call = 0 => done' = done
        /\ Top(c).call # 0 => top = 1 /\ done' = [done EXCEPT ![c] = @ + 1]
    BY <1>1, FrameTypes DEF Return, OutputInv, ConsoleInv, CallInv
  <1>7. \A d \in Cpus \ {c} : done'[d] = done[d]
    BY <1>6 DEF OutputInv, ConsoleInv, Types
  <1>8. FrameInv'
    <2>1. ASSUME NEW d \in Cpus, NEW n \in Depths(d)'
          PROVE  n \in Depths(d) /\ stack'[d][n] = stack[d][n] /\ done'[d] = done[d]
      <3>1. stack'[d][n] = stack[d][n]
        BY <1>3 DEF Depths
      <3>2. n \in Depths(d) /\ (d = c => top # 1)
        <4>1. CASE d = c
          BY <1>1, <1>5, <4>1 DEF Depths
        <4>2. CASE d # c
          BY <1>4, <4>2 DEF Depths
        <4> QED
          BY <4>1, <4>2
      <3> QED
        BY <1>6, <1>7, <3>1, <3>2
    <2>2. \A d \in Cpus : \A n \in Depths(d)' :
            /\ ToSend(stack[d][n])' = ToSend(stack[d][n])
            /\ ToSend(program[d][done[d] + 1])' = ToSend(program[d][done[d] + 1])
      BY <1>2, <2>1 DEF ToSend
    <2> QED
      BY <2>1, <2>2 DEF OutputInv, FrameInv
  <1>9. ASSUME NEW d \in Cpus, NEW j \in DOMAIN program[d]
        PROVE  ShownOf(d, j)' = ShownOf(d, j)
    <2>1. CASE d # c
      BY <1>2, <1>4, <1>7, <2>1, ShownUnmoved
    <2>2. CASE d = c /\ top # 1
      <3>1. stack'[c][1] = stack[c][1] /\ stack'[c] # <<>>
        BY <1>1, <1>3, <1>5, <2>2
      <3> QED
        BY <1>1, <1>2, <1>6, <2>2, <3>1, ShownUnmoved
    <2>3. CASE d = c /\ top = 1
      <3>1. stack'[c] = <<>>
        BY <1>5, <2>3
      <3>2. ToSend(program[c][j])' = ToSend(program[c][j])
        BY <1>2 DEF ToSend
      <3>3. CASE Top(c).call = 0
        BY <1>1, <1>2, <1>6, <2>3, <3>1, <3>2, <3>3 DEF ShownOf
      <3>4. CASE Top(c).call # 0
        <4>1. done'[c] = done[c] + 1
          BY <1>6, <3>4 DEF OutputInv, ConsoleInv, Types
        <4>2. Shown(stack[c][1]) = ToSend(program[c][done[c] + 1])
          <5>1. Top(c).pc = "chars" /\ ~More(Top(c))
            BY DEF Return, At
          <5>2. Top(c).sent <= ToSend(Top(c))
            BY <1>1 DEF OutputInv, ConsoleInv, CallInv
          <5>3. Top(c).sent \in Nat /\ ToSend(Top(c)) \in Nat
            BY <1>1, ToSendType DEF FrameType
          <5>4. Top(c).sent = ToSend(Top(c))
            BY <5>1, <5>2, <5>3 DEF More
          <5>5. ToSend(Top(c)) = ToSend(program[c][done[c] + 1])
            BY <1>1, <3>4 DEF OutputInv, FrameInv
          <5>6. Shown(Top(c)) = Top(c).sent + 0
            BY <5>1 DEF Shown
          <5>7. Top(c) = stack[c][1]
            BY <1>1, <2>3
          <5> QED
            BY <5>3, <5>4, <5>5, <5>6, <5>7
        <4>3. j \in Nat
          BY FrameTypes DEF OutputInv
        <4>4. ShownOf(c, j) = IF j <= done[c] + 1 THEN ToSend(program[c][j]) ELSE 0
          <5>1. stack[c][1].call # 0
            BY <1>1, <2>3, <3>4
          <5> QED
            BY <1>1, <1>6, <4>2, <4>3, <5>1 DEF ShownOf
        <4>5. ShownOf(c, j)' = IF j <= done[c] + 1 THEN ToSend(program[c][j]) ELSE 0
          BY <3>1, <3>2, <4>1 DEF ShownOf
        <4> QED
          BY <2>3, <4>4, <4>5
      <3> QED
        BY <3>3, <3>4
    <2> QED
      BY <1>1, <2>1, <2>2, <2>3
  <1> QED
    BY <1>2, <1>8, <1>9, NothingShown DEF OutputInv

(* The write to the screen adds the next character of the call on top.     *)
LEMMA WriteKeepsOutputInv ==
  ASSUME OutputInv, NEW c \in Cpus, WriteScreen(c)
  PROVE  FrameInv' /\ OutputIsComplete'
  <1> DEFINE top == Len(stack[c])
             end == Len(screen) + 1
             j0  == done[c] + 1
  <1>1. /\ stack[c] # <<>>
        /\ Top(c) \in FrameType /\ Top(c) = stack[c][top] /\ top \in Nat \ {0}
        /\ top \in Depths(c) /\ 1 \in Depths(c)
    BY TopType, FrameTypes DEF OutputInv, ConsoleInv, WriteScreen, At
  <1>2. /\ UNCHANGED <<program, done>>
        /\ screen' = Append(screen, Char(c))
        /\ Top(c).pc = "screen"
        /\ Goto(c, "release")
    BY DEF WriteScreen, At
  <1>3. Moved(c, "release", Top(c).sent)
    <2>1. More(Top(c))
      BY <1>1, <1>2 DEF OutputInv, ConsoleInv, CallInv
    <2> QED
      BY <1>1, <1>2, <2>1, GotoMoves DEF OutputInv
  <1>4. /\ FrameInv'
        /\ \A d \in Cpus : stack'[d] = <<>> <=> stack[d] = <<>>
        /\ \A d \in Cpus : stack[d] # <<>> => stack'[d][1].call = stack[d][1].call
        /\ \A d \in Cpus : (d # c \/ top # 1) /\ stack[d] # <<>> =>
             Shown(stack'[d][1]) = Shown(stack[d][1])
    BY <1>1, <1>2, <1>3, MovedKeepsFrameInv DEF OutputInv
  <1>5. /\ screen \in Seq(CharType) /\ Len(screen) \in Nat /\ DOMAIN screen = 1 .. Len(screen)
        /\ Char(c) \in CharType /\ Char(c)[1] = c
        /\ Char(c)[2] = Top(c).call /\ Char(c)[3] = Top(c).sent + 1
        /\ Char(c) = <<c, Top(c).call, Top(c).sent + 1>>
    BY <1>1, LenProperties DEF OutputInv, ConsoleInv, Types, Char, CharType, FrameType
  <1>6. /\ DOMAIN screen' = DOMAIN screen \cup {end} /\ end \notin DOMAIN screen
        /\ \A i \in DOMAIN screen : screen'[i] = screen[i] /\ i < end
        /\ screen'[end] = Char(c)
    <2>1. /\ screen' \in Seq(CharType) /\ Len(screen') = end
          /\ \A i \in 1 .. Len(screen) : screen'[i] = screen[i]
          /\ screen'[end] = Char(c)
      BY <1>2, <1>5, AppendProperties
    <2>2. DOMAIN screen' = 1 .. end
      BY <2>1, LenProperties
    <2> QED
      BY <1>5, <2>1, <2>2
  <1>7. \A d \in Cpus : Out(d) = Expected(d) /\ InOrder(d)
    BY OutputParts DEF OutputInv
  <1>8. ASSUME NEW d \in Cpus, d # c \/ Top(c).call = 0
        PROVE  Out(d)' = Expected(d)' /\ InOrder(d)'
    <2>1. Own(d)' = Own(d)
      BY <1>5, <1>6, <1>8 DEF Own
    <2>2. \A i \in Own(d) : screen'[i] = screen[i]
      BY <1>6 DEF Own
    <2>3. Out(d)' = Out(d) /\ InOrder(d)'
      <3>1. Out(d)' = Out(d)
        BY <2>1, <2>2 DEF Out
      <3>2. \A i, k \in Own(d) : i < k => Before(screen'[i], screen'[k])
        BY <1>7, <2>2 DEF InOrder
      <3> QED
        BY <2>1, <3>1, <3>2 DEF InOrder, Before
    <2>4. ASSUME NEW j \in DOMAIN program[d]
          PROVE  ShownOf(d, j)' = ShownOf(d, j)
      <3>1. stack[d] # <<>> /\ stack[d][1].call # 0 => Shown(stack'[d][1]) = Shown(stack[d][1])
        BY <1>1, <1>4, <1>8
      <3> QED
        BY <1>2, <1>4, <3>1, ShownUnmoved
    <2>5. Expected(d)' = Expected(d)
      <3>1. \A j \in DOMAIN program[d] : TextOf(d, j)' = TextOf(d, j)
        BY <2>4 DEF TextOf
      <3> QED
        BY <1>2, <3>1 DEF Expected
    <2> QED
      BY <1>7, <2>3, <2>5
  <1>9. ASSUME Top(c).call # 0
        PROVE  Out(c)' = Expected(c)' /\ InOrder(c)'
    <2>1. /\ top = 1 /\ Top(c).call = j0 /\ j0 \in DOMAIN program[c]
          /\ done[c] \in Nat /\ Top(c).sent \in Nat
      <3>1. top = 1 /\ done[c] < Len(program[c])
        BY <1>1, <1>9 DEF OutputInv, ConsoleInv, CallInv
      <3>2. Top(c).call = j0
        BY <1>1, <1>9 DEF OutputInv, FrameInv
      <3>3. /\ done[c] \in Nat /\ Len(program[c]) \in Nat
            /\ DOMAIN program[c] = 1 .. Len(program[c])
        BY FrameTypes DEF OutputInv
      <3>4. Top(c).sent \in Nat
        BY <1>1 DEF FrameType
      <3> QED
        BY <3>1, <3>2, <3>3, <3>4
    <2>2. /\ \A j \in DOMAIN program[c] : j \in Nat /\ ShownOf(c, j) \in Nat
          /\ ShownOf(c, j0) = Top(c).sent
          /\ ShownOf(c, j0)' = Top(c).sent + 1
          /\ \A j \in DOMAIN program[c] \ {j0} : ShownOf(c, j)' = ShownOf(c, j)
          /\ \A j \in DOMAIN program[c] : j > j0 => ShownOf(c, j) = 0
      <3>1. stack[c][1] = Top(c) /\ Shown(stack[c][1]) = Top(c).sent
        BY <1>1, <1>2, <2>1 DEF Shown
      <3>2. Shown(stack[c][1])' = Top(c).sent + 1 /\ stack'[c][1].call # 0 /\ stack'[c] # <<>>
        <4>1. stack'[c][1].pc = "release" /\ stack'[c][1].sent = Top(c).sent
          BY <1>3, <2>1 DEF Moved
        <4> QED
          BY <1>1, <1>4, <1>9, <3>1, <4>1 DEF Shown
      <3>3. \A j \in DOMAIN program[c] : j \in Nat /\ ToSend(program[c][j]) \in Nat
        BY FrameTypes DEF OutputInv
      <3>4. \A j \in DOMAIN program[c] : ToSend(program[c][j])' = ToSend(program[c][j])
        BY <1>2 DEF ToSend
      <3>5. \A j \in DOMAIN program[c] :
              ShownOf(c, j) = IF j <= done[c] THEN ToSend(program[c][j])
                              ELSE IF j = j0 THEN Top(c).sent ELSE 0
        BY <1>1, <1>9, <3>1 DEF ShownOf
      <3>6. \A j \in DOMAIN program[c] :
              ShownOf(c, j)' = IF j <= done[c] THEN ToSend(program[c][j])
                               ELSE IF j = j0 THEN Top(c).sent + 1 ELSE 0
        BY <1>2, <3>2, <3>4 DEF ShownOf
      <3>7. /\ j0 \in DOMAIN program[c] /\ j0 > done[c] /\ ~(j0 <= done[c])
            /\ \A j \in DOMAIN program[c] : j > j0 => ~(j <= done[c]) /\ j # j0
        BY <2>1, <3>3
      <3> HIDE DEF j0
      <3>8. ShownOf(c, j0) = Top(c).sent
        BY <3>5, <3>7
      <3>9. ShownOf(c, j0)' = Top(c).sent + 1
        <4>1. \A j : j = done[c] + 1 => ShownOf(c, j)' = ShownOf(c, done[c] + 1)'
          BY <1>2 DEF ShownOf, ToSend
        <4> QED
          BY <3>6, <3>7, <4>1 DEF j0
      <3>10. \A j \in DOMAIN program[c] \ {j0} : ShownOf(c, j)' = ShownOf(c, j)
        BY <3>5, <3>6
      <3>11. \A j \in DOMAIN program[c] : j \in Nat /\ ShownOf(c, j) \in Nat
        BY <2>1, <3>3, <3>5
      <3>12. \A j \in DOMAIN program[c] : j > j0 => ShownOf(c, j) = 0
        BY <3>5, <3>7
      <3> QED
        BY <3>8, <3>9, <3>10, <3>11, <3>12
    <2> HIDE DEF end, j0
    <2>3. Own(c)' = Own(c) \cup {end}
      BY <1>5, <1>6, <1>9 DEF Own
    <2>4. Out(c)' = Out(c) \cup {Char(c)}
      BY <1>6, <2>3 DEF Out, Own
    <2>5. TextOf(c, j0)' = TextOf(c, j0) \cup {Char(c)}
      <3>1. 1 .. Top(c).sent + 1 = (1 .. Top(c).sent) \cup {Top(c).sent + 1}
        BY <2>1
      <3>2. TextOf(c, j0) = {<<c, j0, k>> : k \in 1 .. Top(c).sent}
        BY <2>2 DEF TextOf
      <3>3. TextOf(c, j0)' = {<<c, j0, k>> : k \in 1 .. Top(c).sent + 1}
        BY <1>2, <2>2 DEF TextOf, j0
      <3>4. Char(c) = <<c, j0, Top(c).sent + 1>>
        BY <1>5, <2>1
      <3> QED
        BY <3>1, <3>2, <3>3, <3>4
    <2>6. \A j \in DOMAIN program[c] \ {j0} : TextOf(c, j)' = TextOf(c, j)
      BY <2>2 DEF TextOf
    <2>7. Expected(c)' = Expected(c) \cup {Char(c)}
      <3>1. \A j \in DOMAIN program[c] :
              TextOf(c, j)' = TextOf(c, j) \cup (IF j = j0 THEN {Char(c)} ELSE {})
        BY <1>2, <2>5, <2>6 DEF j0
      <3>2. Expected(c)' = UNION {TextOf(c, j)' : j \in DOMAIN program[c]}
        BY <1>2 DEF Expected
      <3> QED
        BY <2>1, <3>1, <3>2 DEF Expected
    <2>8. ASSUME NEW i \in Own(c)
          PROVE  Before(screen[i], Char(c))
      <3>1. screen[i] \in Expected(c)
        BY <1>7 DEF Out
      <3>2. PICK j \in DOMAIN program[c] : screen[i] \in TextOf(c, j)
        BY <3>1 DEF Expected
      <3>3. PICK k \in 1 .. ShownOf(c, j) : screen[i] = <<c, j, k>>
        BY <3>2 DEF TextOf
      <3>4. screen[i][2] = j /\ screen[i][3] = k
        BY <3>3
      <3>5. j < j0 \/ (j = j0 /\ k < Top(c).sent + 1)
        <4>1. j <= j0
          BY <2>1, <2>2 DEF j0
        <4>2. j = j0 => k <= Top(c).sent
          BY <2>1, <2>2
        <4> QED
          BY <2>1, <2>2, <4>1, <4>2 DEF j0
      <3> QED
        BY <1>5, <2>1, <3>4, <3>5 DEF Before
    <2>9. InOrder(c)'
      <3>1. ASSUME NEW i \in Own(c) \cup {end}, NEW k \in Own(c) \cup {end}, i < k
            PROVE  Before(screen'[i], screen'[k])
        <4>1. i \in Own(c)
          BY <1>5, <1>6, <3>1 DEF Own, end
        <4>2. screen'[i] = screen[i]
          BY <1>6, <4>1 DEF Own
        <4>3. CASE k = end
          BY <1>6, <2>8, <4>1, <4>2, <4>3
        <4>4. CASE k \in Own(c)
          <5>1. screen'[k] = screen[k]
            BY <1>6, <4>4 DEF Own
          <5> QED
            BY <1>7, <3>1, <4>1, <4>2, <4>4, <5>1 DEF InOrder
        <4> QED
          BY <3>1, <4>3, <4>4
      <3> QED
        BY <2>3, <3>1 DEF InOrder, Before
    <2> QED
      BY <1>7, <2>4, <2>7, <2>9
  <1>10. OutputIsComplete' <=> \A d \in Cpus : Out(d)' = Expected(d)' /\ InOrder(d)'
    BY DEF OutputIsComplete, Out, Expected, InOrder, Own
  <1> QED
    BY <1>4, <1>8, <1>9, <1>10

LEMMA OutputInvInit ==
  ASSUME Init
  PROVE  OutputInv
  <1>1. ConsoleInv
    BY ConsoleInvInit
  <1>2. \A c \in Cpus : stack[c] = <<>> /\ done[c] = 0
    BY DEF Init
  <1>3. FrameInv
    BY <1>1, <1>2, FrameTypes DEF FrameInv
  <1>4. ASSUME NEW c \in Cpus
        PROVE  Out(c) = Expected(c) /\ InOrder(c)
    <2>1. Own(c) = {}
      BY EmptySeq DEF Init, Own
    <2>2. \A j \in DOMAIN program[c] : j \in 1 .. Len(program[c]) /\ Len(program[c]) \in Nat
      BY <1>1, FrameTypes
    <2>3. \A j \in DOMAIN program[c] : ShownOf(c, j) = 0
      BY <1>2, <2>2 DEF ShownOf
    <2>4. \A j \in DOMAIN program[c] : TextOf(c, j) = {}
      BY <2>3 DEF TextOf
    <2> QED
      BY <2>1, <2>4 DEF Out, Expected, InOrder
  <1> QED
    BY <1>1, <1>3, <1>4, OutputParts DEF OutputInv

LEMMA OutputInvStep ==
  ASSUME OutputInv, [Next]_vars
  PROVE  OutputInv'
  <1>1. ConsoleInv'
    BY ConsoleInvStep DEF OutputInv
  <1>2. FrameInv' /\ OutputIsComplete'
    <2>1. CASE Next
      <3>1. PICK c \in Cpus : Step(c) \/ Interrupt(c)
        BY <2>1 DEF Next
      <3>2. CASE Call(c) \/ Interrupt(c)
        BY <3>2, PushKeepsOutputInv
      <3>3. CASE EnterPuts(c) \/ Acquire(c) \/ WriteCom1(c) \/ Release(c)
        BY <3>3, SilentKeepsOutputInv
      <3>4. CASE WriteScreen(c)
        BY <3>4, WriteKeepsOutputInv
      <3>5. CASE Return(c)
        BY <3>5, ReturnKeepsOutputInv
      <3> QED
        BY <3>1, <3>2, <3>3, <3>4, <3>5 DEF Step
    <2>2. CASE UNCHANGED vars
      <3>1. UNCHANGED <<program, done, stack, screen>>
        BY <2>2 DEF vars
      <3>2. FrameInv'
        BY <3>1 DEF OutputInv, FrameInv, Depths, ToSend
      <3>3. \A c \in Cpus : \A j \in DOMAIN program[c] : ShownOf(c, j)' = ShownOf(c, j)
        BY <3>1, ShownUnmoved
      <3> QED
        BY <3>1, <3>2, <3>3, NothingShown DEF OutputInv
    <2> QED
      BY <2>1, <2>2
  <1> QED
    BY <1>1, <1>2 DEF OutputInv

(* printf and puts lose, double and reorder nothing on the way to the      *)
(* screen: what it shows of the program of a CPU is, in the order of the   *)
(* calls and of their characters, the whole text of each call that has     *)
(* returned, as far as it fits the buffer, and of the call in progress     *)
(* what it sent, whoever else prints in between.                           *)
THEOREM ConsoleOutputIsComplete == Spec => []OutputIsComplete
  <1>1. Spec => []OutputInv
    BY OutputInvInit, OutputInvStep, PTL DEF Spec
  <1>2. OutputInv => OutputIsComplete
    BY DEF OutputInv
  <1> QED
    BY <1>1, <1>2, PTL

=============================================================================
