--------------------------- MODULE CompilerProofs ---------------------------
(***************************************************************************)
(* What holds of every compilation, for any set of expressions and         *)
(* registries and any number of registers.                                 *)
(***************************************************************************)
EXTENDS Compiler, SequenceTheorems, WellFoundedInduction, TLAPS

-----------------------------------------------------------------------------
(***************************************************************************)
(* What an emitter may rely on and must keep.  Owned is about registers:   *)
(* those of held are handed out, and every other one below next_reg waits  *)
(* to be reused, once.  CodeOk is about the code emitted so far, in which  *)
(* the jumps at the places of open still have no target.                   *)
(***************************************************************************)

Owned(g, held) ==
  /\ g.reg_used = held
  /\ held \subseteq 0 .. g.next_reg - 1
  /\ IsInjective(g.free_regs)
  /\ Range(g.free_regs) = (0 .. g.next_reg - 1) \ held

\* A jump in slot i may go to t: forward, and to no data slot.
Target(code, i, t) == t \in i .. Len(code) /\ (t < Len(code) => code[t + 1].op # Invalid)

\* Data slots follow LoadImms and nothing else does; instructions name the
\* registers handed out so far, and jumps that are not open have a target;
\* only jumps without one are open.
SlotOk(code, next, open, i) ==
  /\ code[i].op = "LoadImm" => i < Len(code) /\ code[i + 1].op = Invalid
  /\ code[i].op = Invalid => i > 1 /\ code[i - 1].op = "LoadImm"
  /\ \A r \in RegisterOperands(code[i]) : r < next
  /\ code[i].op = "LoadField" =>
       /\ LoadableRegistry(registry) => code[i].b \in {1, 2, 4, 8}
       /\ code[i].c <= 1
  /\ code[i].op \in JumpOps /\ i - 1 \notin open => Target(code, i, code[i].aux)
  /\ i - 1 \in open => code[i].op \in JumpOps /\ code[i].aux = -1

CodeOk(code, next, open) == \A i \in 1 .. Len(code) : SlotOk(code, next, open, i)

\* A generator that has made no internal mistake and, unless it has failed,
\* has handed out the registers of held and left the jumps of open open.
Sound(g, held, open) ==
  /\ g \in GenState
  /\ g.error \notin InternalError
  /\ g.error = "none" => /\ Owned(g, held)
                         /\ open \subseteq 0 .. Len(g.code) - 1
                         /\ CodeOk(g.code, g.next_reg, open)

\* g1 comes after g: code is only added, and an error remains.
Grows(g, g1) ==
  /\ Len(g.code) <= Len(g1.code)
  /\ g1.error = "none" => g.error = "none"

\* The expression is not to blame if g1 has failed and g has not.
Blameless(g, g1) == g1.error \in UserError => g.error \in UserError

\* An emitter, called when held was in use, has returned one register more.
GivesReg(g, held, open, g1, reg) ==
  /\ Sound(g1, held \cup {reg}, open)
  /\ reg \in U8
  /\ g1.error = "none" => reg \notin held
  /\ Grows(g, g1)

\* The same for a value and for the two registers of an address.
Gives(g, held, open, g1, v) == v \in EmitValue /\ GivesReg(g, held, open, g1, v.reg)

GivesPair(g, held, open, g1, p) ==
  /\ Sound(g1, held \cup {p[1], p[2]}, open)
  /\ {p[1], p[2]} \subseteq U8
  /\ g1.error = "none" => p[1] # p[2] /\ p[1] \notin held /\ p[2] \notin held
  /\ Grows(g, g1)

-----------------------------------------------------------------------------
(* Lemmas on sequences and records. *)

LEMMA PopFacts ==
  ASSUME NEW S, NEW s \in Seq(S), s # <<>>
  PROVE  LET t == SubSeq(s, 1, Len(s) - 1)
             x == s[Len(s)]
         IN  /\ t \in Seq(S)
             /\ Len(t) = Len(s) - 1
             /\ \A i \in 1 .. Len(s) - 1 : t[i] = s[i]
             /\ x \in S
             /\ Len(s) \in Nat \ {0}
             /\ IsInjective(s) => IsInjective(t) /\ Range(t) = Range(s) \ {x} /\ x \in Range(s)
<1> DEFINE n == Len(s) - 1
           t == SubSeq(s, 1, n)
           x == s[Len(s)]
<1>1. Len(s) \in Nat \ {0} /\ x \in S /\ n \in Nat
  OBVIOUS
<1>2. t \in Seq(S) /\ Len(t) = n /\ \A i \in 1 .. n : t[i] = s[i]
  <2>1. t \in Seq(S)
    BY <1>1
  <2>2. Len(t) = n
    <3>1. \A k \in Nat : k <= Len(s) => Len(SubSeq(s, 1, k)) = k
      OBVIOUS
    <3>2. n <= Len(s)
      BY <1>1
    <3>3. QED
      BY <1>1, <3>1, <3>2, Zenon
  <2>3. ASSUME NEW i \in 1 .. n PROVE t[i] = s[i]
    BY <1>1
  <2>4. QED
    BY <2>1, <2>2, <2>3
<1>3. DOMAIN t = 1 .. n /\ DOMAIN s = 1 .. Len(s) /\ Len(s) = n + 1
  BY <1>2, <1>1
<1> HIDE DEF n, t
<1>4. ASSUME IsInjective(s)
      PROVE  IsInjective(t) /\ Range(t) = Range(s) \ {x} /\ x \in Range(s)
  <2>1. IsInjective(t)
    BY <1>1, <1>2, <1>3, <1>4 DEF IsInjective
  <2>2. x \in Range(s)
    BY <1>1, <1>3 DEF Range
  <2>3. ASSUME NEW i \in 1 .. n PROVE s[i] # x
    BY <1>1, <1>3, <1>4 DEF IsInjective
  <2>4. ASSUME NEW y \in Range(t) PROVE y \in Range(s) /\ y # x
    BY <1>1, <1>2, <1>3, <2>3, <2>4 DEF Range
  <2>5. ASSUME NEW y \in Range(s), y # x PROVE y \in Range(t)
    <3>1. PICK i \in 1 .. Len(s) : s[i] = y
      BY <1>3 DEF Range
    <3>2. i \in 1 .. n
      BY <3>1, <2>5, <1>1, <1>3
    <3>3. QED
      BY <3>1, <3>2, <1>2, <1>3 DEF Range
  <2>6. QED
    BY <2>1, <2>2, <2>4, <2>5
<1>5. QED
  BY <1>1, <1>2, <1>4 DEF n, t

LEMMA PushFacts ==
  ASSUME NEW S, NEW s \in Seq(S), NEW x \in S
  PROVE  LET t == Append(s, x)
         IN  /\ t \in Seq(S)
             /\ Len(t) = Len(s) + 1
             /\ \A i \in 1 .. Len(s) : t[i] = s[i]
             /\ t[Len(s) + 1] = x
             /\ IsInjective(s) /\ x \notin Range(s) => IsInjective(t)
             /\ Range(t) = Range(s) \cup {x}
<1> DEFINE n == Len(s)
           t == Append(s, x)
<1>1. /\ t \in Seq(S) /\ Len(t) = n + 1 /\ n \in Nat
      /\ \A i \in 1 .. n : t[i] = s[i]
      /\ t[n + 1] = x
  OBVIOUS
<1>2. DOMAIN t = 1 .. n + 1 /\ DOMAIN s = 1 .. n
  BY <1>1
<1> HIDE DEF n, t
<1>3. ASSUME IsInjective(s), x \notin Range(s)
      PROVE  IsInjective(t)
  <2>1. \A i \in 1 .. n : s[i] # x
    BY <1>2, <1>3 DEF Range
  <2>2. QED
    BY <1>1, <1>2, <1>3, <2>1 DEF IsInjective
<1>4. Range(t) = Range(s) \cup {x}
  <2>1. ASSUME NEW y \in Range(t) PROVE y \in Range(s) \cup {x}
    BY <1>1, <1>2 DEF Range
  <2>2. ASSUME NEW y \in Range(s) PROVE y \in Range(t)
    BY <1>1, <1>2 DEF Range
  <2>3. x \in Range(t)
    <3>1. n + 1 \in DOMAIN t
      BY <1>1, <1>2
    <3>2. QED
      BY <1>1, <3>1 DEF Range
  <2>4. QED
    BY <2>1, <2>2, <2>3
<1>5. QED
  BY <1>1, <1>3, <1>4 DEF n, t

LEMMA PairFacts ==
  ASSUME NEW S, NEW s \in Seq(S), NEW x \in S, NEW y \in S
  PROVE  LET t == s \o <<x, y>>
         IN  /\ t \in Seq(S)
             /\ Len(t) = Len(s) + 2
             /\ \A i \in 1 .. Len(s) : t[i] = s[i]
             /\ t[Len(s) + 1] = x
             /\ t[Len(s) + 2] = y
<1> DEFINE pair == <<x, y>>
           t    == s \o pair
           n    == Len(s)
<1>1. pair \in Seq(S) /\ Len(pair) = 2 /\ pair[1] = x /\ pair[2] = y /\ n \in Nat
  OBVIOUS
<1> HIDE DEF pair
<1>2. /\ t \in Seq(S)
      /\ Len(t) = n + Len(pair)
      /\ \A i \in 1 .. n + Len(pair) : t[i] = IF i <= n THEN s[i] ELSE pair[i - n]
  BY <1>1, ConcatProperties, Zenon
<1> HIDE DEF t, n
<1>3. QED
  <2>1. Len(t) = n + 2 /\ \A i \in 1 .. n : t[i] = s[i]
    BY <1>1, <1>2
  <2>2. n + 1 \in 1 .. n + 2 /\ ~(n + 1 <= n) /\ n + 1 - n = 1
    BY <1>1
  <2>3. n + 2 \in 1 .. n + 2 /\ ~(n + 2 <= n) /\ n + 2 - n = 2
    BY <1>1
  <2>4. t[n + 1] = x /\ t[n + 2] = y
    BY <1>1, <1>2, <2>2, <2>3
  <2>5. QED
    BY <1>2, <2>1, <2>4 DEF t, n, pair

\* A generator state by its fields.
Gen(code, next, free, used, error) ==
  [code |-> code, next_reg |-> next, free_regs |-> free, reg_used |-> used, error |-> error]

LEMMA GenFields ==
  ASSUME NEW g \in GenState
  PROVE  /\ g = Gen(g.code, g.next_reg, g.free_regs, g.reg_used, g.error)
         /\ g.code \in Seq(Slot) /\ g.next_reg \in 0 .. MaxRegisterCount
         /\ g.free_regs \in Seq(U8) /\ g.reg_used \in SUBSET U8 /\ g.error \in Error
         /\ Len(g.code) \in Nat
BY DEF GenState, Gen

LEMMA GenType ==
  ASSUME NEW code \in Seq(Slot), NEW next \in 0 .. MaxRegisterCount, NEW free \in Seq(U8),
         NEW used \in SUBSET U8, NEW error \in Error
  PROVE  /\ Gen(code, next, free, used, error) \in GenState
         /\ Gen(code, next, free, used, error).code = code
         /\ Gen(code, next, free, used, error).next_reg = next
         /\ Gen(code, next, free, used, error).free_regs = free
         /\ Gen(code, next, free, used, error).reg_used = used
         /\ Gen(code, next, free, used, error).error = error
BY DEF GenState, Gen

-----------------------------------------------------------------------------
(* Lemmas on code. *)

LEMMA OperandsType ==
  ASSUME NEW ins \in Slot
  PROVE  RegisterOperands(ins) \subseteq U8
BY DEF RegisterOperands, Slot

\* The operands of the instructions the generator emits.
LEMMA Operands ==
  ASSUME NEW op \in OpCode, NEW a, NEW b, NEW c, NEW aux
  PROVE  /\ RegisterOperands(Instr(op, a, b, c, aux)) \subseteq {a, b, c}
         /\ op \in {"Move", "Not"} => RegisterOperands(Instr(op, a, b, c, aux)) \subseteq {a, b}
         /\ op \in {"LoadField", "LoadImm", "JumpIfFalse", "Ret"} =>
              RegisterOperands(Instr(op, a, b, c, aux)) \subseteq {a}
         /\ op = "Jump" => RegisterOperands(Instr(op, a, b, c, aux)) = {}
<1>1. Instr(op, a, b, c, aux).op = op /\ Instr(op, a, b, c, aux).a = a
      /\ Instr(op, a, b, c, aux).b = b /\ Instr(op, a, b, c, aux).c = c
  BY DEF Instr
<1>2. QED
  BY <1>1 DEF RegisterOperands, CmpOps

LEMMA ZeroWord == Zero \in Word
BY BytecodeAssumption DEF Zero, Word, FullByte, Byte, Bit

LEMMA InstrType ==
  ASSUME NEW op \in OpCode, NEW a \in U8, NEW b \in U8, NEW c \in U8, NEW aux \in I32
  PROVE  /\ Instr(op, a, b, c, aux) \in Slot
         /\ Instr(op, a, b, c, aux).op = op /\ Instr(op, a, b, c, aux).aux = aux
         /\ Instr(op, a, b, c, aux).b = b /\ Instr(op, a, b, c, aux).c = c
BY ZeroWord DEF Instr, Slot

\* More registers do no harm.
LEMMA CodeKeepsOk ==
  ASSUME NEW code \in Seq(Slot), NEW next \in Nat, NEW next1 \in Nat, next <= next1, NEW open,
         CodeOk(code, next, open)
  PROVE  CodeOk(code, next1, open)
<1>1. ASSUME NEW i \in 1 .. Len(code) PROVE SlotOk(code, next1, open, i)
  <2>1. SlotOk(code, next, open, i)
    BY DEF CodeOk
  <2>2. RegisterOperands(code[i]) \subseteq U8
    BY OperandsType
  <2>3. \A r \in RegisterOperands(code[i]) : r < next1
    BY <2>1, <2>2, BytecodeAssumption DEF SlotOk, U8
  <2>4. QED
    BY <2>1, <2>3 DEF SlotOk
<1>2. QED
  BY <1>1 DEF CodeOk

\* What may be emitted as an instruction of one slot.
Emittable(ins, next) ==
  /\ ins \in Slot
  /\ ins.op \in OpCode \ {"LoadImm"}
  /\ \A r \in RegisterOperands(ins) : r < next
  /\ ins.op = "LoadField" => (LoadableRegistry(registry) => ins.b \in {1, 2, 4, 8}) /\ ins.c <= 1

\* A jump that is emitted is open.
LEMMA CodeAppend ==
  ASSUME NEW code \in Seq(Slot), NEW next, NEW open, CodeOk(code, next, open),
         open \subseteq 0 .. Len(code) - 1, NEW ins, Emittable(ins, next),
         ins.op \in JumpOps => ins.aux = -1, NEW open1,
         ins.op \in JumpOps => open1 = open \cup {Len(code)},
         ins.op \notin JumpOps => open1 = open
  PROVE  CodeOk(Append(code, ins), next, open1)
<1> DEFINE n     == Len(code)
           code1 == Append(code, ins)
<1>1. /\ n \in Nat /\ Len(code1) = n + 1
      /\ \A i \in 1 .. n : code1[i] = code[i]
      /\ code1[n + 1] = ins
      /\ ins.op # Invalid
  BY DEF Emittable, OpCode, CmpOps, JumpOps, Invalid
<1> HIDE DEF n, code1
<1>2. ASSUME NEW i \in 1 .. n PROVE SlotOk(code1, next, open1, i)
  <2>1. SlotOk(code, next, open, i) /\ (i - 1 \in open1 <=> i - 1 \in open)
    BY <1>1 DEF CodeOk, n
  <2>2. code1[i] = code[i]
    BY <1>1
  <2>3. code[i].op = "LoadImm" => i < n + 1 /\ code1[i + 1].op = Invalid
    BY <1>1, <2>1 DEF SlotOk, n
  <2>4. code[i].op = Invalid => i > 1 /\ code1[i - 1].op = "LoadImm"
    BY <1>1, <2>1 DEF SlotOk, n
  <2>5. ASSUME NEW t, Target(code, i, t) PROVE Target(code1, i, t)
    BY <1>1, <2>5 DEF Target, n
  <2>6. QED
    BY <1>1, <2>1, <2>2, <2>3, <2>4, <2>5 DEF SlotOk
<1>3. SlotOk(code1, next, open1, n + 1)
  <2>1. n + 1 - 1 = n /\ n \notin open /\ (n \in open1 <=> ins.op \in JumpOps)
    BY <1>1 DEF n
  <2>2. QED
    BY <1>1, <2>1 DEF SlotOk, Emittable, Invalid
<1>4. CodeOk(code1, next, open1)
  <2>1. ASSUME NEW i \in 1 .. n + 1 PROVE SlotOk(code1, next, open1, i)
    <3>1. i \in 1 .. n \/ i = n + 1
      BY <1>1
    <3>2. QED
      BY <1>2, <1>3, <3>1
  <2>2. QED
    BY <1>1, <2>1 DEF CodeOk
<1>5. QED
  BY <1>4 DEF code1

LEMMA CodeLoadImm ==
  ASSUME NEW code \in Seq(Slot), NEW next, NEW open, CodeOk(code, next, open),
         open \subseteq 0 .. Len(code) - 1, NEW a \in U8, a < next, NEW w \in Word
  PROVE  LET code1 == code \o <<Instr("LoadImm", a, 0, 0, 0), Data(w)>>
         IN  /\ code1 \in Seq(Slot)
             /\ Len(code1) = Len(code) + 2
             /\ CodeOk(code1, next, open)
<1> DEFINE n     == Len(code)
           load  == Instr("LoadImm", a, 0, 0, 0)
           code1 == code \o <<load, Data(w)>>
<1>1. /\ 0 \in U8 /\ 0 \in I32 /\ "LoadImm" \in OpCode
  BY BytecodeAssumption DEF U8, I32, OpCode
<1>2. load \in Slot /\ load.op = "LoadImm"
  BY <1>1, ZeroWord DEF Instr, Slot
<1>3. Data(w) \in Slot /\ Data(w).op = Invalid
  BY <1>1 DEF Data, Slot
<1>4. \A r \in RegisterOperands(load) : r < next
  <2>1. RegisterOperands(load) \subseteq {a}
    BY <1>1, Operands, Zenon
  <2>2. QED
    BY <2>1
<1>5. RegisterOperands(Data(w)) = {}
  BY <1>3 DEF RegisterOperands, CmpOps, Invalid
<1> HIDE DEF load
<1>6. n \in Nat /\ n \notin open /\ n + 1 \notin open
  BY DEF n
<1>7. /\ code1 \in Seq(Slot)
      /\ Len(code1) = n + 2
      /\ \A i \in 1 .. n : code1[i] = code[i]
      /\ code1[n + 1] = load
      /\ code1[n + 2] = Data(w)
  BY <1>2, <1>3, PairFacts
<1> HIDE DEF n
<1> HIDE DEF code1
<1>8. ASSUME NEW i \in 1 .. n PROVE SlotOk(code1, next, open, i)
  <2>1. SlotOk(code, next, open, i)
    BY DEF CodeOk, n
  <2>2. code1[i] = code[i]
    BY <1>6, <1>7
  <2>3. code[i].op = "LoadImm" => i < n + 2 /\ code1[i + 1].op = Invalid
    BY <1>6, <1>7, <2>1 DEF SlotOk, n
  <2>4. code[i].op = Invalid => i > 1 /\ code1[i - 1].op = "LoadImm"
    BY <1>6, <1>7, <2>1 DEF SlotOk, n
  <2>5. ASSUME NEW t, Target(code, i, t) PROVE Target(code1, i, t)
    BY <1>2, <1>6, <1>7, <2>5 DEF Target, n, Invalid
  <2>6. QED
    BY <1>6, <1>7, <2>1, <2>2, <2>3, <2>4, <2>5 DEF SlotOk
<1>9. SlotOk(code1, next, open, n + 1)
  BY <1>2, <1>3, <1>4, <1>6, <1>7 DEF SlotOk, Invalid, JumpOps
<1>10. SlotOk(code1, next, open, n + 2)
  BY <1>2, <1>3, <1>5, <1>6, <1>7 DEF SlotOk, Invalid, JumpOps
<1>11. CodeOk(code1, next, open)
  BY <1>6, <1>7, <1>8, <1>9, <1>10 DEF CodeOk
<1>12. QED
  BY <1>7, <1>11 DEF code1, load, n

LEMMA PatchType ==
  ASSUME NEW code \in Seq(Slot), NEW ip \in 0 .. Len(code) - 1, Len(code) \in I32
  PROVE  LET code1 == [code EXCEPT ![ip + 1].aux = Len(code)]
         IN  code1 \in Seq(Slot) /\ Len(code1) = Len(code)
<1> DEFINE j   == ip + 1
           ins == [code[j] EXCEPT !.aux = Len(code)]
<1>1. j \in 1 .. Len(code)
  OBVIOUS
<1>2. ins \in Slot
  <2>1. code[j] \in Slot
    BY <1>1
  <2>2. QED
    BY <2>1 DEF Slot
<1> HIDE DEF j
<1>3. [code EXCEPT ![j].aux = Len(code)] = [code EXCEPT ![j] = ins]
  OBVIOUS
<1> HIDE DEF ins
<1>4. QED
  BY <1>1, <1>2, <1>3 DEF j

\* A jump that is patched to the end of the code is no longer open.
LEMMA CodePatch ==
  ASSUME NEW code \in Seq(Slot), NEW next, NEW open, CodeOk(code, next, open),
         NEW ip \in 0 .. Len(code) - 1, Len(code) \in I32
  PROVE  LET code1 == [code EXCEPT ![ip + 1].aux = Len(code)]
         IN  /\ code1 \in Seq(Slot)
             /\ Len(code1) = Len(code)
             /\ CodeOk(code1, next, open \ {ip})
<1> DEFINE n     == Len(code)
           j     == ip + 1
           ins   == [code[j] EXCEPT !.aux = n]
           code1 == [code EXCEPT ![j].aux = n]
<1>1. n \in Nat /\ j \in 1 .. n /\ j - 1 = ip
  OBVIOUS
<1>2. code[j] \in Slot
  BY <1>1
<1>3. /\ ins \in Slot /\ ins.op = code[j].op /\ ins.a = code[j].a /\ ins.b = code[j].b
      /\ ins.c = code[j].c /\ ins.aux = n
  BY <1>2 DEF Slot
<1>4. RegisterOperands(ins) = RegisterOperands(code[j])
  BY <1>3 DEF RegisterOperands
<1> HIDE DEF n, j
<1>5. code1 = [code EXCEPT ![j] = ins]
  OBVIOUS
<1> HIDE DEF ins, code1
<1>6. /\ code1 \in Seq(Slot) /\ Len(code1) = n
      /\ \A i \in 1 .. n : code1[i] = IF i = j THEN ins ELSE code[i]
  BY <1>1, <1>3, <1>5 DEF n
<1>7. ASSUME NEW i \in 1 .. n
      PROVE  code1[i].op = code[i].op
  BY <1>3, <1>6
<1>8. ASSUME NEW i \in 1 .. n PROVE SlotOk(code1, next, open \ {ip}, i)
  <2>1. SlotOk(code, next, open, i)
    BY DEF CodeOk, n
  <2>2. code1[i].op = code[i].op
    BY <1>7
  <2>3. code[i].op = "LoadImm" => i < n /\ code1[i + 1].op = Invalid
    BY <1>1, <1>7, <2>1 DEF SlotOk, n
  <2>4. code[i].op = Invalid => i > 1 /\ code1[i - 1].op = "LoadImm"
    BY <1>1, <1>7, <2>1 DEF SlotOk, n
  <2>5. ASSUME NEW t, Target(code, i, t) PROVE Target(code1, i, t)
    BY <1>1, <1>6, <1>7, <2>5 DEF Target, n
  <2>6. Target(code1, i, n)
    BY <1>1, <1>6 DEF Target
  <2>7. CASE i = j
    <3>1. code1[i] = ins
      BY <1>6, <2>7
    <3>2. QED
      BY <1>1, <1>3, <1>4, <1>6, <2>1, <2>2, <2>3, <2>4, <2>6, <2>7, <3>1 DEF SlotOk
  <2>8. CASE i # j
    <3>1. code1[i] = code[i] /\ i - 1 # ip
      BY <1>1, <1>6, <2>8
    <3>2. QED
      BY <1>6, <2>1, <2>3, <2>4, <2>5, <3>1 DEF SlotOk
  <2>9. QED
    BY <2>7, <2>8
<1>9. QED
  BY <1>6, <1>8 DEF CodeOk, code1, j, n

-----------------------------------------------------------------------------
(* Lemmas on the primitives. *)

\* A failure that is no internal one: whatever is in use, the state is sound.
LEMMA FailSound ==
  ASSUME NEW g, NEW held, NEW open, Sound(g, held, open), NEW e \in ResourceError \cup UserError,
         NEW held1, NEW open1
  PROVE  /\ Sound(fail(g, e), held1, open1)
         /\ Grows(g, fail(g, e))
         /\ e \in ResourceError => Blameless(g, fail(g, e))
         /\ fail(g, e).error # "none"
<1>1. CASE g.error = "none"
  <2>1. fail(g, e) = [g EXCEPT !.error = e]
    BY <1>1 DEF fail, ok
  <2>2. /\ fail(g, e) \in GenState
        /\ fail(g, e).error = e
        /\ fail(g, e).code = g.code
    BY <2>1 DEF Sound, GenState, Error
  <2>3. e # "none" /\ e \notin InternalError
    BY DEF ResourceError, UserError, InternalError
  <2>4. Len(g.code) <= Len(g.code)
    BY DEF Sound, GenState
  <2>5. e \in ResourceError => e \notin UserError
    BY DEF ResourceError, UserError
  <2>6. QED
    BY <1>1, <2>2, <2>3, <2>4, <2>5 DEF Sound, Grows, Blameless
<1>2. CASE g.error # "none"
  <2>1. fail(g, e) = g
    BY <1>2 DEF fail, ok
  <2>2. Len(g.code) <= Len(g.code)
    BY DEF Sound, GenState
  <2>3. QED
    BY <1>2, <2>1, <2>2 DEF Sound, Grows, Blameless
<1>3. QED
  BY <1>1, <1>2

\* A register is handed out that nobody uses, or the generator has failed.
LEMMA AllocSound ==
  ASSUME NEW g, NEW held, NEW open, Sound(g, held, open)
  PROVE  /\ NextReg(g) \in U8
         /\ Sound(alloc_reg(g), held \cup {NextReg(g)}, open)
         /\ alloc_reg(g).error = "none" => NextReg(g) \notin held
         /\ Grows(g, alloc_reg(g)) /\ Blameless(g, alloc_reg(g))
         /\ alloc_reg(g).code = g.code
<1> DEFINE n  == NextReg(g)
           g1 == alloc_reg(g)
<1>0. /\ g.free_regs \in Seq(U8) /\ g.next_reg \in 0 .. MaxRegisterCount
      /\ g.reg_used \in SUBSET U8 /\ g.code \in Seq(Slot) /\ g.error \in Error \ InternalError
      /\ g = Gen(g.code, g.next_reg, g.free_regs, g.reg_used, g.error)
      /\ Len(g.code) <= Len(g.code)
  BY GenFields DEF Sound
<1>1. CASE g.free_regs # <<>>
  <2> DEFINE f  == g.free_regs
             f1 == SubSeq(f, 1, Len(f) - 1)
  <2>1. n = f[Len(f)]
    BY <1>1, Zenon DEF NextReg
  <2>2. g1 = [g EXCEPT !.free_regs = f1, !.reg_used = @ \cup {n}]
    BY <1>1, Zenon DEF alloc_reg
  <2>3. f1 \in Seq(U8) /\ n \in U8
    BY <1>0, <1>1, <2>1
  <2>4. g1 = Gen(g.code, g.next_reg, f1, g.reg_used \cup {n}, g.error)
    BY <1>0, <2>2 DEF Gen
  <2> HIDE DEF f1
  <2>5. /\ g1 \in GenState /\ g1.error = g.error /\ g1.code = g.code /\ g1.free_regs = f1
        /\ g1.reg_used = g.reg_used \cup {n} /\ g1.next_reg = g.next_reg
    BY <1>0, <2>3, <2>4, GenType
  <2>6. ASSUME Owned(g, held)
        PROVE  n \notin held /\ Owned(g1, held \cup {n})
    <3>1. IsInjective(f1) /\ Range(f1) = Range(f) \ {n} /\ n \in Range(f)
      BY <1>0, <1>1, <2>1, <2>6, PopFacts DEF Owned, f1
    <3>2. n \notin held /\ n \in 0 .. g.next_reg - 1
      BY <3>1, <2>6 DEF Owned
    <3>3. QED
      BY <2>5, <2>6, <3>1, <3>2 DEF Owned
  <2>7. QED
    BY <1>0, <2>3, <2>5, <2>6 DEF Sound, Grows, Blameless
<1>2. CASE g.free_regs = <<>> /\ g.next_reg >= MaxRegisterCount
  <2>1. n = 0 /\ g1 = fail(g, "register limit")
    BY <1>2, Zenon DEF NextReg, alloc_reg
  <2>2. g1.code = g.code
    BY <2>1, <1>0 DEF fail, Gen
  <2>3. "register limit" \in ResourceError
    BY DEF ResourceError
  <2>4. /\ Sound(g1, held \cup {n}, open)
        /\ Grows(g, g1) /\ Blameless(g, g1)
        /\ g1.error # "none"
    BY <2>1, <2>3, FailSound, Zenon
  <2>5. n \in U8
    <3>1. 0 \in U8
      BY BytecodeAssumption DEF U8
    <3>2. QED
      BY <2>1, <3>1
  <2>6. QED
    BY <2>2, <2>4, <2>5
<1>3. CASE g.free_regs = <<>> /\ g.next_reg < MaxRegisterCount
  <2>1. ~(g.next_reg >= MaxRegisterCount) /\ ~(g.free_regs # <<>>)
    BY <1>0, <1>3, BytecodeAssumption
  <2>2. n = g.next_reg /\ g1 = [g EXCEPT !.next_reg = @ + 1, !.reg_used = @ \cup {n}]
    BY <2>1, Zenon DEF NextReg, alloc_reg
  <2>3. n \in U8 /\ n + 1 \in 0 .. MaxRegisterCount
    BY <1>0, <1>3, <2>2, BytecodeAssumption DEF U8
  <2>4. g1 = Gen(g.code, n + 1, g.free_regs, g.reg_used \cup {n}, g.error)
    BY <1>0, <2>2 DEF Gen
  <2>5. /\ g1 \in GenState /\ g1.error = g.error /\ g1.code = g.code /\ g1.free_regs = g.free_regs
        /\ g1.reg_used = g.reg_used \cup {n} /\ g1.next_reg = n + 1
    BY <1>0, <2>3, <2>4, GenType
  <2>6. ASSUME Owned(g, held)
        PROVE  n \notin held /\ Owned(g1, held \cup {n})
    <3>1. held \subseteq 0 .. n - 1 /\ n \in Nat
      BY <2>2, <2>6, <1>0 DEF Owned
    <3>2. (0 .. n) \ (held \cup {n}) = (0 .. n - 1) \ held
      BY <3>1
    <3>3. QED
      BY <2>2, <2>5, <2>6, <3>1, <3>2 DEF Owned
  <2>7. CodeOk(g.code, g.next_reg, open) => CodeOk(g1.code, g1.next_reg, open)
    BY <1>0, <2>2, <2>3, <2>5, CodeKeepsOk
  <2>8. QED
    BY <1>0, <2>3, <2>5, <2>6, <2>7 DEF Sound, Grows, Blameless
<1>4. QED
  BY <1>0, <1>1, <1>2, <1>3, BytecodeAssumption

\* A register in use is free again.
LEMMA ReleaseSound ==
  ASSUME NEW g, NEW held, NEW open, Sound(g, held, open), NEW r \in U8,
         g.error = "none" => r \in held
  PROVE  /\ Sound(release_reg(g, r), held \ {r}, open)
         /\ Grows(g, release_reg(g, r)) /\ Blameless(g, release_reg(g, r))
         /\ release_reg(g, r).code = g.code
<1> DEFINE g1 == release_reg(g, r)
<1>0. /\ g.free_regs \in Seq(U8) /\ g.next_reg \in 0 .. MaxRegisterCount
      /\ g.reg_used \in SUBSET U8 /\ g.code \in Seq(Slot) /\ g.error \in Error \ InternalError
      /\ g = Gen(g.code, g.next_reg, g.free_regs, g.reg_used, g.error)
      /\ Len(g.code) <= Len(g.code)
  BY GenFields DEF Sound
<1>1. CASE r >= g.next_reg \/ r \notin g.reg_used
  <2>1. g.error # "none"
    BY <1>0, <1>1, BytecodeAssumption DEF Sound, Owned, U8
  <2>2. g1 = g
    BY <1>1, <2>1 DEF release_reg, fail, ok
  <2>3. QED
    BY <1>0, <2>1, <2>2 DEF Sound, Grows, Blameless
<1>2. CASE ~(r >= g.next_reg \/ r \notin g.reg_used)
  <2> DEFINE f1 == Append(g.free_regs, r)
  <2>1. g1 = [g EXCEPT !.reg_used = @ \ {r}, !.free_regs = f1]
    BY <1>2, Zenon DEF release_reg
  <2>2. g1 = Gen(g.code, g.next_reg, f1, g.reg_used \ {r}, g.error)
    BY <1>0, <2>1 DEF Gen
  <2>3. f1 \in Seq(U8)
    BY <1>0
  <2> HIDE DEF f1
  <2>4. /\ g1 \in GenState /\ g1.error = g.error /\ g1.code = g.code /\ g1.free_regs = f1
        /\ g1.reg_used = g.reg_used \ {r} /\ g1.next_reg = g.next_reg
    <3>1. g.reg_used \ {r} \in SUBSET U8
      BY <1>0
    <3>2. QED
      BY <1>0, <2>2, <2>3, <3>1, GenType
  <2>5. ASSUME Owned(g, held)
        PROVE  Owned(g1, held \ {r})
    <3>1. r \in held /\ r \notin Range(g.free_regs) /\ r \in 0 .. g.next_reg - 1
      BY <1>2, <2>5 DEF Owned
    <3>2. IsInjective(f1) /\ Range(f1) = Range(g.free_regs) \cup {r}
      BY <1>0, <2>5, <3>1, PushFacts DEF Owned, f1
    <3>3. QED
      BY <2>4, <2>5, <3>1, <3>2 DEF Owned
  <2>6. QED
    BY <1>0, <2>4, <2>5 DEF Sound, Grows, Blameless
<1>3. QED
  BY <1>1, <1>2

\* Code is added to a sound generator.
LEMMA CodeSound ==
  ASSUME NEW g, NEW held, NEW open, Sound(g, held, open), g.error = "none",
         NEW code \in Seq(Slot), NEW open1, open1 \subseteq 0 .. Len(code) - 1,
         CodeOk(code, g.next_reg, open1), Len(g.code) <= Len(code),
         NEW g1, g1 = [g EXCEPT !.code = code]
  PROVE  /\ Sound(g1, held, open1)
         /\ Grows(g, g1) /\ Blameless(g, g1)
         /\ g1.code = code
         /\ g1.error = "none" /\ g1.next_reg = g.next_reg
<1>1. g1 = Gen(code, g.next_reg, g.free_regs, g.reg_used, g.error)
  BY GenFields DEF Gen, Sound
<1>2. /\ g1 \in GenState /\ g1.code = code /\ g1.next_reg = g.next_reg
      /\ g1.free_regs = g.free_regs /\ g1.reg_used = g.reg_used /\ g1.error = g.error
  BY <1>1, GenType, GenFields DEF Sound
<1>3. QED
  BY <1>2 DEF Sound, Owned, Grows, Blameless

\* An instruction of one slot on registers that are in use.
LEMMA EmitSound ==
  ASSUME NEW g, NEW held, NEW open, Sound(g, held, open),
         NEW op \in OpCode \ {"LoadImm"}, NEW a \in U8, NEW b \in U8, NEW c \in U8, NEW imm \in Int,
         g.error = "none" => RegisterOperands(Instr(op, a, b, c, imm)) \subseteq held,
         op = "LoadField" => (LoadableRegistry(registry) => b \in {1, 2, 4, 8}) /\ c <= 1,
         op \in JumpOps => imm = -1,
         NEW open1, op \in JumpOps => open1 = open \cup {EmitIp(g)}, op \notin JumpOps => open1 = open
  PROVE  LET g1 == emit(g, op, a, b, c, imm)
         IN  /\ Sound(g1, held, open1)
             /\ Grows(g, g1) /\ Blameless(g, g1)
             /\ g1.error = "none" =>
                  /\ Len(g1.code) = Len(g.code) + 1
                  /\ g1.code[Len(g.code) + 1] = Instr(op, a, b, c, imm)
                  /\ g1.next_reg = g.next_reg
<1> DEFINE g1 == emit(g, op, a, b, c, imm)
           ins == Instr(op, a, b, c, imm)
<1>0. g.code \in Seq(Slot) /\ g.next_reg \in Nat /\ Len(g.code) \in Nat /\ Len(g.code) <= Len(g.code)
  BY GenFields, BytecodeAssumption DEF Sound
<1>1. CASE g.error # "none"
  <2>1. g1 = g
    BY <1>1, Zenon DEF emit, ok
  <2>2. QED
    BY <1>0, <1>1, <2>1 DEF Sound, Grows, Blameless
<1>2. CASE g.error = "none" /\ imm \notin I32
  <2>1. g1 = fail(g, "payload range")
    BY <1>2, Zenon DEF emit, ok
  <2>2. "payload range" \in ResourceError
    BY DEF ResourceError
  <2>3. /\ Sound(g1, held, open1)
        /\ Grows(g, g1) /\ Blameless(g, g1)
        /\ g1.error # "none"
    BY <2>1, <2>2, FailSound, Zenon
  <2>4. QED
    BY <2>3
<1>3. CASE g.error = "none" /\ imm \in I32
  <2>1. g1 = [g EXCEPT !.code = Append(@, ins)]
    BY <1>3, Zenon DEF emit, ok
  <2>2. EmitIp(g) = Len(g.code)
    BY <1>3 DEF EmitIp, ok
  <2>3. /\ ins \in Slot /\ ins.op = op /\ ins.b = b /\ ins.c = c /\ ins.aux = imm
    BY <1>3, InstrType
  <2>4. Emittable(ins, g.next_reg)
    BY <1>0, <1>3, <2>3 DEF Emittable, Sound, Owned
  <2> DEFINE code1 == Append(g.code, ins)
  <2>5. /\ code1 \in Seq(Slot) /\ Len(code1) = Len(g.code) + 1
        /\ code1[Len(g.code) + 1] = ins
    BY <1>0, <2>3
  <2>6. CodeOk(code1, g.next_reg, open1)
    <3>1. CodeOk(g.code, g.next_reg, open) /\ open \subseteq 0 .. Len(g.code) - 1
      BY <1>3 DEF Sound
    <3>2. /\ ins.op \in JumpOps => ins.aux = -1 /\ open1 = open \cup {Len(g.code)}
          /\ ins.op \notin JumpOps => open1 = open
      BY <2>2, <2>3
    <3>3. QED
      BY <1>0, <2>4, <3>1, <3>2, CodeAppend
  <2> HIDE DEF code1
  <2>7. open1 \subseteq 0 .. Len(code1) - 1
    BY <1>0, <1>3, <2>2, <2>5 DEF Sound
  <2>8. g1 = [g EXCEPT !.code = code1]
    BY <2>1 DEF code1
  <2>9. Len(g.code) <= Len(code1)
    BY <1>0, <2>5
  <2>10. /\ Sound(g1, held, open1)
         /\ Grows(g, g1) /\ Blameless(g, g1)
         /\ g1.code = code1
         /\ g1.next_reg = g.next_reg
    <3> HIDE DEF g1
    <3>1. code1 \in Seq(Slot) /\ g.error = "none"
      BY <1>3, <2>5
    <3>2. Sound(g1, held, open1)
      BY <2>6, <2>7, <2>8, <2>9, <3>1, CodeSound
    <3>3. Grows(g, g1) /\ Blameless(g, g1)
      BY <2>6, <2>7, <2>8, <2>9, <3>1, CodeSound
    <3>4. g1.code = code1 /\ g1.next_reg = g.next_reg
      BY <2>6, <2>7, <2>8, <2>9, <3>1, CodeSound
    <3>5. QED
      BY <3>2, <3>3, <3>4
  <2>11. QED
    BY <2>5, <2>10
<1>4. QED
  BY <1>1, <1>2, <1>3

\* A LoadImm to a register that is in use.
LEMMA LoadImmSound ==
  ASSUME NEW g, NEW held, NEW open, Sound(g, held, open), NEW a \in U8, NEW w \in Word,
         g.error = "none" => a \in held
  PROVE  LET g1 == emit_load_imm(g, a, w)
         IN  /\ Sound(g1, held, open)
             /\ Grows(g, g1) /\ Blameless(g, g1)
             /\ g1.error = g.error
<1> DEFINE g1 == emit_load_imm(g, a, w)
<1>0. g.code \in Seq(Slot) /\ g.next_reg \in Nat /\ Len(g.code) \in Nat /\ Len(g.code) <= Len(g.code)
  BY GenFields, BytecodeAssumption DEF Sound
<1>1. CASE g.error # "none"
  <2>1. g1 = g
    BY <1>1, Zenon DEF emit_load_imm, ok
  <2>2. QED
    BY <1>0, <1>1, <2>1 DEF Sound, Grows, Blameless
<1>2. CASE g.error = "none"
  <2> DEFINE code1 == g.code \o <<Instr("LoadImm", a, 0, 0, 0), Data(w)>>
  <2>1. g1 = [g EXCEPT !.code = code1]
    BY <1>2, Zenon DEF emit_load_imm, ok
  <2>2. a < g.next_reg
    BY <1>0, <1>2 DEF Sound, Owned
  <2>3. CodeOk(g.code, g.next_reg, open) /\ open \subseteq 0 .. Len(g.code) - 1
    BY <1>2 DEF Sound
  <2>4. /\ code1 \in Seq(Slot) /\ Len(code1) = Len(g.code) + 2
        /\ CodeOk(code1, g.next_reg, open)
    BY <1>0, <2>2, <2>3, CodeLoadImm
  <2> HIDE DEF code1
  <2>5. open \subseteq 0 .. Len(code1) - 1
    BY <1>0, <1>2, <2>4 DEF Sound
  <2>6. Len(g.code) <= Len(code1)
    BY <1>0, <2>4
  <2>7. Sound(g1, held, open) /\ Grows(g, g1) /\ Blameless(g, g1) /\ g1.error = "none"
    <3> HIDE DEF g1
    <3>1. QED
      BY <1>2, <2>1, <2>4, <2>5, <2>6, CodeSound
  <2>8. QED
    BY <1>2, <2>7
<1>3. QED
  BY <1>1, <1>2

\* A jump that was emitted goes to the next instruction.
LEMMA PatchSound ==
  ASSUME NEW g, NEW held, NEW open, Sound(g, held, open), NEW ip \in Int,
         g.error = "none" => ip \in 0 .. Len(g.code) - 1
  PROVE  LET g1 == PatchToHere(g, ip)
         IN  /\ Sound(g1, held, open \ {ip})
             /\ Grows(g, g1) /\ Blameless(g, g1)
<1> DEFINE g1 == PatchToHere(g, ip)
           n  == Len(g.code)
<1>0. /\ g.code \in Seq(Slot) /\ g.next_reg \in Nat /\ n \in Nat /\ n <= n
      /\ g.error \notin InternalError /\ g \in GenState
  BY GenFields, BytecodeAssumption DEF Sound
<1>1. CASE ip < 0 \/ ip >= n
  <2>1. g.error # "none"
    BY <1>0, <1>1
  <2>2. ~(ip >= 0 /\ ip < n)
    BY <1>0, <1>1
  <2>3. g1 = fail(g, "patch")
    BY <1>1, <2>2, Zenon DEF PatchToHere, patch_jump
  <2>4. g1 = g
    BY <2>1, <2>3 DEF fail, ok
  <2>5. QED
    BY <1>0, <2>1, <2>4 DEF Sound, Grows, Blameless
<1>2. CASE ip >= 0 /\ ip < n /\ n \notin I32
  <2>1. g1 = fail(g, "target range")
    <3>1. ~(ip < 0 \/ ip >= n)
      BY <1>0, <1>2
    <3>2. QED
      BY <1>2, <3>1, Zenon DEF PatchToHere, patch_jump
  <2>2. "target range" \in ResourceError
    BY DEF ResourceError
  <2>3. QED
    BY <2>1, <2>2, FailSound, Zenon
<1>3. CASE ip >= 0 /\ ip < n /\ n \in I32
  <2> DEFINE code1 == [g.code EXCEPT ![ip + 1].aux = n]
  <2>1. g1 = [g EXCEPT !.code[ip + 1].aux = n]
    <3>1. ~(ip < 0 \/ ip >= n)
      BY <1>0, <1>3
    <3>2. QED
      BY <1>3, <3>1, Zenon DEF PatchToHere, patch_jump
  <2>2. g1 = [g EXCEPT !.code = code1]
    BY <2>1
  <2>3. ip \in 0 .. n - 1
    BY <1>0, <1>3
  <2>4. code1 \in Seq(Slot) /\ Len(code1) = n
    BY <1>0, <1>3, <2>3, PatchType
  <2>5. CASE g.error = "none"
    <3>1. CodeOk(g.code, g.next_reg, open)
      BY <2>5 DEF Sound
    <3>2. CodeOk(code1, g.next_reg, open \ {ip})
      BY <1>0, <1>3, <2>3, <3>1, CodePatch
    <3> HIDE DEF code1
    <3>3. open \ {ip} \subseteq 0 .. Len(code1) - 1
      BY <2>4, <2>5 DEF Sound
    <3>4. Len(g.code) <= Len(code1)
      BY <1>0, <2>4
    <3>5. Sound(g1, held, open \ {ip}) /\ Grows(g, g1) /\ Blameless(g, g1)
      <4> HIDE DEF g1
      <4>1. QED
        BY <1>0, <2>2, <2>4, <2>5, <3>2, <3>3, <3>4, CodeSound
    <3>6. QED
      BY <3>5
  <2>6. CASE g.error # "none"
    <3> HIDE DEF code1
    <3>1. g1 = Gen(code1, g.next_reg, g.free_regs, g.reg_used, g.error)
      BY <1>0, <2>2, GenFields DEF Gen
    <3>2. g1 \in GenState /\ g1.error = g.error /\ g1.code = code1
      BY <1>0, <2>4, <3>1, GenType, GenFields
    <3>3. QED
      BY <1>0, <2>4, <2>6, <3>2 DEF Sound, Grows, Blameless
  <2>7. QED
    BY <2>5, <2>6
<1>4. QED
  BY <1>0, <1>1, <1>2, <1>3

LEMMA GrowsTransitive ==
  ASSUME NEW g1 \in GenState, NEW g2 \in GenState, NEW g3 \in GenState,
         Grows(g1, g2), Grows(g2, g3)
  PROVE  Grows(g1, g3)
BY GenFields DEF Grows

\* Once it has failed a generator owes nothing.
LEMMA FailedSound ==
  ASSUME NEW g, NEW held, NEW open, Sound(g, held, open), g.error # "none", NEW held1, NEW open1
  PROVE  Sound(g, held1, open1)
BY DEF Sound

-----------------------------------------------------------------------------
(* Lemmas on the emitters of values. *)

LEMMA ZeroIsReg == 0 \in U8 /\ 0 \in I32 /\ 8 \in U8
BY BytecodeAssumption, ExprAssumption DEF U8, I32

\* A failed emitter returns register 0, which nobody uses.
LEMMA FailedGives ==
  ASSUME NEW g, NEW held, NEW open, NEW g1, NEW held1, NEW open1, Sound(g1, held1, open1),
         g1.error # "none", Grows(g, g1), NEW v \in EmitValue
  PROVE  Gives(g, held, open, g1, v)
BY FailedSound DEF Gives, GivesReg, EmitValue

LEMMA UserFailureGives ==
  ASSUME NEW g, NEW held, NEW open, Sound(g, held, open), NEW e \in UserError,
         NEW held1, NEW v \in EmitValue
  PROVE  Gives(g, held1, open, fail(g, e), v) /\ fail(g, e).error # "none"
<1>1. e \in ResourceError \cup UserError
  OBVIOUS
<1>2. Sound(fail(g, e), held, open)
  BY <1>1, FailSound
<1>3. Grows(g, fail(g, e)) /\ fail(g, e).error # "none"
  BY <1>1, FailSound
<1>4. QED
  BY <1>2, <1>3, FailedGives

LEMMA ValueFields ==
  ASSUME NEW r \in U8, NEW t \in ValueType
  PROVE  Value(r, t) \in EmitValue /\ Value(r, t).reg = r /\ Value(r, t).type = t
BY DEF Value, EmitValue

LEMMA ImmediateGives ==
  ASSUME NEW g, NEW held, NEW open, Sound(g, held, open), NEW w \in Word, NEW t \in ValueType
  PROVE  LET r == emit_immediate(g, w, t)
         IN  /\ Gives(g, held, open, r.gen, r.value)
             /\ Blameless(g, r.gen)
             /\ r.value.type = t
<1> DEFINE r  == emit_immediate(g, w, t)
           n  == NextReg(g)
           g1 == alloc_reg(g)
<1>1. /\ n \in U8 /\ Sound(g1, held \cup {n}, open)
      /\ g1.error = "none" => n \notin held
      /\ Grows(g, g1) /\ Blameless(g, g1)
  BY AllocSound
<1>2. CASE g1.error = "none"
  <2> DEFINE g2 == emit_load_imm(g1, n, w)
  <2>1. r.gen = g2 /\ r.value = Value(n, t)
    BY <1>2 DEF emit_immediate, ok
  <2> HIDE DEF r, n, g1
  <2>2. n \in held \cup {n}
    OBVIOUS
  <2>3. Sound(g2, held \cup {n}, open) /\ Grows(g1, g2) /\ Blameless(g1, g2)
    BY <1>1, <2>2, LoadImmSound
  <2> HIDE DEF g2
  <2>4. Grows(g, g2)
    BY <1>1, <2>3, GrowsTransitive DEF Sound
  <2>5. r.value \in EmitValue /\ r.value.reg = n /\ r.value.type = t
    BY <1>1, <2>1, ValueFields
  <2>6. Blameless(g, g2)
    BY <1>1, <2>3 DEF Blameless
  <2>7. Gives(g, held, open, r.gen, r.value)
    BY <1>1, <1>2, <2>1, <2>3, <2>4, <2>5 DEF Gives, GivesReg
  <2>8. QED
    BY <2>1, <2>5, <2>6, <2>7 DEF r
<1>3. CASE g1.error # "none"
  <2>1. r.gen = g1 /\ r.value = Value(0, t)
    BY <1>3 DEF emit_immediate, ok
  <2> HIDE DEF r, n, g1
  <2>2. r.value \in EmitValue /\ r.value.type = t
    BY <2>1, ZeroIsReg DEF Value, EmitValue
  <2>3. QED
    BY <1>1, <1>3, <2>1, <2>2, FailedGives DEF r
<1>4. QED
  BY <1>2, <1>3

LEMMA LoadFieldGives ==
  ASSUME NEW g, NEW held, NEW open, Sound(g, held, open), NEW offset \in Int, NEW size \in U8,
         NEW flag \in {0, 1}, LoadableRegistry(registry) => size \in {1, 2, 4, 8}
  PROVE  LET r == emit_load_field_reg(g, offset, size, flag)
         IN  GivesReg(g, held, open, r.gen, r.value) /\ Blameless(g, r.gen)
<1> DEFINE r  == emit_load_field_reg(g, offset, size, flag)
           n  == NextReg(g)
           g1 == alloc_reg(g)
<1>1. /\ n \in U8 /\ Sound(g1, held \cup {n}, open)
      /\ g1.error = "none" => n \notin held
      /\ Grows(g, g1) /\ Blameless(g, g1)
  BY AllocSound
<1>2. CASE g1.error = "none"
  <2> DEFINE g2 == emit(g1, "LoadField", n, size, flag, offset)
  <2>1. r.gen = g2 /\ r.value = n
    BY <1>2 DEF emit_load_field_reg, ok
  <2> HIDE DEF r, n, g1
  <2>2. PICK op \in OpCode \ {"LoadImm"} : op = "LoadField"
    BY DEF OpCode
  <2>3. RegisterOperands(Instr(op, n, size, flag, offset)) \subseteq held \cup {n}
    BY <2>2, Operands
  <2>4. flag \in U8 /\ flag <= 1
    BY BytecodeAssumption, ExprAssumption DEF U8
  <2>5. op \notin JumpOps
    BY <2>2 DEF JumpOps
  <2>6. /\ Sound(emit(g1, op, n, size, flag, offset), held \cup {n}, open)
        /\ Grows(g1, emit(g1, op, n, size, flag, offset))
        /\ Blameless(g1, emit(g1, op, n, size, flag, offset))
    BY <1>1, <2>3, <2>4, <2>5, EmitSound
  <2>7. Sound(g2, held \cup {n}, open) /\ Grows(g1, g2) /\ Blameless(g1, g2)
    BY <2>2, <2>6
  <2> HIDE DEF g2
  <2>8. Grows(g, g2)
    BY <1>1, <2>7, GrowsTransitive DEF Sound
  <2>9. Blameless(g, g2)
    BY <1>1, <2>7 DEF Blameless
  <2>10. g2.error = "none" => n \notin held
    BY <1>1, <1>2
  <2>11. QED
    BY <1>1, <2>1, <2>7, <2>8, <2>9, <2>10 DEF GivesReg, r
<1>3. CASE g1.error # "none"
  <2>1. r.gen = g1 /\ r.value = 0
    BY <1>3 DEF emit_load_field_reg, ok
  <2> HIDE DEF r, n, g1
  <2>2. Sound(g1, held \cup {r.value}, open)
    BY <1>1, <1>3, FailedSound
  <2>3. QED
    BY <1>1, <1>3, <2>1, <2>2, ZeroIsReg DEF GivesReg, r
<1>4. QED
  BY <1>2, <1>3

\* What becomes of the registers: two operands go, the result is new.
LEMMA EmitIntoGives ==
  ASSUME NEW g, NEW held, NEW open, Sound(g, held, open),
         NEW op \in CmpOps \cup {"And", "Or"}, NEW lhs \in U8, NEW rhs \in U8, NEW t \in ValueType,
         g.error = "none" => lhs \in held /\ rhs \in held /\ lhs # rhs
  PROVE  LET r == EmitInto(g, op, lhs, rhs, t)
         IN  /\ Gives(g, held \ {lhs, rhs}, open, r.gen, r.value)
             /\ Blameless(g, r.gen)
             /\ r.value.type = t
<1> DEFINE r  == EmitInto(g, op, lhs, rhs, t)
           n  == NextReg(g)
           g1 == alloc_reg(g)
           g2 == emit(g1, op, n, lhs, rhs, 0)
           g3 == release_reg(g2, lhs)
           g4 == release_reg(g3, rhs)
<1>1. r.gen = g4 /\ r.value = Value(n, t)
  BY DEF EmitInto
<1>2. /\ n \in U8 /\ Sound(g1, held \cup {n}, open)
      /\ g1.error = "none" => n \notin held
      /\ Grows(g, g1) /\ Blameless(g, g1)
  BY AllocSound
<1> HIDE DEF n, g1, r
<1>3. Sound(g2, held \cup {n}, open) /\ Grows(g1, g2) /\ Blameless(g1, g2)
  <2>1. op \in OpCode \ {"LoadImm"} /\ op \notin JumpOps /\ op # "LoadField"
    BY DEF OpCode, CmpOps, JumpOps
  <2>2. PICK imm \in Int : imm = 0
    OBVIOUS
  <2>3. g1.error = "none" => RegisterOperands(Instr(op, n, lhs, rhs, imm)) \subseteq held \cup {n}
    BY <1>2, <2>1, Operands DEF Grows
  <2>4. /\ Sound(emit(g1, op, n, lhs, rhs, imm), held \cup {n}, open)
        /\ Grows(g1, emit(g1, op, n, lhs, rhs, imm))
        /\ Blameless(g1, emit(g1, op, n, lhs, rhs, imm))
    BY <1>2, <2>1, <2>3, EmitSound
  <2>5. QED
    BY <2>2, <2>4
<1> HIDE DEF g2
<1>4. Sound(g3, (held \cup {n}) \ {lhs}, open) /\ Grows(g2, g3) /\ Blameless(g2, g3)
  <2>1. g2.error = "none" => lhs \in held \cup {n}
    BY <1>2, <1>3 DEF Grows
  <2>2. QED
    BY <1>3, <2>1, ReleaseSound
<1> HIDE DEF g3
<1>5. Sound(g4, ((held \cup {n}) \ {lhs}) \ {rhs}, open) /\ Grows(g3, g4) /\ Blameless(g3, g4)
  <2>1. g3.error = "none" => rhs \in (held \cup {n}) \ {lhs}
    BY <1>2, <1>3, <1>4 DEF Grows
  <2>2. QED
    BY <1>4, <2>1, ReleaseSound
<1> HIDE DEF g4
<1>6. Grows(g, g4)
  BY <1>2, <1>3, <1>4, <1>5, GrowsTransitive DEF Sound
<1>7. Sound(g4, (held \ {lhs, rhs}) \cup {n}, open)
  <2>1. CASE g4.error = "none"
    <3>1. ((held \cup {n}) \ {lhs}) \ {rhs} = (held \ {lhs, rhs}) \cup {n}
      BY <1>2, <1>3, <1>4, <1>5, <2>1 DEF Grows
    <3>2. QED
      BY <1>5, <3>1
  <2>2. CASE g4.error # "none"
    BY <1>5, <2>2, FailedSound
  <2>3. QED
    BY <2>1, <2>2
<1>8. g4.error = "none" => n \notin held \ {lhs, rhs}
  BY <1>2, <1>3, <1>4, <1>5 DEF Grows
<1>9. Blameless(g, g4)
  BY <1>2, <1>3, <1>4, <1>5 DEF Blameless
<1>10. r.value \in EmitValue /\ r.value.reg = n /\ r.value.type = t
  BY <1>1, <1>2, ValueFields
<1>11. Gives(g, held \ {lhs, rhs}, open, r.gen, r.value)
  BY <1>1, <1>2, <1>6, <1>7, <1>8, <1>10 DEF Gives, GivesReg
<1>12. QED
  BY <1>1, <1>9, <1>10, <1>11 DEF r

LEMMA NegationGives ==
  ASSUME NEW g, NEW held, NEW open, Sound(g, held, open), NEW operand \in U8,
         g.error = "none" => operand \in held
  PROVE  LET r == EmitNegation(g, operand)
         IN  /\ Gives(g, held \ {operand}, open, r.gen, r.value)
             /\ Blameless(g, r.gen)
             /\ r.value.type = "Bool"
<1> DEFINE r  == EmitNegation(g, operand)
           n  == NextReg(g)
           g1 == alloc_reg(g)
           g2 == emit(g1, "Not", n, operand, 0, 0)
           g3 == release_reg(g2, operand)
<1>1. r.gen = g3 /\ r.value = Value(n, "Bool")
  BY DEF EmitNegation
<1>2. /\ n \in U8 /\ Sound(g1, held \cup {n}, open)
      /\ g1.error = "none" => n \notin held
      /\ Grows(g, g1) /\ Blameless(g, g1)
  BY AllocSound
<1> HIDE DEF n, g1, r
<1>3. Sound(g2, held \cup {n}, open) /\ Grows(g1, g2) /\ Blameless(g1, g2)
  <2>1. PICK op \in OpCode \ {"LoadImm"}, c \in U8, imm \in Int : op = "Not" /\ c = 0 /\ imm = 0
    BY ZeroIsReg DEF OpCode
  <2>2. op \notin JumpOps /\ op # "LoadField"
    BY <2>1 DEF JumpOps
  <2>3. g1.error = "none" => RegisterOperands(Instr(op, n, operand, c, imm)) \subseteq held \cup {n}
    BY <1>2, <2>1, Operands DEF Grows
  <2>4. /\ Sound(emit(g1, op, n, operand, c, imm), held \cup {n}, open)
        /\ Grows(g1, emit(g1, op, n, operand, c, imm))
        /\ Blameless(g1, emit(g1, op, n, operand, c, imm))
    BY <1>2, <2>2, <2>3, EmitSound
  <2>5. QED
    BY <2>1, <2>4
<1> HIDE DEF g2
<1>4. Sound(g3, (held \cup {n}) \ {operand}, open) /\ Grows(g2, g3) /\ Blameless(g2, g3)
  <2>1. g2.error = "none" => operand \in held \cup {n}
    BY <1>2, <1>3 DEF Grows
  <2>2. QED
    BY <1>3, <2>1, ReleaseSound
<1> HIDE DEF g3
<1>5. Grows(g, g3)
  BY <1>2, <1>3, <1>4, GrowsTransitive DEF Sound
<1>6. Sound(g3, (held \ {operand}) \cup {n}, open)
  <2>1. CASE g3.error = "none"
    <3>1. (held \cup {n}) \ {operand} = (held \ {operand}) \cup {n}
      BY <1>2, <1>3, <1>4, <2>1 DEF Grows
    <3>2. QED
      BY <1>4, <3>1
  <2>2. CASE g3.error # "none"
    BY <1>4, <2>2, FailedSound
  <2>3. QED
    BY <2>1, <2>2
<1>7. g3.error = "none" => n \notin held \ {operand}
  BY <1>2, <1>3, <1>4 DEF Grows
<1>8. Blameless(g, g3)
  BY <1>2, <1>3, <1>4 DEF Blameless
<1>9. r.value \in EmitValue /\ r.value.reg = n /\ r.value.type = "Bool"
  BY <1>1, <1>2 DEF Value, EmitValue, ValueType
<1>10. Gives(g, held \ {operand}, open, r.gen, r.value)
  BY <1>1, <1>2, <1>5, <1>6, <1>7, <1>9 DEF Gives, GivesReg
<1>11. QED
  BY <1>1, <1>8, <1>9, <1>10 DEF r

\* A value of a type that has a truth value becomes a boolean, any other one
\* is an error.
LEMMA EnsureBoolGives ==
  ASSUME NEW g, NEW held, NEW open, Sound(g, held, open), NEW v \in EmitValue,
         g.error = "none" => v.reg \in held
  PROVE  LET r == ensure_bool(g, v)
         IN  /\ Gives(g, held \ {v.reg}, open, r.gen, r.value)
             /\ r.value.type = "Bool"
             /\ v.type \in {"Bool", "Int"} => Blameless(g, r.gen)
             /\ r.gen.error = "none" => v.type \in {"Bool", "Int"}
<1> DEFINE r == ensure_bool(g, v)
<1>0. v.reg \in U8 /\ v.type \in ValueType /\ Grows(g, g) /\ Blameless(g, g)
  BY GenFields DEF EmitValue, Sound, Grows, Blameless
<1>1. CASE v.type = "Bool"
  <2>1. r = [gen |-> g, value |-> v]
    BY <1>1 DEF ensure_bool
  <2>2. r.gen = g /\ r.value = v
    BY <2>1
  <2> HIDE DEF r
  <2>3. Sound(g, (held \ {v.reg}) \cup {v.reg}, open)
    <3>1. CASE g.error = "none"
      <4>1. (held \ {v.reg}) \cup {v.reg} = held
        BY <3>1
      <4>2. QED
        BY <4>1
    <3>2. CASE g.error # "none"
      BY <3>2, FailedSound
    <3>3. QED
      BY <3>1, <3>2
  <2>4. QED
    BY <1>0, <1>1, <2>2, <2>3 DEF Gives, GivesReg, r
<1>2. CASE v.type \in {"Ipv4", "Ipv6"}
  <2>1. r = [gen |-> fail(g, "type mismatch"), value |-> Value(0, "Bool")]
    BY <1>2 DEF ensure_bool
  <2>2. PICK e \in UserError : e = "type mismatch"
    BY DEF UserError
  <2>3. r.gen = fail(g, e) /\ r.value \in EmitValue /\ r.value.type = "Bool"
    <3>1. Value(0, "Bool") \in EmitValue /\ Value(0, "Bool").type = "Bool"
      BY ZeroIsReg DEF Value, EmitValue, ValueType
    <3>2. r.gen = fail(g, "type mismatch") /\ r.value = Value(0, "Bool")
      <4> HIDE DEF r
      <4>1. QED
        BY <2>1
    <3>3. QED
      BY <2>2, <3>1, <3>2, Zenon
  <2> HIDE DEF r
  <2>4. Gives(g, held \ {v.reg}, open, r.gen, r.value) /\ r.gen.error # "none"
    BY <2>3, UserFailureGives
  <2>5. QED
    BY <1>2, <2>3, <2>4 DEF r
<1>3. CASE v.type = "Int"
  <2> DEFINE z == emit_immediate(g, Zero, "Int")
  <2>1. r = EmitInto(z.gen, "CmpNe", v.reg, z.value.reg, "Bool")
    BY <1>3 DEF ensure_bool, emit_compare_regs
  <2> HIDE DEF r
  <2>2. PICK w \in Word, t \in ValueType : w = Zero /\ t = "Int"
    BY ZeroWord DEF ValueType
  <2>3. z = emit_immediate(g, w, t)
    BY <2>2
  <2>4. Gives(g, held, open, z.gen, z.value) /\ Blameless(g, z.gen)
    BY <2>3, ImmediateGives
  <2> HIDE DEF z
  <2>5. PICK op \in CmpOps, b \in ValueType : op = "CmpNe" /\ b = "Bool"
    BY DEF CmpOps, ValueType
  <2> DEFINE zr == z.value.reg
             h1 == held \cup {zr}
  <2>6. /\ Sound(z.gen, h1, open) /\ zr \in U8
        /\ z.gen.error = "none" => v.reg \in h1 /\ zr \in h1 /\ v.reg # zr
    BY <2>4 DEF Gives, GivesReg, Grows
  <2>7. r = EmitInto(z.gen, op, v.reg, zr, b)
    BY <2>1, <2>5
  <2>8. Gives(z.gen, h1 \ {v.reg, zr}, open, r.gen, r.value) /\ Blameless(z.gen, r.gen)
        /\ r.value.type = b
    <3> HIDE DEF h1, zr
    <3>1. op \in CmpOps \cup {"And", "Or"}
      BY <2>5
    <3>2. Gives(z.gen, h1 \ {v.reg, zr}, open, r.gen, r.value)
      BY <1>0, <2>6, <2>7, <3>1, EmitIntoGives
    <3>3. Blameless(z.gen, r.gen)
      BY <1>0, <2>6, <2>7, <3>1, EmitIntoGives
    <3>4. r.value.type = b
      <4>1. r.value = Value(NextReg(z.gen), b)
        BY <2>7 DEF EmitInto
      <4>2. QED
        BY <4>1 DEF Value
    <3>5. QED
      BY <3>2, <3>3, <3>4
  <2>9. Grows(g, r.gen)
    BY <2>4, <2>8, GrowsTransitive DEF Gives, GivesReg, Sound
  <2>10. Blameless(g, r.gen)
    BY <2>4, <2>8 DEF Blameless
  <2>11. Sound(r.gen, (held \ {v.reg}) \cup {r.value.reg}, open)
    <3>1. CASE r.gen.error = "none"
      <4>1. h1 \ {v.reg, zr} = held \ {v.reg}
        BY <2>4, <2>8, <3>1 DEF Gives, GivesReg, Grows
      <4>2. QED
        BY <2>8, <4>1 DEF Gives, GivesReg
    <3>2. CASE r.gen.error # "none"
      BY <2>8, <3>2, FailedSound DEF Gives, GivesReg
    <3>3. QED
      BY <3>1, <3>2
  <2>12. r.gen.error = "none" => r.value.reg \notin held \ {v.reg}
    BY <2>4, <2>8 DEF Gives, GivesReg, Grows
  <2>13. Gives(g, held \ {v.reg}, open, r.gen, r.value)
    BY <2>8, <2>9, <2>11, <2>12 DEF Gives, GivesReg
  <2>14. QED
    BY <1>3, <2>5, <2>8, <2>10, <2>13 DEF r
<1>4. QED
  BY <1>0, <1>1, <1>2, <1>3 DEF ValueType

LEMMA QualifierTypes ==
  ASSUME NEW type
  PROVE  /\ qualifier_value_type(type) \in ValueType
         /\ qualifier_value_type(type) = "Ipv6" <=> type = "ipv6"
         /\ SignFlag(type) \in {0, 1}
<1>1. qualifier_value_type(type) = "Ipv6" <=> type = "ipv6"
  BY DEF qualifier_value_type
<1>2. qualifier_value_type(type) \in ValueType
  BY DEF qualifier_value_type, ValueType
<1>3. SignFlag(type) \in {0, 1}
  BY DEF SignFlag
<1>4. QED
  BY <1>1, <1>2, <1>3

\* A name that is registered, for no IPv6 address, is loaded.
LEMMA IdentifierGives ==
  ASSUME NEW g, NEW held, NEW open, Sound(g, held, open), registry \in Registries, NEW name
  PROVE  LET r     == emit_identifier(g, registry, name)
             known == name \in DOMAIN registry /\ registry[name].type # "ipv6"
         IN  /\ Gives(g, held, open, r.gen, r.value)
             /\ known => Blameless(g, r.gen) /\ r.value.type = qualifier_value_type(registry[name].type)
             /\ ~known => r.gen.error # "none"
<1> DEFINE r == emit_identifier(g, registry, name)
<1>1. CASE name \notin DOMAIN registry
  <2>1. r = [gen |-> fail(g, "not found"), value |-> Value(0, "Int")]
    BY <1>1 DEF emit_identifier
  <2>2. PICK e \in UserError : e = "not found"
    BY DEF UserError
  <2> HIDE DEF r
  <2>3. r.gen = fail(g, "not found") /\ r.value = Value(0, "Int")
    BY <2>1
  <2>4. Value(0, "Int") \in EmitValue
    BY ZeroIsReg DEF Value, EmitValue, ValueType
  <2>5. r.gen = fail(g, e) /\ r.value \in EmitValue
    BY <2>2, <2>3, <2>4, Zenon
  <2>6. Gives(g, held, open, r.gen, r.value) /\ r.gen.error # "none"
    BY <2>5, UserFailureGives
  <2>7. QED
    BY <1>1, <2>6 DEF r
<1>2. CASE name \in DOMAIN registry
  <2> DEFINE info   == registry[name]
             t      == qualifier_value_type(info.type)
             loaded == emit_load_field_reg(g, info.offset, info.size, SignFlag(info.type))
  <2>1. r = IF t = "Ipv6"
            THEN [gen |-> fail(g, "type mismatch"), value |-> Value(0, "Ipv6")]
            ELSE [gen |-> loaded.gen, value |-> Value(loaded.value, t)]
    BY <1>2, Zenon DEF emit_identifier
  <2>2. t \in ValueType /\ (t = "Ipv6" <=> info.type = "ipv6")
    BY QualifierTypes
  <2> HIDE DEF r, t
  <2>3. CASE info.type = "ipv6"
    <3>1. PICK e \in UserError : e = "type mismatch"
      BY DEF UserError
    <3>2. r.gen = fail(g, "type mismatch") /\ r.value = Value(0, "Ipv6")
      BY <2>1, <2>2, <2>3
    <3>3. Value(0, "Ipv6") \in EmitValue
      BY ZeroIsReg DEF Value, EmitValue, ValueType
    <3>4. r.gen = fail(g, e) /\ r.value \in EmitValue
      BY <3>1, <3>2, <3>3, Zenon
    <3>5. Gives(g, held, open, r.gen, r.value) /\ r.gen.error # "none"
      BY <3>4, UserFailureGives
    <3>6. QED
      BY <1>2, <2>3, <3>5 DEF r
  <2>4. CASE info.type # "ipv6"
    <3>1. r.gen = loaded.gen /\ r.value = Value(loaded.value, t)
      BY <2>1, <2>2, <2>4
    <3>2. info.offset \in Int /\ info.size \in U8
      BY <1>2, <2>4, ExprAssumption
    <3>3. LoadableRegistry(registry) => info.size \in {1, 2, 4, 8}
      BY <1>2, <2>4 DEF LoadableRegistry
    <3>4. SignFlag(info.type) \in {0, 1}
      BY QualifierTypes
    <3> HIDE DEF info
    <3>5. GivesReg(g, held, open, loaded.gen, loaded.value)
      BY <3>2, <3>3, <3>4, LoadFieldGives
    <3>6. Blameless(g, loaded.gen)
      BY <3>2, <3>3, <3>4, LoadFieldGives
    <3> HIDE DEF loaded
    <3>7. r.value \in EmitValue /\ r.value.reg = loaded.value /\ r.value.type = t
      BY <2>2, <3>1, <3>5, ValueFields DEF GivesReg
    <3>8. Gives(g, held, open, r.gen, r.value)
      BY <3>1, <3>5, <3>7 DEF Gives
    <3>9. QED
      BY <1>2, <2>4, <3>1, <3>6, <3>7, <3>8 DEF r, t, info
  <2>5. QED
    BY <2>3, <2>4
<1>3. QED
  BY <1>1, <1>2

-----------------------------------------------------------------------------
(* IPv6 values. *)

\* Two registers, one after the other.
LEMMA PairGives ==
  ASSUME NEW g, NEW held, NEW open, NEW g1, NEW hi, NEW g2, NEW lo,
         g \in GenState,
         GivesReg(g, held, open, g1, hi), GivesReg(g1, held \cup {hi}, open, g2, lo),
         NEW p, p = <<hi, lo>>
  PROVE  GivesPair(g, held, open, g2, p)
<1>1. p[1] = hi /\ p[2] = lo
  OBVIOUS
<1>2. Grows(g, g2)
  BY GrowsTransitive DEF GivesReg, Sound
<1>3. (held \cup {hi}) \cup {lo} = held \cup {hi, lo}
  OBVIOUS
<1>4. QED
  BY <1>1, <1>2, <1>3 DEF GivesReg, GivesPair, Grows

\* No registers at all where something is wrong.
LEMMA NoPair ==
  ASSUME NEW g, NEW held, NEW open, Sound(g, held, open), NEW e \in UserError
  PROVE  GivesPair(g, held, open, fail(g, e), <<0, 0>>) /\ fail(g, e).error # "none"
<1>1. e \in ResourceError \cup UserError
  OBVIOUS
<1>2. Grows(g, fail(g, e)) /\ fail(g, e).error # "none"
  BY <1>1, FailSound
<1>3. PICK p : p = <<0, 0>>
  OBVIOUS
<1>4. p[1] = 0 /\ p[2] = 0
  BY <1>3
<1>5. Sound(fail(g, e), held \cup {p[1], p[2]}, open)
  BY <1>1, FailSound
<1>6. GivesPair(g, held, open, fail(g, e), p)
  BY <1>2, <1>4, <1>5, ZeroIsReg DEF GivesPair
<1>7. QED
  BY <1>2, <1>3, <1>6

\* The expressions that stand for an IPv6 address.
IsAddress(e) ==
  \/ e.kind = "Identifier" /\ e.ident \in DOMAIN registry /\ registry[e.ident].type = "ipv6"
  \/ e.kind = "Ipv6" /\ e.value # Malformed

LEMMA AddressGives ==
  ASSUME NEW g, NEW held, NEW open, Sound(g, held, open), registry \in Registries, NEW e \in Expr
  PROVE  LET r == emit_ipv6_value(g, registry, e)
         IN  /\ GivesPair(g, held, open, r.gen, r.value)
             /\ IsAddress(e) => Blameless(g, r.gen)
             /\ ~IsAddress(e) => r.gen.error # "none"
<1> DEFINE r == emit_ipv6_value(g, registry, e)
<1>0. g \in GenState
  BY DEF Sound
<1>1. ASSUME NEW message \in UserError, r = [gen |-> fail(g, message), value |-> <<0, 0>>],
             ~IsAddress(e)
      PROVE  GivesPair(g, held, open, r.gen, r.value) /\ r.gen.error # "none"
  <2> HIDE DEF r
  <2>1. r.gen = fail(g, message) /\ r.value = <<0, 0>>
    BY <1>1
  <2>2. QED
    BY <2>1, NoPair, Zenon
<1>2. "not found" \in UserError /\ "type mismatch" \in UserError /\ "bad literal" \in UserError
  BY DEF UserError
<1>3. CASE e.kind = "Identifier" /\ IsAddress(e)
  <2> DEFINE offset == registry[e.ident].offset
             hi == emit_load_field_reg(g, offset, 8, 0)
             lo == emit_load_field_reg(hi.gen, LowHalf(offset), 8, 0)
  <2>1. e.ident \in DOMAIN registry /\ registry[e.ident].type = "ipv6"
    BY <1>3 DEF IsAddress
  <2>2. r = emit_ipv6_identifier(g, registry, e.ident)
    BY <1>3, Zenon DEF emit_ipv6_value
  <2>3. r = [gen |-> lo.gen, value |-> <<hi.value, lo.value>>]
    BY <2>1, <2>2, Zenon DEF emit_ipv6_identifier
  <2>4. offset \in Nat /\ LowHalf(offset) \in Int
    BY <2>1, ExprAssumption, BytecodeAssumption DEF LowHalf
  <2>5. PICK size \in U8, flag \in {0, 1} : size = 8 /\ flag = 0
    BY ZeroIsReg
  <2>6. size \in {1, 2, 4, 8}
    BY <2>5
  <2> DEFINE hi1 == emit_load_field_reg(g, offset, size, flag)
             lo1 == emit_load_field_reg(hi1.gen, LowHalf(offset), size, flag)
  <2>7. hi1 = hi /\ lo1 = lo
    BY <2>5
  <2> HIDE DEF hi, lo, r, offset
  <2>8. GivesReg(g, held, open, hi1.gen, hi1.value)
    BY <2>4, <2>6, LoadFieldGives
  <2>9. Blameless(g, hi1.gen)
    BY <2>4, <2>6, LoadFieldGives
  <2> HIDE DEF hi1
  <2>10. Sound(hi1.gen, held \cup {hi1.value}, open)
    BY <2>8 DEF GivesReg
  <2>11. GivesReg(hi1.gen, held \cup {hi1.value}, open, lo1.gen, lo1.value)
    BY <2>4, <2>6, <2>10, LoadFieldGives
  <2>12. Blameless(hi1.gen, lo1.gen)
    BY <2>4, <2>6, <2>10, LoadFieldGives
  <2> HIDE DEF lo1
  <2>13. r.gen = lo1.gen /\ r.value = <<hi1.value, lo1.value>>
    BY <2>3, <2>7
  <2>14. GivesPair(g, held, open, r.gen, r.value)
    BY <1>0, <2>8, <2>11, <2>13, PairGives
  <2>15. Blameless(g, r.gen)
    BY <2>9, <2>12, <2>13 DEF Blameless
  <2>16. QED
    BY <1>3, <2>14, <2>15 DEF r
<1>4. CASE e.kind = "Ipv6" /\ IsAddress(e)
  <2> DEFINE hi == emit_immediate(g, e.value.hi, "Int")
             lo == emit_immediate(hi.gen, e.value.lo, "Int")
  <2>1. e.value # Malformed /\ e.value \in [hi : Word, lo : Word]
    BY <1>4, ExprAssumption DEF IsAddress
  <2>2. r = emit_ipv6_literal(g, e.value)
    BY <1>4 DEF emit_ipv6_value
  <2>3. r = [gen |-> lo.gen, value |-> <<hi.value.reg, lo.value.reg>>]
    BY <2>1, <2>2, Zenon DEF emit_ipv6_literal
  <2>4. e.value.hi \in Word /\ e.value.lo \in Word
    BY <2>1
  <2>5. PICK t \in ValueType : t = "Int"
    BY DEF ValueType
  <2> DEFINE hi1 == emit_immediate(g, e.value.hi, t)
             lo1 == emit_immediate(hi1.gen, e.value.lo, t)
  <2>6. hi1 = hi /\ lo1 = lo
    BY <2>5
  <2> HIDE DEF hi, lo, r
  <2>7. Gives(g, held, open, hi1.gen, hi1.value) /\ Blameless(g, hi1.gen)
    BY <2>4, ImmediateGives
  <2> HIDE DEF hi1
  <2>8. Sound(hi1.gen, held \cup {hi1.value.reg}, open)
    BY <2>7 DEF Gives, GivesReg
  <2>9. Gives(hi1.gen, held \cup {hi1.value.reg}, open, lo1.gen, lo1.value)
        /\ Blameless(hi1.gen, lo1.gen)
    BY <2>4, <2>8, ImmediateGives
  <2> HIDE DEF lo1
  <2>10. r.gen = lo1.gen /\ r.value = <<hi1.value.reg, lo1.value.reg>>
    BY <2>3, <2>6
  <2>11. GivesPair(g, held, open, r.gen, r.value)
    BY <1>0, <2>7, <2>9, <2>10, PairGives DEF Gives
  <2>12. Blameless(g, r.gen)
    BY <2>7, <2>9, <2>10 DEF Blameless
  <2>13. QED
    BY <1>4, <2>11, <2>12 DEF r
<1>5. CASE ~IsAddress(e)
  <2>1. \E message \in UserError : r = [gen |-> fail(g, message), value |-> <<0, 0>>]
    <3>1. CASE e.kind = "Identifier" /\ e.ident \notin DOMAIN registry
      <4>1. r = emit_ipv6_identifier(g, registry, e.ident)
        BY <3>1, Zenon DEF emit_ipv6_value
      <4>2. r = [gen |-> fail(g, "not found"), value |-> <<0, 0>>]
        BY <3>1, <4>1, Zenon DEF emit_ipv6_identifier
      <4>3. QED
        BY <1>2, <4>2
    <3>2. CASE e.kind = "Identifier" /\ e.ident \in DOMAIN registry
      <4>1. r = emit_ipv6_identifier(g, registry, e.ident)
        BY <3>2, Zenon DEF emit_ipv6_value
      <4>2. registry[e.ident].type # "ipv6"
        BY <1>5, <3>2 DEF IsAddress
      <4>3. r = [gen |-> fail(g, "type mismatch"), value |-> <<0, 0>>]
        BY <3>2, <4>1, <4>2, Zenon DEF emit_ipv6_identifier
      <4>4. QED
        BY <1>2, <4>3
    <3>3. CASE e.kind = "Ipv6"
      <4>1. r = emit_ipv6_literal(g, e.value)
        BY <3>3 DEF emit_ipv6_value
      <4>2. e.value = Malformed
        BY <1>5, <3>3 DEF IsAddress
      <4>3. r = [gen |-> fail(g, "bad literal"), value |-> <<0, 0>>]
        BY <4>1, <4>2, Zenon DEF emit_ipv6_literal
      <4>4. QED
        BY <1>2, <4>3
    <3>4. CASE e.kind # "Identifier" /\ e.kind # "Ipv6"
      <4>1. r = [gen |-> fail(g, "type mismatch"), value |-> <<0, 0>>]
        BY <3>4, Zenon DEF emit_ipv6_value
      <4>2. QED
        BY <1>2, <4>1
    <3>5. QED
      BY <3>1, <3>2, <3>3, <3>4
  <2>2. QED
    BY <1>1, <1>5, <2>1
<1>6. QED
  <2>1. IsAddress(e) => e.kind = "Identifier" \/ e.kind = "Ipv6"
    BY DEF IsAddress
  <2>2. QED
    BY <1>3, <1>4, <1>5, <2>1

LEMMA AddressCompareGives ==
  ASSUME NEW g, NEW held, NEW open, Sound(g, held, open), registry \in Registries,
         NEW op \in {"CmpEq", "CmpNe"}, NEW e1 \in Expr, NEW e2 \in Expr
  PROVE  LET r == emit_ipv6_compare(g, registry, op, e1, e2)
         IN  /\ Gives(g, held, open, r.gen, r.value)
             /\ r.value.type = "Bool"
             /\ IsAddress(e1) /\ IsAddress(e2) => Blameless(g, r.gen)
             /\ ~(IsAddress(e1) /\ IsAddress(e2)) => r.gen.error # "none"
<1> DEFINE lhs  == emit_ipv6_value(g, registry, e1)
           rhs  == emit_ipv6_value(lhs.gen, registry, e2)
           hi   == emit_compare_regs(rhs.gen, "CmpEq", lhs.value[1], rhs.value[1])
           lo   == emit_compare_regs(hi.gen, "CmpEq", lhs.value[2], rhs.value[2])
           both == EmitInto(lo.gen, "And", hi.value.reg, lo.value.reg, "Bool")
           neg  == EmitNegation(both.gen, both.value.reg)
           r    == emit_ipv6_compare(g, registry, op, e1, e2)
           two  == held \cup {lhs.value[1], lhs.value[2]}
           four == two \cup {rhs.value[1], rhs.value[2]}
           left == (four \ {lhs.value[1], rhs.value[1]}) \cup {hi.value.reg}
           last == (left \ {lhs.value[2], rhs.value[2]}) \cup {lo.value.reg}
<1>1. /\ r = CASE ~ok(rhs.gen)                 -> [gen |-> rhs.gen, value |-> Value(0, "Bool")]
               [] ok(rhs.gen) /\ ~ok(lo.gen)   -> [gen |-> lo.gen, value |-> Value(0, "Bool")]
               [] ok(rhs.gen) /\ ok(lo.gen) /\ op = "CmpEq" -> both
               [] OTHER                        -> neg
  BY Zenon DEF emit_ipv6_compare
<1>2. PICK eq \in CmpOps \cup {"And", "Or"}, and \in CmpOps \cup {"And", "Or"}, t \in ValueType :
        eq = "CmpEq" /\ and = "And" /\ t = "Bool"
  BY DEF CmpOps, ValueType
<1> DEFINE hi1   == EmitInto(rhs.gen, eq, lhs.value[1], rhs.value[1], t)
           lo1   == EmitInto(hi.gen, eq, lhs.value[2], rhs.value[2], t)
           both1 == EmitInto(lo.gen, and, hi.value.reg, lo.value.reg, t)
<1>3. hi = hi1 /\ lo = lo1 /\ both = both1
  BY <1>2 DEF emit_compare_regs
<1> HIDE DEF r
<1>4. /\ GivesPair(g, held, open, lhs.gen, lhs.value)
      /\ IsAddress(e1) => Blameless(g, lhs.gen)
      /\ ~IsAddress(e1) => lhs.gen.error # "none"
  BY AddressGives
<1> HIDE DEF lhs
<1>5. Sound(lhs.gen, two, open)
  BY <1>4 DEF GivesPair
<1>6. /\ GivesPair(lhs.gen, two, open, rhs.gen, rhs.value)
      /\ IsAddress(e2) => Blameless(lhs.gen, rhs.gen)
      /\ ~IsAddress(e2) => rhs.gen.error # "none"
  BY <1>5, AddressGives
<1> HIDE DEF rhs
<1>7. /\ Sound(rhs.gen, four, open)
      /\ {lhs.value[1], lhs.value[2], rhs.value[1], rhs.value[2]} \subseteq U8
      /\ Grows(g, lhs.gen) /\ Grows(lhs.gen, rhs.gen)
  BY <1>4, <1>6 DEF GivesPair
<1>8. rhs.gen.error = "none" =>
        /\ lhs.value[1] # lhs.value[2] /\ lhs.value[1] \notin held /\ lhs.value[2] \notin held
        /\ rhs.value[1] # rhs.value[2] /\ rhs.value[1] \notin two /\ rhs.value[2] \notin two
  BY <1>4, <1>6, <1>7 DEF GivesPair, Grows
<1>9. rhs.gen.error = "none" =>
        /\ lhs.value[1] \in four /\ rhs.value[1] \in four /\ lhs.value[1] # rhs.value[1]
        /\ lhs.value[2] \in left /\ rhs.value[2] \in left /\ lhs.value[2] # rhs.value[2]
        /\ hi.value.reg \notin four \ {lhs.value[1], rhs.value[1]}
           /\ lo.value.reg \notin left \ {lhs.value[2], rhs.value[2]} =>
             /\ hi.value.reg \in last /\ lo.value.reg \in last /\ hi.value.reg # lo.value.reg
             /\ last \ {hi.value.reg, lo.value.reg} = held
  <2> HIDE DEF hi, lo
  <2>1. SUFFICES ASSUME rhs.gen.error = "none"
                 PROVE  /\ lhs.value[1] \in four /\ rhs.value[1] \in four
                        /\ lhs.value[1] # rhs.value[1]
                        /\ lhs.value[2] \in left /\ rhs.value[2] \in left
                        /\ lhs.value[2] # rhs.value[2]
                        /\ hi.value.reg \notin four \ {lhs.value[1], rhs.value[1]}
                           /\ lo.value.reg \notin left \ {lhs.value[2], rhs.value[2]} =>
                             /\ hi.value.reg \in last /\ lo.value.reg \in last
                             /\ hi.value.reg # lo.value.reg
                             /\ last \ {hi.value.reg, lo.value.reg} = held
    OBVIOUS
  <2>2. /\ lhs.value[1] # lhs.value[2] /\ lhs.value[1] \notin held /\ lhs.value[2] \notin held
        /\ rhs.value[1] # rhs.value[2] /\ rhs.value[1] \notin held \cup {lhs.value[1], lhs.value[2]}
        /\ rhs.value[2] \notin held \cup {lhs.value[1], lhs.value[2]}
    BY <1>8, <2>1
  <2>3. /\ four = (held \cup {lhs.value[1], lhs.value[2]}) \cup {rhs.value[1], rhs.value[2]}
        /\ left = (four \ {lhs.value[1], rhs.value[1]}) \cup {hi.value.reg}
        /\ last = (left \ {lhs.value[2], rhs.value[2]}) \cup {lo.value.reg}
    OBVIOUS
  <2> HIDE DEF four, left, last
  <2>4. /\ lhs.value[1] \in four /\ rhs.value[1] \in four /\ lhs.value[1] # rhs.value[1]
        /\ lhs.value[2] \in left /\ rhs.value[2] \in left /\ lhs.value[2] # rhs.value[2]
    BY <2>2, <2>3
  <2>5. ASSUME hi.value.reg \notin four \ {lhs.value[1], rhs.value[1]},
               lo.value.reg \notin left \ {lhs.value[2], rhs.value[2]}
        PROVE  /\ hi.value.reg \in last /\ lo.value.reg \in last
               /\ hi.value.reg # lo.value.reg
               /\ last \ {hi.value.reg, lo.value.reg} = held
    BY <2>2, <2>3, <2>5
  <2>6. QED
    BY <2>4, <2>5
<1>10. Gives(rhs.gen, four \ {lhs.value[1], rhs.value[1]}, open, hi1.gen, hi1.value)
       /\ Blameless(rhs.gen, hi1.gen)
  <2> HIDE DEF four, hi, lo
  <2>1. rhs.gen.error = "none" =>
          /\ lhs.value[1] \in four /\ rhs.value[1] \in four /\ lhs.value[1] # rhs.value[1]
    BY <1>9 DEF four
  <2>2. Sound(rhs.gen, four, open)
    BY <1>7 DEF four
  <2>3. lhs.value[1] \in U8 /\ rhs.value[1] \in U8
    BY <1>7
  <2>4. QED
    BY <2>1, <2>2, <2>3, EmitIntoGives
<1> HIDE DEF hi1, lo1, both1, hi, lo, both, neg
<1>11. Gives(rhs.gen, four \ {lhs.value[1], rhs.value[1]}, open, hi.gen, hi.value)
       /\ Blameless(rhs.gen, hi.gen)
  BY <1>3, <1>10
<1>12. Sound(hi.gen, left, open) /\ Grows(rhs.gen, hi.gen) /\ hi.value.reg \in U8
  BY <1>11 DEF Gives, GivesReg
<1>13. Gives(hi.gen, left \ {lhs.value[2], rhs.value[2]}, open, lo.gen, lo.value)
       /\ Blameless(hi.gen, lo.gen)
  <2> HIDE DEF four, left
  <2>1. hi.gen.error = "none" =>
          /\ lhs.value[2] \in left /\ rhs.value[2] \in left /\ lhs.value[2] # rhs.value[2]
    BY <1>9, <1>12 DEF four, left, Grows
  <2>2. lhs.value[2] \in U8 /\ rhs.value[2] \in U8
    BY <1>7
  <2>3. Gives(hi.gen, left \ {lhs.value[2], rhs.value[2]}, open, lo1.gen, lo1.value)
        /\ Blameless(hi.gen, lo1.gen)
    BY <2>1, <1>12, <2>2, EmitIntoGives DEF lo1
  <2>4. QED
    BY <1>3, <2>3
<1>14. Sound(lo.gen, last, open) /\ Grows(hi.gen, lo.gen) /\ lo.value.reg \in U8
  BY <1>13 DEF Gives, GivesReg
<1>15. lo.gen.error = "none" =>
         /\ hi.value.reg \in last /\ lo.value.reg \in last /\ hi.value.reg # lo.value.reg
         /\ last \ {hi.value.reg, lo.value.reg} = held
  <2>1. lo.gen.error = "none" => rhs.gen.error = "none" /\ hi.gen.error = "none"
    BY <1>12, <1>14 DEF Grows
  <2>2. QED
    BY <1>9, <1>11, <1>13, <2>1 DEF Gives, GivesReg
<1> HIDE DEF last, left, four, two
<1>16. Gives(lo.gen, last \ {hi.value.reg, lo.value.reg}, open, both.gen, both.value)
       /\ Blameless(lo.gen, both.gen) /\ both.value.type = "Bool"
  <2>1. Gives(lo.gen, last \ {hi.value.reg, lo.value.reg}, open, both1.gen, both1.value)
        /\ Blameless(lo.gen, both1.gen) /\ both1.value.type = t
    <3>1. hi.value.reg \in U8 /\ lo.value.reg \in U8
      BY <1>12, <1>14
    <3>2. lo.gen.error = "none" =>
            hi.value.reg \in last /\ lo.value.reg \in last /\ hi.value.reg # lo.value.reg
      BY <1>15
    <3>3. Gives(lo.gen, last \ {hi.value.reg, lo.value.reg}, open, both1.gen, both1.value)
      BY <3>1, <3>2, <1>14, EmitIntoGives DEF both1
    <3>4. Blameless(lo.gen, both1.gen)
      BY <3>1, <3>2, <1>14, EmitIntoGives DEF both1
    <3>5. both1.value.type = t
      BY DEF both1, EmitInto, Value
    <3>6. QED
      BY <3>3, <3>4, <3>5
  <2>2. QED
    BY <1>2, <1>3, <2>1
<1>17. Grows(g, lo.gen)
  <2>1. /\ g \in GenState /\ lhs.gen \in GenState /\ rhs.gen \in GenState
        /\ hi.gen \in GenState /\ lo.gen \in GenState
    BY <1>5, <1>7, <1>12, <1>14 DEF Sound
  <2>2. Grows(g, rhs.gen)
    BY <2>1, <1>7, GrowsTransitive
  <2>3. Grows(g, hi.gen)
    BY <2>1, <2>2, <1>12, GrowsTransitive
  <2>4. QED
    BY <2>1, <2>3, <1>14, GrowsTransitive
<1>18. IsAddress(e1) /\ IsAddress(e2) =>
         Blameless(g, rhs.gen) /\ Blameless(g, lo.gen) /\ Blameless(g, both.gen)
  BY <1>4, <1>6, <1>11, <1>13, <1>16 DEF Blameless
<1>19. lo.gen.error = "none" => IsAddress(e1) /\ IsAddress(e2)
  BY <1>4, <1>6, <1>7, <1>12, <1>14 DEF Grows
<1>20. CASE rhs.gen.error # "none"
  <2>1. ~ok(rhs.gen)
    BY <1>20 DEF ok
  <2>2. r = [gen |-> rhs.gen, value |-> Value(0, "Bool")]
    BY <1>1, <2>1, Zenon
  <2>3. r.gen = rhs.gen /\ r.value = Value(0, "Bool")
    BY <2>2
  <2>4. Grows(g, rhs.gen)
    BY <1>5, <1>7, GrowsTransitive DEF Sound
  <2>5. r.value \in EmitValue /\ r.value.type = "Bool"
    BY <2>3, ZeroIsReg, <1>2, ValueFields
  <2>6. Gives(g, held, open, r.gen, r.value)
    BY <1>7, <1>20, <2>3, <2>4, <2>5, FailedGives
  <2>7. QED
    BY <1>18, <1>20, <2>3, <2>5, <2>6 DEF r
<1>21. CASE rhs.gen.error = "none" /\ lo.gen.error # "none"
  <2>1. ok(rhs.gen) /\ ~ok(lo.gen)
    BY <1>21 DEF ok
  <2>2. r = [gen |-> lo.gen, value |-> Value(0, "Bool")]
    BY <1>1, <2>1, Zenon
  <2>3. r.gen = lo.gen /\ r.value = Value(0, "Bool")
    BY <2>2
  <2>4. r.value \in EmitValue /\ r.value.type = "Bool"
    BY <2>3, ZeroIsReg, <1>2, ValueFields
  <2>5. Gives(g, held, open, r.gen, r.value)
    BY <1>14, <1>17, <1>21, <2>3, <2>4, FailedGives
  <2>6. QED
    BY <1>18, <1>21, <2>3, <2>4, <2>5 DEF r
<1>22. CASE rhs.gen.error = "none" /\ lo.gen.error = "none"
  <2>1. ok(rhs.gen) /\ ok(lo.gen)
    BY <1>22 DEF ok
  <2>2. Gives(lo.gen, held, open, both.gen, both.value)
    BY <1>15, <1>16, <1>22
  <2>3. Gives(g, held, open, both.gen, both.value)
    <3>1. Grows(g, both.gen)
      BY <1>14, <1>17, <2>2, GrowsTransitive DEF Gives, GivesReg, Sound
    <3>2. QED
      BY <2>2, <3>1 DEF Gives, GivesReg
  <2>4. CASE op = "CmpEq"
    <3>1. r = both
      BY <1>1, <2>1, <2>4, Zenon
    <3>2. QED
      BY <1>16, <1>18, <1>19, <1>22, <2>3, <3>1 DEF r
  <2>5. CASE op # "CmpEq"
    <3>1. r = neg
      BY <1>1, <2>1, <2>5, Zenon
    <3>2. Sound(both.gen, held \cup {both.value.reg}, open) /\ both.value.reg \in U8
      BY <2>3 DEF Gives, GivesReg
    <3>3. /\ Gives(both.gen, (held \cup {both.value.reg}) \ {both.value.reg}, open, neg.gen, neg.value)
          /\ Blameless(both.gen, neg.gen)
          /\ neg.value.type = "Bool"
      BY <3>2, NegationGives DEF neg
    <3>4. Grows(g, both.gen) /\ (both.gen.error = "none" => both.value.reg \notin held)
      BY <2>3 DEF Gives, GivesReg
    <3>5. Grows(both.gen, neg.gen) /\ Sound(neg.gen, ((held \cup {both.value.reg}) \ {both.value.reg}) \cup {neg.value.reg}, open)
      BY <3>3 DEF Gives, GivesReg
    <3>6. Grows(g, neg.gen)
      BY <3>2, <3>4, <3>5, <1>5, <1>7, <1>17, GrowsTransitive DEF Gives, GivesReg, Sound
    <3>7. Gives(g, held, open, neg.gen, neg.value)
      <4>1. CASE neg.gen.error = "none"
        <5>1. (held \cup {both.value.reg}) \ {both.value.reg} = held
          BY <3>4, <3>5, <4>1 DEF Grows
        <5>2. QED
          BY <3>3, <3>6, <5>1 DEF Gives, GivesReg
      <4>2. CASE neg.gen.error # "none"
        BY <3>3, <3>5, <3>6, <4>2, FailedGives DEF Gives
      <4>3. QED
        BY <4>1, <4>2
    <3>8. QED
      BY <1>18, <1>19, <1>22, <3>1, <3>3, <3>7 DEF r, Blameless
  <2>6. QED
    BY <2>4, <2>5
<1>23. QED
  BY <1>20, <1>21, <1>22

-----------------------------------------------------------------------------
(***************************************************************************)
(* The machine: what the waiting emitters keep, and what they know of the  *)
(* types.                                                                  *)
(***************************************************************************)

TypeOf(e) == TypeIn(registry)[e]

\* If e has no type, or one that no operator takes, the call must fail.
Dooms(e) == TypeOf(e) \in {"Error", "Ipv6"} => ~WellTyped(root, registry)

\* The operands emit_compare lets through.
Comparable(e) ==
  LET types == {resolve_expr_type(e.left), resolve_expr_type(e.right)}
  IN  /\ ~Unresolved(e.left) /\ ~Unresolved(e.right)
      /\ types \subseteq {"Bool", "Int"} \/ (types = {"Ipv4"} /\ e.kind \in {"Eq", "Ne"})

FrameType == [expr : Expr, at : {"operand", "lhs", "rhs"}, lhs : EmitValue, dst : U8, ip : Int]

FrameOk(f) ==
  /\ f.expr.kind \in Binary \cup {"Not"}
  /\ f.at = "operand" <=> f.expr.kind = "Not"
  /\ f.expr.kind \in Comparing => Comparable(f.expr)
  /\ Dooms(f.expr)

\* What is known of the left operand once it has been emitted.
FrameTyped(f) ==
  f.at = "rhs" => IF f.expr.kind \in Logical
                  THEN TypeOf(f.expr.left) \in {"Bool", "Int"}
                  ELSE f.lhs.type = TypeOf(f.expr.left)

\* The operand an emitter waits for, and what the innermost one waits for.
Operand(f) == IF f.at = "rhs" THEN f.expr.right ELSE f.expr.left
Awaited(s) == IF s = <<>> THEN root ELSE Operand(s[Len(s)])

\* The register an emitter keeps, those of all of them, and the places of the
\* jumps they will patch.
KeptOf(f) == IF f.expr.kind \in Logical THEN f.dst ELSE f.lhs.reg
Rhs(s)    == {i \in 1 .. Len(s) : s[i].at = "rhs"}
Tests(s)  == {i \in Rhs(s) : s[i].expr.kind \in Logical}
Held(s)   == {KeptOf(s[i]) : i \in Rhs(s)}
OpenOf(s) == {s[i].ip : i \in Tests(s)}

StackOk(s) ==
  /\ s \in Seq(FrameType)
  /\ \A i \in 1 .. Len(s) : /\ FrameOk(s[i])
                            /\ s[i].expr = IF i = 1 THEN root ELSE Operand(s[i - 1])

\* Nothing is kept twice.
Apart(s) ==
  /\ \A i, j \in Rhs(s) : i # j => KeptOf(s[i]) # KeptOf(s[j])
  /\ \A i, j \in Tests(s) : i # j => s[i].ip # s[j].ip
  /\ \A i \in 1 .. Len(s) : FrameTyped(s[i])

\* The emitters of s wait while the generator is in state g.
Waiting(g, s) ==
  /\ StackOk(s)
  /\ g.error = "none" => Apart(s)
  /\ g.error \in UserError => ~WellTyped(root, registry)

\* emit_expr is called with e, or has returned v to the innermost of them.
Called(e, g, s) ==
  /\ Waiting(g, s)
  /\ e = Awaited(s) /\ Dooms(e)
  /\ Sound(g, Held(s), OpenOf(s))

Returns(v, g, s) ==
  /\ Waiting(g, s)
  /\ v \in EmitValue
  /\ Sound(g, Held(s) \cup {v.reg}, OpenOf(s))
  /\ g.error = "none" => v.reg \notin Held(s) /\ v.type = TypeOf(Awaited(s))

Inv ==
  /\ root \in Roots /\ registry \in Registries /\ node \in Expr /\ value \in EmitValue
  /\ mode \in {"enter", "return", "done"}
  /\ StackOk(stack)
  /\ mode = "enter" => Called(node, gen, stack)
  /\ mode = "return" => Returns(value, gen, stack)
  /\ mode # "done" => register_count = 0 /\ status = "none"
  /\ mode = "done" => /\ gen \in GenState /\ gen.error \notin InternalError
                      /\ register_count \in 0 .. MaxRegisterCount
                      /\ status \in {"OK", "QUALIFIER_NOT_FOUND", "TYPE_MISMATCH", "PARSE", "CODEGEN"}
                      /\ CompiledSound /\ StatusMatchesTyping

-----------------------------------------------------------------------------
(* Recursion over expressions, which are finite trees. *)

\* A set of numbers has a least one.
LEMMA LeastNatural ==
  ASSUME NEW T \in SUBSET Nat, T # {}
  PROVE  \E x \in T : \A y \in T : x <= y
<1> DEFINE R == OpToRel(<, Nat)
<1>1. IsWellFoundedOn(R, Nat)
  BY NatLessThanWellFounded
<1>2. \A x, y \in Nat : <<y, x>> \in R <=> y < x
  BY DEF OpToRel
<1> HIDE DEF R
<1>3. PICK x \in T : \A y \in T : ~(<<y, x>> \in R)
  BY <1>1, WFMin
<1>4. ASSUME NEW y \in T PROVE x <= y
  <2>1. x \in Nat /\ y \in Nat
    OBVIOUS
  <2>2. ~(y < x)
    BY <1>2, <1>3, <2>1
  <2>3. QED
    BY <2>1, <2>2
<1>5. QED
  BY <1>4

\* The operands of an expression are expressions.
LEMMA ChildrenOf ==
  ASSUME NEW e \in Expr
  PROVE  /\ Children(e) \subseteq Expr
         /\ e.kind = "Not" => Children(e) = {e.left}
         /\ e.kind \in Binary => Children(e) = {e.left, e.right}
<1>1. e.kind = "Not" => e.kind \notin Binary
  BY DEF Binary, Logical, Comparing, Bitwise
<1>2. CASE e.kind = "Not"
  BY <1>1, <1>2, ExprAssumption, Zenon DEF Children
<1>3. CASE e.kind \in Binary
  <2>1. Children(e) = {e.left, e.right}
    BY <1>1, <1>3, Zenon DEF Children
  <2>2. QED
    BY <1>1, <1>3, <2>1, ExprAssumption
<1>4. CASE e.kind # "Not" /\ e.kind \notin Binary
  BY <1>4, Zenon DEF Children
<1>5. QED
  BY <1>2, <1>3, <1>4

\* What holds of an expression when it holds of its operands holds of all.
LEMMA ExprInduction ==
  ASSUME NEW S, \A e \in Expr : Children(e) \subseteq S => e \in S
  PROVE  Expr \subseteq S
<1> DEFINE T == {Height[e] : e \in Expr \ S}
<1> SUFFICES ASSUME T # {} PROVE FALSE
  OBVIOUS
<1>1. \A e \in Expr : Height[e] \in Nat /\ \A x \in Children(e) : Height[x] < Height[e]
  BY TreeAssumption
<1>2. T \in SUBSET Nat
  BY <1>1
<1>3. PICK n \in T : \A m \in T : n <= m
  BY <1>2, LeastNatural
<1>4. PICK e \in Expr \ S : n = Height[e]
  BY <1>3
<1>5. ASSUME NEW x \in Children(e) PROVE x \in S
  <2>1. x \in Expr /\ Height[x] < n /\ Height[x] \in Nat /\ n \in Nat
    BY <1>1, <1>4, ChildrenOf
  <2>2. Height[x] \notin T
    BY <1>3, <2>1
  <2>3. QED
    BY <2>1, <2>2
<1>6. QED
  BY <1>4, <1>5

\* A function defined by recursion over expressions exists.
LEMMA RecursionHasValue ==
  ASSUME NEW V, NEW v0 \in V, NEW Step \in [[Expr -> V] -> [Expr -> V]],
         \A f, g \in [Expr -> V] : \A e \in Expr :
           (\A x \in Children(e) : f[x] = g[x]) => Step[f][e] = Step[g][e]
  PROVE  \E f \in [Expr -> V] : f = Step[f]
<1> DEFINE Right(f, n) == \A e \in Expr : Height[e] < n => f[e] = Step[f][e]
           Fs == [Expr -> V]
<1>1. \A e \in Expr : Height[e] \in Nat /\ \A x \in Children(e) : x \in Expr /\ Height[x] < Height[e]
  BY TreeAssumption, ChildrenOf
<1>2. \A n \in Nat : \E f \in Fs : Right(f, n)
  <2> DEFINE T == {n \in Nat : ~ \E f \in Fs : Right(f, n)}
  <2> SUFFICES ASSUME T # {} PROVE FALSE
    OBVIOUS
  <2>1. PICK n \in T : \A m \in T : n <= m
    BY LeastNatural
  <2>2. n \in Nat /\ ~ \E f \in Fs : Right(f, n)
    BY <2>1
  <2>3. n # 0
    <3>1. [e \in Expr |-> v0] \in Fs
      OBVIOUS
    <3>2. Right([e \in Expr |-> v0], 0)
      BY <1>1
    <3>3. QED
      BY <2>2, <3>1, <3>2
  <2>4. PICK f \in Fs : Right(f, n - 1)
    <3>1. n - 1 \in Nat /\ ~(n <= n - 1)
      BY <2>2, <2>3
    <3>2. n - 1 \notin T
      BY <2>1, <3>1
    <3>3. QED
      BY <3>1, <3>2
  <2>5. Step[f] \in Fs
    OBVIOUS
  <2>6. ASSUME NEW e \in Expr, Height[e] < n PROVE Step[f][e] = Step[Step[f]][e]
    <3>1. ASSUME NEW x \in Children(e) PROVE f[x] = Step[f][x]
      <4>1. x \in Expr /\ Height[x] < n - 1
        BY <1>1, <2>2, <2>6
      <4>2. QED
        BY <2>4, <4>1
    <3>2. QED
      BY <2>5, <3>1
  <2>7. Right(Step[f], n)
    BY <2>6
  <2>8. QED
    BY <2>2, <2>5, <2>7
<1>3. ASSUME NEW n \in Nat, NEW m \in Nat, n <= m, NEW f \in Fs, NEW g \in Fs, Right(f, n), Right(g, m),
             NEW e \in Expr, Height[e] < n
      PROVE  f[e] = g[e]
  <2> DEFINE S == {x \in Expr : Height[x] < n => f[x] = g[x]}
  <2>1. ASSUME NEW x \in Expr, Children(x) \subseteq S PROVE x \in S
    <3> SUFFICES ASSUME Height[x] < n PROVE f[x] = g[x]
      OBVIOUS
    <3>1. ASSUME NEW y \in Children(x) PROVE f[y] = g[y]
      <4>1. Height[y] < n
        BY <1>1
      <4>2. QED
        BY <2>1, <4>1
    <3>2. Step[f][x] = Step[g][x]
      BY <3>1
    <3>3. Height[x] < m
      BY <1>1, <1>3
    <3>4. QED
      BY <1>3, <3>2, <3>3
  <2> HIDE DEF S
  <2>2. Expr \subseteq S
    BY <2>1, ExprInduction
  <2>3. QED
    BY <1>3, <2>2 DEF S
<1> DEFINE F(n) == CHOOSE f \in Fs : Right(f, n)
           v    == [e \in Expr |-> F(Height[e] + 1)[e]]
<1>4. \A n \in Nat : F(n) \in Fs /\ Right(F(n), n)
  BY <1>2
<1> HIDE DEF F
<1>5. v \in Fs
  BY <1>1, <1>4
<1>6. ASSUME NEW e \in Expr PROVE v[e] = Step[v][e]
  <2> DEFINE n == Height[e] + 1
  <2>1. n \in Nat /\ Height[e] < n
    BY <1>1
  <2>2. v[e] = F(n)[e] /\ F(n) \in Fs /\ F(n)[e] = Step[F(n)][e]
    BY <1>4, <2>1
  <2>3. ASSUME NEW x \in Children(e) PROVE F(n)[x] = v[x]
    <3> DEFINE m == Height[x] + 1
    <3>1. x \in Expr /\ m \in Nat /\ Height[x] < m /\ m <= n
      BY <1>1
    <3>2. Right(F(m), m) /\ Right(F(n), n) /\ F(m) \in Fs /\ F(n) \in Fs
      BY <1>4, <2>1, <3>1
    <3> HIDE DEF Right, n, m
    <3>3. F(m)[x] = F(n)[x]
      BY <1>3, <2>1, <3>1, <3>2
    <3>4. v[x] = F(m)[x]
      BY <3>1 DEF m
    <3>5. QED
      BY <3>3, <3>4
  <2> HIDE DEF v, n
  <2>4. Step[F(n)][e] = Step[v][e]
    BY <1>5, <2>2, <2>3
  <2>5. QED
    BY <2>2, <2>4
<1>7. v = Step[v]
  <2>1. Step[v] \in Fs
    BY <1>5
  <2> HIDE DEF v
  <2>2. QED
    BY <1>5, <1>6, <2>1
<1>8. QED
  BY <1>5, <1>7

-----------------------------------------------------------------------------
(* Lemmas on types. *)

LEMMA KindsDisjoint ==
  ASSUME NEW k
  PROVE  /\ k = "Not" => k \notin Logical \cup Comparing \cup Bitwise \cup Leaves
         /\ k \in Logical => k \notin Comparing \cup Bitwise \cup Leaves
         /\ k \in Comparing => k \notin Bitwise \cup Leaves
         /\ k \in Bitwise => k \notin Leaves
BY DEF Logical, Comparing, Bitwise, Leaves

\* A type depends on those of the operands only.
LEMMA TypeFromChildren ==
  ASSUME NEW r \in Registries, NEW e \in Expr, NEW f, NEW g, \A x \in Children(e) : f[x] = g[x]
  PROVE  /\ TypeFrom(r, f, e) = TypeFrom(r, g, e)
         /\ TypeFrom(r, f, e) \in ValueType \cup {"Error"}
<1> DEFINE Unary  == e.kind = "Not"
           IsLeaf == e.kind \in {"Identifier", "Integer", "Boolean", "Ipv4", "Ipv6"}
<1>1. IsLeaf \/ Unary \/ e.kind \in Logical \/ e.kind \in Bitwise \/ e.kind \in Comparing
  BY ExprAssumption DEF Leaves, Binary
<1>2. /\ "Error" \in ValueType \cup {"Error"} /\ "Bool" \in ValueType /\ "Int" \in ValueType
      /\ {"Ipv4", "Ipv6"} \subseteq ValueType
  BY DEF ValueType
<1>3. CASE IsLeaf
  <2>1. e.kind # "Not" /\ e.kind \notin Logical /\ e.kind \notin Bitwise /\ e.kind \notin Comparing
    BY <1>3 DEF Logical, Bitwise, Comparing
  <2>2. CASE e.kind = "Identifier"
    <3>0. e.kind # "Integer" /\ e.kind # "Boolean" /\ e.kind \notin {"Ipv4", "Ipv6"}
      BY <2>2
    <3>1. \A t : TypeFrom(r, t, e) = IF e.ident \in DOMAIN r
                                    THEN qualifier_value_type(r[e.ident].type) ELSE "Error"
      BY <2>1, <2>2, <3>0, Zenon DEF TypeFrom
    <3>2. qualifier_value_type(r[e.ident].type) \in ValueType
      BY DEF qualifier_value_type, ValueType
    <3>3. QED
      BY <3>1, <3>2
  <2>3. CASE e.kind = "Integer"
    <3>1. e.kind # "Identifier" /\ e.kind # "Boolean" /\ e.kind \notin {"Ipv4", "Ipv6"}
      BY <2>3
    <3>2. \A t : TypeFrom(r, t, e) = "Int"
      BY <2>1, <2>3, <3>1, Zenon DEF TypeFrom
    <3>3. QED
      BY <1>2, <3>2
  <2>4. CASE e.kind = "Boolean"
    <3>1. e.kind # "Identifier" /\ e.kind # "Integer" /\ e.kind \notin {"Ipv4", "Ipv6"}
      BY <2>4
    <3>2. \A t : TypeFrom(r, t, e) = "Bool"
      BY <2>1, <2>4, <3>1, Zenon DEF TypeFrom
    <3>3. QED
      BY <1>2, <3>2
  <2>5. CASE e.kind \in {"Ipv4", "Ipv6"}
    <3>1. e.kind # "Identifier" /\ e.kind # "Integer" /\ e.kind # "Boolean"
      BY <2>5
    <3>2. \A t : TypeFrom(r, t, e) = IF e.value = Malformed THEN "Error" ELSE e.kind
      BY <2>1, <2>5, <3>1, Zenon DEF TypeFrom
    <3>3. QED
      BY <1>2, <2>5, <3>2
  <2>6. QED
    BY <1>3, <2>2, <2>3, <2>4, <2>5
<1>4. CASE ~IsLeaf
  <2>1. /\ e.kind # "Identifier" /\ e.kind # "Integer" /\ e.kind # "Boolean"
        /\ e.kind \notin {"Ipv4", "Ipv6"}
    BY <1>4
  <2>2. CASE Unary
    <3>0. e.kind \notin Logical /\ e.kind \notin Bitwise /\ e.kind \notin Comparing
      BY <2>2, KindsDisjoint
    <3>1. f[e.left] = g[e.left]
      BY <2>2, ChildrenOf
    <3>2. \A t : TypeFrom(r, t, e) = IF t[e.left] \in {"Bool", "Int"} THEN "Bool" ELSE "Error"
      BY <2>1, <2>2, <3>0, Zenon DEF TypeFrom
    <3>3. QED
      BY <1>2, <3>1, <3>2
  <2>3. CASE e.kind \in Logical
    <3>0. e.kind # "Not" /\ e.kind \notin Bitwise /\ e.kind \notin Comparing
      BY <2>3, KindsDisjoint
    <3>1. f[e.left] = g[e.left] /\ f[e.right] = g[e.right]
      BY <2>3, ChildrenOf DEF Binary
    <3>2. ASSUME NEW t
          PROVE  TypeFrom(r, t, e) = IF {t[e.left], t[e.right]} \subseteq {"Bool", "Int"}
                                     THEN "Bool" ELSE "Error"
      BY <2>1, <2>3, <3>0, Zenon DEF TypeFrom
    <3>3. QED
      BY <1>2, <3>1, <3>2
  <2>4. CASE e.kind \in Bitwise
    <3>1. f[e.left] = g[e.left] /\ f[e.right] = g[e.right]
      BY <2>4, ChildrenOf DEF Binary
    <3>2. e.kind # "Not" /\ e.kind \notin Logical /\ e.kind \notin Comparing
      BY <2>4, KindsDisjoint
    <3>3. ASSUME NEW t
          PROVE  TypeFrom(r, t, e) = IF {t[e.left], t[e.right]} = {"Int"} THEN "Int" ELSE "Error"
      BY <2>1, <2>4, <3>2, Zenon DEF TypeFrom
    <3>4. QED
      BY <1>2, <3>1, <3>3
  <2>5. CASE e.kind \in Comparing
    <3>1. f[e.left] = g[e.left] /\ f[e.right] = g[e.right]
      BY <2>5, ChildrenOf DEF Binary
    <3>2. e.kind # "Not" /\ e.kind \notin Logical /\ e.kind \notin Bitwise
      BY <2>5, KindsDisjoint
    <3>3. \A t : TypeFrom(r, t, e) = IF \/ {t[e.left], t[e.right]} \subseteq {"Bool", "Int"}
                                       \/ /\ {t[e.left], t[e.right]} \in {{"Ipv4"}, {"Ipv6"}}
                                          /\ e.kind \in {"Eq", "Ne"}
                                    THEN "Bool" ELSE "Error"
      BY <2>1, <2>5, <3>2, Zenon DEF TypeFrom
    <3>4. QED
      BY <1>2, <3>1, <3>3
  <2>6. QED
    BY <1>1, <1>4, <2>2, <2>3, <2>4, <2>5
<1>5. QED
  BY <1>3, <1>4

\* Every expression has the type its operands give it.
LEMMA TypesHold ==
  ASSUME NEW r \in Registries
  PROVE  \A e \in Expr : TypeIn(r)[e] = TypeFrom(r, TypeIn(r), e)
<1> DEFINE V    == ValueType \cup {"Error"}
           Step == [f \in [Expr -> V] |-> [e \in Expr |-> TypeFrom(r, f, e)]]
           IsType(f) == f = [e \in Expr |-> TypeFrom(r, f, e)]
<1>1. "Error" \in V
  OBVIOUS
<1>2. Step \in [[Expr -> V] -> [Expr -> V]]
  BY TypeFromChildren
<1>3. ASSUME NEW f \in [Expr -> V], NEW g \in [Expr -> V], NEW e \in Expr,
             \A x \in Children(e) : f[x] = g[x]
      PROVE  Step[f][e] = Step[g][e]
  <2>1. TypeFrom(r, f, e) = TypeFrom(r, g, e)
    BY <1>3, TypeFromChildren
  <2>2. QED
    BY <2>1
<1> HIDE DEF V
<1>4. PICK f \in [Expr -> V] : f = Step[f]
  <2> HIDE DEF Step
  <2>1. QED
    BY <1>1, <1>2, <1>3, RecursionHasValue
<1>5. IsType(f)
  BY <1>4
<1>6. TypeIn(r) = CHOOSE t : IsType(t)
  BY DEF TypeIn
<1> HIDE DEF IsType
<1>7. IsType(TypeIn(r))
  BY <1>5, <1>6
<1>8. TypeIn(r) = [e \in Expr |-> TypeFrom(r, TypeIn(r), e)]
  BY <1>7 DEF IsType
<1> DEFINE T == TypeIn(r)
<1> HIDE DEF T
<1>9. T = [e \in Expr |-> TypeFrom(r, T, e)]
  BY <1>8 DEF T
<1>10. \A e \in Expr : T[e] = TypeFrom(r, T, e)
  BY <1>9
<1>11. QED
  BY <1>10 DEF T

LEMMA OperatorTypes ==
  ASSUME registry \in Registries, NEW e \in Expr
  PROVE  /\ e.kind = "Not" =>
              TypeOf(e) = IF TypeOf(e.left) \in {"Bool", "Int"} THEN "Bool" ELSE "Error"
         /\ e.kind \in Logical =>
              TypeOf(e) = IF {TypeOf(e.left), TypeOf(e.right)} \subseteq {"Bool", "Int"}
                          THEN "Bool" ELSE "Error"
         /\ e.kind \in Bitwise =>
              TypeOf(e) = IF {TypeOf(e.left), TypeOf(e.right)} = {"Int"} THEN "Int" ELSE "Error"
         /\ e.kind \in Comparing =>
              TypeOf(e) = IF \/ {TypeOf(e.left), TypeOf(e.right)} \subseteq {"Bool", "Int"}
                             \/ /\ {TypeOf(e.left), TypeOf(e.right)} \in {{"Ipv4"}, {"Ipv6"}}
                                /\ e.kind \in {"Eq", "Ne"}
                          THEN "Bool" ELSE "Error"
<1>1. TypeOf(e) = TypeFrom(registry, TypeIn(registry), e)
  BY TypesHold DEF TypeOf
<1>2. \A k \in {"Not"} \cup Logical \cup Bitwise \cup Comparing :
        k # "Identifier" /\ k # "Integer" /\ k # "Boolean" /\ k \notin {"Ipv4", "Ipv6"}
  BY DEF Logical, Bitwise, Comparing
<1>3. CASE e.kind = "Not"
  BY <1>1, <1>2, <1>3, KindsDisjoint, Zenon DEF TypeFrom, TypeOf
<1>4. CASE e.kind \in Logical
  <2>1. e.kind # "Not" /\ e.kind \notin Bitwise /\ e.kind \notin Comparing
    BY <1>4, KindsDisjoint
  <2>2. QED
    BY <1>1, <1>2, <1>4, <2>1, Zenon DEF TypeFrom, TypeOf
<1>5. CASE e.kind \in Bitwise
  <2>1. e.kind # "Not" /\ e.kind \notin Logical /\ e.kind \notin Comparing
    BY <1>5, KindsDisjoint
  <2>2. QED
    BY <1>1, <1>2, <1>5, <2>1, Zenon DEF TypeFrom, TypeOf
<1>6. CASE e.kind \in Comparing
  <2>1. e.kind # "Not" /\ e.kind \notin Logical /\ e.kind \notin Bitwise
    BY <1>6, KindsDisjoint
  <2>2. QED
    BY <1>1, <1>2, <1>6, <2>1, Zenon DEF TypeFrom, TypeOf
<1>7. QED
  BY <1>3, <1>4, <1>5, <1>6

LEMMA LeafTypes ==
  ASSUME registry \in Registries, NEW e \in Expr
  PROVE  /\ e.kind = "Identifier" =>
              TypeOf(e) = IF e.ident \in DOMAIN registry
                          THEN qualifier_value_type(registry[e.ident].type) ELSE "Error"
         /\ e.kind = "Integer" => TypeOf(e) = "Int"
         /\ e.kind = "Boolean" => TypeOf(e) = "Bool"
         /\ e.kind \in {"Ipv4", "Ipv6"} =>
              TypeOf(e) = IF e.value = Malformed THEN "Error" ELSE e.kind
<1>1. TypeOf(e) = TypeFrom(registry, TypeIn(registry), e)
  BY TypesHold DEF TypeOf
<1> DEFINE Operator(k) == k = "Not" \/ k \in Logical \/ k \in Bitwise \/ k \in Comparing
<1>2. CASE e.kind = "Identifier"
  <2>1. ~Operator(e.kind) /\ e.kind \notin {"Ipv4", "Ipv6"} /\ e.kind # "Integer" /\ e.kind # "Boolean"
    BY <1>2 DEF Logical, Bitwise, Comparing
  <2>2. TypeOf(e) = IF e.ident \in DOMAIN registry
                    THEN qualifier_value_type(registry[e.ident].type) ELSE "Error"
    BY <1>1, <1>2, <2>1, Zenon DEF TypeFrom
  <2>3. QED
    BY <1>2, <2>2
<1>3. CASE e.kind \in {"Integer", "Boolean"}
  <2>1. ~Operator(e.kind) /\ e.kind \notin {"Ipv4", "Ipv6"} /\ e.kind # "Identifier"
    BY <1>3 DEF Logical, Bitwise, Comparing
  <2>2. e.kind = "Integer" => TypeOf(e) = "Int"
    BY <1>1, <2>1, Zenon DEF TypeFrom
  <2>3. e.kind = "Boolean" => TypeOf(e) = "Bool"
    BY <1>1, <2>1, Zenon DEF TypeFrom
  <2>4. QED
    BY <1>3, <2>2, <2>3
<1>4. CASE e.kind \in {"Ipv4", "Ipv6"}
  <2>1. ~Operator(e.kind) /\ e.kind # "Identifier" /\ e.kind # "Integer" /\ e.kind # "Boolean"
    BY <1>4 DEF Logical, Bitwise, Comparing
  <2>2. TypeOf(e) = IF e.value = Malformed THEN "Error" ELSE e.kind
    BY <1>1, <1>4, <2>1, Zenon DEF TypeFrom
  <2>3. QED
    BY <1>4, <2>2
<1>5. QED
  BY <1>2, <1>3, <1>4

\* An expression that is not refused has the type emit_compare computes.
LEMMA ResolvedType ==
  ASSUME registry \in Registries, NEW e \in Expr
  PROVE  /\ TypeOf(e) \in ValueType \cup {"Error"}
         /\ resolve_expr_type(e) \in ValueType
         /\ TypeOf(e) # "Error" => ~Unresolved(e) /\ TypeOf(e) = resolve_expr_type(e)
         /\ Unresolved(e) => TypeOf(e) = "Error"
<1>1. /\ e.kind \in Leaves \cup {"Not"} \cup Binary
      /\ "Error" \notin ValueType
      /\ {"Bool", "Int", "Ipv4", "Ipv6"} = ValueType
  BY ExprAssumption DEF ValueType
<1>2. CASE e.kind = "Identifier"
  <2>0. e.kind \notin {"Integer"} \cup Bitwise /\ e.kind \notin {"Ipv4", "Ipv6"}
    BY <1>2 DEF Bitwise
  <2>1. resolve_expr_type(e) = IF e.ident \in DOMAIN registry
                               THEN qualifier_value_type(registry[e.ident].type) ELSE "Int"
    BY <1>2, <2>0, Zenon DEF resolve_expr_type
  <2>2. Unresolved(e) <=> e.ident \notin DOMAIN registry
    BY <1>2 DEF Unresolved
  <2>3. QED
    BY <1>1, <1>2, <2>1, <2>2, LeafTypes, QualifierTypes
<1>3. e.kind # "Identifier" => ~Unresolved(e)
  BY DEF Unresolved
<1>4. CASE e.kind = "Integer" \/ e.kind \in Bitwise
  <2>1. e.kind \in {"Integer"} \cup Bitwise /\ e.kind # "Identifier" /\ e.kind \notin {"Ipv4", "Ipv6"}
    BY <1>4 DEF Bitwise
  <2>2. resolve_expr_type(e) = "Int"
    BY <2>1, Zenon DEF resolve_expr_type
  <2>3. QED
    BY <1>1, <1>3, <1>4, <2>1, <2>2, LeafTypes, OperatorTypes
<1>5. CASE e.kind \in {"Ipv4", "Ipv6"}
  <2>1. e.kind \notin {"Integer"} \cup Bitwise /\ e.kind # "Identifier"
    BY <1>5 DEF Bitwise
  <2>2. resolve_expr_type(e) = e.kind
    BY <1>5, <2>1, Zenon DEF resolve_expr_type
  <2>3. QED
    BY <1>1, <1>3, <1>5, <2>1, <2>2, LeafTypes
<1>6. CASE e.kind = "Boolean" \/ e.kind = "Not" \/ e.kind \in Logical \/ e.kind \in Comparing
  <2>1. e.kind \notin {"Integer"} \cup Bitwise /\ e.kind # "Identifier" /\ e.kind \notin {"Ipv4", "Ipv6"}
    BY <1>6 DEF Bitwise, Logical, Comparing
  <2>2. resolve_expr_type(e) = "Bool"
    BY <2>1, Zenon DEF resolve_expr_type
  <2>3. QED
    BY <1>1, <1>3, <1>6, <2>1, <2>2, LeafTypes, OperatorTypes
<1>7. QED
  BY <1>1, <1>2, <1>4, <1>5, <1>6 DEF Leaves, Binary

\* An operator refuses an operand that has no type; only a comparison takes an
\* IPv6 address.
LEMMA DoomSpreads ==
  ASSUME registry \in Registries, NEW e \in Expr, Dooms(e)
  PROVE  /\ e.kind \in Binary \cup {"Not"} => (TypeOf(e.left) = "Error" => ~WellTyped(root, registry))
         /\ e.kind \in Binary => (TypeOf(e.right) = "Error" => ~WellTyped(root, registry))
         /\ e.kind \in Logical \cup Bitwise \cup {"Not"} => Dooms(e.left)
         /\ e.kind \in Logical \cup Bitwise => Dooms(e.right)
         /\ e.kind \in Comparing /\ Comparable(e) => Dooms(e.left) /\ Dooms(e.right)
<1>1. TypeOf(e) = "Error" => ~WellTyped(root, registry)
  BY DEF Dooms
<1>2. ASSUME e.kind \in Binary \cup {"Not"}, TypeOf(e.left) = "Error" PROVE TypeOf(e) = "Error"
  BY <1>2, OperatorTypes DEF Binary
<1>3. ASSUME e.kind \in Binary, TypeOf(e.right) = "Error" PROVE TypeOf(e) = "Error"
  BY <1>3, OperatorTypes DEF Binary
<1>4. ASSUME e.kind \in Logical \cup Bitwise \cup {"Not"} PROVE Dooms(e.left)
  <2>1. TypeOf(e.left) \in {"Error", "Ipv6"} => TypeOf(e) = "Error"
    BY <1>4, OperatorTypes
  <2>2. QED
    BY <1>1, <2>1 DEF Dooms
<1>5. ASSUME e.kind \in Logical \cup Bitwise PROVE Dooms(e.right)
  <2>1. TypeOf(e.right) \in {"Error", "Ipv6"} => TypeOf(e) = "Error"
    BY <1>5, OperatorTypes
  <2>2. QED
    BY <1>1, <2>1 DEF Dooms
<1>6. ASSUME e.kind \in Comparing, Comparable(e) PROVE Dooms(e.left) /\ Dooms(e.right)
  <2>1. e.left \in Expr /\ e.right \in Expr /\ e.kind \in Binary
    BY <1>6, ExprAssumption DEF Binary
  <2>2. resolve_expr_type(e.left) # "Ipv6" /\ resolve_expr_type(e.right) # "Ipv6"
    BY <1>6 DEF Comparable
  <2>3. TypeOf(e.left) # "Ipv6" /\ TypeOf(e.right) # "Ipv6"
    BY <2>1, <2>2, ResolvedType
  <2>4. QED
    BY <1>1, <1>2, <1>3, <2>1, <2>3 DEF Dooms
<1>7. QED
  BY <1>1, <1>2, <1>3, <1>4, <1>5, <1>6

-----------------------------------------------------------------------------
(* Lemmas on the stack. *)

\* What the stack's registers and jumps owe to its last frame.
LEMMA LastFrame ==
  ASSUME NEW r \in Seq(FrameType), NEW f \in FrameType, NEW s \in Seq(FrameType),
         Len(s) = Len(r) + 1, s[Len(r) + 1] = f, \A i \in 1 .. Len(r) : s[i] = r[i]
  PROVE  /\ Held(s) = Held(r) \cup (IF f.at = "rhs" THEN {KeptOf(f)} ELSE {})
         /\ OpenOf(s) = OpenOf(r) \cup (IF f.at = "rhs" /\ f.expr.kind \in Logical
                                        THEN {f.ip} ELSE {})
         /\ Apart(s) <=> /\ Apart(r) /\ FrameTyped(f)
                         /\ f.at = "rhs" => KeptOf(f) \notin Held(r)
                         /\ f.at = "rhs" /\ f.expr.kind \in Logical => f.ip \notin OpenOf(r)
<1> DEFINE n == Len(r)
           isRhs == f.at = "rhs"
           isTest == isRhs /\ f.expr.kind \in Logical
<1>1. n \in Nat /\ Len(s) = n + 1 /\ s[n + 1] = f /\ \A i \in 1 .. n : s[i] = r[i]
  OBVIOUS
<1>2. Rhs(s) = Rhs(r) \cup (IF isRhs THEN {n + 1} ELSE {})
  <2>1. 1 .. n + 1 = (1 .. n) \cup {n + 1}
    BY <1>1
  <2>2. QED
    BY <1>1, <2>1 DEF Rhs
<1>3. Rhs(r) \subseteq 1 .. n /\ n + 1 \notin Rhs(r)
  BY <1>1 DEF Rhs
<1>4. Tests(s) = Tests(r) \cup (IF isTest THEN {n + 1} ELSE {})
  BY <1>1, <1>2, <1>3 DEF Tests
<1>5. Tests(r) \subseteq Rhs(r)
  BY DEF Tests
<1>6. Held(s) = Held(r) \cup (IF isRhs THEN {KeptOf(f)} ELSE {})
  BY <1>1, <1>2, <1>3 DEF Held
<1>7. OpenOf(s) = OpenOf(r) \cup (IF isTest THEN {f.ip} ELSE {})
  BY <1>1, <1>3, <1>4, <1>5 DEF OpenOf
<1> HIDE DEF n, isRhs, isTest
<1>8. (\A i, j \in Rhs(s) : i # j => KeptOf(s[i]) # KeptOf(s[j]))
        <=> /\ \A i, j \in Rhs(r) : i # j => KeptOf(r[i]) # KeptOf(r[j])
            /\ isRhs => KeptOf(f) \notin Held(r)
  BY <1>1, <1>2, <1>3 DEF Held
<1>9. (\A i, j \in Tests(s) : i # j => s[i].ip # s[j].ip)
        <=> /\ \A i, j \in Tests(r) : i # j => r[i].ip # r[j].ip
            /\ isTest => f.ip \notin OpenOf(r)
  BY <1>1, <1>3, <1>4, <1>5 DEF OpenOf
<1>10. (\A i \in 1 .. Len(s) : FrameTyped(s[i]))
         <=> (\A i \in 1 .. Len(r) : FrameTyped(r[i])) /\ FrameTyped(f)
  <2>1. 1 .. n + 1 = (1 .. n) \cup {n + 1}
    BY <1>1
  <2>2. Len(r) = n
    BY DEF n
  <2>3. QED
    BY <1>1, <2>1, <2>2
<1>11. QED
  BY <1>6, <1>7, <1>8, <1>9, <1>10 DEF Apart, isRhs, isTest

\* An emitter goes on: the others still wait, for the operator it emits.
Popped(s, f, r) ==
  /\ f \in FrameType /\ FrameOk(f)
  /\ StackOk(r) /\ f.expr = Awaited(r) /\ Awaited(s) = Operand(f)
  /\ Held(s) = Held(r) \cup (IF f.at = "rhs" THEN {KeptOf(f)} ELSE {})
  /\ OpenOf(s) = OpenOf(r) \cup (IF f.at = "rhs" /\ f.expr.kind \in Logical
                                 THEN {f.ip} ELSE {})
  /\ Apart(s) => /\ Apart(r) /\ FrameTyped(f)
                 /\ f.at = "rhs" => KeptOf(f) \notin Held(r)
                 /\ f.at = "rhs" /\ f.expr.kind \in Logical => f.ip \notin OpenOf(r)

LEMMA PopFrame ==
  ASSUME NEW s, StackOk(s), s # <<>>
  PROVE  Popped(s, s[Len(s)], SubSeq(s, 1, Len(s) - 1))
<1>0. PICK f, r : f = s[Len(s)] /\ r = SubSeq(s, 1, Len(s) - 1)
  OBVIOUS
<1>1. s \in Seq(FrameType)
  BY DEF StackOk
<1>2. /\ r \in Seq(FrameType) /\ f \in FrameType /\ Len(r) = Len(s) - 1 /\ Len(s) \in Nat \ {0}
      /\ \A i \in 1 .. Len(s) - 1 : r[i] = s[i]
  BY <1>0, <1>1, PopFacts
<1>3. \A i \in 1 .. Len(s) : FrameOk(s[i]) /\ s[i].expr = IF i = 1 THEN root ELSE Operand(s[i - 1])
  BY DEF StackOk
<1>4. FrameOk(f) /\ f.expr = IF Len(s) = 1 THEN root ELSE Operand(s[Len(s) - 1])
  BY <1>0, <1>2, <1>3
<1>5. StackOk(r)
  <2>1. ASSUME NEW i \in 1 .. Len(r)
        PROVE  FrameOk(r[i]) /\ r[i].expr = IF i = 1 THEN root ELSE Operand(r[i - 1])
    <3>1. i \in 1 .. Len(s) /\ r[i] = s[i] /\ (i # 1 => r[i - 1] = s[i - 1])
      BY <1>2
    <3>2. QED
      BY <1>3, <3>1
  <2>2. QED
    BY <1>2, <2>1 DEF StackOk
<1>6. f.expr = Awaited(r)
  <2>1. r = <<>> <=> Len(s) = 1
    BY <1>2
  <2>2. Len(s) # 1 => r[Len(r)] = s[Len(s) - 1]
    BY <1>2
  <2>3. QED
    BY <1>4, <2>1, <2>2 DEF Awaited
<1>7. Awaited(s) = Operand(f)
  BY <1>0 DEF Awaited
<1>8. Len(s) = Len(r) + 1 /\ s[Len(r) + 1] = f /\ \A i \in 1 .. Len(r) : s[i] = r[i]
  BY <1>0, <1>2
<1>9. Held(s) = Held(r) \cup (IF f.at = "rhs" THEN {KeptOf(f)} ELSE {})
  BY <1>1, <1>2, <1>8, LastFrame
<1>10. OpenOf(s) = OpenOf(r) \cup (IF f.at = "rhs" /\ f.expr.kind \in Logical THEN {f.ip} ELSE {})
  BY <1>1, <1>2, <1>8, LastFrame
<1>11. Apart(s) <=> /\ Apart(r) /\ FrameTyped(f)
                    /\ f.at = "rhs" => KeptOf(f) \notin Held(r)
                    /\ f.at = "rhs" /\ f.expr.kind \in Logical => f.ip \notin OpenOf(r)
  BY <1>1, <1>2, <1>8, LastFrame
<1>12. Popped(s, f, r)
  BY <1>2, <1>4, <1>5, <1>6, <1>7, <1>9, <1>10, <1>11 DEF Popped
<1>13. QED
  BY <1>0, <1>12

\* An emitter begins to wait.
LEMMA PushFrame ==
  ASSUME NEW r, StackOk(r), NEW f \in FrameType, FrameOk(f), f.expr = Awaited(r),
         NEW s, s = Append(r, f)
  PROVE  /\ StackOk(s) /\ Awaited(s) = Operand(f)
         /\ Held(s) = Held(r) \cup (IF f.at = "rhs" THEN {KeptOf(f)} ELSE {})
         /\ OpenOf(s) = OpenOf(r) \cup (IF f.at = "rhs" /\ f.expr.kind \in Logical
                                        THEN {f.ip} ELSE {})
         /\ Apart(s) <=> /\ Apart(r) /\ FrameTyped(f)
                         /\ f.at = "rhs" => KeptOf(f) \notin Held(r)
                         /\ f.at = "rhs" /\ f.expr.kind \in Logical => f.ip \notin OpenOf(r)
<1>1. r \in Seq(FrameType)
  BY DEF StackOk
<1>2. /\ s \in Seq(FrameType) /\ Len(s) = Len(r) + 1 /\ Len(r) \in Nat
      /\ s[Len(r) + 1] = f
      /\ \A i \in 1 .. Len(r) : s[i] = r[i]
  BY <1>1, PushFacts
<1>3. \A i \in 1 .. Len(r) : FrameOk(r[i]) /\ r[i].expr = IF i = 1 THEN root ELSE Operand(r[i - 1])
  BY DEF StackOk
<1>4. StackOk(s)
  <2>1. ASSUME NEW i \in 1 .. Len(s)
        PROVE  FrameOk(s[i]) /\ s[i].expr = IF i = 1 THEN root ELSE Operand(s[i - 1])
    <3>1. CASE i \in 1 .. Len(r)
      <4>1. s[i] = r[i] /\ (i # 1 => s[i - 1] = r[i - 1])
        BY <1>2, <3>1
      <4>2. QED
        BY <1>3, <3>1, <4>1
    <3>2. CASE i = Len(r) + 1
      <4>1. s[i] = f
        BY <1>2, <3>2
      <4>2. r = <<>> <=> i = 1
        BY <1>1, <1>2, <3>2
      <4>3. i # 1 => s[i - 1] = r[Len(r)]
        BY <1>2, <3>2
      <4>4. f.expr = IF i = 1 THEN root ELSE Operand(s[i - 1])
        BY <4>2, <4>3 DEF Awaited
      <4>5. QED
        BY <4>1, <4>4
    <3>3. QED
      BY <1>2, <3>1, <3>2
  <2>2. QED
    BY <1>2, <2>1 DEF StackOk
<1>5. Awaited(s) = Operand(f)
  <2>1. s # <<>>
    BY <1>2
  <2>2. s[Len(s)] = f
    BY <1>2
  <2>3. QED
    BY <2>1, <2>2 DEF Awaited
<1>6. Held(s) = Held(r) \cup (IF f.at = "rhs" THEN {KeptOf(f)} ELSE {})
  BY <1>1, <1>2, LastFrame
<1>7. OpenOf(s) = OpenOf(r) \cup (IF f.at = "rhs" /\ f.expr.kind \in Logical THEN {f.ip} ELSE {})
  BY <1>1, <1>2, LastFrame
<1>8. Apart(s) <=> /\ Apart(r) /\ FrameTyped(f)
                   /\ f.at = "rhs" => KeptOf(f) \notin Held(r)
                   /\ f.at = "rhs" /\ f.expr.kind \in Logical => f.ip \notin OpenOf(r)
  BY <1>1, <1>2, LastFrame
<1>9. QED
  BY <1>4, <1>5, <1>6, <1>7, <1>8

-----------------------------------------------------------------------------
(* A step ends in a call or in an answer. *)

LEMMA StackStays ==
  ASSUME root' = root, registry' = registry, NEW s, StackOk(s), stack' = s
  PROVE  StackOk(stack)'
<1>1. ASSUME NEW e PROVE /\ Dooms(e)' <=> Dooms(e)
                         /\ Unresolved(e)' <=> Unresolved(e)
                         /\ resolve_expr_type(e)' = resolve_expr_type(e)
  BY DEF Dooms, TypeOf, Unresolved, resolve_expr_type
<1>2. ASSUME NEW e, Comparable(e) PROVE Comparable(e)'
  BY <1>1, <1>2 DEF Comparable
<1>3. ASSUME NEW f, FrameOk(f) PROVE FrameOk(f)'
  BY <1>1, <1>2, <1>3 DEF FrameOk
<1>4. s \in Seq(FrameType) /\ \A i \in 1 .. Len(s) :
        FrameOk(s[i])' /\ s[i].expr = IF i = 1 THEN root ELSE Operand(s[i - 1])
  BY <1>3 DEF StackOk
<1>5. QED
  BY <1>4 DEF StackOk, Operand

LEMMA CallKeeps ==
  ASSUME Inv, mode # "done", NEW e \in Expr, NEW g, NEW s, Called(e, g, s), Call(e, s, g)
  PROVE  Inv'
<1>1. /\ root' = root /\ registry' = registry /\ value' = value
      /\ register_count' = register_count /\ status' = status
      /\ mode' = "enter" /\ node' = e /\ gen' = g /\ stack' = s
  BY DEF Call
<1>2. StackOk(s) /\ StackOk(stack)'
  <2>1. StackOk(s)
    BY DEF Called, Waiting
  <2>2. QED
    BY <1>1, <2>1, StackStays
<1>3. Called(node, gen, stack)'
  <2>1. Sound(gen, Held(stack), OpenOf(stack))'
    <3>1. Sound(g, Held(s), OpenOf(s))
      BY DEF Called
    <3>2. Held(stack)' = Held(s) /\ OpenOf(stack)' = OpenOf(s)
      BY <1>1 DEF Held, OpenOf, Rhs, Tests, KeptOf
    <3>3. QED
      BY <1>1, <3>1, <3>2 DEF Sound, CodeOk, SlotOk, Target, Owned
  <2>2. Waiting(gen, stack)'
    <3>1. Waiting(g, s)
      BY DEF Called
    <3>2. Apart(s) => Apart(stack)'
      BY <1>1 DEF Apart, FrameTyped, TypeOf, Rhs, Tests, KeptOf
    <3>3. QED
      BY <1>1, <1>2, <3>1, <3>2 DEF Waiting
  <2>3. (node = Awaited(stack) /\ Dooms(node))'
    BY <1>1 DEF Called, Awaited, Operand, Dooms, TypeOf
  <2>4. QED
    BY <2>1, <2>2, <2>3 DEF Called
<1>4. QED
  BY <1>1, <1>2, <1>3 DEF Inv

LEMMA AnswerKeeps ==
  ASSUME Inv, mode # "done", NEW v, NEW g, NEW s, Returns(v, g, s), Answer(g, v, s)
  PROVE  Inv'
<1>1. /\ root' = root /\ registry' = registry /\ node' = node
      /\ register_count' = register_count /\ status' = status
      /\ mode' = "return" /\ value' = v /\ gen' = g /\ stack' = s
  BY DEF Answer
<1>2. StackOk(stack)'
  <2>1. StackOk(s)
    BY DEF Returns, Waiting
  <2>2. QED
    BY <1>1, <2>1, StackStays
<1>3. Returns(value, gen, stack)'
  <2>1. Sound(gen, Held(stack) \cup {value.reg}, OpenOf(stack))'
    <3>1. Sound(g, Held(s) \cup {v.reg}, OpenOf(s))
      BY DEF Returns
    <3>2. Held(stack)' = Held(s) /\ OpenOf(stack)' = OpenOf(s)
      BY <1>1 DEF Held, OpenOf, Rhs, Tests, KeptOf
    <3>3. QED
      BY <1>1, <3>1, <3>2 DEF Sound, CodeOk, SlotOk, Target, Owned
  <2>2. Waiting(gen, stack)'
    <3>1. Waiting(g, s)
      BY DEF Returns
    <3>2. Apart(s) => Apart(stack)'
      BY <1>1 DEF Apart, FrameTyped, TypeOf, Rhs, Tests, KeptOf
    <3>3. QED
      BY <1>1, <1>2, <3>1, <3>2 DEF Waiting
  <2>3. Held(stack)' = Held(s) /\ Awaited(stack)' = Awaited(s) /\ TypeOf(Awaited(stack))' = TypeOf(Awaited(s))
    BY <1>1 DEF Held, Rhs, KeptOf, Awaited, Operand, TypeOf
  <2>4. QED
    BY <1>1, <2>1, <2>2, <2>3 DEF Returns
<1>4. QED
  BY <1>1, <1>2, <1>3 DEF Inv, Returns

-----------------------------------------------------------------------------
(* What a step has to show of the emitters that go on waiting. *)

LEMMA WaitingStays ==
  ASSUME NEW g0, NEW s, Waiting(g0, s), NEW g, Grows(g0, g),
         g.error \in UserError => g0.error \in UserError \/ ~WellTyped(root, registry)
  PROVE  Waiting(g, s)
BY DEF Waiting, Grows

LEMMA GivesReturns ==
  ASSUME NEW g0, NEW s, Waiting(g0, s), NEW g, NEW v, Gives(g0, Held(s), OpenOf(s), g, v),
         g.error = "none" => v.type = TypeOf(Awaited(s)),
         g.error \in UserError => g0.error \in UserError \/ ~WellTyped(root, registry)
  PROVE  Returns(v, g, s)
<1>1. Grows(g0, g)
  BY DEF Gives, GivesReg
<1>2. Waiting(g, s)
  BY <1>1, WaitingStays
<1>3. QED
  BY <1>2 DEF Gives, GivesReg, Returns

\* An operand that was returned has been given back.
LEMMA OperandGone ==
  ASSUME NEW g, NEW held, NEW open, NEW x, g.error = "none" => x \notin held,
         NEW g1, NEW v, Gives(g, (held \cup {x}) \ {x}, open, g1, v)
  PROVE  Gives(g, held, open, g1, v)
<1>1. v \in EmitValue /\ Grows(g, g1)
  BY DEF Gives, GivesReg
<1>2. CASE g1.error = "none"
  <2>1. (held \cup {x}) \ {x} = held
    BY <1>1, <1>2 DEF Grows
  <2>2. QED
    BY <2>1
<1>3. CASE g1.error # "none"
  BY <1>1, <1>3, FailedGives DEF Gives, GivesReg
<1>4. QED
  BY <1>2, <1>3

\* ensure_bool on a value that has just been returned.
LEMMA TruthGives ==
  ASSUME NEW g, NEW held, NEW open, NEW v \in EmitValue, Sound(g, held \cup {v.reg}, open),
         g.error = "none" => v.reg \notin held
  PROVE  LET r == ensure_bool(g, v)
         IN  /\ Gives(g, held, open, r.gen, r.value)
             /\ r.value.type = "Bool"
             /\ g.error # "none" \/ v.type \in {"Bool", "Int"} => Blameless(g, r.gen)
             /\ r.gen.error = "none" => v.type \in {"Bool", "Int"}
<1> DEFINE r == ensure_bool(g, v)
<1>1. /\ Gives(g, (held \cup {v.reg}) \ {v.reg}, open, r.gen, r.value)
      /\ r.value.type = "Bool"
      /\ v.type \in {"Bool", "Int"} => Blameless(g, r.gen)
      /\ r.gen.error = "none" => v.type \in {"Bool", "Int"}
  BY EnsureBoolGives
<1>2. g.error # "none" /\ v.type \notin {"Bool", "Int"} => Blameless(g, r.gen)
  <2>1. SUFFICES ASSUME g.error # "none", v.type \notin {"Bool", "Int"} PROVE Blameless(g, r.gen)
    OBVIOUS
  <2>2. v.type # "Bool" /\ v.type \in {"Ipv4", "Ipv6"}
    BY <2>1 DEF EmitValue, ValueType
  <2>3. r = [gen |-> fail(g, "type mismatch"), value |-> Value(0, "Bool")]
    BY <2>2, Zenon DEF ensure_bool
  <2>4. r.gen = g
    BY <2>1, <2>3 DEF fail, ok
  <2>5. QED
    BY <2>4 DEF Blameless
<1> HIDE DEF r
<1>3. Gives(g, held, open, r.gen, r.value)
  BY <1>1, OperandGone
<1>4. QED
  BY <1>1, <1>2, <1>3 DEF r

LEMMA FrameFields ==
  ASSUME NEW e \in Expr, NEW at \in {"operand", "lhs", "rhs"}, NEW v \in EmitValue, NEW dst \in U8,
         NEW ip \in Int
  PROVE  LET f == Frame(e, at, v, dst, ip)
         IN  /\ f \in FrameType
             /\ f.expr = e /\ f.at = at /\ f.lhs = v /\ f.dst = dst /\ f.ip = ip
BY DEF Frame, FrameType

LEMMA NothingKept == NoValue \in EmitValue /\ 0 \in U8 /\ -1 \in Int /\ NoValue.type = "Bool"
<1>1. "Bool" \in ValueType
  BY DEF ValueType
<1>2. QED
  BY <1>1, ZeroIsReg, ValueFields DEF NoValue

\* An emitter with frame f calls emit_expr in state g.
LEMMA FrameCalls ==
  ASSUME NEW r, NEW f \in FrameType, FrameOk(f), f.expr = Awaited(r), Dooms(Operand(f)),
         NEW g, Waiting(g, r),
         Sound(g, Held(r) \cup (IF f.at = "rhs" THEN {KeptOf(f)} ELSE {}),
                  OpenOf(r) \cup (IF f.at = "rhs" /\ f.expr.kind \in Logical THEN {f.ip} ELSE {})),
         g.error = "none" =>
           /\ FrameTyped(f)
           /\ f.at = "rhs" => KeptOf(f) \notin Held(r)
           /\ f.at = "rhs" /\ f.expr.kind \in Logical => f.ip \notin OpenOf(r)
  PROVE  Called(Operand(f), g, Append(r, f))
<1>1. PICK s : s = Append(r, f)
  OBVIOUS
<1>2. StackOk(r)
  BY DEF Waiting
<1>3. StackOk(s) /\ Awaited(s) = Operand(f)
  BY <1>1, <1>2, PushFrame
<1>4. /\ Held(s) = Held(r) \cup (IF f.at = "rhs" THEN {KeptOf(f)} ELSE {})
      /\ OpenOf(s) = OpenOf(r) \cup (IF f.at = "rhs" /\ f.expr.kind \in Logical THEN {f.ip} ELSE {})
  BY <1>1, <1>2, PushFrame
<1>5. Apart(s) <=> /\ Apart(r) /\ FrameTyped(f)
                   /\ f.at = "rhs" => KeptOf(f) \notin Held(r)
                   /\ f.at = "rhs" /\ f.expr.kind \in Logical => f.ip \notin OpenOf(r)
  BY <1>1, <1>2, PushFrame
<1>6. Waiting(g, s)
  BY <1>3, <1>5 DEF Waiting
<1>7. Sound(g, Held(s), OpenOf(s))
  BY <1>4
<1>8. Called(Operand(f), g, s)
  BY <1>3, <1>6, <1>7 DEF Called
<1>9. QED
  BY <1>1, <1>8

-----------------------------------------------------------------------------
(* The steps on leaves. *)

LEMMA EnterFacts ==
  ASSUME Inv, mode = "enter"
  PROVE  /\ Waiting(gen, stack) /\ node = Awaited(stack) /\ Dooms(node) /\ node \in Expr
         /\ Sound(gen, Held(stack), OpenOf(stack))
         /\ root \in Roots /\ registry \in Registries /\ mode # "done"
BY DEF Inv, Called

\* emit_expr answers at once: the node is emitted, or it is refused and has no
\* type.
LEMMA AtOnceKeeps ==
  ASSUME Inv, mode = "enter", NEW g, NEW v, Answer(g, v, stack),
         Gives(gen, Held(stack), OpenOf(stack), g, v),
         g.error = "none" => v.type = TypeOf(node),
         Blameless(gen, g) \/ TypeOf(node) \in {"Error", "Ipv6"}
  PROVE  Inv'
<1>1. g.error \in UserError => gen.error \in UserError \/ ~WellTyped(root, registry)
  BY EnterFacts DEF Blameless, Dooms
<1>2. Returns(v, g, stack)
  BY <1>1, EnterFacts, GivesReturns
<1>3. QED
  BY <1>2, EnterFacts, AnswerKeeps

LEMMA EmitIdentifierKeeps == Inv /\ EmitIdentifier => Inv'
<1> SUFFICES ASSUME Inv, EmitIdentifier PROVE Inv'
  OBVIOUS
<1> DEFINE r == emit_identifier(gen, registry, node.ident)
           known == node.ident \in DOMAIN registry /\ registry[node.ident].type # "ipv6"
<1>1. mode = "enter" /\ node.kind = "Identifier" /\ Answer(r.gen, r.value, stack)
  BY DEF EmitIdentifier, Entering, Emitted
<1>2. /\ Gives(gen, Held(stack), OpenOf(stack), r.gen, r.value)
      /\ known => Blameless(gen, r.gen) /\ r.value.type = qualifier_value_type(registry[node.ident].type)
      /\ ~known => r.gen.error # "none"
  BY <1>1, EnterFacts, IdentifierGives
<1> HIDE DEF r
<1>3. node \in Expr /\ registry \in Registries
  BY <1>1, EnterFacts
<1>4. TypeOf(node) = IF node.ident \in DOMAIN registry
                     THEN qualifier_value_type(registry[node.ident].type) ELSE "Error"
  BY <1>1, <1>3, LeafTypes
<1>5. known => TypeOf(node) = qualifier_value_type(registry[node.ident].type)
  BY <1>4
<1>6. ~known => TypeOf(node) \in {"Error", "Ipv6"}
  BY <1>4, QualifierTypes
<1>7. QED
  BY <1>1, <1>2, <1>5, <1>6, AtOnceKeeps

LEMMA EmitLiteralKeeps == Inv /\ EmitLiteral => Inv'
<1> SUFFICES ASSUME Inv, EmitLiteral PROVE Inv'
  OBVIOUS
<1>1. mode = "enter" /\ node \in Expr /\ registry \in Registries
  BY EnterFacts DEF EmitLiteral, Entering
<1>2. PICK w \in Word, t \in ValueType :
        TypeOf(node) = t /\ Answer(emit_immediate(gen, w, t).gen, emit_immediate(gen, w, t).value, stack)
  <2>1. CASE node.kind = "Integer" /\ Emitted(emit_immediate(gen, node.value, "Int"))
    <3>1. node.value \in Word /\ "Int" \in ValueType /\ TypeOf(node) = "Int"
      BY <1>1, <2>1, ExprAssumption, LeafTypes DEF ValueType
    <3>2. QED
      BY <2>1, <3>1 DEF Emitted
  <2>2. CASE node.kind = "Boolean" /\ Emitted(emit_immediate(gen, BoolWord(node.value), "Bool"))
    <3>1. BoolWord(node.value) \in Word /\ "Bool" \in ValueType /\ TypeOf(node) = "Bool"
      BY <1>1, <2>2, LeafTypes DEF ValueType, BoolWord, Word, Byte, Bit
    <3>2. QED
      BY <2>2, <3>1 DEF Emitted
  <2>3. QED
    BY <2>1, <2>2 DEF EmitLiteral, Entering
<1> DEFINE r == emit_immediate(gen, w, t)
<1>3. Gives(gen, Held(stack), OpenOf(stack), r.gen, r.value) /\ Blameless(gen, r.gen)
      /\ r.value.type = t
  BY <1>1, EnterFacts, ImmediateGives
<1>4. Answer(r.gen, r.value, stack) /\ TypeOf(node) = t
  BY <1>2
<1> HIDE DEF r
<1>5. QED
  BY <1>1, <1>3, <1>4, AtOnceKeeps

\* A leaf that is always refused.
LEMMA RefusedLeafKeeps ==
  ASSUME Inv, mode = "enter", NEW e \in UserError, NEW t \in ValueType,
         Answer(fail(gen, e), Value(0, t), stack), TypeOf(node) \in {"Error", "Ipv6"}
  PROVE  Inv'
<1> DEFINE g == fail(gen, e)
           v == Value(0, t)
<1>1. v \in EmitValue
  BY ZeroIsReg, ValueFields
<1>2. Gives(gen, Held(stack), OpenOf(stack), g, v) /\ g.error # "none"
  BY <1>1, EnterFacts, UserFailureGives
<1>3. Answer(g, v, stack)
  OBVIOUS
<1> HIDE DEF g, v
<1>4. QED
  BY <1>2, <1>3, AtOnceKeeps

LEMMA EmitIpv4Keeps == Inv /\ EmitIpv4 => Inv'
<1> SUFFICES ASSUME Inv, EmitIpv4 PROVE Inv'
  OBVIOUS
<1>1. mode = "enter" /\ node \in Expr /\ registry \in Registries /\ node.kind = "Ipv4"
  BY EnterFacts DEF EmitIpv4, Entering
<1>2. TypeOf(node) = IF node.value = Malformed THEN "Error" ELSE "Ipv4"
  BY <1>1, LeafTypes
<1>3. PICK t \in ValueType, e \in UserError : t = "Ipv4" /\ e = "bad literal"
  BY DEF ValueType, UserError
<1>4. CASE node.value = Malformed
  <2>1. Answer(fail(gen, e), Value(0, t), stack)
    BY <1>3, <1>4 DEF EmitIpv4
  <2>2. QED
    BY <1>1, <1>2, <1>4, <2>1, RefusedLeafKeeps
<1>5. CASE node.value # Malformed
  <2> DEFINE w == node.value
             r == emit_immediate(gen, w, t)
  <2>1. w \in Word
    BY <1>1, <1>5, ExprAssumption
  <2>2. Answer(r.gen, r.value, stack)
    BY <1>3, <1>5 DEF EmitIpv4, Emitted
  <2>3. Gives(gen, Held(stack), OpenOf(stack), r.gen, r.value) /\ Blameless(gen, r.gen)
        /\ r.value.type = t
    BY <1>1, <2>1, EnterFacts, ImmediateGives
  <2> HIDE DEF r
  <2>4. QED
    BY <1>1, <1>2, <1>3, <1>5, <2>2, <2>3, AtOnceKeeps
<1>6. QED
  BY <1>4, <1>5

LEMMA MisplacedIpv6Keeps == Inv /\ MisplacedIpv6 => Inv'
<1> SUFFICES ASSUME Inv, MisplacedIpv6 PROVE Inv'
  OBVIOUS
<1>1. mode = "enter" /\ node \in Expr /\ registry \in Registries /\ node.kind = "Ipv6"
  BY EnterFacts DEF MisplacedIpv6, Entering
<1>2. TypeOf(node) \in {"Error", "Ipv6"}
  BY <1>1, LeafTypes
<1>3. PICK t \in ValueType, e \in UserError : t = "Ipv6" /\ e = "type mismatch"
  BY DEF ValueType, UserError
<1>4. Answer(fail(gen, e), Value(0, t), stack)
  BY <1>3 DEF MisplacedIpv6
<1>5. QED
  BY <1>1, <1>2, <1>4, RefusedLeafKeeps

-----------------------------------------------------------------------------
(* The steps into operators. *)

LEMMA EnterOperatorKeeps == Inv /\ EnterOperator => Inv'
<1> SUFFICES ASSUME Inv, EnterOperator PROVE Inv'
  OBVIOUS
<1>1. PICK at \in {"operand", "lhs"} :
        /\ mode = "enter"
        /\ node.kind \in Logical \cup Bitwise \cup {"Not"}
        /\ at = "operand" <=> node.kind = "Not"
        /\ Call(node.left, Append(stack, Frame(node, at, NoValue, 0, -1)), gen)
  <2>1. CASE Entering({"Not"})
    BY <2>1, KindsDisjoint DEF EnterOperator, Entering
  <2>2. CASE Entering(Logical \cup Bitwise)
    BY <2>2, KindsDisjoint DEF EnterOperator, Entering
  <2>3. QED
    BY <2>1, <2>2 DEF EnterOperator
<1> DEFINE f == Frame(node, at, NoValue, 0, -1)
<1>2. /\ f \in FrameType /\ f.expr = node /\ f.at = at /\ at # "rhs"
  BY <1>1, EnterFacts, NothingKept, FrameFields
<1>3. Call(node.left, Append(stack, f), gen)
  BY <1>1
<1> HIDE DEF f
<1>4. node.kind \in Binary \cup {"Not"} /\ node.kind \notin Comparing
  BY <1>1, KindsDisjoint DEF Binary
<1>5. node.left \in Expr
  BY <1>1, <1>4, EnterFacts, ExprAssumption
<1>6. Operand(f) = node.left
  BY <1>2 DEF Operand
<1>7. Dooms(node.left)
  BY <1>1, EnterFacts, DoomSpreads
<1>8. FrameOk(f)
  BY <1>1, <1>2, <1>4, EnterFacts DEF FrameOk
<1>9. FrameTyped(f)
  BY <1>2 DEF FrameTyped
<1>10. Called(node.left, gen, Append(stack, f))
  <2>1. Sound(gen, Held(stack) \cup (IF f.at = "rhs" THEN {KeptOf(f)} ELSE {}),
              OpenOf(stack) \cup (IF f.at = "rhs" /\ f.expr.kind \in Logical THEN {f.ip} ELSE {}))
    <3>1. Held(stack) \cup {} = Held(stack) /\ OpenOf(stack) \cup {} = OpenOf(stack)
      OBVIOUS
    <3>2. QED
      BY <1>1, <1>2, <3>1, EnterFacts
  <2>2. QED
    BY <1>1, <1>2, <1>6, <1>7, <1>8, <1>9, <2>1, EnterFacts, FrameCalls
<1>11. QED
  BY <1>1, <1>3, <1>5, <1>10, EnterFacts, CallKeeps

LEMMA CompareOps ==
  ASSUME NEW k \in Comparing
  PROVE  /\ CompareOp[k] \in CmpOps
         /\ CompareOp[k] \in {"CmpEq", "CmpNe"} <=> k \in {"Eq", "Ne"}
BY DEF Comparing, CompareOp, CmpOps

LEMMA EnterCompareKeeps == Inv /\ EnterCompare => Inv'
<1> SUFFICES ASSUME Inv, EnterCompare PROVE Inv'
  OBVIOUS
<1> DEFINE op    == CompareOp[node.kind]
           types == {resolve_expr_type(node.left), resolve_expr_type(node.right)}
           ip    == types \cap {"Ipv4", "Ipv6"} # {}
           lost  == Unresolved(node.left) \/ Unresolved(node.right)
           mixed == ip /\ (types \notin {{"Ipv4"}, {"Ipv6"}} \/ op \notin {"CmpEq", "CmpNe"})
           bad   == CASE lost -> "not found"
                      [] OTHER -> IF mixed THEN "type mismatch" ELSE "none"
           g     == fail(gen, bad)
           f     == Frame(node, "lhs", NoValue, 0, -1)
           r     == emit_ipv6_compare(g, registry, op, node.left, node.right)
<1>1. /\ mode = "enter" /\ node \in Expr /\ registry \in Registries
      /\ node.kind \in Comparing /\ node.kind \in Binary \cup {"Not"} /\ node.kind \in Binary
  BY EnterFacts DEF EnterCompare, Entering, Binary
<1>2. node.left \in Expr /\ node.right \in Expr
  BY <1>1, ExprAssumption
<1>3. (CASE ~ok(g) -> Answer(g, NoValue, stack)
         [] ok(g) /\ types = {"Ipv6"} -> Answer(r.gen, r.value, stack)
         [] OTHER -> Call(node.left, Append(stack, f), g))
  BY Zenon DEF EnterCompare, Emitted
<1>4. op \in CmpOps /\ (op \in {"CmpEq", "CmpNe"} <=> node.kind \in {"Eq", "Ne"})
  BY <1>1, CompareOps
<1>5. types \subseteq ValueType
  BY <1>1, <1>2, ResolvedType
<1>6. /\ lost => bad = "not found"
      /\ ~lost => bad = IF mixed THEN "type mismatch" ELSE "none"
  <2> HIDE DEF lost, mixed
  <2>1. QED
    BY Zenon
<1>7. /\ lost => TypeOf(node) = "Error"
      /\ ~lost /\ mixed => TypeOf(node) = "Error"
  <2>1. TypeOf(node) = IF \/ {TypeOf(node.left), TypeOf(node.right)} \subseteq {"Bool", "Int"}
                          \/ /\ {TypeOf(node.left), TypeOf(node.right)} \in {{"Ipv4"}, {"Ipv6"}}
                             /\ node.kind \in {"Eq", "Ne"}
                       THEN "Bool" ELSE "Error"
    BY <1>1, OperatorTypes
  <2>2. lost => "Error" \in {TypeOf(node.left), TypeOf(node.right)}
    BY <1>1, <1>2, ResolvedType
  <2>3. \/ "Error" \in {TypeOf(node.left), TypeOf(node.right)}
        \/ {TypeOf(node.left), TypeOf(node.right)} = types
    BY <1>1, <1>2, ResolvedType
  <2>4. "Error" \in {TypeOf(node.left), TypeOf(node.right)} => TypeOf(node) = "Error"
    BY <2>1
  <2> HIDE DEF lost
  <2>5. {TypeOf(node.left), TypeOf(node.right)} = types /\ mixed => TypeOf(node) = "Error"
    BY <1>4, <2>1
  <2>6. QED
    BY <2>2, <2>3, <2>4, <2>5
<1>8. /\ bad # "none" => bad \in UserError /\ TypeOf(node) = "Error"
      /\ bad = "none" => ~lost /\ ~mixed
  <2> HIDE DEF lost, mixed, bad
  <2>1. QED
    BY <1>6, <1>7 DEF UserError
<1>9. gen \in GenState /\ Sound(gen, Held(stack), OpenOf(stack))
  BY <1>1, EnterFacts DEF Sound
<1>10. /\ gen.error # "none" => g = gen
       /\ gen.error = "none" /\ bad = "none" => g = gen
       /\ gen.error = "none" => g.error = bad
  <2> HIDE DEF bad
  <2>1. QED
    BY <1>9 DEF fail, ok, GenState
<1> HIDE DEF bad
<1>11. CASE ~ok(g)
  <2>1. Answer(g, NoValue, stack) /\ g.error # "none"
    BY <1>3, <1>11, Zenon DEF ok
  <2>2. CASE gen.error # "none"
    <3>1. Gives(gen, Held(stack), OpenOf(stack), g, NoValue) /\ Blameless(gen, g)
      <4>1. Grows(gen, gen) /\ Blameless(gen, gen)
        BY <1>9, GenFields DEF Grows, Blameless
      <4>2. QED
        BY <1>9, <1>10, <2>2, <4>1, NothingKept, FailedGives
    <3> HIDE DEF g
    <3>2. QED
      BY <1>1, <2>1, <3>1, AtOnceKeeps
  <2>3. CASE gen.error = "none"
    <3>1. bad \in UserError /\ TypeOf(node) = "Error"
      BY <1>8, <1>10, <2>1, <2>3
    <3>2. Gives(gen, Held(stack), OpenOf(stack), g, NoValue)
      BY <1>9, <3>1, NothingKept, UserFailureGives
    <3> HIDE DEF g
    <3>3. QED
      BY <1>1, <2>1, <3>1, <3>2, AtOnceKeeps
  <2>4. QED
    BY <2>2, <2>3
<1>12. CASE ok(g)
  <2>1. g.error = "none"
    BY <1>12 DEF ok
  <2>2. gen.error = "none" /\ g = gen /\ ~lost /\ ~mixed
    BY <1>8, <1>10, <2>1
  <2>3. CASE types = {"Ipv6"}
    <3>1. Answer(r.gen, r.value, stack)
      BY <1>3, <1>12, <2>3, Zenon
    <3>2. op \in {"CmpEq", "CmpNe"}
      BY <2>2, <2>3
    <3> HIDE DEF op, g
    <3>3. /\ Gives(gen, Held(stack), OpenOf(stack), r.gen, r.value)
          /\ r.value.type = "Bool"
          /\ IsAddress(node.left) /\ IsAddress(node.right) => Blameless(gen, r.gen)
          /\ ~(IsAddress(node.left) /\ IsAddress(node.right)) => r.gen.error # "none"
      BY <1>1, <1>2, <1>9, <2>2, <3>2, AddressCompareGives
    <3> HIDE DEF r
    <3>4. ASSUME NEW e \in Expr, resolve_expr_type(e) = "Ipv6", ~Unresolved(e)
          PROVE  IF IsAddress(e) THEN TypeOf(e) = "Ipv6" ELSE TypeOf(e) = "Error"
      <4>1. TypeOf(e) \in {"Error", "Ipv6"}
        BY <1>1, <3>4, ResolvedType
      <4>2. IsAddress(e) => TypeOf(e) = "Ipv6"
        BY <1>1, LeafTypes, QualifierTypes DEF IsAddress
      <4>3. TypeOf(e) = "Ipv6" => IsAddress(e)
        <5>1. e.kind \in Leaves \cup {"Not"} \cup Binary
          BY ExprAssumption
        <5>2. e.kind \in {"Identifier", "Ipv6"} \/ TypeOf(e) # "Ipv6"
          BY <1>1, <5>1, LeafTypes, OperatorTypes DEF Leaves, Binary
        <5>3. QED
          BY <1>1, <5>2, LeafTypes, QualifierTypes DEF IsAddress
      <4>4. QED
        BY <4>1, <4>2, <4>3
    <3>5. /\ resolve_expr_type(node.left) = "Ipv6" /\ resolve_expr_type(node.right) = "Ipv6"
          /\ ~Unresolved(node.left) /\ ~Unresolved(node.right)
      BY <2>2, <2>3
    <3>6. IsAddress(node.left) /\ IsAddress(node.right) => TypeOf(node) = "Bool"
      BY <1>1, <1>2, <1>4, <3>2, <3>4, <3>5, OperatorTypes DEF op
    <3>7. ~(IsAddress(node.left) /\ IsAddress(node.right)) => TypeOf(node) = "Error"
      BY <1>1, <1>2, <3>4, <3>5, OperatorTypes
    <3>8. QED
      BY <1>1, <3>1, <3>3, <3>6, <3>7, AtOnceKeeps
  <2>4. CASE types # {"Ipv6"}
    <3>1. Call(node.left, Append(stack, f), gen)
      BY <1>3, <1>12, <2>2, <2>4, Zenon
    <3>2. types \subseteq {"Bool", "Int"} \/ (types = {"Ipv4"} /\ node.kind \in {"Eq", "Ne"})
      BY <1>4, <1>5, <2>2, <2>4 DEF ValueType
    <3>3. Comparable(node)
      BY <2>2, <3>2 DEF Comparable
    <3>4. f \in FrameType /\ f.expr = node /\ f.at = "lhs"
      BY <1>1, NothingKept, FrameFields
    <3> HIDE DEF f
    <3>5. FrameOk(f)
      <4>1. node.kind # "Not"
        BY <1>1, KindsDisjoint
      <4>2. QED
        BY <1>1, <3>3, <3>4, <4>1, EnterFacts DEF FrameOk
    <3>6. Operand(f) = node.left /\ FrameTyped(f)
      BY <3>4 DEF Operand, FrameTyped
    <3>7. Dooms(node.left)
      BY <1>1, <3>3, EnterFacts, DoomSpreads
    <3>8. Sound(gen, Held(stack) \cup (IF f.at = "rhs" THEN {KeptOf(f)} ELSE {}),
                OpenOf(stack) \cup (IF f.at = "rhs" /\ f.expr.kind \in Logical THEN {f.ip} ELSE {}))
      <4>1. Held(stack) \cup {} = Held(stack) /\ OpenOf(stack) \cup {} = OpenOf(stack)
        OBVIOUS
      <4>2. QED
        BY <1>9, <3>4, <4>1
    <3>9. Called(node.left, gen, Append(stack, f))
      BY <1>1, <3>4, <3>5, <3>6, <3>7, <3>8, EnterFacts, FrameCalls
    <3>10. QED
      BY <1>1, <1>2, <3>1, <3>9, EnterFacts, CallKeeps
  <2>5. QED
    BY <2>3, <2>4
<1>13. QED
  BY <1>11, <1>12

-----------------------------------------------------------------------------
(* What && and || emit. *)

\* The sets need to agree only while nothing has failed.
LEMMA SoundSame ==
  ASSUME NEW g, NEW held, NEW open, Sound(g, held, open), NEW held1, NEW open1,
         g.error = "none" => held = held1 /\ open = open1
  PROVE  Sound(g, held1, open1)
<1>1. CASE g.error = "none"
  BY <1>1
<1>2. CASE g.error # "none"
  BY <1>2, FailedSound
<1>3. QED
  BY <1>1, <1>2

LEMMA EmitIpIsNew ==
  ASSUME NEW g, NEW held, NEW open, Sound(g, held, open)
  PROVE  EmitIp(g) \in Int /\ (g.error = "none" => EmitIp(g) \notin open)
<1>1. Len(g.code) \in Nat
  BY DEF Sound, GenState
<1>2. EmitIp(g) = IF g.error = "none" THEN Len(g.code) ELSE -1
  BY DEF EmitIp, ok
<1>3. g.error = "none" => open \subseteq 0 .. Len(g.code) - 1
  BY DEF Sound
<1>4. QED
  BY <1>1, <1>2, <1>3

\* A jump that is still open is given its target.
LEMMA CloseSound ==
  ASSUME NEW g, NEW held, NEW open, NEW ip \in Int, Sound(g, held, open \cup {ip}),
         g.error = "none" => ip \notin open
  PROVE  LET g1 == PatchToHere(g, ip)
         IN  Sound(g1, held, open) /\ Grows(g, g1) /\ Blameless(g, g1)
<1> DEFINE g1 == PatchToHere(g, ip)
<1>1. g.error = "none" => ip \in 0 .. Len(g.code) - 1
  BY DEF Sound
<1>2. Sound(g1, held, (open \cup {ip}) \ {ip}) /\ Grows(g, g1) /\ Blameless(g, g1)
  BY <1>1, PatchSound
<1> HIDE DEF g1
<1>3. g1.error = "none" => (open \cup {ip}) \ {ip} = open
  BY <1>2 DEF Grows
<1>4. QED
  BY <1>2, <1>3, SoundSame DEF g1

\* The value is moved to the destination.
LEMMA MoveSound ==
  ASSUME NEW g, NEW held, NEW open, NEW dst \in U8, NEW r \in U8,
         Sound(g, (held \cup {dst}) \cup {r}, open), g.error = "none" => r \notin held \cup {dst}
  PROVE  LET g1 == release_reg(emit(g, "Move", dst, r, 0, 0), r)
         IN  Sound(g1, held \cup {dst}, open) /\ Grows(g, g1) /\ Blameless(g, g1)
<1>1. PICK op \in OpCode \ {"LoadImm"}, c \in U8, imm \in Int : op = "Move" /\ c = 0 /\ imm = 0
  BY ZeroIsReg DEF OpCode
<1> DEFINE both == (held \cup {dst}) \cup {r}
           e == emit(g, op, dst, r, c, imm)
           g1 == release_reg(e, r)
<1>2. RegisterOperands(Instr(op, dst, r, c, imm)) \subseteq both
  BY <1>1, Operands
<1>3. op # "LoadField" /\ op \notin JumpOps
  BY <1>1 DEF JumpOps
<1>4. Sound(e, both, open) /\ Grows(g, e) /\ Blameless(g, e)
  <2> HIDE DEF both
  <2>1. Sound(g, both, open)
    BY DEF both
  <2>2. QED
    BY <1>2, <1>3, <2>1, EmitSound
<1> HIDE DEF e
<1>5. e.error = "none" => r \in both
  OBVIOUS
<1>6. Sound(g1, both \ {r}, open) /\ Grows(e, g1) /\ Blameless(e, g1)
  <2> HIDE DEF both
  <2>1. QED
    BY <1>4, <1>5, ReleaseSound
<1> HIDE DEF g1
<1>7. Grows(g, g1) /\ Blameless(g, g1)
  <2>1. g \in GenState /\ e \in GenState /\ g1 \in GenState
    BY <1>4, <1>6 DEF Sound
  <2>2. QED
    BY <2>1, <1>4, <1>6, GrowsTransitive DEF Blameless
<1>8. g1.error = "none" => both \ {r} = held \cup {dst}
  BY <1>7 DEF Grows
<1>9. Sound(g1, held \cup {dst}, open)
  <2> HIDE DEF both
  <2>1. QED
    BY <1>6, <1>8, SoundSame
<1>10. QED
  BY <1>1, <1>7, <1>9 DEF g1, e

\* A jump past what is emitted next, which the jump at ip goes to.
LEMMA JumpOverSound ==
  ASSUME NEW g, NEW held, NEW open, NEW ip \in Int, Sound(g, held, open \cup {ip}),
         g.error = "none" => ip \notin open
  PROVE  LET out == EmitIp(g)
             g1  == PatchToHere(emit(g, "Jump", 0, 0, 0, -1), ip)
         IN  /\ Sound(g1, held, open \cup {out}) /\ Grows(g, g1) /\ Blameless(g, g1)
             /\ out \in Int
             /\ g1.error = "none" => out \notin open
<1>1. PICK op \in OpCode \ {"LoadImm"}, c \in U8, imm \in Int : op = "Jump" /\ c = 0 /\ imm = -1
  BY ZeroIsReg DEF OpCode, JumpOps
<1> DEFINE out == EmitIp(g)
           e   == emit(g, op, c, c, c, imm)
           g1  == PatchToHere(e, ip)
           open1 == (open \cup {ip}) \cup {out}
<1>2. out \in Int /\ (g.error = "none" => out \notin open \cup {ip})
  BY EmitIpIsNew
<1>3. RegisterOperands(Instr(op, c, c, c, imm)) \subseteq held
  BY <1>1 DEF RegisterOperands, Instr, CmpOps
<1>4. Sound(e, held, open1) /\ Grows(g, e) /\ Blameless(g, e)
  <2>1. open1 = (open \cup {ip}) \cup {EmitIp(g)} /\ op \in JumpOps /\ imm = -1 /\ op # "LoadField"
    BY <1>1 DEF JumpOps
  <2> HIDE DEF open1
  <2>2. QED
    BY <1>3, <2>1, EmitSound
<1> HIDE DEF e, out
<1>5. open1 = (open \cup {out}) \cup {ip}
  OBVIOUS
<1>6. e.error = "none" => ip \notin open \cup {out}
  BY <1>2, <1>4 DEF Grows
<1>7. Sound(g1, held, open \cup {out}) /\ Grows(e, g1) /\ Blameless(e, g1)
  <2>1. Sound(e, held, (open \cup {out}) \cup {ip})
    BY <1>4, <1>5
  <2>2. QED
    BY <1>6, <2>1, CloseSound
<1> HIDE DEF g1
<1>8. Grows(g, g1) /\ Blameless(g, g1)
  <2>1. g \in GenState /\ e \in GenState /\ g1 \in GenState
    BY <1>4, <1>7 DEF Sound
  <2>2. QED
    BY <2>1, <1>4, <1>7, GrowsTransitive DEF Blameless
<1>9. g1.error = "none" => out \notin open
  BY <1>2, <1>8 DEF Grows
<1>10. QED
  BY <1>1, <1>2, <1>7, <1>8, <1>9 DEF g1, e, out

\* A destination is allocated and the operand tested.
LEMMA TestSound ==
  ASSUME NEW g, NEW held, NEW open, NEW l \in U8, Sound(g, held \cup {l}, open),
         g.error = "none" => l \notin held
  PROVE  LET dst  == NextReg(g)
             g1   == alloc_reg(g)
             test == EmitIp(g1)
             g2   == release_reg(emit(g1, "JumpIfFalse", l, 0, 0, -1), l)
         IN  /\ Sound(g2, held \cup {dst}, open \cup {test}) /\ Grows(g, g2) /\ Blameless(g, g2)
             /\ dst \in U8 /\ test \in Int
             /\ g2.error = "none" => dst \notin held /\ test \notin open
<1>1. PICK op \in OpCode \ {"LoadImm"}, c \in U8, imm \in Int :
        op = "JumpIfFalse" /\ c = 0 /\ imm = -1
  BY ZeroIsReg DEF OpCode, JumpOps
<1> DEFINE dst  == NextReg(g)
           g1   == alloc_reg(g)
           test == EmitIp(g1)
           e    == emit(g1, op, l, c, c, imm)
           g2   == release_reg(e, l)
           both == (held \cup {l}) \cup {dst}
           open1 == open \cup {test}
<1>2. /\ dst \in U8 /\ Sound(g1, both, open) /\ (g1.error = "none" => dst \notin held \cup {l})
      /\ Grows(g, g1) /\ Blameless(g, g1)
  BY AllocSound
<1> HIDE DEF dst, g1
<1>3. test \in Int /\ (g1.error = "none" => test \notin open)
  BY <1>2, EmitIpIsNew
<1>4. RegisterOperands(Instr(op, l, c, c, imm)) \subseteq both
  BY <1>1 DEF RegisterOperands, Instr, CmpOps
<1>5. Sound(e, both, open1) /\ Grows(g1, e) /\ Blameless(g1, e)
  <2>1. open1 = open \cup {EmitIp(g1)} /\ op \in JumpOps /\ imm = -1 /\ op # "LoadField"
    BY <1>1 DEF JumpOps
  <2> HIDE DEF open1, both
  <2>2. QED
    BY <1>2, <1>4, <2>1, EmitSound
<1> HIDE DEF e, test
<1>6. Sound(g2, both \ {l}, open1) /\ Grows(e, g2) /\ Blameless(e, g2)
  <2>1. e.error = "none" => l \in both
    OBVIOUS
  <2> HIDE DEF both, open1
  <2>2. QED
    BY <1>5, <2>1, ReleaseSound
<1> HIDE DEF g2
<1>7. Grows(g, g2) /\ Blameless(g, g2) /\ Grows(g1, g2)
  <2>1. g \in GenState /\ g1 \in GenState /\ e \in GenState /\ g2 \in GenState
    BY <1>2, <1>5, <1>6 DEF Sound
  <2>2. Grows(g1, g2)
    BY <2>1, <1>5, <1>6, GrowsTransitive
  <2>3. Grows(g, g2)
    BY <2>1, <2>2, <1>2, GrowsTransitive
  <2>4. QED
    BY <2>2, <2>3, <1>2, <1>5, <1>6 DEF Blameless
<1>8. g2.error = "none" => /\ dst \notin held /\ test \notin open
                           /\ both \ {l} = held \cup {dst}
  BY <1>2, <1>3, <1>7 DEF Grows
<1>9. Sound(g2, held \cup {dst}, open1)
  <2> HIDE DEF both, open1
  <2>1. QED
    BY <1>6, <1>8, SoundSame
<1>10. QED
  BY <1>1, <1>2, <1>3, <1>7, <1>8, <1>9 DEF g2, e, test, g1, dst

-----------------------------------------------------------------------------
(* The steps on an operand that comes back. *)

LEMMA ReturnFacts ==
  ASSUME Inv, mode = "return", stack # <<>>
  PROVE  /\ root \in Roots /\ registry \in Registries /\ mode # "done"
         /\ Waiting(gen, Rest)
         /\ Top \in FrameType /\ FrameOk(Top) /\ Top.expr = Awaited(Rest)
         /\ Top.expr \in Expr /\ Dooms(Top.expr)
         /\ value \in EmitValue /\ value.reg \in U8 /\ value.type \in ValueType
         /\ Top.lhs \in EmitValue /\ Top.lhs.reg \in U8 /\ Top.dst \in U8 /\ Top.ip \in Int
         /\ Top.expr.kind \in Binary \cup {"Not"} /\ Top.expr.left \in Expr
         /\ Top.expr.kind \in Binary => Top.expr.right \in Expr
<1>1. Waiting(gen, stack) /\ StackOk(stack) /\ value \in EmitValue /\ root \in Roots
      /\ registry \in Registries
  BY DEF Inv, Returns
<1>2. PICK f, r : f = Top /\ r = Rest
  OBVIOUS
<1>3. Popped(stack, f, r)
  BY <1>1, <1>2, PopFrame, Zenon DEF Top, Rest
<1>4. f \in FrameType /\ FrameOk(f) /\ StackOk(r) /\ f.expr = Awaited(r) /\ (Apart(stack) => Apart(r))
  BY <1>3 DEF Popped
<1>5. Waiting(gen, r)
  BY <1>1, <1>4 DEF Waiting
<1>6. f.expr \in Expr /\ f.lhs \in EmitValue /\ f.lhs.reg \in U8 /\ f.dst \in U8 /\ f.ip \in Int
  BY <1>4 DEF FrameType, EmitValue
<1>7. f.expr.kind \in Binary \cup {"Not"} /\ Dooms(f.expr)
  BY <1>4 DEF FrameOk
<1>8. f.expr.left \in Expr /\ (f.expr.kind \in Binary => f.expr.right \in Expr)
  BY <1>6, <1>7, ExprAssumption
<1>9. value.reg \in U8 /\ value.type \in ValueType
  BY <1>1 DEF EmitValue
<1>10. QED
  BY <1>1, <1>2, <1>4, <1>5, <1>6, <1>7, <1>8, <1>9

\* What is owned when the first or only operand comes back, and when the
\* second one does.
LEMMA LhsOwned ==
  ASSUME Inv, mode = "return", stack # <<>>, Top.at # "rhs"
  PROVE  /\ Sound(gen, Held(Rest) \cup {value.reg}, OpenOf(Rest))
         /\ gen.error = "none" =>
              value.reg \notin Held(Rest) /\ value.type = TypeOf(Top.expr.left)
<1>1. /\ StackOk(stack)
      /\ Sound(gen, Held(stack) \cup {value.reg}, OpenOf(stack))
      /\ gen.error = "none" => value.reg \notin Held(stack) /\ value.type = TypeOf(Awaited(stack))
  BY DEF Inv, Returns
<1>2. PICK f, r : f = Top /\ r = Rest
  OBVIOUS
<1>3. Popped(stack, f, r)
  BY <1>1, <1>2, PopFrame, Zenon DEF Top, Rest
<1>4. Awaited(stack) = f.expr.left
  BY <1>2, <1>3 DEF Popped, Operand
<1>5. Held(stack) = Held(r) \cup (IF f.at = "rhs" THEN {KeptOf(f)} ELSE {})
  BY <1>3 DEF Popped
<1>6. OpenOf(stack) = OpenOf(r) \cup (IF f.at = "rhs" /\ f.expr.kind \in Logical
                                      THEN {f.ip} ELSE {})
  BY <1>3 DEF Popped
<1>7. f.at # "rhs"
  BY <1>2
<1>8. Held(stack) = Held(r) /\ OpenOf(stack) = OpenOf(r)
  BY <1>5, <1>6, <1>7
<1>9. QED
  BY <1>1, <1>2, <1>4, <1>8

LEMMA RhsOwned ==
  ASSUME Inv, mode = "return", stack # <<>>, Top.at = "rhs"
  PROVE  LET open == OpenOf(Rest) \cup (IF Top.expr.kind \in Logical THEN {Top.ip} ELSE {})
         IN  /\ Sound(gen, (Held(Rest) \cup {KeptOf(Top)}) \cup {value.reg}, open)
             /\ gen.error = "none" =>
                  /\ KeptOf(Top) \notin Held(Rest)
                  /\ value.reg \notin Held(Rest) \cup {KeptOf(Top)}
                  /\ Top.expr.kind \in Logical => Top.ip \notin OpenOf(Rest)
                  /\ value.type = TypeOf(Top.expr.right) /\ FrameTyped(Top)
<1>1. /\ StackOk(stack)
      /\ Sound(gen, Held(stack) \cup {value.reg}, OpenOf(stack))
      /\ gen.error = "none" => /\ value.reg \notin Held(stack) /\ value.type = TypeOf(Awaited(stack))
                               /\ Apart(stack)
  BY DEF Inv, Returns, Waiting
<1>2. PICK f, r : f = Top /\ r = Rest
  OBVIOUS
<1>3. Popped(stack, f, r)
  BY <1>1, <1>2, PopFrame, Zenon DEF Top, Rest
<1>4. Awaited(stack) = f.expr.right
  BY <1>2, <1>3 DEF Popped, Operand
<1>5. Held(stack) = Held(r) \cup (IF f.at = "rhs" THEN {KeptOf(f)} ELSE {})
  BY <1>3 DEF Popped
<1>6. OpenOf(stack) = OpenOf(r) \cup (IF f.at = "rhs" /\ f.expr.kind \in Logical
                                      THEN {f.ip} ELSE {})
  BY <1>3 DEF Popped
<1>7. Apart(stack) => /\ FrameTyped(f)
                      /\ f.at = "rhs" => KeptOf(f) \notin Held(r)
                      /\ f.at = "rhs" /\ f.expr.kind \in Logical => f.ip \notin OpenOf(r)
  BY <1>3 DEF Popped
<1>8. f.at = "rhs"
  BY <1>2
<1>9. Held(stack) = Held(r) \cup {KeptOf(f)}
  BY <1>5, <1>8
<1>10. OpenOf(stack) = OpenOf(r) \cup (IF f.expr.kind \in Logical THEN {f.ip} ELSE {})
  BY <1>6, <1>8
<1>11. QED
  BY <1>1, <1>2, <1>4, <1>7, <1>8, <1>9, <1>10

\* The emitter of Top answers.
LEMMA OperatorKeeps ==
  ASSUME Inv, mode = "return", stack # <<>>, NEW g, NEW v, Answer(g, v, Rest),
         Gives(gen, Held(Rest), OpenOf(Rest), g, v),
         g.error = "none" => v.type = TypeOf(Top.expr),
         Blameless(gen, g) \/ TypeOf(Top.expr) = "Error"
  PROVE  Inv'
<1>1. g.error \in UserError => gen.error \in UserError \/ ~WellTyped(root, registry)
  BY ReturnFacts DEF Blameless, Dooms
<1>2. Returns(v, g, Rest)
  BY <1>1, ReturnFacts, GivesReturns
<1>3. QED
  BY <1>2, ReturnFacts, AnswerKeeps

\* Something has failed before the emitter could answer.
LEMMA FailedKeeps ==
  ASSUME Inv, mode = "return", stack # <<>>, NEW g, NEW v \in EmitValue, Answer(g, v, Rest),
         NEW held, NEW open, Sound(g, held, open), Grows(gen, g), g.error # "none",
         Blameless(gen, g) \/ TypeOf(Top.expr) = "Error"
  PROVE  Inv'
<1>1. Gives(gen, Held(Rest), OpenOf(Rest), g, v)
  BY FailedGives
<1>2. QED
  BY <1>1, OperatorKeeps

LEMMA NotOperandKeeps == Inv /\ NotOperand => Inv'
<1> SUFFICES ASSUME Inv, NotOperand PROVE Inv'
  OBVIOUS
<1> DEFINE operand == ensure_bool(gen, value)
           result == EmitNegation(operand.gen, operand.value.reg)
<1>1. /\ mode = "return" /\ stack # <<>> /\ Top.expr.kind = "Not" /\ Top.at # "rhs"
      /\ IF ok(operand.gen) THEN Answer(result.gen, result.value, Rest)
                            ELSE Answer(operand.gen, NoValue, Rest)
  BY DEF NotOperand, Returning
<1>2. TypeOf(Top.expr) = IF TypeOf(Top.expr.left) \in {"Bool", "Int"} THEN "Bool" ELSE "Error"
  BY <1>1, ReturnFacts, OperatorTypes
<1>3. /\ Sound(gen, Held(Rest) \cup {value.reg}, OpenOf(Rest))
      /\ gen.error = "none" => value.reg \notin Held(Rest) /\ value.type = TypeOf(Top.expr.left)
  BY <1>1, LhsOwned
<1>4. /\ Gives(gen, Held(Rest), OpenOf(Rest), operand.gen, operand.value)
      /\ gen.error # "none" \/ value.type \in {"Bool", "Int"} => Blameless(gen, operand.gen)
      /\ operand.gen.error = "none" => value.type \in {"Bool", "Int"}
  BY <1>1, <1>3, ReturnFacts, TruthGives
<1> HIDE DEF operand
<1>5. Blameless(gen, operand.gen) \/ TypeOf(Top.expr) = "Error"
  BY <1>2, <1>3, <1>4
<1>6. /\ Sound(operand.gen, Held(Rest) \cup {operand.value.reg}, OpenOf(Rest))
      /\ operand.value.reg \in U8 /\ Grows(gen, operand.gen)
      /\ operand.gen.error = "none" => operand.value.reg \notin Held(Rest)
  BY <1>4 DEF Gives, GivesReg
<1>7. CASE ~ok(operand.gen)
  <2>1. operand.gen.error # "none" /\ Answer(operand.gen, NoValue, Rest)
    BY <1>1, <1>7 DEF ok
  <2>2. QED
    BY <1>1, <1>5, <1>6, <2>1, NothingKept, FailedKeeps
<1>8. CASE ok(operand.gen)
  <2>1. operand.gen.error = "none" /\ Answer(result.gen, result.value, Rest)
    BY <1>1, <1>8 DEF ok
  <2>2. /\ Gives(operand.gen, (Held(Rest) \cup {operand.value.reg}) \ {operand.value.reg},
                 OpenOf(Rest), result.gen, result.value)
        /\ Blameless(operand.gen, result.gen)
        /\ result.value.type = "Bool"
    BY <1>6, NegationGives
  <2> HIDE DEF result
  <2>3. Gives(operand.gen, Held(Rest), OpenOf(Rest), result.gen, result.value)
    BY <1>6, <2>2, OperandGone
  <2>4. Gives(gen, Held(Rest), OpenOf(Rest), result.gen, result.value)
    <3>1. Sound(gen, Held(Rest) \cup {value.reg}, OpenOf(Rest))
      BY <1>3
    <3>2. Grows(gen, result.gen)
      BY <1>6, <2>3, <3>1, GrowsTransitive DEF Gives, GivesReg, Sound
    <3>3. QED
      BY <2>3, <3>2 DEF Gives, GivesReg
  <2>5. TypeOf(Top.expr) = "Bool" /\ Blameless(gen, result.gen)
    <3>1. gen.error = "none" /\ value.type \in {"Bool", "Int"}
      BY <1>4, <1>6, <2>1 DEF Grows
    <3>2. QED
      BY <1>2, <1>3, <1>4, <2>2, <3>1 DEF Blameless
  <2>6. QED
    BY <1>1, <2>1, <2>2, <2>4, <2>5, OperatorKeeps
<1>9. QED
  BY <1>7, <1>8

LEMMA BinaryLhsKeeps == Inv /\ BinaryLhs => Inv'
<1> SUFFICES ASSUME Inv, BinaryLhs PROVE Inv'
  OBVIOUS
<1> DEFINE f == Frame(Top.expr, "rhs", value, 0, -1)
<1>1. /\ mode = "return" /\ stack # <<>> /\ Top.expr.kind \in Comparing \cup Bitwise /\ Top.at # "rhs"
      /\ Call(Top.expr.right, Append(Rest, f), gen)
  BY DEF BinaryLhs, Returning
<1>2. /\ Top.expr.kind \in Binary /\ Top.expr.kind \notin Logical /\ Top.expr.kind # "Not"
      /\ Top.expr.right \in Expr
  BY <1>1, ReturnFacts, KindsDisjoint DEF Binary
<1>3. /\ f \in FrameType /\ f.expr = Top.expr /\ f.at = "rhs" /\ f.lhs = value
  <2>1. Top.expr \in Expr /\ value \in EmitValue /\ "rhs" \in {"operand", "lhs", "rhs"}
    BY <1>1, ReturnFacts
  <2>2. QED
    BY <2>1, NothingKept, FrameFields
<1> HIDE DEF f
<1>4. FrameOk(f) /\ Operand(f) = Top.expr.right /\ KeptOf(f) = value.reg
  BY <1>1, <1>2, <1>3, ReturnFacts DEF FrameOk, Operand, KeptOf
<1>5. Dooms(Top.expr.right)
  <2>1. Top.expr.kind \in Comparing => Comparable(Top.expr)
    BY <1>1, ReturnFacts DEF FrameOk
  <2>2. QED
    BY <1>1, <2>1, ReturnFacts, DoomSpreads
<1>6. /\ Sound(gen, Held(Rest) \cup {value.reg}, OpenOf(Rest))
      /\ gen.error = "none" => value.reg \notin Held(Rest) /\ value.type = TypeOf(Top.expr.left)
  BY <1>1, LhsOwned
<1>7. Called(Operand(f), gen, Append(Rest, f))
  <2>1. Sound(gen, Held(Rest) \cup (IF f.at = "rhs" THEN {KeptOf(f)} ELSE {}),
              OpenOf(Rest) \cup (IF f.at = "rhs" /\ f.expr.kind \in Logical THEN {f.ip} ELSE {}))
    <3>1. OpenOf(Rest) \cup {} = OpenOf(Rest)
      OBVIOUS
    <3>2. QED
      BY <1>2, <1>3, <1>4, <1>6, <3>1
  <2>2. gen.error = "none" => FrameTyped(f)
    BY <1>2, <1>3, <1>6 DEF FrameTyped
  <2>3. f.expr.kind \notin Logical
    BY <1>2, <1>3
  <2>4. gen.error = "none" => KeptOf(f) \notin Held(Rest)
    BY <1>4, <1>6
  <2>5. Waiting(gen, Rest) /\ f.expr = Awaited(Rest) /\ Dooms(Operand(f))
    BY <1>1, <1>3, <1>4, <1>5, ReturnFacts
  <2>6. QED
    BY <1>3, <1>4, <2>1, <2>2, <2>3, <2>4, <2>5, FrameCalls
<1>8. QED
  BY <1>1, <1>2, <1>4, <1>7, ReturnFacts, CallKeeps

LEMMA WordsOfBooleans == BoolWord(TRUE) \in Word /\ BoolWord(FALSE) \in Word
BY DEF BoolWord, Word, Byte, Bit

\* The frame of a logical operator whose left operand has been tested.
LEMMA TestedCalls ==
  ASSUME Inv, mode = "return", stack # <<>>, Top.expr.kind \in Logical,
         NEW g, NEW dst \in U8, NEW ip \in Int,
         Sound(g, Held(Rest) \cup {dst}, OpenOf(Rest) \cup {ip}),
         Grows(gen, g), Blameless(gen, g),
         g.error = "none" => /\ TypeOf(Top.expr.left) \in {"Bool", "Int"}
                             /\ dst \notin Held(Rest) /\ ip \notin OpenOf(Rest),
         Call(Top.expr.right, Append(Rest, Frame(Top.expr, "rhs", NoValue, dst, ip)), g)
  PROVE  Inv'
<1> DEFINE f == Frame(Top.expr, "rhs", NoValue, dst, ip)
<1>1. Top.expr.kind \in Binary /\ Top.expr.kind \notin Comparing /\ Top.expr.kind # "Not"
      /\ Top.expr.right \in Expr
  BY ReturnFacts, KindsDisjoint DEF Binary
<1>2. f \in FrameType /\ f.expr = Top.expr /\ f.at = "rhs" /\ f.dst = dst /\ f.ip = ip
  BY ReturnFacts, NothingKept, FrameFields
<1>3. Call(Top.expr.right, Append(Rest, f), g)
  OBVIOUS
<1> HIDE DEF f
<1>4. FrameOk(f) /\ Operand(f) = Top.expr.right /\ KeptOf(f) = dst
  BY <1>1, <1>2, ReturnFacts DEF FrameOk, Operand, KeptOf
<1>5. Dooms(Operand(f))
  BY <1>4, ReturnFacts, DoomSpreads
<1>6. Waiting(g, Rest)
  <2>1. Waiting(gen, Rest)
    BY ReturnFacts
  <2>2. QED
    BY <2>1, WaitingStays DEF Blameless
<1>7. Sound(g, Held(Rest) \cup (IF f.at = "rhs" THEN {KeptOf(f)} ELSE {}),
            OpenOf(Rest) \cup (IF f.at = "rhs" /\ f.expr.kind \in Logical THEN {f.ip} ELSE {}))
  BY <1>2, <1>4
<1>8. g.error = "none" => FrameTyped(f) /\ KeptOf(f) \notin Held(Rest) /\ f.ip \notin OpenOf(Rest)
  BY <1>2, <1>4 DEF FrameTyped
<1>9. f.expr = Awaited(Rest)
  BY <1>2, ReturnFacts
<1>10. Called(Operand(f), g, Append(Rest, f))
  BY <1>2, <1>4, <1>5, <1>6, <1>7, <1>8, <1>9, FrameCalls
<1>11. QED
  BY <1>1, <1>3, <1>4, <1>10, ReturnFacts, CallKeeps

LEMMA LogicalLhsKeeps == Inv /\ LogicalLhs => Inv'
<1> SUFFICES ASSUME Inv, LogicalLhs PROVE Inv'
  OBVIOUS
<1> DEFINE lhs    == ensure_bool(gen, value)
           dst    == NextReg(lhs.gen)
           g1     == alloc_reg(lhs.gen)
           test   == EmitIp(g1)
           tested == release_reg(emit(g1, "JumpIfFalse", lhs.value.reg, 0, 0, -1), lhs.value.reg)
           g2     == emit_load_imm(tested, dst, BoolWord(TRUE))
           out    == EmitIp(g2)
           either == PatchToHere(emit(g2, "Jump", 0, 0, 0, -1), test)
           held   == Held(Rest)
           open   == OpenOf(Rest)
           WaitAt(ip) == Append(Rest, Frame(Top.expr, "rhs", NoValue, dst, ip))
<1>1. /\ mode = "return" /\ stack # <<>> /\ Top.expr.kind \in Logical /\ Top.at # "rhs"
      /\ (CASE ~ok(lhs.gen) -> Answer(lhs.gen, NoValue, Rest)
            [] ok(lhs.gen) /\ Top.expr.kind = "And" -> Call(Top.expr.right, WaitAt(test), tested)
            [] OTHER -> Call(Top.expr.right, WaitAt(out), either))
  BY Zenon DEF LogicalLhs, Returning
<1>2. /\ Sound(gen, held \cup {value.reg}, open)
      /\ gen.error = "none" => value.reg \notin held /\ value.type = TypeOf(Top.expr.left)
  BY <1>1, LhsOwned
<1>3. /\ Gives(gen, held, open, lhs.gen, lhs.value)
      /\ gen.error # "none" \/ value.type \in {"Bool", "Int"} => Blameless(gen, lhs.gen)
      /\ lhs.gen.error = "none" => value.type \in {"Bool", "Int"}
  <2> HIDE DEF held, open
  <2>1. QED
    BY <1>1, <1>2, ReturnFacts, TruthGives
<1> HIDE DEF lhs
<1>4. /\ Sound(lhs.gen, held \cup {lhs.value.reg}, open)
      /\ lhs.value.reg \in U8 /\ Grows(gen, lhs.gen)
      /\ lhs.gen.error = "none" => lhs.value.reg \notin held
  BY <1>3 DEF Gives, GivesReg
<1>5. Blameless(gen, lhs.gen) \/ TypeOf(Top.expr) = "Error"
  BY <1>1, <1>2, <1>3, ReturnFacts, OperatorTypes
<1>6. /\ Sound(tested, held \cup {dst}, open \cup {test})
      /\ Grows(lhs.gen, tested) /\ Blameless(lhs.gen, tested)
      /\ dst \in U8 /\ test \in Int
      /\ tested.error = "none" => dst \notin held /\ test \notin open
  <2> HIDE DEF held, open
  <2>1. QED
    BY <1>4, TestSound
<1> HIDE DEF tested, dst, test
<1>7. CASE ~ok(lhs.gen)
  <2>1. lhs.gen.error # "none" /\ Answer(lhs.gen, NoValue, Rest)
    BY <1>1, <1>7, Zenon DEF ok
  <2>2. QED
    BY <1>1, <1>4, <1>5, <2>1, NothingKept, FailedKeeps
<1>8. CASE ok(lhs.gen)
  <2>1. lhs.gen.error = "none" /\ gen.error = "none" /\ TypeOf(Top.expr.left) \in {"Bool", "Int"}
    BY <1>2, <1>3, <1>4, <1>8 DEF ok, Grows
  <2>2. gen \in GenState /\ lhs.gen \in GenState /\ tested \in GenState
    BY <1>2, <1>4, <1>6 DEF Sound
  <2>3. Grows(gen, tested) /\ Blameless(gen, tested)
    BY <1>4, <1>6, <2>1, <2>2, GrowsTransitive DEF Blameless, UserError
  <2>4. CASE Top.expr.kind = "And"
    <3>1. Call(Top.expr.right, Append(Rest, Frame(Top.expr, "rhs", NoValue, dst, test)), tested)
      BY <1>1, <1>8, <2>4, Zenon
    <3>2. QED
      BY <1>1, <1>6, <2>1, <2>3, <3>1, TestedCalls
  <2>5. CASE Top.expr.kind # "And"
    <3>1. Call(Top.expr.right, Append(Rest, Frame(Top.expr, "rhs", NoValue, dst, out)), either)
      BY <1>1, <1>8, <2>5, Zenon
    <3>2. /\ Sound(g2, held \cup {dst}, open \cup {test})
          /\ Grows(tested, g2) /\ Blameless(tested, g2)
      <4>1. tested.error = "none" => dst \in held \cup {dst}
        OBVIOUS
      <4> HIDE DEF held, open
      <4>2. QED
        BY <1>6, <4>1, WordsOfBooleans, LoadImmSound
    <3> HIDE DEF g2
    <3>3. g2.error = "none" => test \notin open
      BY <1>6, <3>2 DEF Grows
    <3>4. /\ Sound(either, held \cup {dst}, open \cup {out})
          /\ Grows(g2, either) /\ Blameless(g2, either) /\ out \in Int
          /\ either.error = "none" => out \notin open
      <4> HIDE DEF held, open
      <4>1. QED
        BY <1>6, <3>2, <3>3, JumpOverSound
    <3> HIDE DEF either, out
    <3>5. Grows(gen, either) /\ Blameless(gen, either)
      <4>1. g2 \in GenState /\ either \in GenState
        BY <3>2, <3>4 DEF Sound
      <4>2. Grows(gen, g2)
        BY <2>2, <2>3, <3>2, <4>1, GrowsTransitive
      <4>3. Grows(gen, either)
        BY <2>2, <3>4, <4>1, <4>2, GrowsTransitive
      <4>4. QED
        BY <2>3, <3>2, <3>4, <4>3 DEF Blameless
    <3>6. either.error = "none" => dst \notin held
      BY <1>6, <3>2, <3>4 DEF Grows
    <3>7. QED
      BY <1>1, <1>6, <2>1, <3>1, <3>4, <3>5, <3>6, TestedCalls
  <2>6. QED
    BY <2>4, <2>5
<1>9. QED
  BY <1>7, <1>8

\* What is known when the right operand of && or || has been tested.
LEMMA LogicalRhs ==
  ASSUME Inv, mode = "return", stack # <<>>, Top.expr.kind \in Logical, Top.at = "rhs"
  PROVE  LET rhs == ensure_bool(gen, value)
             g   == MoveRhs(rhs)
         IN  /\ Sound(rhs.gen, (Held(Rest) \cup {Top.dst}) \cup {rhs.value.reg}, OpenOf(Rest) \cup {Top.ip})
             /\ Grows(gen, rhs.gen)
             /\ Blameless(gen, rhs.gen) \/ TypeOf(Top.expr) = "Error"
             /\ rhs.gen.error = "none" =>
                  /\ TypeOf(Top.expr) = "Bool" /\ Top.dst \notin Held(Rest)
                  /\ Blameless(gen, g)
             /\ Sound(g, Held(Rest) \cup {Top.dst}, OpenOf(Rest) \cup {Top.ip})
             /\ g.error = "none" => Top.ip \notin OpenOf(Rest)
             /\ Grows(gen, g)
<1> DEFINE rhs  == ensure_bool(gen, value)
           g    == MoveRhs(rhs)
           held == Held(Rest) \cup {Top.dst}
           open == OpenOf(Rest) \cup {Top.ip}
<1>1. KeptOf(Top) = Top.dst
  BY DEF KeptOf
<1>2. /\ Sound(gen, held \cup {value.reg}, open)
      /\ gen.error = "none" =>
           /\ Top.dst \notin Held(Rest) /\ value.reg \notin held /\ Top.ip \notin OpenOf(Rest)
           /\ value.type = TypeOf(Top.expr.right) /\ TypeOf(Top.expr.left) \in {"Bool", "Int"}
  BY <1>1, RhsOwned DEF FrameTyped
<1>3. /\ Gives(gen, held, open, rhs.gen, rhs.value)
      /\ gen.error # "none" \/ value.type \in {"Bool", "Int"} => Blameless(gen, rhs.gen)
      /\ rhs.gen.error = "none" => value.type \in {"Bool", "Int"}
  <2> HIDE DEF held, open
  <2>1. QED
    BY <1>2, ReturnFacts, TruthGives
<1> HIDE DEF rhs
<1>4. /\ Sound(rhs.gen, held \cup {rhs.value.reg}, open) /\ Grows(gen, rhs.gen)
      /\ rhs.value.reg \in U8 /\ (rhs.gen.error = "none" => rhs.value.reg \notin held)
  BY <1>3 DEF Gives, GivesReg
<1>5. Blameless(gen, rhs.gen) \/ TypeOf(Top.expr) = "Error"
  BY <1>2, <1>3, ReturnFacts, OperatorTypes
<1>6. rhs.gen.error = "none" =>
        /\ gen.error = "none" /\ TypeOf(Top.expr) = "Bool" /\ Blameless(gen, rhs.gen)
  BY <1>2, <1>3, <1>4, ReturnFacts, OperatorTypes DEF Grows
<1>7. Sound(g, held, open) /\ Grows(rhs.gen, g) /\ Blameless(rhs.gen, g)
  <2>1. /\ Sound(rhs.gen, (Held(Rest) \cup {Top.dst}) \cup {rhs.value.reg}, open)
        /\ rhs.gen.error = "none" => rhs.value.reg \notin Held(Rest) \cup {Top.dst}
        /\ Top.dst \in U8
    BY <1>4, ReturnFacts
  <2> HIDE DEF open
  <2>2. QED
    BY <1>4, <2>1, MoveSound DEF MoveRhs
<1> HIDE DEF g
<1>8. Grows(gen, g)
  BY <1>2, <1>4, <1>7, GrowsTransitive DEF Sound
<1>9. Blameless(gen, rhs.gen) => Blameless(gen, g)
  BY <1>7 DEF Blameless
<1>10. rhs.gen.error = "none" => Top.dst \notin Held(Rest)
  BY <1>2, <1>6
<1>11. g.error = "none" => Top.ip \notin OpenOf(Rest)
  BY <1>2, <1>8 DEF Grows
<1>12. QED
  BY <1>4, <1>5, <1>6, <1>7, <1>8, <1>9, <1>10, <1>11 DEF g, rhs

\* The destination of && or || is the answer.
LEMMA DestinationKeeps ==
  ASSUME Inv, mode = "return", stack # <<>>, NEW g,
         Sound(g, Held(Rest) \cup {Top.dst}, OpenOf(Rest)), Grows(gen, g), Blameless(gen, g),
         Top.dst \notin Held(Rest), TypeOf(Top.expr) = "Bool",
         Answer(g, Value(Top.dst, "Bool"), Rest)
  PROVE  Inv'
<1>1. PICK v : v = Value(Top.dst, "Bool")
  OBVIOUS
<1>2. v \in EmitValue /\ v.reg = Top.dst /\ v.type = "Bool"
  <2>1. Top.dst \in U8 /\ "Bool" \in ValueType
    BY ReturnFacts DEF ValueType
  <2>2. QED
    BY <1>1, <2>1, ValueFields
<1>3. Gives(gen, Held(Rest), OpenOf(Rest), g, v)
  <2>1. Top.dst \in U8
    BY ReturnFacts
  <2>2. QED
    BY <1>2, <2>1 DEF Gives, GivesReg
<1>4. QED
  BY <1>1, <1>2, <1>3, OperatorKeeps

LEMMA AndRhsKeeps == Inv /\ AndRhs => Inv'
<1> SUFFICES ASSUME Inv, AndRhs PROVE Inv'
  OBVIOUS
<1> DEFINE rhs   == ensure_bool(gen, value)
           moved == MoveRhs(rhs)
           out   == EmitIp(moved)
           past  == PatchToHere(emit(moved, "Jump", 0, 0, 0, -1), Top.ip)
           load  == emit_load_imm(past, Top.dst, BoolWord(FALSE))
           final == PatchToHere(load, out)
           held  == Held(Rest) \cup {Top.dst}
           open  == OpenOf(Rest)
<1>1. /\ mode = "return" /\ stack # <<>> /\ Top.expr.kind \in Logical /\ Top.at = "rhs"
      /\ IF ok(rhs.gen) THEN Answer(final, Value(Top.dst, "Bool"), Rest)
                        ELSE Answer(rhs.gen, NoValue, Rest)
  BY DEF AndRhs, Returning, Logical
<1>2. /\ Sound(rhs.gen, held \cup {rhs.value.reg}, open \cup {Top.ip})
      /\ Grows(gen, rhs.gen)
      /\ Blameless(gen, rhs.gen) \/ TypeOf(Top.expr) = "Error"
      /\ rhs.gen.error = "none" =>
           /\ TypeOf(Top.expr) = "Bool" /\ Top.dst \notin Held(Rest)
           /\ Blameless(gen, moved)
      /\ Sound(moved, held, open \cup {Top.ip})
      /\ moved.error = "none" => Top.ip \notin open
      /\ Grows(gen, moved)
  BY <1>1, LogicalRhs
<1> HIDE DEF rhs, moved
<1>3. /\ Sound(past, held, open \cup {out}) /\ Grows(moved, past) /\ Blameless(moved, past)
      /\ out \in Int
      /\ past.error = "none" => out \notin open
  <2>1. Top.ip \in Int
    BY <1>1, ReturnFacts
  <2> HIDE DEF held, open
  <2>2. QED
    BY <1>2, <2>1, JumpOverSound
<1> HIDE DEF past, out
<1>4. /\ Sound(load, held, open \cup {out}) /\ Grows(past, load) /\ Blameless(past, load)
      /\ load.error = past.error
  <2>1. Top.dst \in U8 /\ (past.error = "none" => Top.dst \in held)
    BY <1>1, ReturnFacts
  <2> HIDE DEF held, open
  <2>2. QED
    BY <1>3, <2>1, WordsOfBooleans, LoadImmSound
<1> HIDE DEF load
<1>5. Sound(final, held, open) /\ Grows(load, final) /\ Blameless(load, final)
  <2> HIDE DEF held, open
  <2>1. QED
    BY <1>3, <1>4, CloseSound
<1> HIDE DEF final
<1>6. Grows(gen, final)
  <2>1. moved \in GenState /\ past \in GenState /\ load \in GenState /\ final \in GenState
    BY <1>2, <1>3, <1>4, <1>5 DEF Sound
  <2>2. gen \in GenState
    BY <1>1, RhsOwned DEF Sound
  <2>3. Grows(gen, past)
    BY <1>2, <1>3, <2>1, <2>2, GrowsTransitive
  <2>4. Grows(gen, load)
    BY <1>4, <2>1, <2>2, <2>3, GrowsTransitive
  <2>5. QED
    BY <1>5, <2>1, <2>2, <2>4, GrowsTransitive
<1>7. CASE ~ok(rhs.gen)
  <2>1. rhs.gen.error # "none" /\ Answer(rhs.gen, NoValue, Rest)
    BY <1>1, <1>7 DEF ok
  <2>2. QED
    BY <1>1, <1>2, <2>1, NothingKept, FailedKeeps
<1>8. CASE ok(rhs.gen)
  <2>1. rhs.gen.error = "none" /\ Answer(final, Value(Top.dst, "Bool"), Rest)
    BY <1>1, <1>8 DEF ok
  <2>2. Blameless(gen, final)
    BY <1>2, <1>3, <1>4, <1>5, <2>1 DEF Blameless
  <2>3. QED
    BY <1>1, <1>2, <1>5, <1>6, <2>1, <2>2, DestinationKeeps
<1>9. QED
  BY <1>7, <1>8

LEMMA OrRhsKeeps == Inv /\ OrRhs => Inv'
<1> SUFFICES ASSUME Inv, OrRhs PROVE Inv'
  OBVIOUS
<1> DEFINE rhs   == ensure_bool(gen, value)
           moved == MoveRhs(rhs)
           final == PatchToHere(moved, Top.ip)
           held  == Held(Rest) \cup {Top.dst}
           open  == OpenOf(Rest)
<1>1. /\ mode = "return" /\ stack # <<>> /\ Top.expr.kind \in Logical /\ Top.at = "rhs"
      /\ IF ok(rhs.gen) THEN Answer(final, Value(Top.dst, "Bool"), Rest)
                        ELSE Answer(rhs.gen, NoValue, Rest)
  BY DEF OrRhs, Returning, Logical
<1>2. /\ Sound(rhs.gen, held \cup {rhs.value.reg}, open \cup {Top.ip})
      /\ Grows(gen, rhs.gen)
      /\ Blameless(gen, rhs.gen) \/ TypeOf(Top.expr) = "Error"
      /\ rhs.gen.error = "none" =>
           /\ TypeOf(Top.expr) = "Bool" /\ Top.dst \notin Held(Rest)
           /\ Blameless(gen, moved)
      /\ Sound(moved, held, open \cup {Top.ip})
      /\ moved.error = "none" => Top.ip \notin open
      /\ Grows(gen, moved)
  BY <1>1, LogicalRhs
<1> HIDE DEF rhs, moved
<1>3. Sound(final, held, open) /\ Grows(moved, final) /\ Blameless(moved, final)
  <2>1. Top.ip \in Int
    BY <1>1, ReturnFacts
  <2> HIDE DEF held, open
  <2>2. QED
    BY <1>2, <2>1, CloseSound
<1> HIDE DEF final
<1>4. Grows(gen, final)
  <2>1. gen \in GenState
    BY <1>1, RhsOwned DEF Sound
  <2>2. QED
    BY <1>2, <1>3, <2>1, GrowsTransitive DEF Sound
<1>5. CASE ~ok(rhs.gen)
  <2>1. rhs.gen.error # "none" /\ Answer(rhs.gen, NoValue, Rest)
    BY <1>1, <1>5 DEF ok
  <2>2. QED
    BY <1>1, <1>2, <2>1, NothingKept, FailedKeeps
<1>6. CASE ok(rhs.gen)
  <2>1. rhs.gen.error = "none" /\ Answer(final, Value(Top.dst, "Bool"), Rest)
    BY <1>1, <1>6 DEF ok
  <2>2. Blameless(gen, final)
    BY <1>2, <1>3, <2>1 DEF Blameless
  <2>3. QED
    BY <1>1, <1>2, <1>3, <1>4, <2>1, <2>2, DestinationKeeps
<1>7. QED
  BY <1>5, <1>6

\* Two operands are in use when the second one comes back, both are given up.
LEMMA BothOwned ==
  ASSUME Inv, mode = "return", stack # <<>>, Top.expr.kind \in Comparing \cup Bitwise, Top.at = "rhs"
  PROVE  /\ Sound(gen, (Held(Rest) \cup {Top.lhs.reg}) \cup {value.reg}, OpenOf(Rest))
         /\ gen.error = "none" =>
              /\ Top.lhs.reg \notin Held(Rest) /\ value.reg \notin Held(Rest)
              /\ Top.lhs.reg # value.reg
              /\ Top.lhs.type = TypeOf(Top.expr.left) /\ value.type = TypeOf(Top.expr.right)
         /\ gen \in GenState /\ Grows(gen, gen) /\ Blameless(gen, gen)
<1>1. Top.expr.kind \notin Logical
  BY KindsDisjoint
<1>2. KeptOf(Top) = Top.lhs.reg
  BY <1>1 DEF KeptOf
<1>3. OpenOf(Rest) \cup (IF Top.expr.kind \in Logical THEN {Top.ip} ELSE {}) = OpenOf(Rest)
  BY <1>1
<1>4. Sound(gen, (Held(Rest) \cup {Top.lhs.reg}) \cup {value.reg}, OpenOf(Rest))
  BY <1>2, <1>3, RhsOwned
<1>5. gen.error = "none" =>
        /\ Top.lhs.reg \notin Held(Rest)
        /\ value.reg \notin Held(Rest) \cup {Top.lhs.reg}
        /\ value.type = TypeOf(Top.expr.right) /\ FrameTyped(Top)
  BY <1>2, RhsOwned
<1>6. gen \in GenState /\ Grows(gen, gen) /\ Blameless(gen, gen)
  BY <1>4, GenFields DEF Sound, Grows, Blameless
<1>7. QED
  BY <1>1, <1>4, <1>5, <1>6 DEF FrameTyped

LEMMA IntoKeeps ==
  ASSUME Inv, mode = "return", stack # <<>>, NEW g, NEW a \in U8, NEW b \in U8,
         Sound(g, (Held(Rest) \cup {a}) \cup {b}, OpenOf(Rest)),
         g.error = "none" => a \notin Held(Rest) /\ b \notin Held(Rest) /\ a # b,
         gen \in GenState, Grows(gen, g), Blameless(gen, g),
         NEW op \in CmpOps \cup {"And", "Or"}, NEW t \in ValueType, TypeOf(Top.expr) = t,
         Answer(EmitInto(g, op, a, b, t).gen, EmitInto(g, op, a, b, t).value, Rest)
  PROVE  Inv'
<1> DEFINE r == EmitInto(g, op, a, b, t)
           both == (Held(Rest) \cup {a}) \cup {b}
<1>1. Gives(g, both \ {a, b}, OpenOf(Rest), r.gen, r.value) /\ Blameless(g, r.gen)
      /\ r.value.type = t
  <2>1. g.error = "none" => a \in both /\ b \in both /\ a # b
    OBVIOUS
  <2>2. Sound(g, both, OpenOf(Rest))
    OBVIOUS
  <2> HIDE DEF both
  <2>3. r.value.type = t
    BY DEF EmitInto, Value
  <2>4. QED
    BY <2>1, <2>2, <2>3, EmitIntoGives
<1>2. Answer(r.gen, r.value, Rest)
  OBVIOUS
<1> HIDE DEF r
<1>3. Grows(g, r.gen) /\ r.value \in EmitValue /\ Sound(r.gen, (both \ {a, b}) \cup {r.value.reg}, OpenOf(Rest))
  BY <1>1 DEF Gives, GivesReg
<1>4. Grows(gen, r.gen) /\ Blameless(gen, r.gen)
  BY <1>1, <1>3, GrowsTransitive DEF Sound, Blameless
<1>5. CASE r.gen.error = "none"
  <2>1. both \ {a, b} = Held(Rest)
    BY <1>3, <1>5 DEF Grows
  <2>2. Gives(gen, Held(Rest), OpenOf(Rest), r.gen, r.value)
    BY <1>1, <1>4, <2>1 DEF Gives, GivesReg
  <2>3. QED
    BY <1>1, <1>2, <1>4, <2>2, OperatorKeeps
<1>6. CASE r.gen.error # "none"
  <2> HIDE DEF both
  <2>1. QED
    BY <1>2, <1>3, <1>4, <1>6, FailedKeeps
<1>7. QED
  BY <1>5, <1>6

LEMMA BitwiseRhsKeeps == Inv /\ BitwiseRhs => Inv'
<1> SUFFICES ASSUME Inv, BitwiseRhs PROVE Inv'
  OBVIOUS
<1> DEFINE bad == {Top.lhs.type, value.type} # {"Int"}
           a == Top.lhs.reg
           b == value.reg
           bitOp == BitOp[Top.expr.kind]
           result == EmitInto(gen, bitOp, a, b, "Int")
<1>1. /\ mode = "return" /\ stack # <<>> /\ Top.expr.kind \in Bitwise
      /\ Top.expr.kind \in Comparing \cup Bitwise /\ Top.at = "rhs"
      /\ (CASE ~ok(gen) -> Answer(gen, Value(0, "Int"), Rest)
            [] ok(gen) /\ bad -> Answer(fail(gen, "type mismatch"), Value(0, "Int"), Rest)
            [] OTHER -> Answer(result.gen, result.value, Rest))
  BY Zenon DEF BitwiseRhs, Returning
<1>2. /\ Sound(gen, (Held(Rest) \cup {a}) \cup {b}, OpenOf(Rest))
      /\ gen.error = "none" =>
           /\ a \notin Held(Rest) /\ b \notin Held(Rest) /\ a # b
           /\ Top.lhs.type = TypeOf(Top.expr.left) /\ value.type = TypeOf(Top.expr.right)
      /\ gen \in GenState /\ Grows(gen, gen) /\ Blameless(gen, gen)
  BY <1>1, BothOwned
<1>3. a \in U8 /\ b \in U8
  BY <1>1, ReturnFacts
<1>4. TypeOf(Top.expr) = IF {TypeOf(Top.expr.left), TypeOf(Top.expr.right)} = {"Int"}
                         THEN "Int" ELSE "Error"
  BY <1>1, ReturnFacts, OperatorTypes
<1>5. PICK t \in ValueType, o \in CmpOps \cup {"And", "Or"}, e \in UserError, zero \in U8 :
        t = "Int" /\ o = bitOp /\ e = "type mismatch" /\ zero = 0
  <2>1. bitOp \in CmpOps \cup {"And", "Or"}
    <3>1. \A k \in Bitwise : BitOp[k] \in {"And", "Or"}
      BY DEF Bitwise, BitOp
    <3>2. QED
      BY <1>1, <3>1
  <2>2. "Int" \in ValueType /\ "type mismatch" \in UserError
    BY DEF ValueType, UserError
  <2> HIDE DEF bitOp
  <2>3. QED
    BY <2>1, <2>2, ZeroIsReg
<1>6. Value(0, "Int") \in EmitValue
  BY <1>5, ValueFields
<1>7. CASE ~ok(gen)
  <2>1. gen.error # "none" /\ Answer(gen, Value(0, "Int"), Rest)
    BY <1>1, <1>7, Zenon DEF ok
  <2>2. QED
    BY <1>1, <1>2, <1>6, <2>1, FailedKeeps
<1>8. CASE ok(gen) /\ bad
  <2>1. Answer(fail(gen, e), Value(0, "Int"), Rest)
    BY <1>1, <1>5, <1>8, Zenon
  <2>2. TypeOf(Top.expr) = "Error"
    BY <1>2, <1>4, <1>8 DEF ok
  <2>3. e \in ResourceError \cup UserError
    OBVIOUS
  <2>4. /\ Sound(fail(gen, e), Held(Rest), OpenOf(Rest)) /\ Grows(gen, fail(gen, e))
        /\ fail(gen, e).error # "none"
    BY <1>2, <2>3, FailSound
  <2>5. QED
    BY <1>1, <1>6, <2>1, <2>2, <2>4, FailedKeeps
<1>9. CASE ok(gen) /\ ~bad
  <2>1. Answer(result.gen, result.value, Rest)
    BY <1>1, <1>9, Zenon
  <2>2. Answer(EmitInto(gen, o, a, b, t).gen, EmitInto(gen, o, a, b, t).value, Rest)
    BY <1>5, <2>1
  <2>3. TypeOf(Top.expr) = t
    BY <1>2, <1>4, <1>5, <1>9 DEF ok
  <2> HIDE DEF a, b
  <2>4. QED
    BY <1>1, <1>2, <1>3, <2>2, <2>3, IntoKeeps
<1>10. QED
  BY <1>7, <1>8, <1>9

\* The operands of a comparison that was entered have comparable types.
LEMMA ComparedTypes ==
  ASSUME Inv, mode = "return", stack # <<>>, Top.expr.kind \in Comparing,
         Top.lhs.type = TypeOf(Top.expr.left), value.type = TypeOf(Top.expr.right)
  PROVE  /\ TypeOf(Top.expr) = "Bool"
         /\ Top.lhs.type = value.type \/ {Top.lhs.type, value.type} = {"Bool", "Int"}
<1>1. Comparable(Top.expr) /\ Top.expr \in Expr /\ registry \in Registries
      /\ Top.expr.left \in Expr /\ Top.expr.right \in Expr
  BY ReturnFacts DEF FrameOk, Binary
<1>2. Top.lhs.type \in ValueType /\ value.type \in ValueType
  BY ReturnFacts DEF EmitValue
<1>3. TypeOf(Top.expr.left) # "Error" /\ TypeOf(Top.expr.right) # "Error"
  BY <1>2 DEF ValueType
<1>4. /\ TypeOf(Top.expr.left) = resolve_expr_type(Top.expr.left)
      /\ TypeOf(Top.expr.right) = resolve_expr_type(Top.expr.right)
  BY <1>1, <1>3, ResolvedType
<1>5. \/ {TypeOf(Top.expr.left), TypeOf(Top.expr.right)} \subseteq {"Bool", "Int"}
      \/ /\ {TypeOf(Top.expr.left), TypeOf(Top.expr.right)} = {"Ipv4"}
         /\ Top.expr.kind \in {"Eq", "Ne"}
  BY <1>1, <1>4 DEF Comparable
<1>6. TypeOf(Top.expr) = "Bool"
  BY <1>1, <1>5, OperatorTypes
<1>7. QED
  BY <1>5, <1>6

LEMMA CompareRhsKeeps == Inv /\ CompareRhs => Inv'
<1> SUFFICES ASSUME Inv, CompareRhs PROVE Inv'
  OBVIOUS
<1> DEFINE op    == CompareOp[Top.expr.kind]
           mixed == {Top.lhs.type, value.type} = {"Bool", "Int"}
           lhs   == IF mixed /\ value.type = "Bool" THEN ensure_bool(gen, Top.lhs)
                    ELSE [gen |-> gen, value |-> Top.lhs]
           rhs   == IF mixed /\ Top.lhs.type = "Bool" THEN ensure_bool(gen, value)
                    ELSE [gen |-> lhs.gen, value |-> value]
           result == EmitInto(rhs.gen, op, lhs.value.reg, rhs.value.reg, "Bool")
           held  == Held(Rest)
           open  == OpenOf(Rest)
<1>1. /\ mode = "return" /\ stack # <<>> /\ Top.expr.kind \in Comparing
      /\ Top.expr.kind \in Comparing \cup Bitwise /\ Top.at = "rhs"
      /\ (CASE ~ok(gen) -> Answer(gen, NoValue, Rest)
            [] ok(gen) /\ ~mixed /\ Top.lhs.type # value.type ->
                 Answer(fail(gen, "type mismatch"), NoValue, Rest)
            [] OTHER -> Answer(result.gen, result.value, Rest))
  BY Zenon DEF CompareRhs, Returning, emit_compare_regs
<1>2. /\ Sound(gen, (held \cup {Top.lhs.reg}) \cup {value.reg}, open)
      /\ gen.error = "none" =>
           /\ Top.lhs.reg \notin held /\ value.reg \notin held /\ Top.lhs.reg # value.reg
           /\ Top.lhs.type = TypeOf(Top.expr.left) /\ value.type = TypeOf(Top.expr.right)
      /\ gen \in GenState /\ Grows(gen, gen) /\ Blameless(gen, gen)
  BY <1>1, BothOwned
<1>3. /\ Top.lhs \in EmitValue /\ Top.lhs.reg \in U8 /\ value \in EmitValue /\ value.reg \in U8
  BY <1>1, ReturnFacts
<1>4. CASE ~ok(gen)
  <2>1. gen.error # "none" /\ Answer(gen, NoValue, Rest)
    BY <1>1, <1>4, Zenon DEF ok
  <2>2. QED
    BY <1>1, <1>2, <2>1, NothingKept, FailedKeeps
<1>5. CASE ok(gen)
  <2>1. gen.error = "none"
    BY <1>5 DEF ok
  <2>2. TypeOf(Top.expr) = "Bool" /\ (Top.lhs.type = value.type \/ mixed)
    BY <1>1, <1>2, <2>1, ComparedTypes
  <2>3. Answer(result.gen, result.value, Rest)
    <3>1. ~(~ok(gen)) /\ ~(ok(gen) /\ ~mixed /\ Top.lhs.type # value.type)
      BY <1>5, <2>2
    <3> HIDE DEF mixed, result
    <3>2. QED
      BY <1>1, <3>1, Zenon
  <2>4. /\ Sound(rhs.gen, (held \cup {lhs.value.reg}) \cup {rhs.value.reg}, open)
        /\ rhs.gen.error = "none" =>
             lhs.value.reg \notin held /\ rhs.value.reg \notin held /\ lhs.value.reg # rhs.value.reg
        /\ Grows(gen, rhs.gen) /\ Blameless(gen, rhs.gen)
        /\ lhs.value.reg \in U8 /\ rhs.value.reg \in U8
    <3>1. CASE ~mixed
      <4>1. lhs = [gen |-> gen, value |-> Top.lhs] /\ rhs = [gen |-> lhs.gen, value |-> value]
        BY <3>1
      <4> HIDE DEF lhs, rhs
      <4>2. lhs.value = Top.lhs /\ rhs.gen = gen /\ rhs.value = value
        BY <4>1
      <4>3. QED
        BY <1>2, <1>3, <4>2
    <3>2. CASE mixed /\ value.type = "Bool"
      <4> DEFINE t == ensure_bool(gen, Top.lhs)
      <4>1. Top.lhs.type = "Int" /\ Top.lhs.type # "Bool"
        BY <3>2
      <4>2. lhs = t /\ rhs = [gen |-> t.gen, value |-> value]
        BY <3>2, <4>1
      <4>3. Sound(gen, (held \cup {value.reg}) \cup {Top.lhs.reg}, open)
        <5>1. (held \cup {value.reg}) \cup {Top.lhs.reg} = (held \cup {Top.lhs.reg}) \cup {value.reg}
          OBVIOUS
        <5>2. QED
          BY <1>2, <5>1
      <4>4. gen.error = "none" => Top.lhs.reg \notin held \cup {value.reg}
        BY <1>2
      <4>5. /\ Gives(gen, held \cup {value.reg}, open, t.gen, t.value)
            /\ Blameless(gen, t.gen)
        <5> HIDE DEF held, open
        <5>1. QED
          BY <1>3, <4>1, <4>3, <4>4, TruthGives
      <4> HIDE DEF lhs, rhs, t
      <4>6. lhs.value = t.value /\ rhs.gen = t.gen /\ rhs.value = value
        BY <4>2
      <4>7. /\ Sound(t.gen, (held \cup {value.reg}) \cup {t.value.reg}, open)
            /\ t.value.reg \in U8 /\ Grows(gen, t.gen)
            /\ t.gen.error = "none" => t.value.reg \notin held \cup {value.reg}
        BY <4>5 DEF Gives, GivesReg
      <4>8. (held \cup {value.reg}) \cup {t.value.reg} = (held \cup {t.value.reg}) \cup {value.reg}
        OBVIOUS
      <4>9. QED
        BY <1>2, <1>3, <2>1, <4>5, <4>6, <4>7, <4>8
    <3>3. CASE mixed /\ value.type # "Bool"
      <4> DEFINE t == ensure_bool(gen, value)
      <4>1. Top.lhs.type = "Bool" /\ value.type = "Int"
        BY <3>3
      <4>2. lhs = [gen |-> gen, value |-> Top.lhs] /\ rhs = t
        BY <3>3, <4>1
      <4>3. /\ Gives(gen, held \cup {Top.lhs.reg}, open, t.gen, t.value)
            /\ Blameless(gen, t.gen)
        <5>1. gen.error = "none" => value.reg \notin held \cup {Top.lhs.reg}
          BY <1>2
        <5> HIDE DEF held, open
        <5>2. QED
          BY <1>2, <1>3, <4>1, <5>1, TruthGives
      <4> HIDE DEF lhs, rhs, t
      <4>4. lhs.value = Top.lhs /\ rhs.gen = t.gen /\ rhs.value = t.value
        BY <4>2
      <4>5. /\ Sound(t.gen, (held \cup {Top.lhs.reg}) \cup {t.value.reg}, open)
            /\ t.value.reg \in U8 /\ Grows(gen, t.gen)
            /\ t.gen.error = "none" => t.value.reg \notin held \cup {Top.lhs.reg}
        BY <4>3 DEF Gives, GivesReg
      <4>6. QED
        BY <1>2, <1>3, <2>1, <4>3, <4>4, <4>5
    <3>4. QED
      BY <3>1, <3>2, <3>3
  <2> HIDE DEF lhs, rhs, op
  <2>5. PICK t \in ValueType : t = "Bool"
    BY DEF ValueType
  <2>6. op \in CmpOps \cup {"And", "Or"}
    BY <1>1, CompareOps DEF op
  <2>7. Answer(EmitInto(rhs.gen, op, lhs.value.reg, rhs.value.reg, t).gen,
               EmitInto(rhs.gen, op, lhs.value.reg, rhs.value.reg, t).value, Rest)
    BY <2>3, <2>5
  <2>8. QED
    BY <1>1, <1>2, <2>2, <2>4, <2>5, <2>6, <2>7, IntoKeeps
<1>6. QED
  BY <1>4, <1>5

-----------------------------------------------------------------------------
(* The last step, and the first state. *)

\* The program made of sound code and a Ret.
InstructionsOk(p, S) ==
  \A i \in S \ {p.count} :
    LET ins == p.instructions[i]
    IN  /\ InstructionOk(p, i) \/ (Unloadable(p, i) /\ ~LoadableRegistry(registry))
        /\ ins.op = "LoadImm" => i + 1 \notin S
        /\ ins.op \in JumpOps => ins.aux \in S /\ ins.aux > i /\ ins.aux < p.count

LEMMA CodeCompiles ==
  ASSUME NEW code \in Seq(Slot), NEW next \in 0 .. MaxRegisterCount, CodeOk(code, next, {}),
         NEW code1 \in Seq(Slot), CodeOk(code1, next, {}), Len(code1) = Len(code) + 1,
         \A i \in 1 .. Len(code) : code1[i] = code[i], code1[Len(code) + 1].op = "Ret",
         NEW p, p = [instructions   |-> [i \in 0 .. Len(code1) - 1 |-> code1[i + 1]],
                     count          |-> Len(code1),
                     register_count |-> next],
         NEW S, S = {i \in 0 .. p.count - 1 : p.instructions[i].op # Invalid} \cup {p.count}
  PROVE  /\ HeaderOk(p)
         /\ Closed(p, S)
         /\ InstructionsOk(p, S)
         /\ p.instructions[p.count - 1].op = "Ret"
<1> DEFINE n == Len(code)
<1>1. n \in Nat /\ Len(code1) = n + 1 /\ MaxRegisterCount \in Nat
  BY BytecodeAssumption
<1>2. /\ p.count = n + 1 /\ p.register_count = next
      /\ \A i \in 0 .. n : p.instructions[i] = code1[i + 1] /\ i + 1 \in 1 .. n + 1
  BY <1>1
<1>3. ASSUME NEW i \in 1 .. n + 1 PROVE code1[i] \in Slot /\ SlotOk(code1, next, {}, i)
  BY <1>1 DEF CodeOk
<1>4. ASSUME NEW i \in 1 .. n PROVE SlotOk(code, next, {}, i) /\ code1[i] = code[i]
  BY DEF CodeOk
<1>5. Invalid \notin OpCode /\ "LoadImm" # Invalid /\ JumpOps \subseteq OpCode /\ "Ret" \notin JumpOps
  BY DEF Invalid, OpCode, CmpOps, JumpOps
<1> HIDE DEF n
<1>6. S = {i \in 0 .. n : code1[i + 1].op # Invalid} \cup {n + 1}
  BY <1>1, <1>2
<1>7. HeaderOk(p)
  BY <1>1, <1>2 DEF HeaderOk
<1>8. ASSUME NEW i \in 0 .. n, code1[i + 1].op # Invalid
      PROVE  IF code1[i + 1].op = "LoadImm" THEN i + 2 \in S /\ i + 1 < n + 1 ELSE i + 1 \in S
  <2>1. i + 1 \in 1 .. n + 1 /\ SlotOk(code1, next, {}, i + 1)
    BY <1>1, <1>3
  <2>2. CASE code1[i + 1].op = "LoadImm"
    <3>1. i + 1 < n + 1 /\ code1[i + 2].op = Invalid
      <4>1. i + 1 < Len(code1) /\ code1[(i + 1) + 1].op = Invalid
        BY <2>1, <2>2 DEF SlotOk
      <4>2. (i + 1) + 1 = i + 2
        BY <1>1
      <4>3. QED
        BY <1>1, <4>1, <4>2
    <3>2. CASE i + 2 = n + 1
      BY <1>6, <2>2, <3>1, <3>2
    <3>3. CASE i + 2 # n + 1
      <4>1. i + 3 \in 1 .. n + 1 /\ i + 2 \in 0 .. n /\ (i + 2) + 1 = i + 3 /\ (i + 3) - 1 = i + 2
        BY <1>1, <3>1, <3>3
      <4>2. SlotOk(code1, next, {}, i + 3)
        BY <1>3, <4>1
      <4>3. code1[i + 3].op # Invalid
        BY <1>5, <3>1, <4>1, <4>2 DEF SlotOk
      <4>4. QED
        BY <1>6, <2>2, <3>1, <4>1, <4>3
    <3>4. QED
      BY <3>2, <3>3
  <2>3. CASE code1[i + 1].op # "LoadImm"
    <3>1. CASE i = n
      BY <1>6, <2>3, <3>1
    <3>2. CASE i # n
      <4>1. i + 2 \in 1 .. n + 1 /\ i + 1 \in 0 .. n /\ (i + 1) + 1 = i + 2 /\ (i + 2) - 1 = i + 1
        BY <1>1, <3>2
      <4>2. SlotOk(code1, next, {}, i + 2)
        BY <1>3, <4>1
      <4>3. code1[i + 2].op # Invalid
        BY <2>3, <4>1, <4>2 DEF SlotOk
      <4>4. QED
        BY <1>6, <2>3, <4>1, <4>3
    <3>3. QED
      BY <3>1, <3>2
  <2>4. QED
    BY <2>2, <2>3
<1>9. Closed(p, S)
  <2>1. 0 \in S
    <3>1. 1 \in 1 .. n + 1 /\ 0 \in 0 .. n /\ 0 + 1 = 1
      BY <1>1
    <3>2. SlotOk(code1, next, {}, 1)
      BY <1>3, <3>1
    <3>3. code1[1].op # Invalid
      BY <3>2 DEF SlotOk
    <3>4. QED
      BY <1>6, <3>1, <3>3
  <2>2. ASSUME NEW s \in S, s < p.count PROVE s + InstructionWidth(p.instructions[s]) \in S
    <3>1. s \in 0 .. n /\ code1[s + 1].op # Invalid /\ p.instructions[s] = code1[s + 1]
      BY <1>1, <1>2, <1>6, <2>2
    <3>2. QED
      BY <1>8, <3>1 DEF InstructionWidth
  <2>3. QED
    BY <2>1, <2>2 DEF Closed
<1>10. ASSUME NEW i \in S \ {p.count}
       PROVE  LET ins == p.instructions[i]
              IN  /\ InstructionOk(p, i) \/ (Unloadable(p, i) /\ ~LoadableRegistry(registry))
                  /\ ins.op = "LoadImm" => i + 1 \notin S
                  /\ ins.op \in JumpOps => ins.aux \in S /\ ins.aux > i /\ ins.aux < p.count
  <2> DEFINE ins == code1[i + 1]
  <2>1. i \in 0 .. n /\ ins.op # Invalid /\ p.instructions[i] = ins /\ i + 1 \in 1 .. n + 1
    BY <1>1, <1>2, <1>6
  <2>2. ins \in Slot /\ SlotOk(code1, next, {}, i + 1)
    BY <1>3, <2>1
  <2>3. ins.op \in OpCode /\ ins.aux \in Int
    BY <2>1, <2>2, BytecodeAssumption DEF Slot, I32
  <2>4. /\ \A r \in RegisterOperands(ins) : r < next
        /\ ins.op = "LoadField" => (LoadableRegistry(registry) => ins.b \in {1, 2, 4, 8}) /\ ins.c <= 1
    BY <2>2 DEF SlotOk
  <2>5. ins.op = "LoadImm" => i + 1 < p.count /\ i + 1 \notin S
    <3>1. SUFFICES ASSUME ins.op = "LoadImm" PROVE i + 1 < p.count /\ i + 1 \notin S
      OBVIOUS
    <3>2. i + 1 < n + 1 /\ code1[(i + 1) + 1].op = Invalid
      BY <1>1, <2>2, <3>1 DEF SlotOk
    <3>3. i + 1 # n + 1
      BY <1>1, <2>1, <3>2
    <3>4. QED
      BY <1>2, <1>6, <3>2, <3>3
  <2>6. ASSUME ins.op \in JumpOps
        PROVE  ins.aux \in S /\ ins.aux > i /\ ins.aux < p.count
    <3>1. i # n
      BY <1>5, <2>6 DEF n
    <3>2. i + 1 \in 1 .. n
      BY <1>1, <2>1, <3>1
    <3>3. SlotOk(code, next, {}, i + 1) /\ code[i + 1] = ins
      BY <1>4, <3>2
    <3>4. ins.aux \in i + 1 .. n
      BY <2>6, <3>3 DEF SlotOk, Target, n
    <3>5. Target(code1, i + 1, ins.aux)
      BY <2>2, <2>6 DEF SlotOk
    <3>6. code1[ins.aux + 1].op # Invalid /\ ins.aux \in 0 .. n
      BY <1>1, <2>1, <3>4, <3>5 DEF Target
    <3>7. ins.aux \in S
      BY <1>6, <3>6
    <3>8. QED
      BY <1>1, <1>2, <2>1, <3>4, <3>7
  <2>7. ins.op \in JumpOps => ins.aux >= 0 /\ ins.aux <= p.count
    BY <1>1, <1>2, <2>1, <2>3, <2>6
  <2>8. InstructionOk(p, i) \/ (Unloadable(p, i) /\ ~LoadableRegistry(registry))
    <3>1. ins.op = "LoadField" /\ ins.b \notin {1, 2, 4, 8} => Unloadable(p, i) /\ ~LoadableRegistry(registry)
      BY <2>1, <2>4 DEF Unloadable
    <3>2. (ins.op = "LoadField" => ins.b \in {1, 2, 4, 8}) => InstructionOk(p, i)
      BY <1>2, <2>1, <2>3, <2>4, <2>5, <2>7 DEF InstructionOk
    <3>3. QED
      BY <3>1, <3>2
  <2>9. QED
    BY <2>1, <2>5, <2>6, <2>8
<1>11. p.instructions[p.count - 1].op = "Ret"
  <2>1. p.count - 1 = n /\ n \in 0 .. n
    BY <1>1, <1>2
  <2>2. QED
    BY <1>2, <2>1 DEF n
<1>12. InstructionsOk(p, S)
  BY <1>10 DEF InstructionsOk
<1>13. QED
  BY <1>7, <1>9, <1>11, <1>12

LEMMA RootReturns ==
  ASSUME Inv, mode = "return", stack = <<>>
  PROVE  /\ root \in Roots /\ root \in Expr /\ registry \in Registries
         /\ value \in EmitValue /\ value.reg \in U8
         /\ Sound(gen, {} \cup {value.reg}, {})
         /\ gen.error = "none" => value.type = TypeOf(root)
         /\ gen.error \in UserError => ~WellTyped(root, registry)
<1>1. /\ root \in Roots /\ registry \in Registries /\ value \in EmitValue
      /\ Sound(gen, Held(stack) \cup {value.reg}, OpenOf(stack))
      /\ gen.error = "none" => value.type = TypeOf(Awaited(stack))
      /\ gen.error \in UserError => ~WellTyped(root, registry)
  BY DEF Inv, Returns, Waiting
<1>2. Rhs(stack) = {} /\ Tests(stack) = {}
  BY DEF Rhs, Tests
<1>3. Held(stack) = {} /\ OpenOf(stack) = {} /\ Awaited(stack) = root
  BY <1>2 DEF Held, OpenOf, Awaited
<1>4. QED
  BY <1>1, <1>3, RootsAssumption DEF EmitValue

LEMMA ErrorsSplit == Error \ ({"none"} \cup InternalError) = UserError \cup ResourceError
BY DEF Error, InternalError, ResourceError, UserError

LEMMA FinishKeeps == Inv /\ Finish => Inv'
<1> SUFFICES ASSUME Inv, Finish PROVE Inv'
  OBVIOUS
<1> DEFINE result == IF ok(gen) THEN ensure_bool(gen, value) ELSE [gen |-> gen, value |-> value]
           r      == result.value.reg
           e      == emit(result.gen, "Ret", r, 0, 0, 0)
           g1     == release_reg(e, r)
<1>1. /\ mode = "return" /\ stack = <<>>
      /\ mode' = "done"
      /\ root' = root /\ registry' = registry /\ node' = node /\ value' = value /\ stack' = stack
      /\ ok(result.gen) => /\ gen' = g1 /\ register_count' = result.gen.next_reg /\ status' = "OK"
      /\ ~ok(result.gen) => /\ gen' = result.gen /\ status' = StatusOf(result.gen.error)
                            /\ register_count' = register_count
  BY DEF Finish
<1>2. /\ root \in Roots /\ root \in Expr /\ registry \in Registries
      /\ value \in EmitValue /\ value.reg \in U8
      /\ Sound(gen, {} \cup {value.reg}, {})
      /\ gen.error = "none" => value.type = TypeOf(root)
      /\ gen.error \in UserError => ~WellTyped(root, registry)
  BY <1>1, RootReturns
<1>3. /\ Sound(result.gen, {r}, {}) /\ r \in U8
      /\ ok(result.gen) => WellTyped(root, registry)
      /\ result.gen.error \in UserError => ~WellTyped(root, registry)
  <2>1. CASE ~ok(gen)
    <3>1. result = [gen |-> gen, value |-> value]
      BY <2>1
    <3> HIDE DEF result
    <3>2. result.gen = gen /\ result.value = value
      BY <3>1
    <3>3. Sound(result.gen, {r}, {})
      BY <1>2, <3>2
    <3>4. ~ok(result.gen)
      BY <2>1, <3>2
    <3>5. QED
      BY <1>2, <3>2, <3>3, <3>4
  <2>2. CASE ok(gen)
    <3> DEFINE t == ensure_bool(gen, value)
    <3>1. result = t
      BY <2>2
    <3>2. gen.error = "none" => value.reg \notin {}
      OBVIOUS
    <3>3. /\ Gives(gen, {}, {}, t.gen, t.value)
          /\ gen.error # "none" \/ value.type \in {"Bool", "Int"} => Blameless(gen, t.gen)
          /\ t.gen.error = "none" => value.type \in {"Bool", "Int"}
      BY <1>2, <3>2, TruthGives
    <3> HIDE DEF t, result
    <3>4. gen.error = "none" /\ value.type = TypeOf(root)
      BY <1>2, <2>2 DEF ok
    <3>5. Sound(t.gen, {t.value.reg}, {}) /\ t.value.reg \in U8
      BY <3>3 DEF Gives, GivesReg
    <3>6. value.type \in {"Bool", "Int"} <=> WellTyped(root, registry)
      BY <3>4 DEF WellTyped, TypeOf
    <3>7. t.gen.error \in UserError => ~WellTyped(root, registry)
      BY <3>3, <3>4, <3>6 DEF Blameless, UserError
    <3>8. QED
      BY <3>1, <3>3, <3>5, <3>6, <3>7 DEF ok
  <2>3. QED
    BY <2>1, <2>2
<1> HIDE DEF result
<1>4. StackOk(stack)'
  BY <1>1 DEF StackOk
<1>5. node \in Expr /\ value \in EmitValue /\ register_count = 0
  BY <1>1 DEF Inv
<1>6. CASE ~ok(result.gen)
  <2>1. gen' = result.gen /\ status' = StatusOf(result.gen.error) /\ register_count' = 0
    BY <1>1, <1>5, <1>6
  <2>2. result.gen \in GenState /\ result.gen.error \notin InternalError /\ result.gen.error # "none"
    BY <1>3, <1>6 DEF Sound, ok
  <2>3. result.gen.error \in UserError \cup ResourceError
    BY <2>2, ErrorsSplit DEF GenState
  <2>4. status' \in {"QUALIFIER_NOT_FOUND", "TYPE_MISMATCH", "PARSE", "CODEGEN"}
    BY <2>1 DEF StatusOf
  <2>5. CompiledSound'
    BY <2>4 DEF CompiledSound
  <2>6. StatusMatchesTyping'
    BY <1>1, <1>3, <2>1, <2>3 DEF StatusMatchesTyping
  <2>7. 0 \in 0 .. MaxRegisterCount
    BY BytecodeAssumption
  <2>8. QED
    BY <1>1, <1>2, <1>4, <1>5, <2>1, <2>2, <2>4, <2>5, <2>6, <2>7 DEF Inv
<1>7. CASE ok(result.gen)
  <2>1. gen' = g1 /\ register_count' = result.gen.next_reg /\ status' = "OK"
    BY <1>1, <1>7
  <2>2. result.gen.error = "none" /\ result.gen \in GenState
    BY <1>3, <1>7 DEF ok, Sound
  <2>3. PICK op \in OpCode \ {"LoadImm"}, c \in U8, imm \in Int : op = "Ret" /\ c = 0 /\ imm = 0
    BY ZeroIsReg DEF OpCode
  <2> DEFINE e1 == emit(result.gen, op, r, c, c, imm)
  <2>4. e = e1
    BY <2>3
  <2>5. e.error = "none"
    <3>1. e = [result.gen EXCEPT !.code = Append(@, Instr("Ret", r, 0, 0, 0))]
      BY <1>7, ZeroIsReg, Zenon DEF emit
    <3>2. QED
      BY <2>2, <3>1 DEF GenState
  <2>6. RegisterOperands(Instr(op, r, c, c, imm)) \subseteq {r}
    BY <2>3, Operands
  <2>7. op # "LoadField" /\ op \notin JumpOps
    BY <2>3 DEF JumpOps
  <2> HIDE DEF e, g1
  <2>8. Sound(e1, {r}, {})
    <3> HIDE DEF r
    <3>1. r \in U8 /\ Sound(result.gen, {r}, {})
      BY <1>3 DEF r
    <3>2. PICK open : open = {}
      OBVIOUS
    <3>3. Sound(result.gen, {r}, open)
      BY <3>1, <3>2
    <3>4. Sound(e1, {r}, open)
      BY <2>6, <2>7, <3>1, <3>3, EmitSound
    <3>5. QED
      BY <3>2, <3>4
  <2>9. /\ Len(e1.code) = Len(result.gen.code) + 1
        /\ e1.code[Len(result.gen.code) + 1] = Instr(op, r, c, c, imm)
        /\ e1.next_reg = result.gen.next_reg
        /\ \A i \in 1 .. Len(result.gen.code) : e1.code[i] = result.gen.code[i]
    <3>1. e1 = [result.gen EXCEPT !.code = Append(@, Instr(op, r, c, c, imm))]
      BY <1>7, <2>3, ZeroIsReg, Zenon DEF emit
    <3>2. e1.code = Append(result.gen.code, Instr(op, r, c, c, imm)) /\ e1.next_reg = result.gen.next_reg
      BY <2>2, <3>1 DEF GenState
    <3>3. result.gen.code \in Seq(Slot)
      BY <2>2 DEF GenState
    <3> HIDE DEF e1
    <3>4. QED
      BY <3>2, <3>3
  <2> HIDE DEF e1
  <2>10. /\ Sound(g1, {r} \ {r}, {}) /\ g1.code = e.code
    <3>1. Sound(e, {r}, {}) /\ r \in U8 /\ r \in {r}
      BY <1>3, <2>4, <2>8
    <3> HIDE DEF r
    <3>2. g1 = release_reg(e, r)
      BY DEF g1, r
    <3>3. QED
      BY <3>1, <3>2, ReleaseSound
  <2>11. g1 \in GenState /\ g1.error \notin InternalError
    BY <2>10 DEF Sound
  <2>12. result.gen.next_reg \in 0 .. MaxRegisterCount /\ result.gen.code \in Seq(Slot)
    BY <2>2 DEF GenState
  <2>13. /\ CodeOk(result.gen.code, result.gen.next_reg, {})
         /\ CodeOk(e1.code, result.gen.next_reg, {})
         /\ e1.code \in Seq(Slot)
    <3>1. e1.error = "none" /\ e1 \in GenState
      BY <2>4, <2>5, <2>8 DEF Sound
    <3>2. e1.next_reg = result.gen.next_reg
      BY <2>9
    <3>3. QED
      BY <1>3, <2>2, <2>8, <3>1, <3>2 DEF Sound, GenState
  <2>14. /\ Len(e1.code) = Len(result.gen.code) + 1
         /\ e1.code[Len(result.gen.code) + 1].op = "Ret"
    BY <2>3, <2>9 DEF Instr
  <2>15. CompiledSound'
    <3>1. registry' = registry
      BY <1>1
    <3>2. gen'.code = e1.code
      BY <2>1, <2>4, <2>10
    <3>3. PICK p : p = [instructions   |-> [i \in 0 .. Len(e1.code) - 1 |-> e1.code[i + 1]],
                        count          |-> Len(e1.code),
                        register_count |-> result.gen.next_reg]
      OBVIOUS
    <3>4. PICK S : S = {i \in 0 .. p.count - 1 : p.instructions[i].op # Invalid} \cup {p.count}
      OBVIOUS
    <3>5. Output' = p
      BY <2>1, <3>2, <3>3 DEF Output
    <3>6. Starts' = S
      BY <3>4, <3>5 DEF Starts
    <3>7. HeaderOk(p) /\ Closed(p, S)
      BY <2>9, <2>12, <2>13, <2>14, <3>3, <3>4, CodeCompiles
    <3>8. InstructionsOk(p, S)
      BY <2>9, <2>12, <2>13, <2>14, <3>3, <3>4, CodeCompiles
    <3>9. p.instructions[p.count - 1].op = "Ret"
      BY <2>9, <2>12, <2>13, <2>14, <3>3, <3>4, CodeCompiles
    <3>10. QED
      BY <3>1, <3>5, <3>6, <3>7, <3>8, <3>9 DEF CompiledSound, InstructionsOk
  <2>16. StatusMatchesTyping'
    BY <1>1, <1>3, <1>7, <2>1 DEF StatusMatchesTyping
  <2>17. QED
    BY <1>1, <1>2, <1>4, <1>5, <2>1, <2>11, <2>12, <2>15, <2>16 DEF Inv
<1>8. QED
  BY <1>6, <1>7

LEMMA InitKeeps == Init => Inv
<1> SUFFICES ASSUME Init PROVE Inv
  OBVIOUS
<1>1. /\ root \in Roots /\ registry \in Registries /\ gen = NewGen /\ mode = "enter" /\ node = root
      /\ value = NoValue /\ stack = <<>> /\ register_count = 0 /\ status = "none"
  BY DEF Init
<1>2. StackOk(stack) /\ Rhs(stack) = {} /\ Tests(stack) = {} /\ Awaited(stack) = root
  BY <1>1 DEF StackOk, Rhs, Tests, Awaited
<1>3. Held(stack) = {} /\ OpenOf(stack) = {} /\ Apart(stack)
  BY <1>1, <1>2 DEF Held, OpenOf, Apart
<1>4. NewGen \in GenState /\ NewGen.error = "none"
  BY BytecodeAssumption DEF NewGen, GenState, Error
<1>5. Sound(NewGen, {}, {})
  <2>1. Owned(NewGen, {})
    BY DEF Owned, NewGen, IsInjective, Range
  <2>2. CodeOk(NewGen.code, NewGen.next_reg, {})
    BY DEF CodeOk, NewGen
  <2>3. {} \subseteq 0 .. Len(NewGen.code) - 1
    OBVIOUS
  <2>4. "none" \notin InternalError
    BY DEF InternalError
  <2>5. QED
    BY <1>4, <2>1, <2>2, <2>3, <2>4 DEF Sound
<1>6. Dooms(root) /\ "none" \notin UserError
  BY DEF Dooms, TypeOf, WellTyped, UserError
<1>7. Called(node, gen, stack)
  BY <1>1, <1>2, <1>3, <1>4, <1>5, <1>6 DEF Called, Waiting
<1>8. QED
  BY <1>1, <1>2, <1>7, NothingKept, RootsAssumption DEF Inv

LEMMA StutterKeeps == Inv /\ UNCHANGED cvars => Inv'
<1> SUFFICES ASSUME Inv, UNCHANGED cvars PROVE Inv'
  OBVIOUS
<1>1. /\ root' = root /\ registry' = registry /\ gen' = gen /\ mode' = mode /\ node' = node
      /\ value' = value /\ stack' = stack /\ register_count' = register_count /\ status' = status
  BY DEF cvars
<1>2. CASE mode = "enter"
  <2>1. Called(node, gen, stack) /\ node \in Expr /\ mode # "done"
    BY <1>2 DEF Inv
  <2>2. Call(node, stack, gen)
    BY <1>1, <1>2 DEF Call
  <2>3. QED
    BY <2>1, <2>2, CallKeeps
<1>3. CASE mode = "return"
  <2>1. Returns(value, gen, stack) /\ mode # "done"
    BY <1>3 DEF Inv
  <2>2. Answer(gen, value, stack)
    BY <1>1, <1>3 DEF Answer
  <2>3. QED
    BY <2>1, <2>2, AnswerKeeps
<1>4. CASE mode = "done"
  <2>1. CompiledSound => CompiledSound'
    <3>1. Output' = Output
      BY <1>1 DEF Output
    <3>2. Starts' = Starts
      BY <1>1, <3>1 DEF Starts
    <3>3. QED
      BY <1>1, <3>1, <3>2 DEF CompiledSound
  <2>2. StatusMatchesTyping => StatusMatchesTyping'
    BY <1>1 DEF StatusMatchesTyping
  <2>3. StackOk(stack)'
    BY <1>1, StackStays DEF Inv
  <2>4. QED
    BY <1>1, <1>4, <2>1, <2>2, <2>3 DEF Inv
<1>5. QED
  BY <1>2, <1>3, <1>4 DEF Inv

-----------------------------------------------------------------------------
(* The theorems. *)

LEMMA Invariance == Spec => []Inv
<1>1. Inv /\ [Next]_cvars => Inv'
  BY EmitIdentifierKeeps, EmitLiteralKeeps, EmitIpv4Keeps, MisplacedIpv6Keeps,
     EnterOperatorKeeps, EnterCompareKeeps, NotOperandKeeps, LogicalLhsKeeps, AndRhsKeeps,
     OrRhsKeeps, BinaryLhsKeeps, CompareRhsKeeps, BitwiseRhsKeeps, FinishKeeps, StutterKeeps
     DEF Next, Terminating
<1>2. QED
  BY <1>1, InitKeeps, PTL DEF Spec

\* The state stays in its types (the members of Compiler, its frames and what
\* it returns).
THEOREM TypeCorrect == Spec => []TypeOK
<1>1. Inv => TypeOK
  <2> SUFFICES ASSUME Inv PROVE TypeOK
    OBVIOUS
  <2>1. gen \in GenState
    BY DEF Inv, Called, Returns, Sound
  <2>2. ASSUME NEW f \in Range(stack)
        PROVE  /\ f.expr \in Expr /\ f.at \in {"operand", "lhs", "rhs"} /\ f.lhs \in EmitValue
               /\ f.dst \in U8 /\ f.ip \in Int
    <3>1. stack \in Seq(FrameType)
      BY DEF Inv, StackOk
    <3>2. f \in FrameType
      BY <2>2, <3>1 DEF Range
    <3>3. QED
      BY <3>2 DEF FrameType
  <2>3. register_count \in 0 .. MaxRegisterCount
    BY BytecodeAssumption DEF Inv
  <2>4. status \in {"none", "OK", "QUALIFIER_NOT_FOUND", "TYPE_MISMATCH", "PARSE", "CODEGEN"}
    BY DEF Inv
  <2>5. QED
    BY <2>1, <2>2, <2>3, <2>4 DEF Inv, TypeOK
<1>2. QED
  BY <1>1, Invariance, PTL

\* Registers are owned by one value at a time, and none is lost (alloc_reg and
\* release_reg through every emitter).
THEOREM RegisterOwnership == Spec => []RegistersOwned
<1>1. Inv => RegistersOwned
  <2> SUFFICES ASSUME Inv, gen.error = "none", mode # "done" PROVE RegistersOwned
    BY DEF RegistersOwned, ok
  <2>1. Apart(stack) /\ Owned(gen, Held(stack) \cup Returned)
        /\ (\A i \in Rhs(stack) : KeptOf(stack[i]) \notin Returned)
    <3>1. CASE mode = "enter"
      <4>1. Returned = {} /\ Called(node, gen, stack)
        BY <3>1 DEF Inv, Returned
      <4>2. Held(stack) \cup {} = Held(stack)
        OBVIOUS
      <4>3. QED
        BY <4>1, <4>2 DEF Called, Waiting, Sound
    <3>2. CASE mode = "return"
      <4>1. Returned = {value.reg} /\ Returns(value, gen, stack)
        BY <3>2 DEF Inv, Returned
      <4>2. value.reg \notin Held(stack)
        BY <4>1 DEF Returns
      <4>3. QED
        BY <4>1, <4>2 DEF Returns, Waiting, Sound, Held
    <3>3. QED
      BY <3>1, <3>2 DEF Inv
  <2>2. Holding = Rhs(stack) /\ \A i : Kept(i) = KeptOf(stack[i])
    BY DEF Holding, Rhs, Kept, KeptOf
  <2>3. Held(stack) = {Kept(i) : i \in Holding}
    BY <2>2 DEF Held
  <2>4. gen.reg_used = Held(stack) \cup Returned
    BY <2>1 DEF Owned
  <2>5. IsInjective(gen.free_regs) /\ Range(gen.free_regs) = (0 .. gen.next_reg - 1) \ gen.reg_used
    BY <2>1, <2>4 DEF Owned
  <2>6. \A i, j \in Holding : i # j => Kept(i) # Kept(j)
    BY <2>1, <2>2 DEF Apart
  <2>7. \A i \in Holding : Kept(i) \notin Returned
    BY <2>1, <2>2
  <2>8. QED
    BY <2>3, <2>4, <2>5, <2>6, <2>7 DEF RegistersOwned
<1>2. QED
  BY <1>1, Invariance, PTL

\* The checks of release_reg and patch_jump never fail: no register is
\* released twice, and no jump patched outside the code.
THEOREM NoInternalErrors == Spec => []NoInternalError
<1>1. Inv => NoInternalError
  BY DEF Inv, Called, Returns, Sound, NoInternalError
<1>2. QED
  BY <1>1, Invariance, PTL

\* What emit_logical_and and emit_logical_or patch when their right operand
\* comes back is a jump without a target, and theirs alone.
THEOREM WaitingJumpsAreOpen == Spec => []WaitingJumpsOpen
<1>1. ASSUME Inv, ok(gen), mode # "done" PROVE WaitingJumpsOpen
  <2>1. gen.error = "none"
    BY <1>1 DEF ok
  <2>2. Apart(stack) /\ CodeOk(gen.code, gen.next_reg, OpenOf(stack))
        /\ OpenOf(stack) \subseteq 0 .. Len(gen.code) - 1 /\ gen.code \in Seq(Slot)
    <3>1. CASE mode = "enter"
      BY <1>1, <2>1, <3>1 DEF Inv, Called, Waiting, Sound, GenState
    <3>2. CASE mode = "return"
      BY <1>1, <2>1, <3>2 DEF Inv, Returns, Waiting, Sound, GenState
    <3>3. QED
      BY <1>1, <3>1, <3>2 DEF Inv
  <2>3. ASSUME NEW i \in Holding, stack[i].expr.kind \in Logical
        PROVE  /\ stack[i].ip \in 0 .. Len(gen.code) - 1
               /\ gen.code[stack[i].ip + 1].op \in JumpOps
               /\ gen.code[stack[i].ip + 1].aux = -1
               /\ \A j \in Holding \ {i} :
                    stack[j].expr.kind \in Logical => stack[j].ip # stack[i].ip
    <3>1. i \in Tests(stack)
      BY <2>3 DEF Holding, Tests, Rhs
    <3>2. PICK k : k = stack[i].ip
      OBVIOUS
    <3>3. k \in OpenOf(stack)
      BY <3>1, <3>2 DEF OpenOf
    <3>4. k \in 0 .. Len(gen.code) - 1 /\ k + 1 \in 1 .. Len(gen.code) /\ (k + 1) - 1 = k
      BY <2>2, <3>3
    <3>5. gen.code[k + 1].op \in JumpOps /\ gen.code[k + 1].aux = -1
      BY <2>2, <3>3, <3>4 DEF CodeOk, SlotOk
    <3>6. \A j \in Holding \ {i} : stack[j].expr.kind \in Logical => stack[j].ip # stack[i].ip
      BY <2>2, <3>1 DEF Holding, Apart, Tests, Rhs
    <3>7. QED
      BY <3>2, <3>4, <3>5, <3>6
  <2>4. QED
    BY <2>3 DEF WaitingJumpsOpen
<1>2. Inv => WaitingJumpsOpen
  BY <1>1 DEF WaitingJumpsOpen
<1>3. QED
  BY <1>2, Invariance, PTL

\* What compile_ast_to_program returns is a program mbpf_program_verify
\* accepts, whose jumps go forward and which ends in a Ret.
THEOREM CompiledPrograms == Spec => []CompiledSound
<1>1. Inv => CompiledSound
  BY DEF Inv, CompiledSound
<1>2. QED
  BY <1>1, Invariance, PTL

\* compile_ast_to_program refuses the expressions that have no type and,
\* unless a resource runs out, no other.
THEOREM TypingDecides == Spec => []StatusMatchesTyping
<1>1. Inv => StatusMatchesTyping
  BY DEF Inv, StatusMatchesTyping
<1>2. QED
  BY <1>1, Invariance, PTL

=============================================================================
