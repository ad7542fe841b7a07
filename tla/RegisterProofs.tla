--------------------------- MODULE RegisterProofs ---------------------------
(***************************************************************************)
(* The program of every expression has exactly as many registers as the    *)
(* evaluation of the expression needs at one time.                         *)
(*                                                                         *)
(* The need of an expression is a maximum over its parts.  All that is     *)
(* used of it is when it fits n registers, for every n: a maximum fits     *)
(* when every member does.                                                 *)
(***************************************************************************)
EXTENDS CompilerProofs, FiniteSetTheorems

-----------------------------------------------------------------------------
(* Maxima. *)

\* A maximum is at most n when all are.
LEMMA MaxOfTwo ==
  ASSUME NEW a \in Nat, NEW b \in Nat
  PROVE  Max({a, b}) \in Nat /\ \A n \in Nat : Max({a, b}) <= n <=> a <= n /\ b <= n
<1>1. PICK x \in {a, b} : \A y \in {a, b} : x >= y
  <2>1. CASE a >= b
    BY <2>1
  <2>2. CASE ~(a >= b)
    BY <2>2
  <2>3. QED
    BY <2>1, <2>2
<1>2. PICK m : m = Max({a, b})
  OBVIOUS
<1>3. m \in {a, b} /\ \A y \in {a, b} : m >= y
  BY <1>1, <1>2 DEF Max
<1>4. m \in Nat /\ \A n \in Nat : m <= n <=> a <= n /\ b <= n
  BY <1>3
<1>5. QED
  BY <1>2, <1>4

LEMMA MaxOfThree ==
  ASSUME NEW a \in Nat, NEW b \in Nat, NEW c \in Nat
  PROVE  /\ Max({a, b, c}) \in Nat
         /\ \A n \in Nat : Max({a, b, c}) <= n <=> a <= n /\ b <= n /\ c <= n
<1>1. PICK x \in {a, b, c} : \A y \in {a, b, c} : x >= y
  <2>1. CASE a >= b /\ a >= c
    BY <2>1
  <2>2. CASE b >= a /\ b >= c
    BY <2>2
  <2>3. CASE c >= a /\ c >= b
    BY <2>3
  <2>4. QED
    BY <2>1, <2>2, <2>3
<1>2. PICK m : m = Max({a, b, c})
  OBVIOUS
<1>3. m \in {a, b, c} /\ \A y \in {a, b, c} : m >= y
  BY <1>1, <1>2 DEF Max
<1>4. m \in Nat /\ \A n \in Nat : m <= n <=> a <= n /\ b <= n /\ c <= n
  BY <1>3
<1>5. QED
  BY <1>2, <1>4

\* Two numbers that fit the same are equal.
LEMMA SameFit ==
  ASSUME NEW a \in Nat, NEW b \in Nat, \A n \in Nat : a <= n <=> b <= n
  PROVE  a = b
<1>1. a <= b /\ b <= a
  OBVIOUS
<1>2. QED
  BY <1>1

-----------------------------------------------------------------------------
(* The need of an expression. *)

LEMMA BoolNeeds ==
  ASSUME NEW T, NEW N, NEW e, N[e] \in Nat
  PROVE  /\ NeedBool(T, N, e) \in Nat
         /\ \A n \in Nat : NeedBool(T, N, e) <= n <=> N[e] <= n /\ (T[e] = "Int" => 3 <= n)
<1>1. CASE T[e] = "Int"
  BY <1>1, MaxOfTwo DEF NeedBool
<1>2. CASE T[e] # "Int"
  BY <1>2 DEF NeedBool
<1>3. QED
  BY <1>1, <1>2

\* The registers of a comparison of two registers: one operand of another
\* type takes one more to become a boolean.
Sides(T, e) == IF T[e.left] # T[e.right] THEN 4 ELSE 3

\* What an operator needs, of what its operands need.
LEMMA OperatorNeeds ==
  ASSUME NEW T, NEW N, NEW e \in Expr
  PROVE  /\ e.kind \in Leaves => NeedFrom(T, N, e) = 1
         /\ e.kind = "Not" => NeedFrom(T, N, e) = Max({NeedBool(T, N, e.left), 2})
         /\ e.kind \in Logical =>
              NeedFrom(T, N, e) = Max({NeedBool(T, N, e.left), 2, 1 + NeedBool(T, N, e.right)})
         /\ e.kind \in Comparing \cup Bitwise =>
              NeedFrom(T, N, e) = IF T[e.left] = "Ipv6" THEN 5
                                  ELSE Max({N[e.left], 1 + N[e.right], Sides(T, e)})
<1>1. CASE e.kind \in Leaves
  <2>1. /\ e.kind # "Not" /\ e.kind \notin Logical /\ e.kind \notin Comparing \cup Bitwise
    BY <1>1, KindsDisjoint
  <2>2. NeedFrom(T, N, e) = 1
    BY <1>1, <2>1, Zenon DEF NeedFrom
  <2>3. QED
    BY <1>1, <2>1, <2>2
<1>2. CASE e.kind = "Not"
  <2>1. /\ e.kind \notin Leaves /\ e.kind \notin Logical /\ e.kind \notin Comparing \cup Bitwise
    BY <1>2, KindsDisjoint
  <2>2. NeedFrom(T, N, e) = Max({NeedBool(T, N, e.left), 2})
    BY <1>2, <2>1, Zenon DEF NeedFrom
  <2>3. QED
    BY <1>2, <2>1, <2>2
<1>3. CASE e.kind \in Logical
  <2>1. /\ e.kind \notin Leaves /\ e.kind # "Not" /\ e.kind \notin Comparing \cup Bitwise
    BY <1>3, KindsDisjoint
  <2>2. NeedFrom(T, N, e) = Max({NeedBool(T, N, e.left), 2, 1 + NeedBool(T, N, e.right)})
    BY <1>3, <2>1, Zenon DEF NeedFrom
  <2>3. QED
    BY <1>3, <2>1, <2>2
<1>4. CASE e.kind \in Comparing \cup Bitwise
  <2>1. /\ e.kind \notin Leaves /\ e.kind # "Not" /\ e.kind \notin Logical
    BY <1>4, KindsDisjoint
  <2>2. NeedFrom(T, N, e) =
          CASE T[e.left] = "Ipv6" -> 5
            [] T[e.left] # "Ipv6" /\ T[e.left] # T[e.right] -> Max({N[e.left], 1 + N[e.right], 4})
            [] OTHER -> Max({N[e.left], 1 + N[e.right], 3})
    BY <1>4, <2>1, Zenon DEF NeedFrom
  <2>3. NeedFrom(T, N, e) = IF T[e.left] = "Ipv6" THEN 5
                            ELSE Max({N[e.left], 1 + N[e.right], Sides(T, e)})
    BY <2>2, Zenon DEF Sides
  <2>4. QED
    BY <1>4, <2>1, <2>3
<1>5. e.kind \in Leaves \cup {"Not"} \cup Logical \cup Comparing \cup Bitwise
  BY ExprAssumption DEF Binary
<1>6. QED
  BY <1>1, <1>2, <1>3, <1>4, <1>5

\* A need is a number, and depends on those of the operands only.
LEMMA NeedFromChildren ==
  ASSUME NEW T, NEW e \in Expr, NEW f, NEW g,
         \A x \in Children(e) : f[x] \in Nat /\ f[x] = g[x]
  PROVE  NeedFrom(T, f, e) \in Nat /\ NeedFrom(T, f, e) = NeedFrom(T, g, e)
<1>1. CASE e.kind \in Leaves
  <2>1. NeedFrom(T, f, e) = 1 /\ NeedFrom(T, g, e) = 1
    BY <1>1, OperatorNeeds
  <2>2. QED
    BY <2>1
<1>2. CASE e.kind = "Not"
  <2>1. f[e.left] \in Nat /\ f[e.left] = g[e.left]
    BY <1>2, ChildrenOf
  <2>2. NeedBool(T, f, e.left) \in Nat /\ NeedBool(T, f, e.left) = NeedBool(T, g, e.left)
    BY <2>1, BoolNeeds DEF NeedBool
  <2>3. /\ NeedFrom(T, f, e) = Max({NeedBool(T, f, e.left), 2})
        /\ NeedFrom(T, g, e) = Max({NeedBool(T, g, e.left), 2})
    BY <1>2, OperatorNeeds
  <2>4. QED
    BY <2>2, <2>3, MaxOfTwo
<1>3. CASE e.kind \in Logical
  <2>1. f[e.left] \in Nat /\ f[e.left] = g[e.left] /\ f[e.right] \in Nat /\ f[e.right] = g[e.right]
    BY <1>3, ChildrenOf DEF Binary
  <2>2. /\ NeedBool(T, f, e.left) \in Nat /\ NeedBool(T, f, e.left) = NeedBool(T, g, e.left)
        /\ NeedBool(T, f, e.right) \in Nat /\ NeedBool(T, f, e.right) = NeedBool(T, g, e.right)
    BY <2>1, BoolNeeds DEF NeedBool
  <2>3. 1 + NeedBool(T, f, e.right) \in Nat
    BY <2>2
  <2>4. /\ NeedFrom(T, f, e) = Max({NeedBool(T, f, e.left), 2, 1 + NeedBool(T, f, e.right)})
        /\ NeedFrom(T, g, e) = Max({NeedBool(T, g, e.left), 2, 1 + NeedBool(T, g, e.right)})
    BY <1>3, OperatorNeeds
  <2>5. QED
    BY <2>2, <2>3, <2>4, MaxOfThree
<1>4. CASE e.kind \in Comparing \cup Bitwise
  <2>1. f[e.left] \in Nat /\ f[e.left] = g[e.left] /\ f[e.right] \in Nat /\ f[e.right] = g[e.right]
    BY <1>4, ChildrenOf DEF Binary
  <2>2. 1 + f[e.right] \in Nat /\ Sides(T, e) \in Nat
    BY <2>1 DEF Sides
  <2>3. /\ NeedFrom(T, f, e) = IF T[e.left] = "Ipv6" THEN 5
                              ELSE Max({f[e.left], 1 + f[e.right], Sides(T, e)})
        /\ NeedFrom(T, g, e) = IF T[e.left] = "Ipv6" THEN 5
                              ELSE Max({g[e.left], 1 + g[e.right], Sides(T, e)})
    BY <1>4, OperatorNeeds
  <2>4. Max({f[e.left], 1 + f[e.right], Sides(T, e)}) \in Nat
    BY <2>1, <2>2, MaxOfThree
  <2>5. QED
    BY <2>1, <2>3, <2>4
<1>5. e.kind \in Leaves \cup {"Not"} \cup Logical \cup Comparing \cup Bitwise
  BY ExprAssumption DEF Binary
<1>6. QED
  BY <1>1, <1>2, <1>3, <1>4, <1>5

LEMMA NeedsHold ==
  ASSUME NEW r
  PROVE  \A e \in Expr : /\ NeedOf(r)[e] = NeedFrom(TypeIn(r), NeedOf(r), e)
                         /\ NeedOf(r)[e] \in Nat
<1>0. PICK T : T = TypeIn(r)
  OBVIOUS
<1> DEFINE Step == [f \in [Expr -> Nat] |-> [e \in Expr |-> NeedFrom(T, f, e)]]
           IsNeed(f) == f = [e \in Expr |-> NeedFrom(T, f, e)]
<1>1. Step \in [[Expr -> Nat] -> [Expr -> Nat]]
  <2>1. ASSUME NEW f \in [Expr -> Nat], NEW e \in Expr PROVE NeedFrom(T, f, e) \in Nat
    BY ChildrenOf, NeedFromChildren
  <2>2. QED
    BY <2>1
<1>2. ASSUME NEW f \in [Expr -> Nat], NEW g \in [Expr -> Nat], NEW e \in Expr,
             \A x \in Children(e) : f[x] = g[x]
      PROVE  Step[f][e] = Step[g][e]
  <2>1. NeedFrom(T, f, e) = NeedFrom(T, g, e)
    BY <1>2, ChildrenOf, NeedFromChildren
  <2>2. QED
    BY <2>1
<1>3. PICK f \in [Expr -> Nat] : f = Step[f]
  <2> HIDE DEF Step
  <2>1. QED
    BY <1>1, <1>2, RecursionHasValue
<1>4. IsNeed(f)
  BY <1>3
<1>5. NeedOf(r) = CHOOSE f1 : IsNeed(f1)
  BY <1>0 DEF NeedOf
<1> HIDE DEF IsNeed
<1>6. PICK N : N = NeedOf(r) /\ IsNeed(N)
  BY <1>4, <1>5
<1>7. N = [e \in Expr |-> NeedFrom(T, N, e)]
  BY <1>6 DEF IsNeed
<1>8. \A e \in Expr : N[e] = NeedFrom(T, N, e)
  BY <1>7
<1> DEFINE S == {e \in Expr : N[e] \in Nat}
<1>9. ASSUME NEW e \in Expr, Children(e) \subseteq S PROVE e \in S
  <2>1. \A x \in Children(e) : N[x] \in Nat
    BY <1>9
  <2>2. NeedFrom(T, N, e) \in Nat
    BY <2>1, NeedFromChildren
  <2>3. QED
    BY <1>8, <2>2
<1>10. Expr \subseteq S
  <2> HIDE DEF S
  <2>1. QED
    BY <1>9, ExprInduction
<1>11. QED
  BY <1>0, <1>6, <1>8, <1>10

-----------------------------------------------------------------------------
(* The registers an emitter uses. *)

LimitMet(g) == g.error = "register limit"

\* The other failures.
OtherError == Error \ {"none", "register limit"}

\* Every register handed out is in use or free, unless the generator failed.
Tidy(g) ==
  /\ g = Gen(g.code, g.next_reg, g.free_regs, g.reg_used, g.error)
  /\ g.error = "none" => /\ g.next_reg \in 0 .. MaxRegisterCount
                         /\ g.free_regs \in Seq(Nat)
                         /\ Owned(g, g.reg_used)

Counts(g, c) == g.error = "none" => Cardinality(g.reg_used) = c

\* Between g and g1, m registers were in use at one time: new ones were handed
\* out until there were m, and the limit is only met when there are not m.
Peaks(m, g, g1) ==
  /\ g1.error = "none" => /\ g.error = "none"
                          /\ \A n \in Nat : g1.next_reg <= n <=> g.next_reg <= n /\ m <= n
  /\ LimitMet(g1) => LimitMet(g) \/ (g.error = "none" /\ m > MaxRegisterCount)

\* With c registers in use before, c1 are in use after, and m at one time.
Uses(c, c1, m, g, g1) ==
  Tidy(g) /\ Counts(g, c) => Tidy(g1) /\ Counts(g1, c1) /\ Peaks(m, g, g1)

LEMMA GenParts ==
  ASSUME NEW code, NEW next, NEW free, NEW used, NEW error, NEW g, g = Gen(code, next, free, used, error)
  PROVE  /\ g.code = code /\ g.next_reg = next /\ g.free_regs = free /\ g.reg_used = used
         /\ g.error = error
         /\ g = Gen(g.code, g.next_reg, g.free_regs, g.reg_used, g.error)
BY DEF Gen

\* What is sound is tidy.
LEMMA SoundTidy ==
  ASSUME NEW g, NEW held, NEW open, Sound(g, held, open)
  PROVE  Tidy(g) /\ (g.error = "none" => g.reg_used = held)
<1>1. g = Gen(g.code, g.next_reg, g.free_regs, g.reg_used, g.error)
  BY GenFields DEF Sound
<1>2. g.next_reg \in 0 .. MaxRegisterCount /\ g.free_regs \in Seq(U8)
  BY GenFields DEF Sound
<1>3. g.free_regs \in Seq(Nat)
  <2>1. U8 \subseteq Nat
    BY BytecodeAssumption DEF U8
  <2>2. Len(g.free_regs) \in Nat /\ g.free_regs \in [1 .. Len(g.free_regs) -> U8]
    BY <1>2
  <2>3. g.free_regs \in [1 .. Len(g.free_regs) -> Nat]
    BY <2>1, <2>2
  <2>4. QED
    BY <2>2, <2>3
<1>4. g.error = "none" => Owned(g, held) /\ g.reg_used = held
  BY DEF Sound, Owned
<1>5. QED
  BY <1>1, <1>2, <1>3, <1>4 DEF Tidy

LEMMA UsesChain ==
  ASSUME NEW g0, NEW g1, NEW g2, NEW c0, NEW c1, NEW c2, NEW a \in Nat, NEW b \in Nat,
         Uses(c0, c1, a, g0, g1), Uses(c1, c2, b, g1, g2),
         NEW m \in {a, b}, a <= m, b <= m
  PROVE  Uses(c0, c2, m, g0, g2)
<1>1. SUFFICES ASSUME Tidy(g0), Counts(g0, c0)
               PROVE  Tidy(g2) /\ Counts(g2, c2) /\ Peaks(m, g0, g2)
  BY DEF Uses
<1>2. Tidy(g2) /\ Counts(g2, c2) /\ Peaks(a, g0, g1) /\ Peaks(b, g1, g2)
  BY <1>1 DEF Uses
<1>3. ASSUME g2.error = "none"
      PROVE  g0.error = "none" /\ \A n \in Nat : g2.next_reg <= n <=> g0.next_reg <= n /\ m <= n
  <2>1. g1.error = "none" /\ \A n \in Nat : g2.next_reg <= n <=> g1.next_reg <= n /\ b <= n
    BY <1>2, <1>3 DEF Peaks
  <2>2. g0.error = "none" /\ \A n \in Nat : g1.next_reg <= n <=> g0.next_reg <= n /\ a <= n
    BY <1>2, <2>1 DEF Peaks
  <2>3. \A n \in Nat : m <= n <=> a <= n /\ b <= n
    OBVIOUS
  <2>4. QED
    BY <2>1, <2>2, <2>3
<1>4. ASSUME LimitMet(g2)
      PROVE  LimitMet(g0) \/ (g0.error = "none" /\ m > MaxRegisterCount)
  <2>1. a > MaxRegisterCount \/ b > MaxRegisterCount => m > MaxRegisterCount
    BY BytecodeAssumption
  <2>2. LimitMet(g1) \/ (g1.error = "none" /\ b > MaxRegisterCount)
    BY <1>2, <1>4 DEF Peaks
  <2>3. CASE LimitMet(g1)
    BY <1>2, <2>1, <2>3 DEF Peaks
  <2>4. CASE g1.error = "none" /\ b > MaxRegisterCount
    BY <1>2, <2>1, <2>4 DEF Peaks
  <2>5. QED
    BY <2>2, <2>3, <2>4
<1>5. QED
  BY <1>2, <1>3, <1>4 DEF Peaks

\* Of a failed generator more may be said to have been in use.
LEMMA UsesFailed ==
  ASSUME NEW g, NEW g1, NEW c, NEW c1, NEW a \in Nat, Uses(c, c1, a, g, g1), g1.error # "none",
         NEW c2, NEW m \in Nat, a <= m
  PROVE  Uses(c, c2, m, g, g1)
<1>1. a > MaxRegisterCount => m > MaxRegisterCount
  BY BytecodeAssumption
<1>2. QED
  BY <1>1 DEF Uses, Counts, Peaks

LEMMA NothingUses ==
  ASSUME NEW g, NEW c
  PROVE  Uses(c, c, 0, g, g)
<1>1. ASSUME Tidy(g) PROVE Peaks(0, g, g)
  BY DEF Peaks
<1>2. QED
  BY <1>1 DEF Uses

\* The next register does not change where only code is emitted.
LEMMA CodeUses ==
  ASSUME NEW g, NEW code, NEW g1, Tidy(g) => g1 = [g EXCEPT !.code = code], NEW c
  PROVE  Uses(c, c, 0, g, g1)
<1>1. SUFFICES ASSUME Tidy(g), Counts(g, c)
               PROVE  Tidy(g1) /\ Counts(g1, c) /\ Peaks(0, g, g1)
  BY DEF Uses
<1>2. g = Gen(g.code, g.next_reg, g.free_regs, g.reg_used, g.error)
  BY <1>1 DEF Tidy
<1>3. g1 = Gen(code, g.next_reg, g.free_regs, g.reg_used, g.error)
  BY <1>1, <1>2 DEF Gen
<1>4. /\ g1.next_reg = g.next_reg /\ g1.free_regs = g.free_regs /\ g1.reg_used = g.reg_used
      /\ g1.error = g.error /\ g1 = Gen(g1.code, g1.next_reg, g1.free_regs, g1.reg_used, g1.error)
  BY <1>3, GenParts
<1>5. Tidy(g1) /\ Counts(g1, c)
  BY <1>1, <1>4 DEF Tidy, Counts, Owned
<1>6. Peaks(0, g, g1)
  <2>1. LimitMet(g1) => LimitMet(g)
    BY <1>4, Zenon DEF LimitMet
  <2>2. QED
    BY <1>1, <1>4, <2>1 DEF Peaks, Tidy
<1>7. QED
  BY <1>5, <1>6

LEMMA FailUses ==
  ASSUME NEW g, NEW e \in OtherError, NEW c, NEW c1, NEW m \in Nat
  PROVE  Uses(c, c1, m, g, fail(g, e)) /\ (Tidy(g) => fail(g, e).error # "none")
<1>1. e # "none" /\ e # "register limit"
  BY Zenon DEF OtherError
<1>2. SUFFICES ASSUME Tidy(g)
               PROVE  /\ Tidy(fail(g, e)) /\ fail(g, e).error # "none"
                      /\ LimitMet(fail(g, e)) => LimitMet(g)
  BY DEF Uses, Counts, Peaks
<1>3. g = Gen(g.code, g.next_reg, g.free_regs, g.reg_used, g.error)
  BY <1>2 DEF Tidy
<1>4. CASE g.error = "none"
  <2>1. fail(g, e) = [g EXCEPT !.error = e]
    BY <1>4 DEF fail, ok
  <2>2. fail(g, e) = Gen(g.code, g.next_reg, g.free_regs, g.reg_used, e)
    BY <1>3, <2>1 DEF Gen
  <2>3. /\ fail(g, e).error = e
        /\ fail(g, e) = Gen(fail(g, e).code, fail(g, e).next_reg, fail(g, e).free_regs,
                            fail(g, e).reg_used, fail(g, e).error)
    <3>1. PICK g1 : g1 = fail(g, e)
      OBVIOUS
    <3>2. g1.error = e /\ g1 = Gen(g1.code, g1.next_reg, g1.free_regs, g1.reg_used, g1.error)
      BY <2>2, <3>1, GenParts
    <3>3. QED
      BY <3>1, <3>2
  <2>4. QED
    BY <1>1, <2>3, Zenon DEF Tidy, LimitMet
<1>5. CASE g.error # "none"
  <2>1. fail(g, e) = g
    BY <1>5 DEF fail, ok
  <2>2. QED
    BY <1>2, <1>5, <2>1
<1>6. QED
  BY <1>4, <1>5

\* Registers below next: there are at most next of them.
LEMMA RoomBelow ==
  ASSUME NEW next \in Nat, NEW used, used \subseteq 0 .. next - 1
  PROVE  /\ IsFiniteSet(used) /\ Cardinality(used) \in Nat
         /\ Cardinality(used) <= next
         /\ used = 0 .. next - 1 => Cardinality(used) = next
<1>1. 0 \in Int /\ next - 1 \in Int
  OBVIOUS
<1>2. IsFiniteSet(0 .. next - 1) /\ Cardinality(0 .. next - 1) = IF 0 > next - 1 THEN 0 ELSE next - 1 - 0 + 1
  BY <1>1, FS_Interval
<1>3. Cardinality(0 .. next - 1) = next
  BY <1>2
<1>4. IsFiniteSet(used) /\ Cardinality(used) <= Cardinality(0 .. next - 1)
  BY <1>2, FS_Subset
<1>5. Cardinality(used) \in Nat
  BY <1>4, FS_CardinalityType
<1>6. QED
  BY <1>3, <1>4, <1>5

\* A register that was used before is taken first, and a new one only when all
\* others are in use.
LEMMA AllocUses ==
  ASSUME NEW g, NEW c \in Nat
  PROVE  Uses(c, c + 1, c + 1, g, alloc_reg(g))
<1> DEFINE n  == NextReg(g)
           g1 == alloc_reg(g)
<1>1. SUFFICES ASSUME Tidy(g), Counts(g, c)
               PROVE  Tidy(g1) /\ Counts(g1, c + 1) /\ Peaks(c + 1, g, g1)
  BY DEF Uses
<1>2. g = Gen(g.code, g.next_reg, g.free_regs, g.reg_used, g.error)
  BY <1>1 DEF Tidy
<1>3. g.error = "none" =>
        /\ g.next_reg \in Nat /\ g.next_reg <= MaxRegisterCount
        /\ g.free_regs \in Seq(Nat) /\ Owned(g, g.reg_used) /\ g.reg_used \subseteq 0 .. g.next_reg - 1
        /\ IsFiniteSet(g.reg_used) /\ Cardinality(g.reg_used) = c /\ c <= g.next_reg
        /\ g.reg_used = 0 .. g.next_reg - 1 => c = g.next_reg
  BY <1>1, BytecodeAssumption, RoomBelow DEF Tidy, Counts, Owned
<1>4. CASE g.free_regs # <<>>
  <2> DEFINE f  == g.free_regs
             f1 == SubSeq(f, 1, Len(f) - 1)
  <2>1. n = f[Len(f)]
    BY <1>4, Zenon DEF NextReg
  <2>2. g1 = [g EXCEPT !.free_regs = f1, !.reg_used = @ \cup {n}]
    BY <1>4, Zenon DEF alloc_reg
  <2> HIDE DEF n, g1, f1
  <2>3. g1 = Gen(g.code, g.next_reg, f1, g.reg_used \cup {n}, g.error)
    BY <1>2, <2>2 DEF Gen
  <2>4. /\ g1.next_reg = g.next_reg /\ g1.free_regs = f1 /\ g1.reg_used = g.reg_used \cup {n}
        /\ g1.error = g.error /\ g1 = Gen(g1.code, g1.next_reg, g1.free_regs, g1.reg_used, g1.error)
    BY <2>3, GenParts
  <2>5. LimitMet(g1) => LimitMet(g)
    BY <2>4, Zenon DEF LimitMet
  <2>6. ASSUME g.error = "none"
        PROVE  /\ f1 \in Seq(Nat) /\ Owned(g1, g1.reg_used)
               /\ Cardinality(g1.reg_used) = c + 1 /\ c + 1 <= g.next_reg
    <3>1. /\ f1 \in Seq(Nat) /\ IsInjective(f1) /\ Range(f1) = Range(f) \ {n} /\ n \in Range(f)
      BY <1>3, <1>4, <2>1, <2>6, PopFacts DEF Owned, f1
    <3>2. n \notin g.reg_used /\ n \in 0 .. g.next_reg - 1
      BY <1>3, <2>6, <3>1 DEF Owned
    <3>3. Owned(g1, g1.reg_used)
      BY <1>3, <2>4, <2>6, <3>1, <3>2 DEF Owned
    <3>4. Cardinality(g1.reg_used) = c + 1
      BY <1>3, <2>4, <2>6, <3>2, FS_AddElement
    <3>5. Cardinality(g1.reg_used) <= g.next_reg
      BY <1>3, <2>4, <2>6, <3>3, RoomBelow DEF Owned
    <3>6. QED
      BY <3>1, <3>3, <3>4, <3>5
  <2>7. Tidy(g1) /\ Counts(g1, c + 1)
    BY <1>1, <2>4, <2>6 DEF Tidy, Counts
  <2>8. Peaks(c + 1, g, g1)
    BY <1>3, <2>4, <2>5, <2>6 DEF Peaks
  <2>9. QED
    BY <2>7, <2>8 DEF g1
<1>5. CASE g.free_regs = <<>> /\ g.next_reg >= MaxRegisterCount
  <2>1. PICK e : e = "register limit"
    BY Zenon
  <2>2. g1 = fail(g, e) /\ e # "none" /\ \A x : LimitMet(x) <=> x.error = e
    BY <1>5, <2>1, Zenon DEF alloc_reg, LimitMet
  <2> HIDE DEF n, g1
  <2>3. CASE g.error = "none"
    <3>1. g1 = [g EXCEPT !.error = e]
      BY <2>2, <2>3 DEF fail, ok
    <3>2. g1 = Gen(g.code, g.next_reg, g.free_regs, g.reg_used, e)
      BY <1>2, <3>1 DEF Gen
    <3>3. g1.error = e /\ g1 = Gen(g1.code, g1.next_reg, g1.free_regs, g1.reg_used, g1.error)
      BY <3>2, GenParts
    <3>4. Range(g.free_regs) = {}
      BY <1>5 DEF Range
    <3>5. g.reg_used = 0 .. g.next_reg - 1
      BY <1>3, <2>3, <3>4 DEF Owned
    <3>6. c + 1 > MaxRegisterCount
      BY <1>3, <1>5, <2>3, <3>5, BytecodeAssumption
    <3>7. QED
      BY <2>2, <2>3, <3>3, <3>6 DEF Tidy, Counts, Peaks, g1
  <2>4. CASE g.error # "none"
    <3>1. g1 = g
      BY <2>2, <2>4 DEF fail, ok
    <3>2. QED
      BY <1>1, <2>4, <3>1 DEF Tidy, Counts, Peaks, g1
  <2>5. QED
    BY <2>3, <2>4
<1>6. CASE g.free_regs = <<>> /\ ~(g.next_reg >= MaxRegisterCount)
  <2>1. ~(g.free_regs # <<>>)
    BY <1>6
  <2>2. n = g.next_reg /\ g1 = [g EXCEPT !.next_reg = @ + 1, !.reg_used = @ \cup {n}]
    BY <1>6, <2>1, Zenon DEF NextReg, alloc_reg
  <2> HIDE DEF n, g1
  <2>3. g1 = Gen(g.code, n + 1, g.free_regs, g.reg_used \cup {n}, g.error)
    BY <1>2, <2>2 DEF Gen
  <2>4. /\ g1.next_reg = n + 1 /\ g1.free_regs = g.free_regs /\ g1.reg_used = g.reg_used \cup {n}
        /\ g1.error = g.error /\ g1 = Gen(g1.code, g1.next_reg, g1.free_regs, g1.reg_used, g1.error)
    BY <2>3, GenParts
  <2>5. LimitMet(g1) => LimitMet(g)
    BY <2>4, Zenon DEF LimitMet
  <2>6. ASSUME g.error = "none"
        PROVE  /\ n + 1 \in 0 .. MaxRegisterCount /\ Owned(g1, g1.reg_used)
               /\ Cardinality(g1.reg_used) = c + 1 /\ c = n
    <3>1. Range(g.free_regs) = {}
      BY <1>6 DEF Range
    <3>2. g.reg_used = 0 .. n - 1 /\ n \in Nat /\ c = n
      BY <1>3, <2>2, <2>6, <3>1 DEF Owned
    <3>3. n \notin g.reg_used /\ 0 .. n + 1 - 1 = g1.reg_used
      BY <2>4, <3>2
    <3>4. Owned(g1, g1.reg_used)
      BY <1>3, <2>4, <2>6, <3>1, <3>3 DEF Owned
    <3>5. Cardinality(g1.reg_used) = c + 1
      <4>1. Cardinality(g.reg_used \cup {n}) = IF n \in g.reg_used THEN Cardinality(g.reg_used)
                                              ELSE Cardinality(g.reg_used) + 1
        BY <1>3, <2>6, FS_AddElement
      <4>2. QED
        BY <1>3, <2>4, <2>6, <3>3, <4>1
    <3>6. n + 1 \in 0 .. MaxRegisterCount
      BY <1>3, <1>6, <2>2, <2>6, <3>2, BytecodeAssumption
    <3>7. QED
      BY <3>2, <3>4, <3>5, <3>6
  <2>7. Tidy(g1) /\ Counts(g1, c + 1)
    BY <1>1, <2>4, <2>6 DEF Tidy, Counts
  <2>8. Peaks(c + 1, g, g1)
    BY <1>3, <2>2, <2>4, <2>5, <2>6 DEF Peaks
  <2>9. QED
    BY <2>7, <2>8 DEF g1
<1>7. QED
  BY <1>4, <1>5, <1>6

\* A register that is not in use cannot be released.
LEMMA ReleaseUses ==
  ASSUME NEW g, NEW r, NEW c \in Nat
  PROVE  Uses(c, c - 1, 0, g, release_reg(g, r))
<1> DEFINE g1 == release_reg(g, r)
<1>1. CASE r >= g.next_reg \/ r \notin g.reg_used
  <2>1. PICK e \in OtherError : e = "release"
    BY Zenon DEF OtherError, Error, InternalError
  <2>2. g1 = fail(g, e)
    BY <1>1, <2>1, Zenon DEF release_reg
  <2>3. QED
    BY <2>2, FailUses
<1>2. CASE ~(r >= g.next_reg \/ r \notin g.reg_used)
  <2>1. SUFFICES ASSUME Tidy(g), Counts(g, c)
                 PROVE  Tidy(g1) /\ Counts(g1, c - 1) /\ Peaks(0, g, g1)
    BY DEF Uses
  <2> DEFINE f1 == Append(g.free_regs, r)
  <2>2. g1 = [g EXCEPT !.reg_used = @ \ {r}, !.free_regs = f1]
    BY <1>2, Zenon DEF release_reg
  <2>3. g = Gen(g.code, g.next_reg, g.free_regs, g.reg_used, g.error)
    BY <2>1 DEF Tidy
  <2> HIDE DEF f1, g1
  <2>4. g1 = Gen(g.code, g.next_reg, f1, g.reg_used \ {r}, g.error)
    BY <2>2, <2>3 DEF Gen
  <2>5. /\ g1.next_reg = g.next_reg /\ g1.free_regs = f1 /\ g1.reg_used = g.reg_used \ {r}
        /\ g1.error = g.error /\ g1 = Gen(g1.code, g1.next_reg, g1.free_regs, g1.reg_used, g1.error)
    BY <2>4, GenParts
  <2>6. LimitMet(g1) => LimitMet(g)
    BY <2>5, Zenon DEF LimitMet
  <2>7. ASSUME g.error = "none"
        PROVE  f1 \in Seq(Nat) /\ Owned(g1, g1.reg_used) /\ Cardinality(g1.reg_used) = c - 1
    <3>1. /\ g.next_reg \in Nat /\ g.free_regs \in Seq(Nat) /\ Owned(g, g.reg_used)
          /\ Cardinality(g.reg_used) = c
      BY <2>1, <2>7, BytecodeAssumption DEF Tidy, Counts
    <3>2. r \in g.reg_used /\ r \notin Range(g.free_regs) /\ r \in 0 .. g.next_reg - 1 /\ r \in Nat
      BY <1>2, <3>1 DEF Owned
    <3>3. f1 \in Seq(Nat) /\ IsInjective(f1) /\ Range(f1) = Range(g.free_regs) \cup {r}
      BY <3>1, <3>2, PushFacts DEF Owned, f1
    <3>4. Owned(g1, g1.reg_used)
      BY <2>5, <3>1, <3>2, <3>3 DEF Owned
    <3>5. IsFiniteSet(g.reg_used)
      BY <3>1, RoomBelow DEF Owned
    <3>6. Cardinality(g1.reg_used) = c - 1
      <4>1. Cardinality(g.reg_used \ {r}) = IF r \in g.reg_used THEN Cardinality(g.reg_used) - 1
                                            ELSE Cardinality(g.reg_used)
        BY <3>5, FS_RemoveElement
      <4>2. QED
        BY <2>5, <3>1, <3>2, <4>1
    <3>7. QED
      BY <3>3, <3>4, <3>6
  <2>8. Tidy(g1) /\ Counts(g1, c - 1)
    BY <2>1, <2>5, <2>7 DEF Tidy, Counts
  <2>9. Peaks(0, g, g1)
    BY <2>1, <2>5, <2>6 DEF Peaks, Tidy
  <2>10. QED
    BY <2>8, <2>9 DEF g1
<1>3. QED
  BY <1>1, <1>2

LEMMA EmitUses ==
  ASSUME NEW g, NEW op, NEW a, NEW b, NEW x, NEW imm, NEW c
  PROVE  Uses(c, c, 0, g, emit(g, op, a, b, x, imm))
<1>1. CASE g.error # "none"
  <2>1. emit(g, op, a, b, x, imm) = g
    BY <1>1, Zenon DEF emit, ok
  <2>2. QED
    BY <2>1, NothingUses
<1>2. CASE g.error = "none" /\ imm \notin I32
  <2>1. PICK e \in OtherError : e = "payload range"
    BY Zenon DEF OtherError, Error, ResourceError
  <2>2. emit(g, op, a, b, x, imm) = fail(g, e)
    BY <1>2, <2>1, Zenon DEF emit, ok
  <2>3. QED
    BY <2>2, FailUses
<1>3. CASE g.error = "none" /\ imm \in I32
  <2>1. emit(g, op, a, b, x, imm) = [g EXCEPT !.code = Append(@, Instr(op, a, b, x, imm))]
    BY <1>3, Zenon DEF emit, ok
  <2>2. PICK code : emit(g, op, a, b, x, imm) = [g EXCEPT !.code = code]
    BY <2>1
  <2>3. QED
    BY <2>2, CodeUses
<1>4. QED
  BY <1>1, <1>2, <1>3

LEMMA LoadImmUses ==
  ASSUME NEW g, NEW a, NEW w, NEW c
  PROVE  Uses(c, c, 0, g, emit_load_imm(g, a, w))
<1>1. CASE g.error # "none"
  <2>1. emit_load_imm(g, a, w) = g
    BY <1>1, Zenon DEF emit_load_imm, ok
  <2>2. QED
    BY <2>1, NothingUses
<1>2. CASE g.error = "none"
  <2>1. emit_load_imm(g, a, w) =
          [g EXCEPT !.code = @ \o <<Instr("LoadImm", a, 0, 0, 0), Data(w)>>]
    BY <1>2, Zenon DEF emit_load_imm, ok
  <2>2. PICK code : emit_load_imm(g, a, w) = [g EXCEPT !.code = code]
    BY <2>1
  <2>3. QED
    BY <2>2, CodeUses
<1>3. QED
  BY <1>1, <1>2

LEMMA PatchUses ==
  ASSUME NEW g, NEW ip, NEW c
  PROVE  Uses(c, c, 0, g, PatchToHere(g, ip))
<1> DEFINE g1 == PatchToHere(g, ip)
<1>1. PICK e1 \in OtherError, e2 \in OtherError : e1 = "patch" /\ e2 = "target range"
  BY Zenon DEF OtherError, Error, InternalError, ResourceError
<1>2. CASE \/ ip < 0 \/ ip >= Len(g.code)
           \/ ip >= 0 /\ ip < Len(g.code) /\ Len(g.code) \notin I32
  <2>1. g1 \in {fail(g, "patch"), fail(g, "target range")}
    BY <1>2, Zenon DEF PatchToHere, patch_jump
  <2>2. g1 = fail(g, e1) \/ g1 = fail(g, e2)
    BY <1>1, <2>1, Zenon
  <2>3. QED
    BY <2>2, FailUses
<1>3. CASE /\ ~(ip < 0 \/ ip >= Len(g.code))
           /\ ~(ip >= 0 /\ ip < Len(g.code) /\ Len(g.code) \notin I32)
  <2>1. g1 = [g EXCEPT !.code[ip + 1].aux = Len(g.code)]
    BY <1>3, Zenon DEF PatchToHere, patch_jump
  <2>2. PICK code : g1 = [g EXCEPT !.code = code]
    BY <2>1
  <2>3. QED
    BY <2>2, CodeUses
<1>4. QED
  BY <1>2, <1>3

-----------------------------------------------------------------------------
(* The registers of the emitters that do not call emit_expr. *)

\* For the provers: the generator in what a primitive returns.
LEMMA GenOf ==
  ASSUME NEW r, NEW g, NEW v, r = [gen |-> g, value |-> v]
  PROVE  r.gen = g
OBVIOUS

LEMMA ImmediateUses ==
  ASSUME NEW g, NEW w, NEW t, NEW c \in Nat
  PROVE  Uses(c, c + 1, c + 1, g, emit_immediate(g, w, t).gen)
<1> DEFINE g1 == alloc_reg(g)
           g2 == emit_load_imm(g1, NextReg(g), w)
           r  == emit_immediate(g, w, t).gen
<1>1. Uses(c, c + 1, c + 1, g, g1)
  BY AllocUses
<1>2. Uses(c + 1, c + 1, 0, g1, g2)
  BY LoadImmUses
<1>3. r = g2 \/ r = g1
  BY DEF emit_immediate
<1> HIDE DEF r, g1, g2
<1>4. Uses(c, c + 1, c + 1, g, g2)
  BY <1>1, <1>2, UsesChain
<1>5. QED
  BY <1>1, <1>3, <1>4 DEF r

LEMMA LoadFieldUses ==
  ASSUME NEW g, NEW offset, NEW size, NEW flag, NEW c \in Nat
  PROVE  Uses(c, c + 1, c + 1, g, emit_load_field_reg(g, offset, size, flag).gen)
<1> DEFINE g1 == alloc_reg(g)
           g2 == emit(g1, "LoadField", NextReg(g), size, flag, offset)
           r  == emit_load_field_reg(g, offset, size, flag).gen
<1>1. Uses(c, c + 1, c + 1, g, g1)
  BY AllocUses
<1>2. Uses(c + 1, c + 1, 0, g1, g2)
  BY EmitUses
<1>3. r = g2 \/ r = g1
  BY DEF emit_load_field_reg
<1> HIDE DEF r, g1, g2
<1>4. Uses(c, c + 1, c + 1, g, g2)
  BY <1>1, <1>2, UsesChain
<1>5. QED
  BY <1>1, <1>3, <1>4 DEF r

\* The destination is taken before the operands are released.
LEMMA EmitIntoUses ==
  ASSUME NEW g, NEW op, NEW lhs, NEW rhs, NEW t, NEW c \in Nat
  PROVE  Uses(c, c - 1, c + 1, g, EmitInto(g, op, lhs, rhs, t).gen)
<1> DEFINE g1 == alloc_reg(g)
           g2 == emit(g1, op, NextReg(g), lhs, rhs, 0)
           g3 == release_reg(g2, lhs)
           g4 == release_reg(g3, rhs)
<1>1. EmitInto(g, op, lhs, rhs, t).gen = g4
  BY DEF EmitInto
<1>2. Uses(c, c + 1, c + 1, g, g1)
  BY AllocUses
<1>3. Uses(c + 1, c + 1, 0, g1, g2)
  BY EmitUses
<1>4. Uses(c + 1, c, 0, g2, g3)
  <2>1. c + 1 \in Nat /\ c + 1 - 1 = c
    OBVIOUS
  <2>2. Uses(c + 1, c + 1 - 1, 0, g2, g3)
    BY <2>1, ReleaseUses
  <2>3. QED
    BY <2>1, <2>2
<1>5. Uses(c, c - 1, 0, g3, g4)
  BY ReleaseUses
<1> HIDE DEF g1, g2, g3, g4
<1>6. Uses(c, c + 1, c + 1, g, g2)
  BY <1>2, <1>3, UsesChain
<1>7. Uses(c, c, c + 1, g, g3)
  BY <1>4, <1>6, UsesChain
<1>8. Uses(c, c - 1, c + 1, g, g4)
  BY <1>5, <1>7, UsesChain
<1>9. QED
  BY <1>1, <1>8

LEMMA NegationUses ==
  ASSUME NEW g, NEW operand, NEW c \in Nat
  PROVE  Uses(c, c, c + 1, g, EmitNegation(g, operand).gen)
<1> DEFINE g1 == alloc_reg(g)
           g2 == emit(g1, "Not", NextReg(g), operand, 0, 0)
           g3 == release_reg(g2, operand)
<1>1. EmitNegation(g, operand).gen = g3
  BY DEF EmitNegation
<1>2. Uses(c, c + 1, c + 1, g, g1)
  BY AllocUses
<1>3. Uses(c + 1, c + 1, 0, g1, g2)
  BY EmitUses
<1>4. Uses(c + 1, c, 0, g2, g3)
  <2>1. c + 1 \in Nat /\ c + 1 - 1 = c
    OBVIOUS
  <2>2. Uses(c + 1, c + 1 - 1, 0, g2, g3)
    BY <2>1, ReleaseUses
  <2>3. QED
    BY <2>1, <2>2
<1> HIDE DEF g1, g2, g3
<1>5. Uses(c, c + 1, c + 1, g, g2)
  BY <1>2, <1>3, UsesChain
<1>6. Uses(c, c, c + 1, g, g3)
  BY <1>4, <1>5, UsesChain
<1>7. QED
  BY <1>1, <1>6

\* An integer takes a zero and the result to become a boolean.
LEMMA EnsureBoolUses ==
  ASSUME NEW g, NEW v, v.type \in ValueType, NEW c \in Nat
  PROVE  /\ v.type = "Int" => Uses(c, c, c + 2, g, ensure_bool(g, v).gen)
         /\ v.type # "Int" => Uses(c, c, 0, g, ensure_bool(g, v).gen)
<1>1. CASE v.type = "Bool"
  <2>1. ensure_bool(g, v).gen = g
    BY <1>1 DEF ensure_bool
  <2>2. QED
    BY <1>1, <2>1, NothingUses
<1>2. CASE v.type \in {"Ipv4", "Ipv6"}
  <2>1. PICK e \in OtherError : e = "type mismatch"
    BY Zenon DEF OtherError, Error, UserError
  <2>2. v.type # "Bool" /\ v.type # "Int"
    BY <1>2
  <2>3. ensure_bool(g, v) = [gen |-> fail(g, "type mismatch"), value |-> Value(0, "Bool")]
    BY <1>2, <2>2, Zenon DEF ensure_bool
  <2>4. ensure_bool(g, v).gen = fail(g, "type mismatch")
    BY <2>3, GenOf, Zenon
  <2>5. ensure_bool(g, v).gen = fail(g, e)
    BY <2>1, <2>4, Zenon
  <2>6. QED
    BY <2>2, <2>5, FailUses
<1>3. CASE v.type = "Int"
  <2> DEFINE z == emit_immediate(g, Zero, "Int")
             r == EmitInto(z.gen, "CmpNe", v.reg, z.value.reg, "Bool")
  <2>1. ensure_bool(g, v) = r
    BY <1>3 DEF ensure_bool, emit_compare_regs
  <2>2. Uses(c, c + 1, c + 1, g, z.gen)
    BY ImmediateUses
  <2>3. Uses(c + 1, c, c + 2, z.gen, r.gen)
    <3>1. c + 1 \in Nat /\ c + 1 - 1 = c /\ c + 1 + 1 = c + 2
      OBVIOUS
    <3>2. Uses(c + 1, c + 1 - 1, c + 1 + 1, z.gen, r.gen)
      BY <3>1, EmitIntoUses
    <3>3. QED
      BY <3>1, <3>2
  <2> HIDE DEF r, z
  <2>4. Uses(c, c, c + 2, g, r.gen)
    <3>1. PICK a \in Nat, b \in Nat : a = c + 1 /\ b = c + 2
      OBVIOUS
    <3>2. Uses(c, a, a, g, z.gen) /\ Uses(a, c, b, z.gen, r.gen) /\ a <= b
      BY <2>2, <2>3, <3>1
    <3>3. Uses(c, c, b, g, r.gen)
      BY <3>2, UsesChain
    <3>4. QED
      BY <3>1, <3>3
  <2>5. QED
    BY <1>3, <2>1, <2>4
<1>4. QED
  BY <1>1, <1>2, <1>3 DEF ValueType

LEMMA IdentifierUses ==
  ASSUME NEW g, NEW name, NEW c \in Nat
  PROVE  Uses(c, c + 1, c + 1, g, emit_identifier(g, registry, name).gen)
<1> DEFINE info == registry[name]
           r    == emit_identifier(g, registry, name).gen
           load == emit_load_field_reg(g, info.offset, info.size, SignFlag(info.type)).gen
<1>1. PICK e1 \in OtherError, e2 \in OtherError : e1 = "not found" /\ e2 = "type mismatch"
  BY Zenon DEF OtherError, Error, UserError
<1>2. r = fail(g, "not found") \/ r = fail(g, "type mismatch") \/ r = load
  <2>1. CASE name \notin DOMAIN registry
    <3>1. emit_identifier(g, registry, name) =
            [gen |-> fail(g, "not found"), value |-> Value(0, "Int")]
      BY <2>1, Zenon DEF emit_identifier
    <3>2. QED
      BY <3>1, GenOf, Zenon
  <2>2. CASE name \in DOMAIN registry /\ qualifier_value_type(info.type) = "Ipv6"
    <3>1. emit_identifier(g, registry, name) =
            [gen |-> fail(g, "type mismatch"), value |-> Value(0, "Ipv6")]
      BY <2>2, Zenon DEF emit_identifier
    <3>2. QED
      BY <3>1, GenOf, Zenon
  <2>3. CASE name \in DOMAIN registry /\ qualifier_value_type(info.type) # "Ipv6"
    <3>1. PICK v : emit_identifier(g, registry, name) = [gen |-> load, value |-> v]
      BY <2>3, Zenon DEF emit_identifier
    <3> HIDE DEF load
    <3>2. QED
      BY <3>1, GenOf, Zenon
  <2>4. QED
    BY <2>1, <2>2, <2>3, Zenon
<1>3. r = fail(g, e1) \/ r = fail(g, e2) \/ r = load
  BY <1>1, <1>2, Zenon
<1>4. Uses(c, c + 1, c + 1, g, load)
  BY LoadFieldUses
<1> HIDE DEF r, load
<1>5. QED
  BY <1>3, <1>4, FailUses DEF r

\* The two halves of an address.
LEMMA AddressUses ==
  ASSUME NEW g, NEW e, NEW c \in Nat
  PROVE  Uses(c, c + 2, c + 2, g, emit_ipv6_value(g, registry, e).gen)
<1>1. PICK h1 : h1 = emit_load_field_reg(g, registry[e.ident].offset, 8, 0)
  OBVIOUS
<1>2. PICK l1 : l1 = emit_load_field_reg(h1.gen, LowHalf(registry[e.ident].offset), 8, 0)
  OBVIOUS
<1>3. PICK h2 : h2 = emit_immediate(g, e.value.hi, "Int")
  OBVIOUS
<1>4. PICK l2 : l2 = emit_immediate(h2.gen, e.value.lo, "Int")
  OBVIOUS
<1>5. PICK r : r = emit_ipv6_value(g, registry, e)
  OBVIOUS
<1>6. PICK e1 \in OtherError, e2 \in OtherError, e3 \in OtherError :
        e1 = "not found" /\ e2 = "type mismatch" /\ e3 = "bad literal"
  BY Zenon DEF OtherError, Error, UserError
<1>7. PICK c1 \in Nat, c2 \in Nat : c1 = c + 1 /\ c2 = c + 2 /\ c2 = c1 + 1 /\ c1 <= c2
  OBVIOUS
<1>8. Uses(c, c2, c2, g, l1.gen)
  <2>1. Uses(c, c1, c1, g, h1.gen)
    BY <1>7, <1>1, LoadFieldUses
  <2>2. Uses(c1, c2, c2, h1.gen, l1.gen)
    <3>1. Uses(c1, c1 + 1, c1 + 1, h1.gen, l1.gen)
      BY <1>2, LoadFieldUses
    <3>2. QED
      BY <1>7, <3>1
  <2>3. c1 <= c2 /\ c2 <= c2 /\ c2 \in {c1, c2}
    BY <1>7
  <2>4. QED
    BY <2>1, <2>2, <2>3, UsesChain
<1>9. Uses(c, c2, c2, g, l2.gen)
  <2>1. Uses(c, c1, c1, g, h2.gen)
    BY <1>7, <1>3, ImmediateUses
  <2>2. Uses(c1, c2, c2, h2.gen, l2.gen)
    <3>1. Uses(c1, c1 + 1, c1 + 1, h2.gen, l2.gen)
      BY <1>4, ImmediateUses
    <3>2. QED
      BY <1>7, <3>1
  <2>3. c1 <= c2 /\ c2 <= c2 /\ c2 \in {c1, c2}
    BY <1>7
  <2>4. QED
    BY <2>1, <2>2, <2>3, UsesChain
<1>10. r.gen \in {fail(g, "not found"), fail(g, "type mismatch"), fail(g, "bad literal"), l1.gen, l2.gen}
  <2>1. CASE e.kind = "Identifier" /\ e.ident \notin DOMAIN registry
    <3>1. r = [gen |-> fail(g, "not found"), value |-> <<0, 0>>]
      BY <1>1, <1>2, <1>3, <1>4, <1>5, <2>1, Zenon DEF emit_ipv6_value, emit_ipv6_identifier
    <3>2. QED
      BY <3>1, GenOf, Zenon
  <2>2. CASE e.kind = "Identifier" /\ e.ident \in DOMAIN registry /\ registry[e.ident].type # "ipv6"
    <3>1. r = [gen |-> fail(g, "type mismatch"), value |-> <<0, 0>>]
      BY <1>1, <1>2, <1>3, <1>4, <1>5, <2>2, Zenon DEF emit_ipv6_value, emit_ipv6_identifier
    <3>2. QED
      BY <3>1, GenOf, Zenon
  <2>3. CASE e.kind = "Identifier" /\ e.ident \in DOMAIN registry /\ registry[e.ident].type = "ipv6"
    <3>1. r = [gen |-> l1.gen, value |-> <<h1.value, l1.value>>]
      BY <1>1, <1>2, <1>3, <1>4, <1>5, <2>3, Zenon DEF emit_ipv6_value, emit_ipv6_identifier
    <3>2. QED
      BY <3>1, GenOf, Zenon
  <2>4. CASE e.kind = "Ipv6" /\ e.value = Malformed
    <3>1. e.kind # "Identifier"
      BY <2>4
    <3>2. r = [gen |-> fail(g, "bad literal"), value |-> <<0, 0>>]
      BY <1>1, <1>2, <1>3, <1>4, <1>5, <2>4, <3>1, Zenon DEF emit_ipv6_value, emit_ipv6_literal
    <3>3. QED
      BY <3>2, GenOf, Zenon
  <2>5. CASE e.kind = "Ipv6" /\ e.value # Malformed
    <3>1. e.kind # "Identifier"
      BY <2>5
    <3>2. r = [gen |-> l2.gen, value |-> <<h2.value.reg, l2.value.reg>>]
      BY <1>1, <1>2, <1>3, <1>4, <1>5, <2>5, <3>1, Zenon DEF emit_ipv6_value, emit_ipv6_literal
    <3>3. QED
      BY <3>2, GenOf, Zenon
  <2>6. CASE e.kind # "Identifier" /\ e.kind # "Ipv6"
    <3>1. r = [gen |-> fail(g, "type mismatch"), value |-> <<0, 0>>]
      BY <1>1, <1>2, <1>3, <1>4, <1>5, <2>6, Zenon DEF emit_ipv6_value
    <3>2. QED
      BY <3>1, GenOf, Zenon
  <2>7. QED
    BY <2>1, <2>2, <2>3, <2>4, <2>5, <2>6, Zenon
<1>11. r.gen \in {fail(g, e1), fail(g, e2), fail(g, e3), l1.gen, l2.gen}
  BY <1>6, <1>10, Zenon
<1>12. Uses(c, c2, c2, g, r.gen)
  BY <1>8, <1>9, <1>11, FailUses
<1>13. QED
  BY <1>7, <1>12, <1>5

\* Four registers for the halves, and one for their first comparison.
LEMMA AddressCompareUses ==
  ASSUME NEW g, NEW op, NEW e1, NEW e2, NEW c \in Nat
  PROVE  Uses(c, c + 1, c + 5, g, emit_ipv6_compare(g, registry, op, e1, e2).gen)
<1>1. PICK lhs : lhs = emit_ipv6_value(g, registry, e1)
  OBVIOUS
<1>2. PICK rhs : rhs = emit_ipv6_value(lhs.gen, registry, e2)
  OBVIOUS
<1>3. PICK hi : hi = emit_compare_regs(rhs.gen, "CmpEq", lhs.value[1], rhs.value[1])
  OBVIOUS
<1>4. PICK lo : lo = emit_compare_regs(hi.gen, "CmpEq", lhs.value[2], rhs.value[2])
  OBVIOUS
<1>5. PICK both : both = EmitInto(lo.gen, "And", hi.value.reg, lo.value.reg, "Bool")
  OBVIOUS
<1>6. PICK neg : neg = EmitNegation(both.gen, both.value.reg)
  OBVIOUS
<1>7. PICK r : r = emit_ipv6_compare(g, registry, op, e1, e2)
  OBVIOUS
<1>8. r = CASE ~ok(rhs.gen)                 -> [gen |-> rhs.gen, value |-> Value(0, "Bool")]
            [] ok(rhs.gen) /\ ~ok(lo.gen)   -> [gen |-> lo.gen, value |-> Value(0, "Bool")]
            [] ok(rhs.gen) /\ ok(lo.gen) /\ op = "CmpEq" -> both
            [] OTHER                        -> neg
  BY <1>1, <1>2, <1>3, <1>4, <1>5, <1>6, <1>7, Zenon DEF emit_ipv6_compare
<1>9. PICK c1 \in Nat, c2 \in Nat, c3 \in Nat, c4 \in Nat, c5 \in Nat :
        c1 = c + 1 /\ c2 = c + 2 /\ c3 = c + 3 /\ c4 = c + 4 /\ c5 = c + 5
  OBVIOUS
<1>10. c1 <= c5 /\ c2 <= c4 /\ c2 <= c5 /\ c3 <= c5 /\ c4 <= c5 /\ c4 <= c4 /\ c5 <= c5
  BY <1>9
<1>11. Uses(c, c2, c2, g, lhs.gen)
  BY <1>9, <1>1, AddressUses
<1>12. Uses(c2, c4, c4, lhs.gen, rhs.gen)
  <2>1. c2 + 2 = c4
    BY <1>9
  <2>2. Uses(c2, c2 + 2, c2 + 2, lhs.gen, rhs.gen)
    BY <1>2, AddressUses
  <2>3. QED
    BY <2>1, <2>2
<1>13. Uses(c4, c3, c5, rhs.gen, hi.gen)
  <2>1. c4 - 1 = c3 /\ c4 + 1 = c5
    BY <1>9
  <2>2. Uses(c4, c4 - 1, c4 + 1, rhs.gen, hi.gen)
    BY <1>3, EmitIntoUses DEF emit_compare_regs
  <2>3. QED
    BY <2>1, <2>2
<1>14. Uses(c3, c2, c4, hi.gen, lo.gen)
  <2>1. c3 - 1 = c2 /\ c3 + 1 = c4
    BY <1>9
  <2>2. Uses(c3, c3 - 1, c3 + 1, hi.gen, lo.gen)
    BY <1>4, EmitIntoUses DEF emit_compare_regs
  <2>3. QED
    BY <2>1, <2>2
<1>15. Uses(c2, c1, c3, lo.gen, both.gen)
  <2>1. c2 - 1 = c1 /\ c2 + 1 = c3
    BY <1>9
  <2>2. Uses(c2, c2 - 1, c2 + 1, lo.gen, both.gen)
    BY <1>5, EmitIntoUses
  <2>3. QED
    BY <2>1, <2>2
<1>16. Uses(c1, c1, c2, both.gen, neg.gen)
  <2>1. c1 + 1 = c2
    BY <1>9
  <2>2. Uses(c1, c1, c1 + 1, both.gen, neg.gen)
    BY <1>6, NegationUses
  <2>3. QED
    BY <2>1, <2>2
<1>17. Uses(c, c4, c4, g, rhs.gen)
  BY <1>10, <1>11, <1>12, UsesChain
<1>18. Uses(c, c3, c5, g, hi.gen)
  BY <1>10, <1>13, <1>17, UsesChain
<1>19. Uses(c, c2, c5, g, lo.gen)
  BY <1>10, <1>14, <1>18, UsesChain
<1>20. Uses(c, c1, c5, g, both.gen)
  BY <1>10, <1>15, <1>19, UsesChain
<1>21. Uses(c, c1, c5, g, neg.gen)
  BY <1>10, <1>16, <1>20, UsesChain
<1>22. \/ r = [gen |-> rhs.gen, value |-> Value(0, "Bool")] /\ ~ok(rhs.gen)
       \/ r = [gen |-> lo.gen, value |-> Value(0, "Bool")] /\ ~ok(lo.gen)
       \/ r = both \/ r = neg
  BY <1>8
<1>23. Uses(c, c1, c5, g, r.gen)
  <2>1. CASE r = [gen |-> rhs.gen, value |-> Value(0, "Bool")] /\ ~ok(rhs.gen)
    <3>1. r.gen = rhs.gen /\ rhs.gen.error # "none"
      BY <2>1 DEF ok
    <3>2. QED
      BY <1>9, <1>17, <3>1, UsesFailed
  <2>2. CASE r = [gen |-> lo.gen, value |-> Value(0, "Bool")] /\ ~ok(lo.gen)
    <3>1. r.gen = lo.gen /\ lo.gen.error # "none"
      BY <2>2 DEF ok
    <3>2. QED
      BY <1>9, <1>19, <3>1, UsesFailed
  <2>3. QED
    BY <1>20, <1>21, <1>22, <2>1, <2>2
<1>24. QED
  BY <1>9, <1>23, <1>7

-----------------------------------------------------------------------------
(***************************************************************************)
(* The invariant: what the expression needs fits n registers exactly when  *)
(* the registers handed out so far do, and all that the waiting emitters   *)
(* and the node still need.                                                *)
(***************************************************************************)

\* The registers kept below emitter i.
Below(s, i) == {KeptOf(s[j]) : j \in {k \in 1 .. i - 1 : s[k].at = "rhs"}}

\* What emitter f still needs after the operand it waits for, when c registers
\* are kept below it, fits n registers.
After(r, f, c, n) ==
  /\ f.at # "rhs" /\ f.expr.kind \in Logical \cup {"Not"} =>
       c + 2 <= n /\ (TypeIn(r)[f.expr.left] = "Int" => c + 3 <= n)
  /\ f.at # "operand" /\ f.expr.kind \in Logical =>
       (TypeIn(r)[f.expr.right] = "Int" => c + 4 <= n)
  /\ f.at # "operand" /\ f.expr.kind \in Comparing \cup Bitwise =>
       c + Sides(TypeIn(r), f.expr) <= n
  /\ f.at = "lhs" => c + 1 + NeedOf(r)[f.expr.right] <= n

FramesFit(r, s, n) == \A i \in 1 .. Len(s) : After(r, s[i], Cardinality(Below(s, i)), n)

\* What is still to be evaluated fits n registers.
Pending(r, s, m, e, n) ==
  FramesFit(r, s, n) /\ (m = "enter" => Cardinality(Held(s)) + NeedOf(r)[e] <= n)

Goal        == NeedIn(registry)[root]
RootFits(n) == TypeOf(root) = "Int" => 3 <= n

NeedInv ==
  WellTyped(root, registry) =>
    /\ mode # "done" /\ gen.error = "none" =>
         \A n \in Nat : Goal <= n <=> /\ gen.next_reg <= n
                                      /\ Pending(registry, stack, mode, node, n)
                                      /\ RootFits(n)
    /\ LimitMet(gen) => Goal > MaxRegisterCount
    /\ status = "OK" => register_count = Goal

LEMMA LastFits ==
  ASSUME NEW r, NEW f, NEW s, Len(r) \in Nat,
         Len(s) = Len(r) + 1, s[Len(r) + 1] = f, \A i \in 1 .. Len(r) : s[i] = r[i],
         NEW reg, NEW n
  PROVE  FramesFit(reg, s, n) <=>
           FramesFit(reg, r, n) /\ After(reg, f, Cardinality(Held(r)), n)
<1>1. PICK k \in Nat : k = Len(r)
  OBVIOUS
<1>2. ASSUME NEW i \in 1 .. k PROVE Below(s, i) = Below(r, i)
  <2>1. \A j \in 1 .. i - 1 : s[j] = r[j]
    BY <1>1
  <2>2. QED
    BY <2>1 DEF Below
<1>3. Below(s, k + 1) = Held(r)
  <2>1. k + 1 - 1 = k
    OBVIOUS
  <2>2. \A j \in 1 .. k : s[j] = r[j]
    BY <1>1
  <2>3. QED
    BY <1>1, <2>1, <2>2 DEF Below, Held, Rhs
<1>4. 1 .. Len(s) = (1 .. k) \cup {k + 1}
  BY <1>1
<1>5. FramesFit(reg, s, n) <=>
        /\ \A i \in 1 .. k : After(reg, s[i], Cardinality(Below(s, i)), n)
        /\ After(reg, s[k + 1], Cardinality(Below(s, k + 1)), n)
  BY <1>4, Zenon DEF FramesFit
<1>6. s[k + 1] = f /\ \A i \in 1 .. k : s[i] = r[i]
  BY <1>1
<1>7. FramesFit(reg, r, n) <=> \A i \in 1 .. k : After(reg, s[i], Cardinality(Below(s, i)), n)
  BY <1>1, <1>2, <1>6, Zenon DEF FramesFit
<1>8. QED
  BY <1>3, <1>5, <1>6, <1>7, Zenon

LEMMA NoFrames ==
  ASSUME NEW reg, NEW n
  PROVE  FramesFit(reg, <<>>, n) /\ Held(<<>>) = {}
<1>1. Len(<<>>) = 0
  OBVIOUS
<1>2. 1 .. 0 = {}
  OBVIOUS
<1>3. QED
  BY <1>1, <1>2 DEF FramesFit, Held, Rhs

\* An emitter that is called: what its expression needs is what its first
\* operand and what comes after need.
LEMMA OperatorFits ==
  ASSUME NEW r \in Registries, NEW f, f.expr \in Expr, f.at \in {"operand", "lhs"},
         f.expr.kind \in Binary \cup {"Not"}, f.at = "operand" <=> f.expr.kind = "Not",
         f.expr.kind \in Comparing \cup Bitwise => TypeIn(r)[f.expr.left] # "Ipv6",
         NEW c \in Nat, NEW n \in Nat
  PROVE  c + NeedOf(r)[f.expr] <= n <=> After(r, f, c, n) /\ c + NeedOf(r)[f.expr.left] <= n
<1>1. PICK e, T, N : e \in Expr /\ e = f.expr /\ T = TypeIn(r) /\ N = NeedOf(r)
  OBVIOUS
<1>2. e \in Expr /\ e.left \in Expr /\ (e.kind \in Binary => e.right \in Expr)
  BY <1>1, ExprAssumption
<1>3. N[e] = NeedFrom(T, N, e) /\ N[e] \in Nat /\ N[e.left] \in Nat /\ (e.kind \in Binary => N[e.right] \in Nat)
  BY <1>1, <1>2, NeedsHold
<1>4. CASE e.kind = "Not"
  <2>1. N[e] = Max({NeedBool(T, N, e.left), 2})
    <3>1. NeedFrom(T, N, e) = Max({NeedBool(T, N, e.left), 2})
      BY <1>2, <1>4, OperatorNeeds
    <3>2. QED
      BY <1>3, <3>1
  <2>2. /\ NeedBool(T, N, e.left) \in Nat
        /\ \A k \in Nat : NeedBool(T, N, e.left) <= k <=> N[e.left] <= k /\ (T[e.left] = "Int" => 3 <= k)
    BY <1>3, BoolNeeds
  <2>3. \A k \in Nat : N[e] <= k <=> NeedBool(T, N, e.left) <= k /\ 2 <= k
    BY <2>1, <2>2, MaxOfTwo
  <2>4. c + N[e] <= n <=>
          c + N[e.left] <= n /\ (T[e.left] = "Int" => c + 3 <= n) /\ c + 2 <= n
    BY <1>3, <2>2, <2>3
  <2>5. e.kind \notin Logical /\ e.kind \notin Comparing \cup Bitwise
    BY <1>4, KindsDisjoint
  <2>6. After(r, f, c, n) <=> c + 2 <= n /\ (T[e.left] = "Int" => c + 3 <= n)
    BY <1>1, <1>4, <2>5 DEF After
  <2>7. QED
    BY <1>1, <2>4, <2>6
<1>5. CASE e.kind \in Logical
  <2>1. e.kind \in Binary /\ e.kind # "Not" /\ e.kind \notin Comparing \cup Bitwise /\ f.at = "lhs"
    BY <1>1, <1>5, KindsDisjoint DEF Binary
  <2>2. N[e] = Max({NeedBool(T, N, e.left), 2, 1 + NeedBool(T, N, e.right)})
    <3>1. NeedFrom(T, N, e) = Max({NeedBool(T, N, e.left), 2, 1 + NeedBool(T, N, e.right)})
      BY <1>2, <1>5, OperatorNeeds
    <3>2. QED
      BY <1>3, <3>1
  <2>3. /\ NeedBool(T, N, e.left) \in Nat
        /\ \A k \in Nat : NeedBool(T, N, e.left) <= k <=> N[e.left] <= k /\ (T[e.left] = "Int" => 3 <= k)
    BY <1>3, BoolNeeds
  <2>4. /\ NeedBool(T, N, e.right) \in Nat
        /\ \A k \in Nat : NeedBool(T, N, e.right) <= k <=> N[e.right] <= k /\ (T[e.right] = "Int" => 3 <= k)
    BY <1>3, <2>1, BoolNeeds
  <2>5. PICK b \in Nat : b = 1 + NeedBool(T, N, e.right)
    BY <2>4
  <2>6. \A k \in Nat : N[e] <= k <=> NeedBool(T, N, e.left) <= k /\ 2 <= k /\ b <= k
    BY <2>2, <2>3, <2>5, MaxOfThree
  <2>7. c + NeedBool(T, N, e.left) <= n <=> c + N[e.left] <= n /\ (T[e.left] = "Int" => c + 3 <= n)
    BY <1>3, <2>3
  <2>8. c + b <= n <=> c + 1 + N[e.right] <= n /\ (T[e.right] = "Int" => c + 4 <= n)
    BY <1>3, <2>1, <2>4, <2>5
  <2>9. c + N[e] <= n <=> c + NeedBool(T, N, e.left) <= n /\ c + 2 <= n /\ c + b <= n
    <3>1. PICK p \in Nat, q \in Nat : p = N[e] /\ q = NeedBool(T, N, e.left)
      BY <1>3, <2>3
    <3>2. \A k \in Nat : p <= k <=> q <= k /\ 2 <= k /\ b <= k
      BY <2>6, <3>1
    <3>3. CASE c <= n
      <4>1. PICK k \in Nat : n = c + k
        BY <3>3
      <4>2. p <= k <=> q <= k /\ 2 <= k /\ b <= k
        BY <3>2
      <4>3. QED
        BY <3>1, <4>1, <4>2
    <3>4. CASE ~(c <= n)
      BY <3>1, <3>4
    <3>5. QED
      BY <3>3, <3>4
  <2>10. After(r, f, c, n) <=>
           /\ c + 2 <= n /\ (T[e.left] = "Int" => c + 3 <= n)
           /\ (T[e.right] = "Int" => c + 4 <= n)
           /\ c + 1 + N[e.right] <= n
    BY <1>1, <1>5, <2>1 DEF After
  <2>11. QED
    BY <1>1, <2>7, <2>8, <2>9, <2>10
<1>6. CASE e.kind \in Comparing \cup Bitwise
  <2>1. e.kind \in Binary /\ e.kind # "Not" /\ e.kind \notin Logical /\ f.at = "lhs"
    BY <1>1, <1>6, KindsDisjoint DEF Binary
  <2>2. T[e.left] # "Ipv6"
    BY <1>1, <1>6
  <2>3. N[e] = Max({N[e.left], 1 + N[e.right], Sides(T, e)})
    <3>1. NeedFrom(T, N, e) = Max({N[e.left], 1 + N[e.right], Sides(T, e)})
      BY <1>2, <1>6, <2>2, OperatorNeeds
    <3>2. QED
      BY <1>3, <3>1
  <2>4. PICK a \in Nat, b \in Nat : a = 1 + N[e.right] /\ b = Sides(T, e)
    BY <1>3, <2>1 DEF Sides
  <2>5. \A k \in Nat : N[e] <= k <=> N[e.left] <= k /\ a <= k /\ b <= k
    <3>1. PICK l \in Nat : l = N[e.left]
      BY <1>3
    <3>2. N[e] = Max({l, a, b})
      BY <2>3, <2>4, <3>1
    <3>3. \A k \in Nat : Max({l, a, b}) <= k <=> l <= k /\ a <= k /\ b <= k
      BY MaxOfThree
    <3>4. QED
      BY <3>1, <3>2, <3>3
  <2>6. c + N[e] <= n <=> c + N[e.left] <= n /\ c + 1 + N[e.right] <= n /\ c + b <= n
    BY <1>3, <2>1, <2>4, <2>5
  <2>7. After(r, f, c, n) <=> c + b <= n /\ c + 1 + N[e.right] <= n
    BY <1>1, <1>6, <2>1, <2>4 DEF After
  <2>8. QED
    BY <1>1, <2>6, <2>7
<1>7. QED
  BY <1>1, <1>4, <1>5, <1>6 DEF Binary

\* An emitter that goes on with its right operand.
LEMMA RightFits ==
  ASSUME NEW r, NEW f, NEW f1, f1.expr = f.expr, f.at = "lhs", f1.at = "rhs",
         f.expr.kind \in Comparing \cup Bitwise, NEW c, NEW n
  PROVE  After(r, f, c, n) <=> After(r, f1, c, n) /\ c + 1 + NeedOf(r)[f.expr.right] <= n
<1>1. f.expr.kind # "Not" /\ f.expr.kind \notin Logical
  BY KindsDisjoint
<1>2. QED
  BY <1>1 DEF After

LEMMA GoalFits ==
  ASSUME root \in Expr, registry \in Registries
  PROVE  /\ Goal \in Nat
         /\ \A n \in Nat : Goal <= n <=> NeedOf(registry)[root] <= n /\ RootFits(n)
<1>1. PICK T, N : T = TypeIn(registry) /\ N = NeedOf(registry)
  OBVIOUS
<1>2. N[root] \in Nat
  BY <1>1, NeedsHold
<1>3. Goal = NeedBool(T, N, root)
  BY <1>1 DEF Goal, NeedIn
<1>4. QED
  BY <1>1, <1>2, <1>3, BoolNeeds DEF RootFits, TypeOf

-----------------------------------------------------------------------------
(* Steps. *)

\* The registers in use and those the emitters keep.
LEMMA EnterCount ==
  ASSUME Inv, mode = "enter"
  PROVE  /\ Tidy(gen)
         /\ \E c \in Nat : Counts(gen, c) /\ (gen.error = "none" => Cardinality(Held(stack)) = c)
<1>1. Sound(gen, Held(stack), OpenOf(stack))
  BY EnterFacts
<1>2. Tidy(gen) /\ (gen.error = "none" => gen.reg_used = Held(stack))
  BY <1>1, SoundTidy
<1>3. CASE gen.error = "none"
  <2>1. gen.next_reg \in Nat /\ gen.reg_used \subseteq 0 .. gen.next_reg - 1
    BY <1>2, <1>3, BytecodeAssumption DEF Tidy, Owned
  <2>2. Cardinality(gen.reg_used) \in Nat
    BY <2>1, RoomBelow
  <2>3. QED
    BY <1>2, <1>3, <2>2 DEF Counts
<1>4. CASE gen.error # "none"
  BY <1>2, <1>4 DEF Counts
<1>5. QED
  BY <1>3, <1>4

\* The same when the generator holds one more, and when it holds two more.
LEMMA HeldCount ==
  ASSUME NEW held, NEW x, NEW open, Sound(gen, held \cup {x}, open),
         gen.error = "none" => x \notin held
  PROVE  /\ Tidy(gen)
         /\ gen.error = "none" => IsFiniteSet(held)
         /\ \E c \in Nat : Counts(gen, c + 1) /\ (gen.error = "none" => Cardinality(held) = c)
<1>1. Tidy(gen) /\ (gen.error = "none" => gen.reg_used = held \cup {x})
  BY SoundTidy
<1>2. CASE gen.error = "none"
  <2>1. gen.next_reg \in Nat /\ gen.reg_used \subseteq 0 .. gen.next_reg - 1
    BY <1>1, <1>2, BytecodeAssumption DEF Tidy, Owned
  <2>2. IsFiniteSet(held) /\ Cardinality(held) \in Nat
    <3>1. held \subseteq 0 .. gen.next_reg - 1
      BY <1>1, <1>2, <2>1
    <3>2. QED
      BY <2>1, <3>1, RoomBelow
  <2>3. Cardinality(held \cup {x}) = IF x \in held THEN Cardinality(held) ELSE Cardinality(held) + 1
    BY <2>2, FS_AddElement
  <2>4. QED
    BY <1>1, <1>2, <2>2, <2>3 DEF Counts
<1>3. CASE gen.error # "none"
  BY <1>1, <1>3 DEF Counts
<1>4. QED
  BY <1>2, <1>3

LEMMA HeldCountTwo ==
  ASSUME NEW held, NEW x, NEW y, NEW open, Sound(gen, (held \cup {x}) \cup {y}, open),
         gen.error = "none" => x \notin held /\ y \notin held \cup {x}
  PROVE  /\ Tidy(gen)
         /\ \E c \in Nat : Counts(gen, c + 2) /\ (gen.error = "none" => Cardinality(held) = c)
<1>1. Tidy(gen) /\ (gen.error = "none" => gen.reg_used = (held \cup {x}) \cup {y})
  BY SoundTidy
<1>2. CASE gen.error = "none"
  <2>1. gen.next_reg \in Nat /\ gen.reg_used \subseteq 0 .. gen.next_reg - 1
    BY <1>1, <1>2, BytecodeAssumption DEF Tidy, Owned
  <2>2. IsFiniteSet(held) /\ Cardinality(held) \in Nat
    <3>1. held \subseteq 0 .. gen.next_reg - 1
      BY <1>1, <1>2, <2>1
    <3>2. QED
      BY <2>1, <3>1, RoomBelow
  <2>3. /\ IsFiniteSet(held \cup {x})
        /\ Cardinality(held \cup {x}) = IF x \in held THEN Cardinality(held) ELSE Cardinality(held) + 1
    BY <2>2, FS_AddElement
  <2>4. Cardinality((held \cup {x}) \cup {y}) =
          IF y \in held \cup {x} THEN Cardinality(held \cup {x}) ELSE Cardinality(held \cup {x}) + 1
    BY <2>3, FS_AddElement
  <2>5. Cardinality(gen.reg_used) = Cardinality(held) + 2
    BY <1>1, <1>2, <2>2, <2>3, <2>4
  <2>6. PICK c \in Nat : c = Cardinality(held)
    BY <2>2
  <2>7. Counts(gen, c + 2)
    BY <2>5, <2>6 DEF Counts
  <2>8. QED
    BY <1>1, <2>6, <2>7
<1>3. CASE gen.error # "none"
  BY <1>1, <1>3 DEF Counts
<1>4. QED
  BY <1>2, <1>3

\* A step that has m registers in use at one time, where what is pending says
\* so before and says the rest after.
LEMMA StepFits ==
  ASSUME Inv, NeedInv, mode # "done",
         root' = root, registry' = registry, status' = status,
         NEW g, NEW s, NEW md \in {"enter", "return"}, NEW e,
         gen' = g, stack' = s, mode' = md, node' = e,
         NEW c, NEW c1, NEW m \in Nat, Tidy(gen), Counts(gen, c), Uses(c, c1, m, gen, g),
         WellTyped(root, registry) /\ gen.error = "none" =>
           \A n \in Nat : Pending(registry, stack, mode, node, n) => m <= n,
         WellTyped(root, registry) /\ g.error = "none" =>
           \A n \in Nat : m <= n =>
             (Pending(registry, stack, mode, node, n) <=> Pending(registry, s, md, e, n))
  PROVE  NeedInv'
<1>1. Peaks(m, gen, g)
  BY DEF Uses
<1>2. PICK G : G = Goal
  OBVIOUS
<1>3. G \in Nat /\ root \in Expr /\ registry \in Registries
  BY <1>2, GoalFits, RootsAssumption DEF Inv
<1>4. PICK R : \A n \in Nat : R[n] <=> RootFits(n)
  <2>1. PICK R : R = [n \in Nat |-> RootFits(n)]
    OBVIOUS
  <2>2. QED
    BY <2>1
<1>5. status = "none"
  BY DEF Inv
<1>6. WellTyped(root, registry)' <=> WellTyped(root, registry)
  BY DEF WellTyped
<1>7. Goal' = G
  BY <1>2 DEF Goal
<1>8. \A n \in Nat : RootFits(n)' <=> R[n]
  BY <1>4 DEF RootFits, TypeOf
<1>9. ASSUME WellTyped(root, registry), g.error = "none", NEW n \in Nat
      PROVE  G <= n <=> g.next_reg <= n /\ Pending(registry, s, md, e, n) /\ R[n]
  <2>1. gen.error = "none" /\ (g.next_reg <= n <=> gen.next_reg <= n /\ m <= n)
    BY <1>1, <1>9 DEF Peaks
  <2>2. G <= n <=> gen.next_reg <= n /\ Pending(registry, stack, mode, node, n) /\ R[n]
    BY <1>2, <1>4, <1>9, <2>1 DEF NeedInv
  <2>3. Pending(registry, stack, mode, node, n) => m <= n
    BY <1>9, <2>1
  <2>4. m <= n => (Pending(registry, stack, mode, node, n) <=> Pending(registry, s, md, e, n))
    BY <1>9
  <2>5. QED
    BY <2>1, <2>2, <2>3, <2>4
<1>10. ASSUME WellTyped(root, registry), LimitMet(g)
       PROVE  G > MaxRegisterCount
  <2>1. CASE LimitMet(gen)
    BY <1>2, <1>10, <2>1 DEF NeedInv
  <2>2. CASE gen.error = "none" /\ m > MaxRegisterCount
    <3>1. G <= G <=> gen.next_reg <= G /\ Pending(registry, stack, mode, node, G) /\ R[G]
      BY <1>2, <1>3, <1>4, <1>10, <2>2 DEF NeedInv
    <3>2. Pending(registry, stack, mode, node, G)
      BY <1>3, <3>1
    <3>3. m <= G
      BY <1>3, <1>10, <2>2, <3>2
    <3>4. QED
      BY <1>3, <2>2, <3>3, BytecodeAssumption
  <2>3. QED
    BY <1>1, <1>10, <2>1, <2>2 DEF Peaks
<1>11. (\A n \in Nat : Goal <= n <=> /\ gen.next_reg <= n
                                     /\ Pending(registry, stack, mode, node, n)
                                     /\ RootFits(n))' <=>
       \A n \in Nat : G <= n <=> g.next_reg <= n /\ Pending(registry, s, md, e, n) /\ R[n]
  <2>1. ASSUME NEW n PROVE Pending(registry, stack, mode, node, n)' <=> Pending(registry, s, md, e, n)
    BY DEF Pending, FramesFit, After, Below, Held, Rhs, KeptOf, Sides
  <2>2. QED
    BY <1>7, <1>8, <2>1
<1>12. LimitMet(gen)' <=> LimitMet(g)
  BY Zenon DEF LimitMet
<1>13. status' # "OK"
  BY <1>5
<1>14. QED
  BY <1>6, <1>7, <1>9, <1>10, <1>11, <1>12, <1>13 DEF NeedInv

\* A leaf, or a comparison of addresses: c are kept, and m are needed.
LEMMA AtOnceFits ==
  ASSUME Inv, NeedInv, mode = "enter", NEW g, NEW v, Answer(g, v, stack),
         NEW c \in Nat, Counts(gen, c), gen.error = "none" => Cardinality(Held(stack)) = c,
         NEW c1, NEW m \in Nat, Uses(c, c1, m, gen, g),
         WellTyped(root, registry) /\ gen.error = "none" =>
           m <= c + NeedOf(registry)[node] /\ (g.error = "none" => m = c + NeedOf(registry)[node])
  PROVE  NeedInv'
<1>1. /\ root' = root /\ registry' = registry /\ status' = status /\ gen' = g /\ stack' = stack
      /\ mode' = "return" /\ node' = node /\ mode # "done"
  BY DEF Answer
<1>2. PICK need \in Nat : need = NeedOf(registry)[node]
  BY NeedsHold DEF Inv
<1>3. Tidy(gen)
  BY EnterCount
<1>4. g.error = "none" => gen.error = "none"
  BY <1>3 DEF Uses, Peaks
<1>5. ASSUME gen.error = "none", NEW n \in Nat
      PROVE  Pending(registry, stack, mode, node, n) <=> FramesFit(registry, stack, n) /\ c + need <= n
  BY <1>2, <1>5 DEF Pending
<1>6. ASSUME NEW n \in Nat
      PROVE  Pending(registry, stack, "return", node, n) <=> FramesFit(registry, stack, n)
  BY DEF Pending
<1>7. WellTyped(root, registry) /\ gen.error = "none" =>
        \A n \in Nat : Pending(registry, stack, mode, node, n) => m <= n
  BY <1>2, <1>5
<1>8. WellTyped(root, registry) /\ g.error = "none" =>
        \A n \in Nat : m <= n =>
          (Pending(registry, stack, mode, node, n) <=> Pending(registry, stack, "return", node, n))
  BY <1>2, <1>4, <1>5, <1>6
<1>9. PICK md \in {"enter", "return"} : md = "return"
  OBVIOUS
<1>10. QED
  BY <1>1, <1>3, <1>7, <1>8, <1>9, StepFits

LEMMA LeafNeeds ==
  ASSUME NEW r, NEW e \in Expr, e.kind \in Leaves
  PROVE  NeedOf(r)[e] = 1
<1>1. PICK T, N : T = TypeIn(r) /\ N = NeedOf(r)
  OBVIOUS
<1>2. N[e] = NeedFrom(T, N, e)
  BY <1>1, NeedsHold
<1>3. NeedFrom(T, N, e) = 1
  BY OperatorNeeds
<1>4. QED
  BY <1>1, <1>2, <1>3

LEMMA EmitIdentifierFits == Inv /\ NeedInv /\ EmitIdentifier => NeedInv'
<1>1. SUFFICES ASSUME Inv, NeedInv, EmitIdentifier PROVE NeedInv'
  OBVIOUS
<1>2. PICK r : r = emit_identifier(gen, registry, node.ident)
  OBVIOUS
<1>3. mode = "enter" /\ node.kind = "Identifier" /\ Answer(r.gen, r.value, stack)
  BY <1>1, <1>2 DEF EmitIdentifier, Entering, Emitted
<1>4. PICK c \in Nat : Counts(gen, c) /\ (gen.error = "none" => Cardinality(Held(stack)) = c)
  BY <1>1, <1>3, EnterCount
<1>5. Uses(c, c + 1, c + 1, gen, r.gen)
  BY <1>2, IdentifierUses
<1>6. NeedOf(registry)[node] = 1
  <2>1. node \in Expr /\ node.kind \in Leaves
    BY <1>1, <1>3 DEF Inv, Leaves
  <2>2. QED
    BY <2>1, LeafNeeds
<1>7. PICK m \in Nat : m = c + 1
  OBVIOUS
<1>8. QED
  BY <1>1, <1>3, <1>4, <1>5, <1>6, <1>7, AtOnceFits

LEMMA ImmediateFits ==
  ASSUME Inv, NeedInv, mode = "enter", node.kind \in Leaves, NEW w, NEW t,
         Emitted(emit_immediate(gen, w, t))
  PROVE  NeedInv'
<1>1. PICK r : r = emit_immediate(gen, w, t)
  OBVIOUS
<1>2. Answer(r.gen, r.value, stack)
  BY <1>1 DEF Emitted
<1>3. PICK c \in Nat : Counts(gen, c) /\ (gen.error = "none" => Cardinality(Held(stack)) = c)
  BY EnterCount
<1>4. Uses(c, c + 1, c + 1, gen, r.gen)
  BY <1>1, ImmediateUses
<1>5. NeedOf(registry)[node] = 1
  <2>1. node \in Expr
    BY DEF Inv
  <2>2. QED
    BY <2>1, LeafNeeds
<1>6. PICK m \in Nat : m = c + 1
  OBVIOUS
<1>7. QED
  BY <1>2, <1>3, <1>4, <1>5, <1>6, AtOnceFits

\* A step of a failure that no expression without an error meets.
LEMMA RefusedFits ==
  ASSUME Inv, NeedInv, mode = "enter", NEW e \in OtherError, NEW v, Answer(fail(gen, e), v, stack)
  PROVE  NeedInv'
<1>1. PICK c \in Nat : Counts(gen, c) /\ (gen.error = "none" => Cardinality(Held(stack)) = c)
  BY EnterCount
<1>2. PICK g : g = fail(gen, e)
  OBVIOUS
<1>3. PICK m \in Nat : m = 0
  OBVIOUS
<1>4. Uses(c, c, m, gen, g) /\ g.error # "none"
  BY <1>2, FailUses, EnterCount
<1>5. NeedOf(registry)[node] \in Nat
  BY NeedsHold DEF Inv
<1>6. m <= c + NeedOf(registry)[node]
  BY <1>3, <1>5
<1>7. Answer(g, v, stack)
  BY <1>2
<1>8. QED
  BY <1>1, <1>4, <1>6, <1>7, AtOnceFits

LEMMA EmitLiteralFits == Inv /\ NeedInv /\ EmitLiteral => NeedInv'
<1>1. SUFFICES ASSUME Inv, NeedInv, EmitLiteral PROVE NeedInv'
  OBVIOUS
<1>2. /\ mode = "enter" /\ node.kind \in {"Integer", "Boolean"}
      /\ \/ Emitted(emit_immediate(gen, node.value, "Int"))
         \/ Emitted(emit_immediate(gen, BoolWord(node.value), "Bool"))
  BY <1>1 DEF EmitLiteral, Entering
<1>3. node.kind \in Leaves
  BY <1>2 DEF Leaves
<1>4. QED
  BY <1>1, <1>2, <1>3, ImmediateFits

LEMMA EmitIpv4Fits == Inv /\ NeedInv /\ EmitIpv4 => NeedInv'
<1>1. SUFFICES ASSUME Inv, NeedInv, EmitIpv4 PROVE NeedInv'
  OBVIOUS
<1>2. mode = "enter" /\ node.kind \in Leaves
  <2>1. Entering({"Ipv4"})
    BY <1>1, Zenon DEF EmitIpv4
  <2>2. QED
    BY <2>1 DEF Entering, Leaves
<1>3. CASE node.value = Malformed
  <2>1. PICK e \in OtherError : e = "bad literal"
    BY Zenon DEF OtherError, Error, UserError
  <2>2. Answer(fail(gen, "bad literal"), Value(0, "Ipv4"), stack)
    BY <1>1, <1>3, Zenon DEF EmitIpv4
  <2>3. Answer(fail(gen, e), Value(0, "Ipv4"), stack)
    BY <2>1, <2>2, Zenon
  <2>4. QED
    BY <1>1, <1>2, <2>3, RefusedFits
<1>4. CASE node.value # Malformed
  <2>1. Emitted(emit_immediate(gen, node.value, "Ipv4"))
    BY <1>1, <1>4, Zenon DEF EmitIpv4
  <2>2. QED
    BY <1>1, <1>2, <2>1, ImmediateFits
<1>5. QED
  BY <1>3, <1>4

LEMMA MisplacedIpv6Fits == Inv /\ NeedInv /\ MisplacedIpv6 => NeedInv'
<1>1. SUFFICES ASSUME Inv, NeedInv, MisplacedIpv6 PROVE NeedInv'
  OBVIOUS
<1>2. mode = "enter"
  BY <1>1, Zenon DEF MisplacedIpv6, Entering
<1>3. PICK e \in OtherError : e = "type mismatch"
  BY Zenon DEF OtherError, Error, UserError
<1>4. Answer(fail(gen, "type mismatch"), Value(0, "Ipv6"), stack)
  BY <1>1, Zenon DEF MisplacedIpv6
<1>5. Answer(fail(gen, e), Value(0, "Ipv6"), stack)
  BY <1>3, <1>4, Zenon
<1>6. QED
  BY <1>1, <1>2, <1>5, RefusedFits

\* The first operand of an emitter.
LEMMA FirstOperandFits ==
  ASSUME Inv, NeedInv, mode = "enter", NEW f \in FrameType, f.expr = node,
         f.at \in {"operand", "lhs"}, f.at = "operand" <=> node.kind = "Not",
         node.kind \in Binary \cup {"Not"},
         WellTyped(root, registry) /\ node.kind \in Comparing \cup Bitwise =>
           TypeOf(node.left) # "Ipv6",
         Call(node.left, Append(stack, f), gen)
  PROVE  NeedInv'
<1>1. PICK s : s = Append(stack, f)
  OBVIOUS
<1>2. /\ root' = root /\ registry' = registry /\ status' = status /\ gen' = gen /\ stack' = s
      /\ mode' = "enter" /\ node' = node.left /\ mode # "done"
  BY <1>1 DEF Call
<1>3. stack \in Seq(FrameType)
  BY DEF Inv, StackOk
<1>4. /\ s \in Seq(FrameType) /\ Len(s) = Len(stack) + 1 /\ Len(stack) \in Nat
      /\ s[Len(stack) + 1] = f /\ \A i \in 1 .. Len(stack) : s[i] = stack[i]
  BY <1>1, <1>3, PushFacts
<1>5. Held(s) = Held(stack)
  <2>1. Held(s) = Held(stack) \cup (IF f.at = "rhs" THEN {KeptOf(f)} ELSE {})
    BY <1>3, <1>4, LastFrame
  <2>2. QED
    BY <2>1
<1>6. PICK c \in Nat : Counts(gen, c) /\ (gen.error = "none" => Cardinality(Held(stack)) = c)
  BY EnterCount
<1>7. Tidy(gen)
  BY EnterCount
<1>8. node \in Expr /\ registry \in Registries
  BY DEF Inv
<1>9. ASSUME WellTyped(root, registry), gen.error = "none", NEW n \in Nat
      PROVE  Pending(registry, stack, mode, node, n) <=> Pending(registry, s, "enter", node.left, n)
  <2>1. c + NeedOf(registry)[f.expr] <= n <=>
          After(registry, f, c, n) /\ c + NeedOf(registry)[f.expr.left] <= n
    BY <1>8, <1>9, OperatorFits DEF TypeOf
  <2>2. FramesFit(registry, s, n) <=>
          FramesFit(registry, stack, n) /\ After(registry, f, Cardinality(Held(stack)), n)
    BY <1>4, LastFits
  <2>3. QED
    BY <1>5, <1>6, <1>9, <2>1, <2>2 DEF Pending
<1>10. PICK m \in Nat, md \in {"enter", "return"} : m = 0 /\ md = "enter"
  OBVIOUS
<1>11. Uses(c, c, m, gen, gen)
  BY <1>10, NothingUses
<1>12. \A n \in Nat : m <= n
  BY <1>10
<1>13. PICK e : e = node.left
  OBVIOUS
<1>14. WellTyped(root, registry) /\ gen.error = "none" =>
         \A n \in Nat : m <= n =>
           (Pending(registry, stack, mode, node, n) <=> Pending(registry, s, md, e, n))
  BY <1>9, <1>10, <1>13
<1>15. gen' = gen /\ stack' = s /\ mode' = md /\ node' = e
  BY <1>2, <1>10, <1>13
<1>16. QED
  BY <1>2, <1>6, <1>7, <1>11, <1>12, <1>14, <1>15, StepFits

LEMMA EnterOperatorFits == Inv /\ NeedInv /\ EnterOperator => NeedInv'
<1> SUFFICES ASSUME Inv, NeedInv, EnterOperator PROVE NeedInv'
  OBVIOUS
<1>1. PICK at \in {"operand", "lhs"} :
        /\ mode = "enter"
        /\ node.kind \in Logical \cup Bitwise \cup {"Not"}
        /\ at = "operand" <=> node.kind = "Not"
        /\ Call(node.left, Append(stack, Frame(node, at, NoValue, 0, -1)), gen)
  <2>1. CASE Entering({"Not"})
    BY <2>1, KindsDisjoint DEF EnterOperator, Entering
  <2>2. CASE Entering(Logical \cup Bitwise)
    BY <2>2, KindsDisjoint DEF EnterOperator, Entering
  <2>3. QED
    BY <2>1, <2>2 DEF EnterOperator
<1>2. PICK f \in FrameType : f = Frame(node, at, NoValue, 0, -1) /\ f.expr = node /\ f.at = at
  BY <1>1, EnterFacts, NothingKept, FrameFields
<1>3. Call(node.left, Append(stack, f), gen)
  BY <1>1, <1>2
<1>4. node.kind \in Binary \cup {"Not"} /\ node.kind \notin Comparing
  BY <1>1, KindsDisjoint DEF Binary
<1>5. WellTyped(root, registry) => TypeOf(node.left) # "Ipv6"
  <2>1. Dooms(node.left)
    BY <1>1, EnterFacts, DoomSpreads
  <2>2. QED
    BY <2>1 DEF Dooms
<1>6. QED
  BY <1>1, <1>2, <1>3, <1>4, <1>5, FirstOperandFits

\* emit_compare fails, or compares two addresses at once, or goes on with its
\* left operand.
LEMMA EnterCompareCases ==
  ASSUME Inv, EnterCompare
  PROVE  /\ mode = "enter" /\ node.kind \in Comparing
         /\ \/ gen.error # "none" /\ Answer(gen, NoValue, stack)
            \/ \E e \in UserError : Answer(fail(gen, e), NoValue, stack)
            \/ /\ resolve_expr_type(node.left) = "Ipv6"
               /\ \E r : /\ r = emit_ipv6_compare(gen, registry, CompareOp[node.kind], node.left, node.right)
                         /\ Answer(r.gen, r.value, stack)
            \/ /\ Comparable(node)
               /\ Call(node.left, Append(stack, Frame(node, "lhs", NoValue, 0, -1)), gen)
<1> DEFINE op    == CompareOp[node.kind]
           types == {resolve_expr_type(node.left), resolve_expr_type(node.right)}
           ip    == types \cap {"Ipv4", "Ipv6"} # {}
           lost  == Unresolved(node.left) \/ Unresolved(node.right)
           mixed == ip /\ (types \notin {{"Ipv4"}, {"Ipv6"}} \/ op \notin {"CmpEq", "CmpNe"})
           bad   == CASE lost -> "not found"
                      [] OTHER -> IF mixed THEN "type mismatch" ELSE "none"
           g     == fail(gen, bad)
           f     == Frame(node, "lhs", NoValue, 0, -1)
           r     == emit_ipv6_compare(g, registry, op, node.left, node.right)
<1>1. mode = "enter" /\ node \in Expr /\ registry \in Registries /\ node.kind \in Comparing
  <2>1. Entering(Comparing)
    BY Zenon DEF EnterCompare
  <2>2. QED
    BY <2>1, EnterFacts DEF Entering
<1>2. node.left \in Expr /\ node.right \in Expr
  BY <1>1, ExprAssumption DEF Binary
<1>3. (CASE ~ok(g) -> Answer(g, NoValue, stack)
         [] ok(g) /\ types = {"Ipv6"} -> Answer(r.gen, r.value, stack)
         [] OTHER -> Call(node.left, Append(stack, f), g))
  BY Zenon DEF EnterCompare, Emitted
<1>4. op \in {"CmpEq", "CmpNe"} <=> node.kind \in {"Eq", "Ne"}
  BY <1>1, CompareOps
<1>5. types \subseteq ValueType
  BY <1>1, <1>2, ResolvedType
<1>6. /\ lost => bad = "not found"
      /\ ~lost => bad = IF mixed THEN "type mismatch" ELSE "none"
  <2> HIDE DEF lost, mixed
  <2>1. QED
    BY Zenon
<1>7. /\ bad # "none" => bad \in UserError
      /\ bad = "none" => ~lost /\ ~mixed
  <2>1. /\ "not found" \in UserError /\ "type mismatch" \in UserError
        /\ "not found" # "none" /\ "type mismatch" # "none"
    BY Zenon DEF UserError
  <2> HIDE DEF lost, mixed, bad
  <2>2. QED
    BY <1>6, <2>1, Zenon
<1>8. gen \in GenState
  BY <1>1, EnterFacts DEF Sound
<1>9. /\ gen.error # "none" => g = gen
      /\ gen.error = "none" /\ bad = "none" => g = gen
      /\ gen.error = "none" => g.error = bad
  <2> HIDE DEF bad
  <2>1. QED
    BY <1>8 DEF fail, ok, GenState
<1> HIDE DEF bad
<1>10. CASE ~ok(g)
  <2>1. Answer(g, NoValue, stack) /\ g.error # "none"
    BY <1>3, <1>10, Zenon DEF ok
  <2>2. (gen.error # "none" /\ g = gen) \/ bad \in UserError
    BY <1>7, <1>9, <2>1
  <2> HIDE DEF g
  <2>3. CASE gen.error # "none" /\ g = gen
    BY <1>1, <2>1, <2>3
  <2>4. CASE bad \in UserError
    BY <1>1, <2>1, <2>4 DEF g
  <2>5. QED
    BY <2>2, <2>3, <2>4
<1>11. CASE ok(g)
  <2>1. g.error = "none"
    BY <1>11 DEF ok
  <2>2. gen.error = "none" /\ g = gen /\ ~lost /\ ~mixed
    BY <1>7, <1>9, <2>1
  <2>3. CASE types = {"Ipv6"}
    <3>1. Answer(r.gen, r.value, stack)
      BY <1>3, <1>11, <2>3, Zenon
    <3>2. resolve_expr_type(node.left) = "Ipv6"
      BY <2>3
    <3> HIDE DEF g
    <3>3. r = emit_ipv6_compare(gen, registry, CompareOp[node.kind], node.left, node.right)
      BY <2>2
    <3> HIDE DEF r
    <3>4. QED
      BY <1>1, <3>1, <3>2, <3>3
  <2>4. CASE types # {"Ipv6"}
    <3>1. Call(node.left, Append(stack, f), gen)
      BY <1>3, <1>11, <2>2, <2>4, Zenon
    <3>2. types \subseteq {"Bool", "Int"} \/ (types = {"Ipv4"} /\ node.kind \in {"Eq", "Ne"})
      BY <1>4, <1>5, <2>2, <2>4 DEF ValueType
    <3>3. Comparable(node)
      BY <2>2, <3>2 DEF Comparable
    <3>4. QED
      BY <1>1, <3>1, <3>3
  <2>5. QED
    BY <2>3, <2>4
<1>12. QED
  BY <1>10, <1>11

LEMMA EnterCompareFits == Inv /\ NeedInv /\ EnterCompare => NeedInv'
<1> SUFFICES ASSUME Inv, NeedInv, EnterCompare PROVE NeedInv'
  OBVIOUS
<1>1. mode = "enter" /\ node.kind \in Comparing /\ node \in Expr /\ registry \in Registries
  BY EnterCompareCases, EnterFacts
<1>2. node.kind \in Binary \cup {"Not"} /\ node.kind \in Binary /\ node.kind # "Not"
  BY <1>1, KindsDisjoint DEF Binary
<1>3. node.left \in Expr /\ node.right \in Expr /\ Dooms(node)
  BY <1>1, <1>2, ExprAssumption, EnterFacts
<1>4. PICK c \in Nat : Counts(gen, c) /\ (gen.error = "none" => Cardinality(Held(stack)) = c)
  BY <1>1, EnterCount
<1>5. CASE gen.error # "none" /\ Answer(gen, NoValue, stack)
  <2>1. PICK m \in Nat : m = 0
    OBVIOUS
  <2>2. Uses(c, c, m, gen, gen)
    BY <2>1, NothingUses
  <2>3. QED
    BY <1>1, <1>4, <1>5, <2>2, AtOnceFits
<1>6. CASE \E e \in UserError : Answer(fail(gen, e), NoValue, stack)
  <2>1. UserError \subseteq OtherError
    BY Zenon DEF OtherError, Error, UserError
  <2>2. QED
    BY <1>1, <1>6, <2>1, RefusedFits
<1>7. CASE /\ resolve_expr_type(node.left) = "Ipv6"
           /\ \E r : /\ r = emit_ipv6_compare(gen, registry, CompareOp[node.kind], node.left, node.right)
                     /\ Answer(r.gen, r.value, stack)
  <2>1. PICK r : /\ r = emit_ipv6_compare(gen, registry, CompareOp[node.kind], node.left, node.right)
                 /\ Answer(r.gen, r.value, stack)
    BY <1>7
  <2>2. PICK m \in Nat : m = c + 5
    OBVIOUS
  <2>3. Uses(c, c + 1, m, gen, r.gen)
    BY <2>1, <2>2, AddressCompareUses
  <2>4. ASSUME WellTyped(root, registry)
        PROVE  NeedOf(registry)[node] = 5
    <3>1. PICK T, N : T = TypeIn(registry) /\ N = NeedOf(registry)
      OBVIOUS
    <3>2. TypeOf(node.left) # "Error"
      BY <1>1, <1>2, <1>3, <2>4, DoomSpreads
    <3>3. T[node.left] = "Ipv6"
      BY <1>1, <1>3, <1>7, <3>1, <3>2, ResolvedType DEF TypeOf
    <3>4. N[node] = NeedFrom(T, N, node)
      BY <1>1, <3>1, NeedsHold
    <3>5. NeedFrom(T, N, node) = 5
      BY <1>1, <3>3, OperatorNeeds
    <3>6. QED
      BY <3>1, <3>4, <3>5
  <2>5. QED
    BY <1>1, <1>4, <2>1, <2>2, <2>3, <2>4, AtOnceFits
<1>8. CASE /\ Comparable(node)
           /\ Call(node.left, Append(stack, Frame(node, "lhs", NoValue, 0, -1)), gen)
  <2>1. PICK at \in {"operand", "lhs", "rhs"} : at = "lhs"
    OBVIOUS
  <2>2. PICK f \in FrameType : f = Frame(node, at, NoValue, 0, -1) /\ f.expr = node /\ f.at = at
    BY <1>1, <2>1, NothingKept, FrameFields
  <2>3. Call(node.left, Append(stack, f), gen)
    BY <1>8, <2>1, <2>2
  <2>4. WellTyped(root, registry) => TypeOf(node.left) # "Ipv6"
    <3>1. Dooms(node.left)
      BY <1>1, <1>3, <1>8, DoomSpreads
    <3>2. QED
      BY <3>1 DEF Dooms
  <2>5. f.at \in {"operand", "lhs"} /\ (f.at = "operand" <=> node.kind = "Not")
    BY <1>2, <2>1, <2>2
  <2>6. QED
    BY <1>1, <1>2, <2>2, <2>3, <2>4, <2>5, FirstOperandFits
<1>9. QED
  BY <1>5, <1>6, <1>7, <1>8, EnterCompareCases

-----------------------------------------------------------------------------
(* An operand comes back. *)

\* What still has to fit when the operand of Top is returned.
LEMMA ReturnPending ==
  ASSUME Inv, mode = "return", stack # <<>>, NEW n
  PROVE  Pending(registry, stack, mode, node, n) <=>
           FramesFit(registry, Rest, n) /\ After(registry, Top, Cardinality(Held(Rest)), n)
<1>1. PICK f, r, s : f = Top /\ r = Rest /\ s = stack
  OBVIOUS
<1>2. s \in Seq(FrameType) /\ s # <<>> /\ f = s[Len(s)] /\ r = SubSeq(s, 1, Len(s) - 1)
  BY <1>1 DEF Inv, StackOk, Top, Rest
<1>3. /\ Len(r) = Len(s) - 1 /\ Len(s) \in Nat \ {0} /\ \A i \in 1 .. Len(s) - 1 : r[i] = s[i]
  BY <1>2, PopFacts
<1>4. Len(r) \in Nat /\ Len(s) = Len(r) + 1 /\ s[Len(r) + 1] = f /\ \A i \in 1 .. Len(r) : s[i] = r[i]
  BY <1>2, <1>3
<1>5. FramesFit(registry, s, n) <=>
        FramesFit(registry, r, n) /\ After(registry, f, Cardinality(Held(r)), n)
  BY <1>4, LastFits
<1>6. QED
  BY <1>1, <1>5 DEF Pending

\* The emitter of Top answers: what it still needed is what it has used.
LEMMA OperatorAnswersFits ==
  ASSUME Inv, NeedInv, mode = "return", stack # <<>>, NEW g, NEW v, Answer(g, v, Rest),
         NEW c, gen.error = "none" => Cardinality(Held(Rest)) = c,
         NEW k, NEW k1, NEW m \in Nat, Tidy(gen), Counts(gen, k), Uses(k, k1, m, gen, g),
         WellTyped(root, registry) /\ gen.error = "none" =>
           \A n \in Nat : After(registry, Top, c, n) => m <= n,
         WellTyped(root, registry) /\ g.error = "none" =>
           \A n \in Nat : m <= n => After(registry, Top, c, n)
  PROVE  NeedInv'
<1>1. PICK s : s = Rest
  OBVIOUS
<1>2. /\ root' = root /\ registry' = registry /\ status' = status /\ gen' = g /\ stack' = s
      /\ mode' = "return" /\ node' = node /\ mode # "done"
  BY <1>1 DEF Answer
<1>3. g.error = "none" => gen.error = "none"
  BY DEF Uses, Peaks
<1>4. ASSUME gen.error = "none", NEW n \in Nat
      PROVE  Pending(registry, stack, mode, node, n) <=>
               FramesFit(registry, s, n) /\ After(registry, Top, c, n)
  BY <1>1, <1>4, ReturnPending
<1>5. PICK md \in {"enter", "return"} : md = "return"
  OBVIOUS
<1>6. ASSUME NEW n \in Nat
      PROVE  Pending(registry, s, md, node, n) <=> FramesFit(registry, s, n)
  BY <1>5 DEF Pending
<1>7. WellTyped(root, registry) /\ gen.error = "none" =>
        \A n \in Nat : Pending(registry, stack, mode, node, n) => m <= n
  BY <1>4
<1>8. WellTyped(root, registry) /\ g.error = "none" =>
        \A n \in Nat : m <= n =>
          (Pending(registry, stack, mode, node, n) <=> Pending(registry, s, md, node, n))
  BY <1>3, <1>4, <1>6
<1>9. gen' = g /\ stack' = s /\ mode' = md /\ node' = node
  BY <1>2, <1>5
<1>10. QED
  BY <1>2, <1>7, <1>8, <1>9, StepFits

\* What an emitter still needs, by its operator.
LEMMA AfterOperand ==
  ASSUME NEW r, NEW f, NEW c, NEW n
  PROVE  /\ f.expr.kind = "Not" /\ f.at = "operand" =>
              (After(r, f, c, n) <=> c + 2 <= n /\ (TypeIn(r)[f.expr.left] = "Int" => c + 3 <= n))
         /\ f.expr.kind \in Logical /\ f.at = "lhs" =>
              (After(r, f, c, n) <=> /\ c + 2 <= n /\ (TypeIn(r)[f.expr.left] = "Int" => c + 3 <= n)
                                     /\ (TypeIn(r)[f.expr.right] = "Int" => c + 4 <= n)
                                     /\ c + 1 + NeedOf(r)[f.expr.right] <= n)
         /\ f.expr.kind \in Logical /\ f.at = "rhs" =>
              (After(r, f, c, n) <=> (TypeIn(r)[f.expr.right] = "Int" => c + 4 <= n))
         /\ f.expr.kind \in Comparing \cup Bitwise /\ f.at = "rhs" =>
              (After(r, f, c, n) <=> c + Sides(TypeIn(r), f.expr) <= n)
<1>1. /\ f.expr.kind = "Not" => f.expr.kind \notin Logical /\ f.expr.kind \notin Comparing \cup Bitwise
      /\ f.expr.kind \in Logical => f.expr.kind # "Not" /\ f.expr.kind \notin Comparing \cup Bitwise
      /\ f.expr.kind \in Comparing \cup Bitwise => f.expr.kind # "Not" /\ f.expr.kind \notin Logical
  BY KindsDisjoint
<1>2. QED
  BY <1>1 DEF After

LEMMA NotOperandFits == Inv /\ NeedInv /\ NotOperand => NeedInv'
<1> SUFFICES ASSUME Inv, NeedInv, NotOperand PROVE NeedInv'
  OBVIOUS
<1> DEFINE operand == ensure_bool(gen, value)
           result == EmitNegation(operand.gen, operand.value.reg)
<1>1. /\ mode = "return" /\ stack # <<>> /\ Top.expr.kind = "Not" /\ Top.at = "operand" /\ Top.at # "rhs"
      /\ IF ok(operand.gen) THEN Answer(result.gen, result.value, Rest)
                            ELSE Answer(operand.gen, NoValue, Rest)
  BY DEF NotOperand, Returning
<1>2. /\ Sound(gen, Held(Rest) \cup {value.reg}, OpenOf(Rest))
      /\ gen.error = "none" => value.reg \notin Held(Rest) /\ value.type = TypeOf(Top.expr.left)
  BY <1>1, LhsOwned
<1>3. PICK c \in Nat, c1 \in Nat :
        /\ Counts(gen, c1) /\ c1 = c + 1
        /\ gen.error = "none" => Cardinality(Held(Rest)) = c
  <2>1. PICK c \in Nat : Counts(gen, c + 1) /\ (gen.error = "none" => Cardinality(Held(Rest)) = c)
    BY <1>2, HeldCount
  <2>2. c + 1 \in Nat
    OBVIOUS
  <2>3. QED
    BY <2>1, <2>2
<1>4. Tidy(gen) /\ value.type \in ValueType
  BY <1>1, <1>2, SoundTidy, ReturnFacts
<1>5. PICK a \in Nat : a = (IF value.type = "Int" THEN c + 3 ELSE 0) /\ Uses(c1, c1, a, gen, operand.gen)
  <2>1. c1 + 2 = c + 3 /\ c + 3 \in Nat
    BY <1>3
  <2>2. /\ value.type = "Int" => Uses(c1, c1, c1 + 2, gen, operand.gen)
        /\ value.type # "Int" => Uses(c1, c1, 0, gen, operand.gen)
    BY <1>4, EnsureBoolUses
  <2> HIDE DEF operand
  <2>3. QED
    BY <2>1, <2>2
<1>6. PICK b \in Nat : b = c + 2 /\ Uses(c1, c1, b, operand.gen, result.gen)
  <2>1. c1 + 1 = c + 2 /\ c + 2 \in Nat
    BY <1>3
  <2>2. Uses(c1, c1, c1 + 1, operand.gen, result.gen)
    BY NegationUses
  <2> HIDE DEF operand, result
  <2>3. QED
    BY <2>1, <2>2
<1> HIDE DEF operand, result
<1>7. PICK m \in Nat : /\ m = (IF value.type = "Int" THEN c + 3 ELSE c + 2)
                       /\ m \in {a, b} /\ a <= m /\ b <= m
  BY <1>5, <1>6
<1>8. Uses(c1, c1, m, gen, result.gen)
  BY <1>5, <1>6, <1>7, UsesChain
<1>9. PICK g, v : Answer(g, v, Rest) /\ Uses(c1, c1, m, gen, g)
  <2>1. CASE ok(operand.gen)
    BY <1>1, <1>8, <2>1
  <2>2. CASE ~ok(operand.gen)
    <3>1. operand.gen.error # "none" /\ Answer(operand.gen, NoValue, Rest)
      BY <1>1, <2>2 DEF ok
    <3>2. Uses(c1, c1, m, gen, operand.gen)
      BY <1>5, <1>7, <3>1, UsesFailed
    <3>3. QED
      BY <3>1, <3>2
  <2>3. QED
    BY <2>1, <2>2
<1>10. ASSUME gen.error = "none", NEW n \in Nat
       PROVE  After(registry, Top, c, n) <=> m <= n
  <2>1. After(registry, Top, c, n) <=> c + 2 <= n /\ (TypeIn(registry)[Top.expr.left] = "Int" => c + 3 <= n)
    BY <1>1, AfterOperand
  <2>2. value.type = TypeIn(registry)[Top.expr.left]
    BY <1>2, <1>10 DEF TypeOf
  <2>3. QED
    BY <1>7, <2>1, <2>2
<1>11. g.error = "none" => gen.error = "none"
  BY <1>3, <1>4, <1>9 DEF Uses, Peaks
<1>12. QED
  BY <1>1, <1>3, <1>4, <1>9, <1>10, <1>11, OperatorAnswersFits

\* The emitter of Top calls emit_expr with its right operand, and keeps one
\* more register meanwhile.
LEMMA RightOperandFits ==
  ASSUME Inv, NeedInv, mode = "return", stack # <<>>, NEW g, NEW f \in FrameType,
         f.at = "rhs", Call(Top.expr.right, Append(Rest, f), g),
         NEW c \in Nat, gen.error = "none" => IsFiniteSet(Held(Rest)) /\ Cardinality(Held(Rest)) = c,
         g.error = "none" => KeptOf(f) \notin Held(Rest),
         NEW k, NEW k1, NEW m \in Nat, Tidy(gen), Counts(gen, k), Uses(k, k1, m, gen, g),
         WellTyped(root, registry) /\ gen.error = "none" =>
           \A n \in Nat : After(registry, Top, c, n) => m <= n,
         WellTyped(root, registry) /\ g.error = "none" =>
           \A n \in Nat : m <= n =>
             (After(registry, Top, c, n) <=>
                After(registry, f, c, n) /\ c + 1 + NeedOf(registry)[Top.expr.right] <= n)
  PROVE  NeedInv'
<1>1. PICK r, s, e : r = Rest /\ s = Append(r, f) /\ e = Top.expr.right
  OBVIOUS
<1>2. /\ root' = root /\ registry' = registry /\ status' = status /\ gen' = g /\ stack' = s
      /\ mode' = "enter" /\ node' = e /\ mode # "done"
  BY <1>1 DEF Call
<1>3. r \in Seq(FrameType)
  <2>1. Waiting(gen, r)
    BY <1>1, ReturnFacts
  <2>2. QED
    BY <2>1 DEF Waiting, StackOk
<1>4. /\ s \in Seq(FrameType) /\ Len(s) = Len(r) + 1 /\ Len(r) \in Nat
      /\ s[Len(r) + 1] = f /\ \A i \in 1 .. Len(r) : s[i] = r[i]
  BY <1>1, <1>3, PushFacts
<1>5. g.error = "none" => gen.error = "none"
  BY DEF Uses, Peaks
<1>6. g.error = "none" => Cardinality(Held(s)) = c + 1
  <2>1. SUFFICES ASSUME g.error = "none" PROVE Cardinality(Held(s)) = c + 1
    OBVIOUS
  <2>2. Held(s) = Held(r) \cup (IF f.at = "rhs" THEN {KeptOf(f)} ELSE {})
    BY <1>3, <1>4, LastFrame
  <2>3. PICK held, x : held = Held(r) /\ x = KeptOf(f)
    OBVIOUS
  <2>4. IsFiniteSet(held) /\ Cardinality(held) = c /\ x \notin held
    BY <1>1, <1>5, <2>1, <2>3
  <2>5. Cardinality(held \cup {x}) = IF x \in held THEN Cardinality(held) ELSE Cardinality(held) + 1
    BY <2>4, FS_AddElement
  <2>6. QED
    BY <2>2, <2>3, <2>4, <2>5
<1>7. ASSUME gen.error = "none", NEW n \in Nat
      PROVE  Pending(registry, stack, mode, node, n) <=>
               FramesFit(registry, r, n) /\ After(registry, Top, c, n)
  BY <1>1, <1>7, ReturnPending
<1>8. PICK md \in {"enter", "return"} : md = "enter"
  OBVIOUS
<1>9. ASSUME g.error = "none", NEW n \in Nat
      PROVE  Pending(registry, s, md, e, n) <=>
               /\ FramesFit(registry, r, n)
               /\ After(registry, f, c, n) /\ c + 1 + NeedOf(registry)[e] <= n
  <2>1. FramesFit(registry, s, n) <=>
          FramesFit(registry, r, n) /\ After(registry, f, Cardinality(Held(r)), n)
    BY <1>4, LastFits
  <2>2. Cardinality(Held(r)) = c
    BY <1>1, <1>5, <1>9
  <2>3. Pending(registry, s, md, e, n) <=>
          FramesFit(registry, s, n) /\ c + 1 + NeedOf(registry)[e] <= n
    BY <1>6, <1>8, <1>9 DEF Pending
  <2>4. QED
    BY <2>1, <2>2, <2>3
<1>10. WellTyped(root, registry) /\ gen.error = "none" =>
         \A n \in Nat : Pending(registry, stack, mode, node, n) => m <= n
  BY <1>7
<1>11. WellTyped(root, registry) /\ g.error = "none" =>
         \A n \in Nat : m <= n =>
           (Pending(registry, stack, mode, node, n) <=> Pending(registry, s, md, e, n))
  BY <1>1, <1>5, <1>7, <1>9
<1>12. gen' = g /\ stack' = s /\ mode' = md /\ node' = e
  BY <1>2, <1>8
<1>13. QED
  BY <1>2, <1>10, <1>11, <1>12, StepFits

LEMMA BinaryLhsFits == Inv /\ NeedInv /\ BinaryLhs => NeedInv'
<1> SUFFICES ASSUME Inv, NeedInv, BinaryLhs PROVE NeedInv'
  OBVIOUS
<1>1. PICK f : f = Frame(Top.expr, "rhs", value, 0, -1)
  OBVIOUS
<1>2. /\ mode = "return" /\ stack # <<>> /\ Top.expr.kind \in Comparing \cup Bitwise /\ Top.at = "lhs"
      /\ Top.at # "rhs" /\ Call(Top.expr.right, Append(Rest, f), gen)
  BY <1>1 DEF BinaryLhs, Returning
<1>3. f \in FrameType /\ f.expr = Top.expr /\ f.at = "rhs" /\ f.lhs = value
  <2>1. Top.expr \in Expr /\ value \in EmitValue /\ "rhs" \in {"operand", "lhs", "rhs"}
    BY <1>2, ReturnFacts
  <2>2. QED
    BY <1>1, <2>1, NothingKept, FrameFields
<1>4. KeptOf(f) = value.reg
  BY <1>2, <1>3, KindsDisjoint DEF KeptOf
<1>5. /\ Sound(gen, Held(Rest) \cup {value.reg}, OpenOf(Rest))
      /\ gen.error = "none" => value.reg \notin Held(Rest)
  BY <1>2, LhsOwned
<1>6. PICK c \in Nat : Counts(gen, c + 1) /\ (gen.error = "none" => Cardinality(Held(Rest)) = c)
  BY <1>5, HeldCount
<1>7. Tidy(gen) /\ (gen.error = "none" => IsFiniteSet(Held(Rest)))
  BY <1>5, HeldCount
<1>8. PICK k : k = c + 1
  OBVIOUS
<1>9. PICK m \in Nat : m = 0
  OBVIOUS
<1>10. Counts(gen, k) /\ Uses(k, k, m, gen, gen)
  BY <1>6, <1>8, <1>9, NothingUses
<1>11. ASSUME NEW n
       PROVE  After(registry, Top, c, n) <=>
                After(registry, f, c, n) /\ c + 1 + NeedOf(registry)[Top.expr.right] <= n
  <2>1. PICK t : t = Top
    OBVIOUS
  <2>2. f.expr = t.expr /\ t.at = "lhs" /\ t.expr.kind \in Comparing \cup Bitwise
    BY <1>2, <1>3, <2>1
  <2>3. After(registry, t, c, n) <=>
          After(registry, f, c, n) /\ c + 1 + NeedOf(registry)[t.expr.right] <= n
    BY <1>3, <2>2, RightFits
  <2>4. QED
    BY <2>1, <2>3
<1>12. \A n \in Nat : m <= n
  BY <1>9
<1>13. QED
  BY <1>2, <1>3, <1>4, <1>5, <1>6, <1>7, <1>10, <1>11, <1>12, RightOperandFits

\* The destination is taken before the tested operand is released.
LEMMA TestUses ==
  ASSUME NEW g, NEW l, NEW c \in Nat
  PROVE  Uses(c, c, c + 1, g, release_reg(emit(alloc_reg(g), "JumpIfFalse", l, 0, 0, -1), l))
<1>1. PICK g1 : g1 = alloc_reg(g)
  OBVIOUS
<1>2. PICK g2 : g2 = emit(g1, "JumpIfFalse", l, 0, 0, -1)
  OBVIOUS
<1>3. PICK g3 : g3 = release_reg(g2, l)
  OBVIOUS
<1>4. PICK c1 \in Nat : c1 = c + 1 /\ c1 - 1 = c
  OBVIOUS
<1>5. Uses(c, c1, c1, g, g1)
  BY <1>1, <1>4, AllocUses
<1>6. Uses(c1, c1, 0, g1, g2)
  BY <1>2, EmitUses
<1>7. Uses(c1, c, 0, g2, g3)
  <2>1. Uses(c1, c1 - 1, 0, g2, g3)
    BY <1>3, ReleaseUses
  <2>2. QED
    BY <1>4, <2>1
<1>8. Uses(c, c1, c1, g, g2)
  BY <1>5, <1>6, UsesChain
<1>9. Uses(c, c, c1, g, g3)
  BY <1>7, <1>8, UsesChain
<1>10. QED
  BY <1>1, <1>2, <1>3, <1>4, <1>9

\* Emitting jumps and patching them takes no register.
LEMMA JumpUses ==
  ASSUME NEW g, NEW ip, NEW c
  PROVE  Uses(c, c, 0, g, PatchToHere(emit(g, "Jump", 0, 0, 0, -1), ip))
<1>1. PICK g1 : g1 = emit(g, "Jump", 0, 0, 0, -1)
  OBVIOUS
<1>2. PICK g2 : g2 = PatchToHere(g1, ip)
  OBVIOUS
<1>3. Uses(c, c, 0, g, g1)
  BY <1>1, EmitUses
<1>4. Uses(c, c, 0, g1, g2)
  BY <1>2, PatchUses
<1>5. Uses(c, c, 0, g, g2)
  BY <1>3, <1>4, UsesChain
<1>6. QED
  BY <1>1, <1>2, <1>5

LEMMA LogicalLhsFits == Inv /\ NeedInv /\ LogicalLhs => NeedInv'
<1> SUFFICES ASSUME Inv, NeedInv, LogicalLhs PROVE NeedInv'
  OBVIOUS
<1> DEFINE lhs    == ensure_bool(gen, value)
           dst    == NextReg(lhs.gen)
           g1     == alloc_reg(lhs.gen)
           test   == EmitIp(g1)
           tested == release_reg(emit(g1, "JumpIfFalse", lhs.value.reg, 0, 0, -1), lhs.value.reg)
           g2     == emit_load_imm(tested, dst, BoolWord(TRUE))
           out    == EmitIp(g2)
           either == PatchToHere(emit(g2, "Jump", 0, 0, 0, -1), test)
           held   == Held(Rest)
           open   == OpenOf(Rest)
           WaitAt(ip) == Append(Rest, Frame(Top.expr, "rhs", NoValue, dst, ip))
<1>1. /\ mode = "return" /\ stack # <<>> /\ Top.expr.kind \in Logical /\ Top.at = "lhs"
      /\ (CASE ~ok(lhs.gen) -> Answer(lhs.gen, NoValue, Rest)
            [] ok(lhs.gen) /\ Top.expr.kind = "And" -> Call(Top.expr.right, WaitAt(test), tested)
            [] OTHER -> Call(Top.expr.right, WaitAt(out), either))
  BY Zenon DEF LogicalLhs, Returning
<1>2. /\ Sound(gen, held \cup {value.reg}, open)
      /\ gen.error = "none" => value.reg \notin held /\ value.type = TypeOf(Top.expr.left)
  <2>1. Top.at # "rhs"
    BY <1>1
  <2>2. QED
    BY <1>1, <2>1, LhsOwned
<1>3. PICK c \in Nat, c1 \in Nat :
        /\ Counts(gen, c1) /\ c1 = c + 1
        /\ gen.error = "none" => IsFiniteSet(Held(Rest)) /\ Cardinality(Held(Rest)) = c
  <2>1. PICK c \in Nat : Counts(gen, c + 1) /\ (gen.error = "none" => Cardinality(held) = c)
    <3> HIDE DEF held, open
    <3>1. QED
      BY <1>2, HeldCount
  <2>2. gen.error = "none" => IsFiniteSet(held)
    <3> HIDE DEF held, open
    <3>1. QED
      BY <1>2, HeldCount
  <2>3. c + 1 \in Nat
    OBVIOUS
  <2>4. QED
    BY <2>1, <2>2, <2>3
<1>4. Tidy(gen) /\ value.type \in ValueType /\ value \in EmitValue
  <2>1. Tidy(gen)
    <3> HIDE DEF held, open
    <3>1. QED
      BY <1>2, SoundTidy
  <2>2. QED
    BY <1>1, <2>1, ReturnFacts
<1>5. PICK a \in Nat : a = (IF value.type = "Int" THEN c + 3 ELSE 0) /\ Uses(c1, c1, a, gen, lhs.gen)
  <2>1. c1 + 2 = c + 3 /\ c + 3 \in Nat
    BY <1>3
  <2>2. /\ value.type = "Int" => Uses(c1, c1, c1 + 2, gen, lhs.gen)
        /\ value.type # "Int" => Uses(c1, c1, 0, gen, lhs.gen)
    BY <1>4, EnsureBoolUses
  <2> HIDE DEF lhs
  <2>3. QED
    BY <2>1, <2>2
<1>6. /\ Sound(lhs.gen, held \cup {lhs.value.reg}, open)
      /\ lhs.value.reg \in U8
      /\ lhs.gen.error = "none" => lhs.value.reg \notin held
  <2>1. Gives(gen, held, open, lhs.gen, lhs.value)
    <3> HIDE DEF held, open
    <3>1. QED
      BY <1>2, <1>4, TruthGives
  <2> HIDE DEF lhs
  <2>2. QED
    BY <2>1 DEF Gives, GivesReg
<1> HIDE DEF lhs
<1>7. dst \in U8 /\ test \in Int /\ (tested.error = "none" => dst \notin held)
  <2> HIDE DEF held, open
  <2>1. QED
    BY <1>6, TestSound
<1>8. PICK b \in Nat : b = c + 2 /\ Uses(c1, c1, b, lhs.gen, tested)
  <2>1. c1 + 1 = c + 2 /\ c + 2 \in Nat
    BY <1>3
  <2>2. Uses(c1, c1, c1 + 1, lhs.gen, tested)
    BY TestUses
  <2> HIDE DEF tested
  <2>3. QED
    BY <2>1, <2>2
<1> HIDE DEF tested, dst, test
<1>9. Uses(c1, c1, 0, tested, either)
  <2>1. Uses(c1, c1, 0, tested, g2)
    BY LoadImmUses
  <2>2. Uses(c1, c1, 0, g2, either)
    BY JumpUses
  <2> HIDE DEF g2, either
  <2>3. QED
    BY <2>1, <2>2, UsesChain
<1>10. out \in Int
  <2>1. Sound(tested, held \cup {dst}, open \cup {test})
    <3> HIDE DEF held, open
    <3>1. QED
      BY <1>6, TestSound DEF tested, dst, test
  <2>2. Sound(g2, held \cup {dst}, open \cup {test})
    <3>1. tested.error = "none" => dst \in held \cup {dst}
      OBVIOUS
    <3> HIDE DEF held, open
    <3>2. QED
      BY <1>7, <2>1, <3>1, WordsOfBooleans, LoadImmSound
  <2> HIDE DEF g2, held, open
  <2>3. QED
    BY <2>2, EmitIpIsNew
<1> HIDE DEF either, g2, out
<1>11. PICK m \in Nat : /\ m = (IF value.type = "Int" THEN c + 3 ELSE c + 2)
                        /\ m \in {a, b} /\ a <= m /\ b <= m
  BY <1>5, <1>8
<1>12. Uses(c1, c1, m, gen, tested)
  BY <1>5, <1>8, <1>11, UsesChain
<1>13. Uses(c1, c1, m, gen, either)
  <2>1. m <= m /\ 0 <= m
    OBVIOUS
  <2>2. QED
    BY <1>9, <1>12, <2>1, UsesChain
<1>14. tested.error = "none" \/ either.error = "none" => gen.error = "none" /\ dst \notin held
  <2>1. Tidy(tested) /\ Counts(tested, c1)
    BY <1>3, <1>4, <1>12 DEF Uses
  <2>2. either.error = "none" => tested.error = "none"
    BY <1>9, <2>1 DEF Uses, Peaks
  <2>3. tested.error = "none" => gen.error = "none"
    BY <1>3, <1>4, <1>12 DEF Uses, Peaks
  <2>4. QED
    BY <1>7, <2>2, <2>3
<1>15. ASSUME gen.error = "none", NEW n \in Nat
       PROVE  After(registry, Top, c, n) <=>
                /\ m <= n
                /\ (TypeIn(registry)[Top.expr.right] = "Int" => c + 4 <= n)
                /\ c + 1 + NeedOf(registry)[Top.expr.right] <= n
  <2>1. After(registry, Top, c, n) <=>
          /\ c + 2 <= n /\ (TypeIn(registry)[Top.expr.left] = "Int" => c + 3 <= n)
          /\ (TypeIn(registry)[Top.expr.right] = "Int" => c + 4 <= n)
          /\ c + 1 + NeedOf(registry)[Top.expr.right] <= n
    BY <1>1, AfterOperand
  <2>2. value.type = TypeIn(registry)[Top.expr.left]
    BY <1>2, <1>15 DEF TypeOf
  <2>3. c + 2 <= n /\ (TypeIn(registry)[Top.expr.left] = "Int" => c + 3 <= n) <=> m <= n
    BY <1>11, <2>2
  <2>4. QED
    BY <2>1, <2>3
<1>16. CASE ~ok(lhs.gen)
  <2>1. lhs.gen.error # "none" /\ Answer(lhs.gen, NoValue, Rest)
    BY <1>1, <1>16, Zenon DEF ok
  <2>2. Uses(c1, c1, m, gen, lhs.gen)
    BY <1>5, <1>11, <2>1, UsesFailed
  <2>3. PICK g : g = lhs.gen
    OBVIOUS
  <2>4. Answer(g, NoValue, Rest) /\ Uses(c1, c1, m, gen, g) /\ g.error # "none"
    BY <2>1, <2>2, <2>3
  <2>5. gen.error = "none" => \A n \in Nat : After(registry, Top, c, n) => m <= n
    BY <1>15
  <2>6. gen.error = "none" => Cardinality(Held(Rest)) = c
    BY <1>3
  <2> HIDE DEF held, open
  <2>7. QED
    BY <1>1, <1>3, <1>4, <2>4, <2>5, <2>6, OperatorAnswersFits
<1>17. CASE ok(lhs.gen)
  <2>1. PICK g, ip :
          /\ ip \in Int
          /\ Call(Top.expr.right, Append(Rest, Frame(Top.expr, "rhs", NoValue, dst, ip)), g)
          /\ Uses(c1, c1, m, gen, g)
          /\ g.error = "none" => gen.error = "none" /\ dst \notin held
    <3>1. CASE Top.expr.kind = "And"
      <4>1. Call(Top.expr.right, Append(Rest, Frame(Top.expr, "rhs", NoValue, dst, test)), tested)
        BY <1>1, <1>17, <3>1, Zenon
      <4>2. tested.error = "none" => gen.error = "none" /\ dst \notin held
        BY <1>14
      <4> HIDE DEF held
      <4>3. QED
        BY <1>7, <1>12, <4>1, <4>2, Zenon
    <3>2. CASE Top.expr.kind # "And"
      <4>1. Call(Top.expr.right, Append(Rest, Frame(Top.expr, "rhs", NoValue, dst, out)), either)
        BY <1>1, <1>17, <3>2, Zenon
      <4>2. either.error = "none" => gen.error = "none" /\ dst \notin held
        BY <1>14
      <4> HIDE DEF held
      <4>3. QED
        BY <1>10, <1>13, <4>1, <4>2, Zenon
    <3>3. QED
      BY <3>1, <3>2
  <2>2. PICK f : f = Frame(Top.expr, "rhs", NoValue, dst, ip)
    OBVIOUS
  <2>3. f \in FrameType /\ f.expr = Top.expr /\ f.at = "rhs" /\ f.dst = dst
    <3>1. Top.expr \in Expr /\ "rhs" \in {"operand", "lhs", "rhs"}
      BY <1>1, ReturnFacts
    <3>2. QED
      BY <1>7, <2>1, <2>2, <3>1, NothingKept, FrameFields
  <2>4. KeptOf(f) = dst
    BY <1>1, <2>3 DEF KeptOf
  <2>5. Call(Top.expr.right, Append(Rest, f), g)
    BY <2>1, <2>2
  <2>6. g.error = "none" => KeptOf(f) \notin Held(Rest)
    BY <2>1, <2>4
  <2>7. gen.error = "none" => \A n \in Nat : After(registry, Top, c, n) => m <= n
    BY <1>15
  <2>8. g.error = "none" =>
          \A n \in Nat : m <= n =>
            (After(registry, Top, c, n) <=>
               After(registry, f, c, n) /\ c + 1 + NeedOf(registry)[Top.expr.right] <= n)
    <3>1. ASSUME NEW n
          PROVE  After(registry, f, c, n) <=> (TypeIn(registry)[Top.expr.right] = "Int" => c + 4 <= n)
      <4>1. f.expr.kind \in Logical /\ f.at = "rhs" /\ f.expr.right = Top.expr.right
        BY <1>1, <2>3
      <4>2. After(registry, f, c, n) <=> (TypeIn(registry)[f.expr.right] = "Int" => c + 4 <= n)
        BY <4>1, AfterOperand
      <4>3. QED
        BY <4>1, <4>2
    <3>2. QED
      BY <1>15, <2>1, <3>1
  <2> HIDE DEF held, open
  <2>9. QED
    BY <1>1, <1>3, <1>4, <2>1, <2>3, <2>5, <2>6, <2>7, <2>8, RightOperandFits
<1>18. QED
  BY <1>16, <1>17

\* The right operand of && or || is made a boolean and moved; what is emitted
\* after that takes no register.
LEMMA LogicalRhsFits ==
  ASSUME Inv, NeedInv, mode = "return", stack # <<>>, Top.expr.kind \in Logical, Top.at = "rhs",
         NEW rhs, rhs = ensure_bool(gen, value), NEW moved, moved = MoveRhs(rhs), NEW final,
         \A k : Uses(k, k, 0, moved, final), NEW v,
         IF ok(rhs.gen) THEN Answer(final, v, Rest) ELSE Answer(rhs.gen, NoValue, Rest)
  PROVE  NeedInv'
<1>1. PICK held, x, y, open : held = Held(Rest) /\ x = Top.dst /\ y = value.reg
                              /\ open = OpenOf(Rest) \cup {Top.ip}
  OBVIOUS
<1>2. KeptOf(Top) = Top.dst
  BY DEF KeptOf
<1>3. /\ Sound(gen, (held \cup {x}) \cup {y}, open)
      /\ gen.error = "none" => /\ x \notin held /\ y \notin held \cup {x}
                               /\ value.type = TypeOf(Top.expr.right)
  BY <1>1, <1>2, RhsOwned
<1>4. PICK c \in Nat, c1 \in Nat, c2 \in Nat :
        /\ Counts(gen, c2) /\ c2 = c + 2 /\ c1 = c + 1
        /\ gen.error = "none" => Cardinality(Held(Rest)) = c
  <2>1. PICK c \in Nat : Counts(gen, c + 2) /\ (gen.error = "none" => Cardinality(held) = c)
    BY <1>3, HeldCountTwo
  <2>2. c + 2 \in Nat /\ c + 1 \in Nat
    OBVIOUS
  <2>3. QED
    BY <1>1, <2>1, <2>2
<1>5. Tidy(gen) /\ value.type \in ValueType
  BY <1>3, SoundTidy, ReturnFacts
<1>6. PICK m \in Nat : m = (IF value.type = "Int" THEN c + 4 ELSE 0) /\ Uses(c2, c2, m, gen, rhs.gen)
  <2>1. c2 + 2 = c + 4 /\ c + 4 \in Nat
    BY <1>4
  <2>2. /\ value.type = "Int" => Uses(c2, c2, c2 + 2, gen, rhs.gen)
        /\ value.type # "Int" => Uses(c2, c2, 0, gen, rhs.gen)
    BY <1>5, EnsureBoolUses
  <2>3. QED
    BY <2>1, <2>2
<1>7. Uses(c2, c1, 0, rhs.gen, moved)
  <2>1. PICK e : e = emit(rhs.gen, "Move", Top.dst, rhs.value.reg, 0, 0)
    OBVIOUS
  <2>2. moved = release_reg(e, rhs.value.reg)
    BY <2>1 DEF MoveRhs
  <2>3. Uses(c2, c2, 0, rhs.gen, e)
    BY <2>1, EmitUses
  <2>4. Uses(c2, c2 - 1, 0, e, moved) /\ c2 - 1 = c1
    BY <1>4, <2>2, ReleaseUses
  <2>5. Uses(c2, c1, 0, e, moved)
    BY <2>4
  <2>6. QED
    BY <2>3, <2>5, UsesChain
<1>8. Uses(c2, c1, m, gen, final)
  <2>1. m <= m /\ 0 <= m
    OBVIOUS
  <2>2. Uses(c2, c1, m, gen, moved)
    BY <1>6, <1>7, <2>1, UsesChain
  <2>3. Uses(c1, c1, 0, moved, final)
    OBVIOUS
  <2>4. QED
    BY <2>1, <2>2, <2>3, UsesChain
<1>9. PICK g, u : Answer(g, u, Rest) /\ Uses(c2, c1, m, gen, g)
  <2>1. CASE ok(rhs.gen)
    BY <1>8, <2>1
  <2>2. CASE ~ok(rhs.gen)
    <3>1. rhs.gen.error # "none" /\ Answer(rhs.gen, NoValue, Rest)
      BY <2>2 DEF ok
    <3>2. m <= m
      OBVIOUS
    <3>3. Uses(c2, c1, m, gen, rhs.gen)
      BY <1>6, <3>1, <3>2, UsesFailed
    <3>4. QED
      BY <3>1, <3>3
  <2>3. QED
    BY <2>1, <2>2
<1>10. ASSUME gen.error = "none", NEW n \in Nat
       PROVE  After(registry, Top, c, n) <=> m <= n
  <2>1. After(registry, Top, c, n) <=> (TypeIn(registry)[Top.expr.right] = "Int" => c + 4 <= n)
    BY AfterOperand
  <2>2. value.type = TypeIn(registry)[Top.expr.right]
    BY <1>3, <1>10 DEF TypeOf
  <2>3. QED
    BY <1>6, <2>1, <2>2
<1>11. g.error = "none" => gen.error = "none"
  BY <1>4, <1>5, <1>9 DEF Uses, Peaks
<1>12. QED
  BY <1>4, <1>5, <1>9, <1>10, <1>11, OperatorAnswersFits

LEMMA AndRhsFits == Inv /\ NeedInv /\ AndRhs => NeedInv'
<1> SUFFICES ASSUME Inv, NeedInv, AndRhs PROVE NeedInv'
  OBVIOUS
<1> DEFINE rhs   == ensure_bool(gen, value)
           moved == MoveRhs(rhs)
           out   == EmitIp(moved)
           past  == PatchToHere(emit(moved, "Jump", 0, 0, 0, -1), Top.ip)
           load  == emit_load_imm(past, Top.dst, BoolWord(FALSE))
           final == PatchToHere(load, out)
<1>1. /\ mode = "return" /\ stack # <<>> /\ Top.expr.kind \in Logical /\ Top.at = "rhs"
      /\ IF ok(rhs.gen) THEN Answer(final, Value(Top.dst, "Bool"), Rest)
                        ELSE Answer(rhs.gen, NoValue, Rest)
  BY DEF AndRhs, Returning, Logical
<1>2. \A k : Uses(k, k, 0, moved, final)
  <2>1. TAKE k
  <2>2. Uses(k, k, 0, moved, past)
    BY JumpUses
  <2>3. Uses(k, k, 0, past, load)
    BY LoadImmUses
  <2>4. Uses(k, k, 0, load, final)
    BY PatchUses
  <2> HIDE DEF moved, past, load, final
  <2>5. Uses(k, k, 0, moved, load)
    BY <2>2, <2>3, UsesChain
  <2>6. QED
    BY <2>4, <2>5, UsesChain
<1>3. PICK r, g, h : r = rhs /\ g = moved /\ h = final
  OBVIOUS
<1>4. r = ensure_bool(gen, value) /\ g = MoveRhs(r)
  BY <1>3
<1> HIDE DEF rhs, moved, final
<1>5. /\ IF ok(r.gen) THEN Answer(h, Value(Top.dst, "Bool"), Rest) ELSE Answer(r.gen, NoValue, Rest)
      /\ \A k : Uses(k, k, 0, g, h)
  BY <1>1, <1>2, <1>3
<1>6. QED
  BY <1>1, <1>4, <1>5, LogicalRhsFits

LEMMA OrRhsFits == Inv /\ NeedInv /\ OrRhs => NeedInv'
<1> SUFFICES ASSUME Inv, NeedInv, OrRhs PROVE NeedInv'
  OBVIOUS
<1> DEFINE rhs   == ensure_bool(gen, value)
           moved == MoveRhs(rhs)
           final == PatchToHere(moved, Top.ip)
<1>1. /\ mode = "return" /\ stack # <<>> /\ Top.expr.kind \in Logical /\ Top.at = "rhs"
      /\ IF ok(rhs.gen) THEN Answer(final, Value(Top.dst, "Bool"), Rest)
                        ELSE Answer(rhs.gen, NoValue, Rest)
  BY DEF OrRhs, Returning, Logical
<1>2. \A k : Uses(k, k, 0, moved, final)
  BY PatchUses
<1>3. PICK r, g, h : r = rhs /\ g = moved /\ h = final
  OBVIOUS
<1>4. r = ensure_bool(gen, value) /\ g = MoveRhs(r)
  BY <1>3
<1> HIDE DEF rhs, moved, final
<1>5. /\ IF ok(r.gen) THEN Answer(h, Value(Top.dst, "Bool"), Rest) ELSE Answer(r.gen, NoValue, Rest)
      /\ \A k : Uses(k, k, 0, g, h)
  BY <1>1, <1>2, <1>3
<1>6. QED
  BY <1>1, <1>4, <1>5, LogicalRhsFits

\* What an emitter with two operands knows of the registers in use.
LEMMA BothCount ==
  ASSUME Inv, mode = "return", stack # <<>>, Top.expr.kind \in Comparing \cup Bitwise, Top.at = "rhs"
  PROVE  /\ Tidy(gen)
         /\ \E c \in Nat : Counts(gen, c + 2) /\ (gen.error = "none" => Cardinality(Held(Rest)) = c)
<1>1. PICK held, x, y, open : /\ held = Held(Rest) /\ x = Top.lhs.reg /\ y = value.reg
                              /\ open = OpenOf(Rest)
  OBVIOUS
<1>2. /\ Sound(gen, (held \cup {x}) \cup {y}, open)
      /\ gen.error = "none" => x \notin held /\ y \notin held \cup {x}
  BY <1>1, BothOwned
<1>3. QED
  BY <1>1, <1>2, HeldCountTwo

\* It has failed, or fails now.
LEMMA BothRefusedFits ==
  ASSUME Inv, NeedInv, mode = "return", stack # <<>>, Top.expr.kind \in Comparing \cup Bitwise,
         Top.at = "rhs", NEW v, NEW g, Answer(g, v, Rest), g.error # "none",
         g = gen \/ \E e \in OtherError : g = fail(gen, e)
  PROVE  NeedInv'
<1>1. PICK c \in Nat : Counts(gen, c + 2) /\ (gen.error = "none" => Cardinality(Held(Rest)) = c)
  BY BothCount
<1>2. PICK k, m \in Nat : k = c + 2 /\ m = 0
  <2>1. c + 2 \in Nat /\ 0 \in Nat
    OBVIOUS
  <2>2. QED
    BY <2>1
<1>3. Uses(k, k, m, gen, g)
  BY <1>2, NothingUses, FailUses
<1>4. Tidy(gen) /\ Counts(gen, k) /\ \A n \in Nat : m <= n
  BY <1>1, <1>2, BothCount
<1>5. QED
  BY <1>1, <1>3, <1>4, OperatorAnswersFits

\* Two registers become one: a third is needed meanwhile, and one more when an
\* operand had to be made a boolean first.
LEMMA BothAnswerFits ==
  ASSUME Inv, NeedInv, mode = "return", stack # <<>>, Top.expr.kind \in Comparing \cup Bitwise,
         Top.at = "rhs", NEW g0, NEW op, NEW a, NEW b, NEW t,
         NEW g, g = EmitInto(g0, op, a, b, t).gen, NEW v, Answer(g, v, Rest),
         \/ g0 = gen /\ Top.lhs.type = value.type
         \/ /\ Top.lhs.type # value.type
            /\ \E u : u.type = "Int" /\ g0 = ensure_bool(gen, u).gen
  PROVE  NeedInv'
<1>1. PICK c \in Nat : Counts(gen, c + 2) /\ (gen.error = "none" => Cardinality(Held(Rest)) = c)
  BY BothCount
<1>2. PICK c1 \in Nat, c2 \in Nat, c3 \in Nat, c4 \in Nat :
        c1 = c + 1 /\ c2 = c + 2 /\ c3 = c + 3 /\ c4 = c + 4
  OBVIOUS
<1>3. Uses(c2, c1, c3, g0, g)
  <2>1. Uses(c2, c2 - 1, c2 + 1, g0, g)
    BY EmitIntoUses
  <2>2. c2 - 1 = c1 /\ c2 + 1 = c3
    BY <1>2
  <2>3. QED
    BY <2>1, <2>2
<1>4. PICK m \in Nat : m = (IF Top.lhs.type # value.type THEN c4 ELSE c3)
  OBVIOUS
<1>5. Uses(c2, c1, m, gen, g)
  <2>1. CASE g0 = gen /\ Top.lhs.type = value.type
    BY <1>3, <1>4, <2>1
  <2>2. CASE /\ Top.lhs.type # value.type
             /\ \E u : u.type = "Int" /\ g0 = ensure_bool(gen, u).gen
    <3>1. PICK u : u.type = "Int" /\ g0 = ensure_bool(gen, u).gen
      BY <2>2
    <3>2. u.type \in ValueType
      BY <3>1 DEF ValueType
    <3>3. Uses(c2, c2, c2 + 2, gen, g0) /\ c2 + 2 = c4
      BY <1>2, <3>1, <3>2, EnsureBoolUses
    <3>4. Uses(c2, c2, c4, gen, g0)
      BY <3>3
    <3>5. c4 <= c4 /\ c3 <= c4
      BY <1>2
    <3>6. Uses(c2, c1, c4, gen, g)
      BY <1>3, <3>4, <3>5, UsesChain
    <3>7. QED
      BY <1>4, <2>2, <3>6
  <2>3. QED
    BY <2>1, <2>2
<1>6. Tidy(gen) /\ Counts(gen, c2)
  BY <1>1, <1>2, BothCount
<1>7. ASSUME gen.error = "none", NEW n \in Nat
      PROVE  After(registry, Top, c, n) <=> m <= n
  <2>1. After(registry, Top, c, n) <=> c + Sides(TypeIn(registry), Top.expr) <= n
    BY AfterOperand
  <2>2. /\ Top.lhs.type = TypeIn(registry)[Top.expr.left]
        /\ value.type = TypeIn(registry)[Top.expr.right]
    BY <1>7, BothOwned DEF TypeOf
  <2>3. Sides(TypeIn(registry), Top.expr) = IF Top.lhs.type # value.type THEN 4 ELSE 3
    BY <2>2 DEF Sides
  <2>4. QED
    BY <1>2, <1>4, <2>1, <2>3
<1>8. g.error = "none" => gen.error = "none"
  BY <1>5, <1>6 DEF Uses, Peaks
<1>9. QED
  BY <1>1, <1>5, <1>6, <1>7, <1>8, OperatorAnswersFits

LEMMA BitwiseRhsFits == Inv /\ NeedInv /\ BitwiseRhs => NeedInv'
<1> SUFFICES ASSUME Inv, NeedInv, BitwiseRhs PROVE NeedInv'
  OBVIOUS
<1> DEFINE bad == {Top.lhs.type, value.type} # {"Int"}
           result == EmitInto(gen, BitOp[Top.expr.kind], Top.lhs.reg, value.reg, "Int")
<1>1. /\ mode = "return" /\ stack # <<>> /\ Top.expr.kind \in Bitwise
      /\ Top.expr.kind \in Comparing \cup Bitwise /\ Top.at = "rhs"
  BY Zenon DEF BitwiseRhs, Returning
<1>2. (CASE ~ok(gen) -> Answer(gen, Value(0, "Int"), Rest)
         [] ok(gen) /\ bad -> Answer(fail(gen, "type mismatch"), Value(0, "Int"), Rest)
         [] OTHER -> Answer(result.gen, result.value, Rest))
  BY Zenon DEF BitwiseRhs
<1>3. CASE ~ok(gen)
  <2>1. gen.error # "none" /\ Answer(gen, Value(0, "Int"), Rest)
    BY <1>2, <1>3, Zenon DEF ok
  <2>2. PICK g : g = gen
    OBVIOUS
  <2>3. QED
    BY <1>1, <2>1, <2>2, BothRefusedFits
<1>4. CASE ok(gen) /\ bad
  <2>1. PICK e \in OtherError : e = "type mismatch"
    BY Zenon DEF OtherError, Error, UserError
  <2>2. PICK g : g = fail(gen, e)
    OBVIOUS
  <2>3. Answer(g, Value(0, "Int"), Rest)
    BY <1>2, <1>4, <2>1, <2>2, Zenon
  <2>4. g.error # "none"
    <3>1. Tidy(gen)
      BY <1>1, BothCount
    <3>2. QED
      BY <2>2, <3>1, FailUses
  <2>5. QED
    BY <1>1, <2>2, <2>3, <2>4, BothRefusedFits
<1>5. CASE ok(gen) /\ ~bad
  <2>1. Answer(result.gen, result.value, Rest)
    BY <1>2, <1>5, Zenon
  <2>2. PICK g, g0 : g = result.gen /\ g0 = gen
    OBVIOUS
  <2>3. g = EmitInto(g0, BitOp[Top.expr.kind], Top.lhs.reg, value.reg, "Int").gen
    BY <2>2
  <2>4. Answer(g, result.value, Rest)
    BY <2>1, <2>2
  <2>5. Top.lhs.type = value.type
    BY <1>5
  <2> HIDE DEF result
  <2>6. QED
    BY <1>1, <2>2, <2>3, <2>4, <2>5, BothAnswerFits
<1>6. QED
  BY <1>3, <1>4, <1>5

LEMMA CompareRhsFits == Inv /\ NeedInv /\ CompareRhs => NeedInv'
<1> SUFFICES ASSUME Inv, NeedInv, CompareRhs PROVE NeedInv'
  OBVIOUS
<1> DEFINE op    == CompareOp[Top.expr.kind]
           mixed == {Top.lhs.type, value.type} = {"Bool", "Int"}
           lhs   == IF mixed /\ value.type = "Bool" THEN ensure_bool(gen, Top.lhs)
                    ELSE [gen |-> gen, value |-> Top.lhs]
           rhs   == IF mixed /\ Top.lhs.type = "Bool" THEN ensure_bool(gen, value)
                    ELSE [gen |-> lhs.gen, value |-> value]
           result == EmitInto(rhs.gen, op, lhs.value.reg, rhs.value.reg, "Bool")
<1>1. /\ mode = "return" /\ stack # <<>> /\ Top.expr.kind \in Comparing
      /\ Top.expr.kind \in Comparing \cup Bitwise /\ Top.at = "rhs"
  BY Zenon DEF CompareRhs, Returning
<1>2. (CASE ~ok(gen) -> Answer(gen, NoValue, Rest)
         [] ok(gen) /\ ~mixed /\ Top.lhs.type # value.type ->
              Answer(fail(gen, "type mismatch"), NoValue, Rest)
         [] OTHER -> Answer(result.gen, result.value, Rest))
  BY Zenon DEF CompareRhs, emit_compare_regs
<1>3. CASE ~ok(gen)
  <2>1. gen.error # "none" /\ Answer(gen, NoValue, Rest)
    BY <1>2, <1>3, Zenon DEF ok
  <2>2. PICK g : g = gen
    OBVIOUS
  <2> HIDE DEF mixed, result
  <2>3. QED
    BY <1>1, <2>1, <2>2, BothRefusedFits
<1>4. CASE ok(gen)
  <2>1. gen.error = "none"
    BY <1>4 DEF ok
  <2>2. Top.lhs.type = TypeOf(Top.expr.left) /\ value.type = TypeOf(Top.expr.right)
    BY <1>1, <2>1, BothOwned
  <2>3. Top.lhs.type = value.type \/ mixed
    BY <1>1, <2>2, ComparedTypes
  <2>4. Answer(result.gen, result.value, Rest)
    <3>1. ~(~ok(gen)) /\ ~(ok(gen) /\ ~mixed /\ Top.lhs.type # value.type)
      BY <1>4, <2>3
    <3> HIDE DEF mixed, result
    <3>2. QED
      BY <1>2, <3>1, Zenon
  <2>5. PICK g, g0, u, a, b : /\ g0 = rhs.gen /\ g = result.gen /\ u = result.value
                              /\ a = lhs.value.reg /\ b = rhs.value.reg
    OBVIOUS
  <2>6. g = EmitInto(g0, op, a, b, "Bool").gen /\ Answer(g, u, Rest)
    BY <2>4, <2>5
  <2>7. \/ g0 = gen /\ Top.lhs.type = value.type
        \/ /\ Top.lhs.type # value.type
           /\ \E w : w.type = "Int" /\ g0 = ensure_bool(gen, w).gen
    <3>1. CASE Top.lhs.type = value.type
      <4>1. ~mixed
        BY <3>1
      <4>2. rhs = [gen |-> lhs.gen, value |-> value] /\ lhs = [gen |-> gen, value |-> Top.lhs]
        BY <4>1
      <4> HIDE DEF lhs, rhs
      <4>3. rhs.gen = gen
        BY <4>2
      <4>4. QED
        BY <2>5, <3>1, <4>3
    <3>2. CASE mixed /\ value.type = "Bool"
      <4>1. Top.lhs.type = "Int" /\ Top.lhs.type # "Bool" /\ Top.lhs.type # value.type
        BY <3>2
      <4>2. lhs = ensure_bool(gen, Top.lhs) /\ rhs = [gen |-> lhs.gen, value |-> value]
        BY <3>2, <4>1
      <4> HIDE DEF lhs, rhs
      <4>3. rhs.gen = ensure_bool(gen, Top.lhs).gen
        BY <4>2
      <4>4. QED
        BY <2>5, <4>1, <4>3
    <3>3. CASE mixed /\ value.type # "Bool"
      <4>1. Top.lhs.type = "Bool" /\ value.type = "Int" /\ Top.lhs.type # value.type
        BY <3>3
      <4>2. rhs = ensure_bool(gen, value)
        BY <3>3, <4>1
      <4> HIDE DEF lhs, rhs
      <4>3. QED
        BY <2>5, <4>1, <4>2
    <3>4. QED
      BY <2>3, <3>1, <3>2, <3>3
  <2> HIDE DEF op, mixed, lhs, rhs, result
  <2>8. QED
    BY <1>1, <2>6, <2>7, BothAnswerFits
<1>5. QED
  BY <1>3, <1>4

-----------------------------------------------------------------------------
(* The last step, and the first state. *)

\* What is pending when the root's value is returned is to make it a boolean.
LEMMA RootCount ==
  ASSUME Inv, NeedInv, mode = "return", stack = <<>>
  PROVE  /\ Tidy(gen) /\ Counts(gen, 1) /\ Goal \in Nat
         /\ WellTyped(root, registry) /\ gen.error = "none" =>
              \A n \in Nat : Goal <= n <=> gen.next_reg <= n /\ RootFits(n)
<1>1. /\ root \in Expr /\ registry \in Registries /\ Sound(gen, {} \cup {value.reg}, {})
  BY RootReturns
<1>2. PICK held, x, open : held = {} /\ x = value.reg /\ open = {}
  OBVIOUS
<1>3. Sound(gen, held \cup {x}, open) /\ x \notin held
  BY <1>1, <1>2
<1>4. Tidy(gen)
  BY <1>3, HeldCount
<1>5. PICK c \in Nat : Counts(gen, c + 1) /\ (gen.error = "none" => Cardinality(held) = c)
  BY <1>3, HeldCount
<1>6. Cardinality(held) = 0
  BY <1>2, FS_EmptySet
<1>7. Counts(gen, 1)
  <2>1. CASE gen.error = "none"
    <3>1. c + 1 = 1
      BY <1>5, <1>6, <2>1
    <3>2. QED
      BY <1>5, <3>1
  <2>2. CASE gen.error # "none"
    BY <2>2 DEF Counts
  <2>3. QED
    BY <2>1, <2>2
<1>8. Goal \in Nat
  BY <1>1, GoalFits
<1>9. ASSUME NEW n PROVE Pending(registry, stack, mode, node, n)
  BY NoFrames DEF Pending
<1>10. QED
  BY <1>4, <1>7, <1>8, <1>9 DEF NeedInv

\* The code generator's status of a failure is not OK.
LEMMA FailureStatus ==
  ASSUME NEW e
  PROVE  StatusOf(e) # "OK"
<1>1. StatusOf(e) \in {"QUALIFIER_NOT_FOUND", "TYPE_MISMATCH", "PARSE", "CODEGEN"}
  BY Zenon DEF StatusOf
<1>2. QED
  BY <1>1

LEMMA FinishFits == Inv /\ NeedInv /\ Finish => NeedInv'
<1> SUFFICES ASSUME Inv, NeedInv, Finish PROVE NeedInv'
  OBVIOUS
<1>1. PICK result : result = IF ok(gen) THEN ensure_bool(gen, value) ELSE [gen |-> gen, value |-> value]
  OBVIOUS
<1>2. PICK g, r : g = result.gen /\ r = result.value.reg
  OBVIOUS
<1>3. /\ mode = "return" /\ stack = <<>>
      /\ mode' = "done" /\ root' = root /\ registry' = registry
      /\ ok(g) => /\ gen' = release_reg(emit(g, "Ret", r, 0, 0, 0), r)
                  /\ register_count' = g.next_reg /\ status' = "OK"
      /\ ~ok(g) => gen' = g /\ status' = StatusOf(g.error)
  BY <1>1, <1>2 DEF Finish
<1>4. /\ value \in EmitValue /\ (gen.error = "none" => value.type = TypeOf(root))
  BY <1>3, RootReturns
<1>5. value.type \in ValueType
  BY <1>4 DEF EmitValue
<1>6. Tidy(gen) /\ Counts(gen, 1) /\ Goal \in Nat
  BY <1>3, RootCount
<1>7. PICK m \in Nat : /\ m = (IF gen.error = "none" /\ value.type = "Int" THEN 3 ELSE 0)
                       /\ Uses(1, 1, m, gen, g)
  <2>1. CASE gen.error = "none"
    <3>1. result = ensure_bool(gen, value)
      BY <1>1, <2>1 DEF ok
    <3>2. /\ value.type = "Int" => Uses(1, 1, 1 + 2, gen, result.gen)
          /\ value.type # "Int" => Uses(1, 1, 0, gen, result.gen)
      BY <1>5, <3>1, EnsureBoolUses
    <3>3. 1 + 2 = 3
      OBVIOUS
    <3>4. QED
      BY <1>2, <2>1, <3>2, <3>3
  <2>2. CASE gen.error # "none"
    <3>1. result = [gen |-> gen, value |-> value]
      BY <1>1, <2>2 DEF ok
    <3>2. result.gen = gen
      BY <3>1
    <3>3. QED
      BY <1>2, <2>2, <3>2, NothingUses
  <2>3. QED
    BY <2>1, <2>2
<1>8. Tidy(g) /\ Counts(g, 1) /\ Peaks(m, gen, g)
  BY <1>6, <1>7 DEF Uses
<1>9. PICK G \in Nat : G = Goal
  BY <1>6
<1>10. /\ WellTyped(root, registry)' <=> WellTyped(root, registry)
       /\ Goal' = G
  BY <1>3, <1>9 DEF WellTyped, Goal
<1>11. ASSUME WellTyped(root, registry), gen.error = "none", NEW n \in Nat
       PROVE  G <= n <=> gen.next_reg <= n /\ m <= n
  <2>1. RootFits(n) <=> m <= n
    BY <1>4, <1>7, <1>11 DEF RootFits
  <2>2. QED
    BY <1>3, <1>9, <1>11, <2>1, RootCount
<1>12. WellTyped(root, registry) /\ LimitMet(g) => G > MaxRegisterCount
  <2>1. SUFFICES ASSUME WellTyped(root, registry), LimitMet(g) PROVE G > MaxRegisterCount
    OBVIOUS
  <2>2. CASE LimitMet(gen)
    BY <1>9, <2>1, <2>2 DEF NeedInv
  <2>3. CASE gen.error = "none" /\ m > MaxRegisterCount
    <3>1. G <= G
      OBVIOUS
    <3>2. m <= G
      BY <1>11, <2>1, <2>3, <3>1
    <3>3. QED
      BY <2>3, <3>2, BytecodeAssumption
  <2>4. QED
    BY <1>8, <2>1, <2>2, <2>3 DEF Peaks
<1>13. CASE ~ok(g)
  <2>1. status' # "OK" /\ gen' = g
    BY <1>3, <1>13, FailureStatus
  <2>2. LimitMet(gen)' <=> LimitMet(g)
    BY <2>1, Zenon DEF LimitMet
  <2>3. QED
    BY <1>3, <1>10, <1>12, <2>1, <2>2 DEF NeedInv
<1>14. CASE ok(g)
  <2>1. g.error = "none"
    BY <1>14 DEF ok
  <2>2. PICK e, g1 : e = emit(g, "Ret", r, 0, 0, 0) /\ g1 = release_reg(e, r)
    OBVIOUS
  <2>3. Uses(1, 0, 0, g, g1)
    <3>1. Uses(1, 1, 0, g, e)
      BY <2>2, EmitUses
    <3>2. Uses(1, 1 - 1, 0, e, g1) /\ 1 - 1 = 0
      BY <2>2, ReleaseUses
    <3>3. Uses(1, 0, 0, e, g1)
      BY <3>2
    <3>4. QED
      BY <3>1, <3>3, UsesChain
  <2>4. Peaks(0, g, g1)
    BY <1>8, <2>3 DEF Uses
  <2>5. gen' = g1 /\ register_count' = g.next_reg
    BY <1>3, <1>14, <2>2
  <2>6. ~LimitMet(g)
    BY <2>1, Zenon DEF LimitMet
  <2>7. ~LimitMet(g1)
    BY <2>4, <2>6, BytecodeAssumption DEF Peaks
  <2>8. ~LimitMet(gen)'
    BY <2>5, <2>7, Zenon DEF LimitMet
  <2>9. WellTyped(root, registry) => g.next_reg = G
    <3>1. SUFFICES ASSUME WellTyped(root, registry) PROVE g.next_reg = G
      OBVIOUS
    <3>2. gen.error = "none" /\ \A n \in Nat : g.next_reg <= n <=> gen.next_reg <= n /\ m <= n
      BY <1>8, <2>1 DEF Peaks
    <3>3. g.next_reg \in Nat
      BY <1>8, <2>1, BytecodeAssumption DEF Tidy
    <3>4. \A n \in Nat : g.next_reg <= n <=> G <= n
      BY <1>11, <3>1, <3>2
    <3>5. QED
      BY <3>3, <3>4, SameFit
  <2>10. QED
    BY <1>3, <1>10, <2>5, <2>8, <2>9 DEF NeedInv
<1>15. QED
  BY <1>13, <1>14

LEMMA InitFits == Init => NeedInv
<1> SUFFICES ASSUME Init PROVE NeedInv
  OBVIOUS
<1>1. /\ root \in Expr /\ registry \in Registries /\ gen = NewGen /\ mode = "enter" /\ node = root
      /\ stack = <<>> /\ status = "none"
  BY RootsAssumption DEF Init
<1>2. gen.next_reg = 0 /\ gen.error = "none"
  BY <1>1 DEF NewGen
<1>3. ~LimitMet(gen)
  BY <1>2, Zenon DEF LimitMet
<1>4. PICK need \in Nat : need = NeedOf(registry)[root]
  BY <1>1, NeedsHold
<1>5. Goal \in Nat /\ \A n \in Nat : Goal <= n <=> need <= n /\ RootFits(n)
  BY <1>1, <1>4, GoalFits
<1>6. ASSUME NEW n \in Nat PROVE Pending(registry, stack, mode, node, n) <=> need <= n
  <2>1. Held(stack) = {} /\ FramesFit(registry, stack, n)
    BY <1>1, NoFrames
  <2>2. Cardinality(Held(stack)) = 0
    BY <2>1, FS_EmptySet
  <2>3. QED
    BY <1>1, <1>4, <2>1, <2>2 DEF Pending
<1>7. QED
  BY <1>1, <1>2, <1>3, <1>5, <1>6 DEF NeedInv

LEMMA StutterFits == NeedInv /\ UNCHANGED cvars => NeedInv'
<1> SUFFICES ASSUME NeedInv, UNCHANGED cvars PROVE NeedInv'
  OBVIOUS
<1>1. /\ root' = root /\ registry' = registry /\ gen' = gen /\ mode' = mode /\ node' = node
      /\ stack' = stack /\ register_count' = register_count /\ status' = status
  BY DEF cvars
<1>2. /\ WellTyped(root, registry)' <=> WellTyped(root, registry)
      /\ Goal' = Goal
  BY <1>1 DEF WellTyped, Goal
<1>3. LimitMet(gen)' <=> LimitMet(gen)
  BY <1>1, Zenon DEF LimitMet
<1>4. ASSUME NEW n
      PROVE  /\ RootFits(n)' <=> RootFits(n)
             /\ Pending(registry, stack, mode, node, n)' <=> Pending(registry, stack, mode, node, n)
  BY <1>1 DEF RootFits, TypeOf, Pending, FramesFit, After, Below, Held, Rhs, KeptOf, Sides
<1>5. QED
  BY <1>1, <1>2, <1>3, <1>4 DEF NeedInv

-----------------------------------------------------------------------------
(* The theorem. *)

LEMMA NeedInvariance == Spec => []NeedInv
<1>1. Inv /\ NeedInv /\ [Next]_cvars => NeedInv'
  BY EmitIdentifierFits, EmitLiteralFits, EmitIpv4Fits, MisplacedIpv6Fits,
     EnterOperatorFits, EnterCompareFits, NotOperandFits, LogicalLhsFits, AndRhsFits,
     OrRhsFits, BinaryLhsFits, CompareRhsFits, BitwiseRhsFits, FinishFits, StutterFits
     DEF Next, Terminating
<1>2. QED
  BY <1>1, InitFits, Invariance, PTL DEF Spec

\* The program compile_ast_to_program makes of a well-typed expression has as
\* many registers as its evaluation needs at one time (alloc_reg and
\* release_reg through every emitter), and the register limit refuses no
\* expression that fits.
THEOREM RegisterNeeds == Spec => []RegisterNeedExact
<1>1. NeedInv => RegisterNeedExact
  <2> SUFFICES ASSUME NeedInv PROVE RegisterNeedExact
    OBVIOUS
  <2>1. LimitMet(gen) <=> gen.error = "register limit"
    BY Zenon DEF LimitMet
  <2>2. WellTyped(root, registry) =>
          /\ status = "OK" => register_count = NeedIn(registry)[root]
          /\ LimitMet(gen) => NeedIn(registry)[root] > MaxRegisterCount
    BY DEF NeedInv, Goal
  <2>3. QED
    BY <2>1, <2>2, Zenon DEF RegisterNeedExact
<1>2. QED
  BY <1>1, NeedInvariance, PTL

=============================================================================
