------------------------------- MODULE Filter -------------------------------
(***************************************************************************)
(* What the library promises its caller: an expression is compiled or      *)
(* refused, and a compiled one answers every context with the expression's *)
(* value on it, or none if it names a field of no type.                    *)
(***************************************************************************)
EXTENDS Evaluator

CONSTANTS
  Roots,     \* the expressions that may be compiled
  Contexts,  \* the contexts that may be asked about
  NoContext  \* before the first one

VARIABLES
  root, registry,  \* the expression and the registry
  verdict,         \* "none", then "OK", "REFUSED" or "LIMIT"
  ctx,             \* the context asked about last
  answer           \* "none", "pending", then "true", "false" or a status

fvars == <<root, registry, verdict, ctx, answer>>

Init ==
  /\ root \in Roots
  /\ registry \in Registries
  /\ verdict = "none"
  /\ ctx = NoContext
  /\ answer = "none"

\* An expression with a type error is refused, any other is compiled, unless
\* a limit of the bytecode stops the compilation.
Compile ==
  /\ verdict = "none"
  /\ verdict' \in {"LIMIT", IF WellTyped(root, registry) THEN "OK" ELSE "REFUSED"}
  /\ UNCHANGED <<root, registry, ctx, answer>>

Ask ==
  /\ verdict = "OK"
  /\ answer # "pending"
  /\ ctx' \in Contexts
  /\ answer' = "pending"
  /\ UNCHANGED <<root, registry, verdict>>

Answer ==
  /\ answer = "pending"
  /\ answer' = CASE ~Loadable(root, registry)    -> "VERIFICATION"
                 [] Truth(root, registry, ctx)    -> "true"
                 [] OTHER                         -> "false"
  /\ UNCHANGED <<root, registry, verdict, ctx>>

Next == Compile \/ Ask \/ Answer

Spec == Init /\ [][Next]_fvars
=============================================================================
