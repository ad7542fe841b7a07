------------------------------- MODULE Engine -------------------------------
(***************************************************************************)
(* The library behind one program handle: mbpf_compile_expression, then    *)
(* any number of mbpf_execute (src/c_api/mbpf_c_api.cpp).  The compiler    *)
(* and the machine are the modules of the same names; this module passes   *)
(* the compiled program from one to the other.  The first execution        *)
(* verifies the program, later ones rely on the recorded verdict.          *)
(***************************************************************************)
EXTENDS Evaluator

CONSTANTS
  Roots,       \* the expressions that may be compiled
  Contexts,    \* the contexts the program is executed on, none of them null
  NoContext,
  OptionSets,  \* the sets of compile options a caller may enable
  MaxCalls     \* bound: executions of one program

VARIABLES
  options,         \* the compile options the caller enabled
  root, registry, gen, mode, node, value, stack, register_count,
  compile_status,  \* what mbpf_compile_expression returned
  program, ctx, run_verify, phase, scan, instruction_starts, jump_targets, pc, regs,
  status,          \* what the running mbpf_execute returns
  out_result,
  verified,        \* verified_
  calls            \* executions begun

compiler == <<root, registry, gen, mode, node, value, stack, register_count, compile_status>>
machine  == <<program, ctx, run_verify, phase, scan, instruction_starts, jump_targets, pc, regs,
              status, out_result>>
evars    == <<options, compiler, machine, verified, calls>>

C == INSTANCE Compiler WITH status <- compile_status
V == INSTANCE Vm WITH Programs <- {}

\* Registries are what Registry makes of them, and in a context a field of C++
\* type bool is 0 or 1.
ASSUME EngineAssumption ==
  /\ Roots \subseteq Expr
  /\ \A r \in Registries : WellDeclared(r)
  /\ Contexts \subseteq Memory
  /\ NoContext \notin Contexts
  /\ \A r \in Registries, mem \in Contexts : \A name \in DOMAIN r :
       r[name].type = "bool" => mem[r[name].offset] \in {FullByte(0), BoolWord(TRUE)[0]}

NoProgram == [instructions |-> <<>>, count |-> 0, register_count |-> 0]

Init ==
  /\ options \in OptionSets
  /\ C!Init
  /\ program = NoProgram
  /\ ctx = NoContext
  /\ run_verify = FALSE
  /\ phase = "idle"
  /\ scan = 0
  /\ instruction_starts = {}
  /\ jump_targets = {}
  /\ pc = 0
  /\ regs = [r \in V!Registers |-> Zero]
  /\ status = "none"
  /\ out_result = "unset"
  /\ verified = FALSE
  /\ calls = 0

\* The compiler is not given the options.
Compile == C!Next /\ UNCHANGED <<options, machine, verified, calls>>

\* mbpf_execute on a context.  It is not null: verifying before the machine's
\* argument check or after it makes no difference.
Call ==
  /\ compile_status = "OK"
  /\ phase \in {"idle", "done"}
  /\ calls < MaxCalls
  /\ program' = C!Output
  /\ ctx' \in Contexts
  /\ run_verify' = ~verified
  /\ phase' = "call"
  /\ scan' = 0
  /\ instruction_starts' = {}
  /\ jump_targets' = {}
  /\ pc' = 0
  /\ regs' = [r \in V!Registers |-> Zero]
  /\ status' = "none"
  /\ out_result' = "unset"
  /\ calls' = calls + 1
  /\ UNCHANGED <<options, compiler, verified>>

\* A step of the running call; verified_ is stored when the verifier accepts.
Execute ==
  /\ V!Next
  /\ verified' = (verified \/ (phase = "scan" /\ phase' = "execute"))
  /\ UNCHANGED <<options, compiler, calls>>

Next == Compile \/ Call \/ Execute

Spec == Init /\ [][Next]_evars

\* A thread inside mbpf_execute keeps running.
FairSpec == Spec /\ WF_evars(Execute)

-----------------------------------------------------------------------------
(* Properties. *)

\* The caller's view: what was compiled, and the answer to the last call.
F == INSTANCE Filter WITH
       verdict <- CASE compile_status = "none"   -> "none"
                    [] compile_status = "OK"     -> "OK"
                    [] gen.error \in UserError   -> "REFUSED"
                    [] OTHER                     -> "LIMIT",
       answer  <- CASE phase = "idle"                   -> "none"
                    [] phase = "done" /\ status = "OK"  -> out_result
                    [] phase = "done" /\ status # "OK"  -> status
                    [] OTHER                            -> "pending"

\* Compiler, verifier and machine together do what Filter promises: every
\* compiled program passes verification, runs without an error, and answers
\* with the value of the expression, on its first execution and on those that
\* skip the verifier.
ImplementsFilter == F!Spec

\* An execution of a compiled program fails only where the program loads a
\* field of no type, and then in the verifier: the interpreter's own checks
\* never fail, and control never runs past the end, on the first execution or
\* on those that rely on the recorded verdict (mbpf_execute).
CompiledNeverFails ==
  phase = "done" =>
    status = IF \E i \in 0 .. program.count - 1 : C!Unloadable(program, i)
             THEN "VERIFICATION" ELSE "OK"

\* Each instruction of a compiled program takes control forward, also the
\* jumps, or returns: the interpreter comes back to none of them, whatever the
\* context holds (execute_program_impl).  That a jump does not lead to itself,
\* a step that changes nothing, is left to ExecutionsReturn.
ControlGoesForward == [][phase = "execute" => pc' > pc \/ phase' = "done"]_evars

\* Every execution of a compiled program returns: the generator emits no
\* loop, whatever the context makes the jumps do (mbpf_execute).
ExecutionsReturn == phase = "call" ~> phase = "done"

\* The value a field of an integer type has by its declaration, u64 included.
DeclaredValue(e) ==
  LET info == registry[e.ident]
  IN  IF info.type = "u64" THEN Unsigned(FieldBytes(ctx, info, info.size))
                           ELSE FieldValue(ctx, info)

\* A comparison of two fields orders them by their declared types.
FieldsCompareAsDeclared ==
  phase = "done" /\ status = "OK" /\ root.kind \in Comparing
    /\ root.left.kind = "Identifier" /\ root.right.kind = "Identifier" =>
      (out_result = "true") = Ordered(root.kind, DeclaredValue(root.left), DeclaredValue(root.right))

\* No identifier occurs in the expression.
Constant[e \in Expr] ==
  CASE e.kind = "Identifier" -> FALSE
    [] e.kind = "Not"        -> Constant[e.left]
    [] e.kind \in Binary     -> Constant[e.left] /\ Constant[e.right]
    [] OTHER                 -> TRUE

\* With constant folding enabled a constant expression is compiled to its
\* value: one immediate and the Ret.
ConstantsFolded ==
  compile_status = "OK" /\ "const_folding" \in options /\ Constant[root] => C!Output.count = 3
=============================================================================
