# A TLA+ model of mbpf

mbpf compiles a boolean filter expression to bytecode and executes the bytecode
on a caller's struct. This directory holds TLA+ specifications of the library,
the TLC configurations that check them, and TLAPS proofs.

## 1. The system

| part | source | state it keeps | operations |
| --- | --- | --- | --- |
| instruction format | `src/codegen/bytecode.hpp` | none | encode, decode, `make_load_imm`, `fits_i32` |
| verifier | `src/vm/vm.cpp:47-149` | scan position, instruction starts, jump targets | `verify_program` |
| interpreter | `src/vm/vm.cpp:151-327` | program counter, 256 registers | `execute_program`, `execute_program_verified` |
| code generator | `src/codegen/compiler.cpp` | emitted slots, registers in use and free, first error | `compile_ast_to_program` |
| registry | `src/registry/qualifier_registry.cpp` | name -> type, offset, size | `register_qualifier`, `find` |
| frontend | `src/frontend/` | scanner globals, parser stack, syntax tree | `parse_expression` |
| C API | `src/c_api/mbpf_c_api.cpp` | program objects with an atomic `verified_`, their memory | create, register, compile, execute, serialize, deserialize (also in place), free |
| error message | `src/common/error.cpp` | one string per thread | `set_last_error`, `mbpf_last_error` |

How they interact. `mbpf_compile_expression` calls the frontend, hands the
syntax tree and the registry to the code generator, and copies its output to a
program object. `mbpf_execute` runs the verifier unless `verified_` is set, sets
it, and runs the interpreter; deserialization runs the verifier on bytes of any
origin. The only state shared between threads by design is a program object
(through `verified_`); a registry is read by compilations.

What is hard. The interpreter trusts the verifier, the verifier has to be right
about *any* sequence of slots, and a slot may be an instruction or the raw
immediate of a `LoadImm`. The generator keeps registers alive across recursive
calls, releases them in an order that depends on the expression, patches jumps
over code it has not emitted yet, and goes on after an error with dummy values.
Nothing checks the generator's output until it is executed for the first time,
and from then on nothing checks it again. The list of hazards, each at its line,
is in PROJECT.json.

## 2. The modules

```
Bytecode -- Program -- Vm ------------------+-- VmProofs
               |        \                   +-- MC_Vm
               |         +--------------+
             Codegen -- Evaluator       |
                           |  \         |
                           |   Filter   |       (what is promised)
                           |      \     |
                        Compiler -- Engine -+-- MC_Engine
                           |                |
                           |           EngineProofs
                           |                |
                           +--------- CompilerProofs -- RegisterProofs
                           |
                        MC_Compiler

Codegen -- Registry --+-- RegistryProofs     Parser --+-- ParserProofs
                      +-- MC_Registry                 +-- MC_Parser

ProgramApi --+-- ProgramApiProofs            Transfer --+-- TransferProofs
             +-- MC_ProgramApi                          +-- MC_Transfer
```

**Bytecode** has the slots, the 64-bit words of the registers as bytes of bits,
the signed order on them, and the load of a field with zero or sign extension.
Widths are constants: `ByteBits` (8), `AuxHalf` (2^31) and `MaxRegisterCount`
(256), so that the proofs are about every width and TLC can use small ones. A
slot has its decoded fields and, independently, the word a `LoadImm` before it
reads (`wide`); real slots are a special case.

**Program** has `ProgramView` and the checks that verifier and interpreter both
make on one instruction (`InstructionOk`; they are the same in the code). It also
says, without any scan, what the verifier should decide: `Boundary(p, j)` is the
least fixed point "slot 0, and the slot after each boundary's instruction", and
`WellFormed(p)` that every instruction at a boundary is legal and every jump goes
to a boundary.

**Vm** is one call of `execute_program` or `execute_program_verified` on any
program and context.

| code | model |
| --- | --- |
| `i`, `instruction_starts`, `jump_targets` | `scan`, sets `instruction_starts` and `jump_targets` |
| one iteration of the verifier's loop | `VerifyInstruction`, `RejectInstruction` |
| the loop over the targets (`vm.cpp:141-148`) | `VerifyTargets` |
| one iteration of the interpreter's loop | `LoadField` ... `Ret`, one action per opcode (`Compare` for the six comparisons) |
| the interpreter's own checks | `RuntimeFault`, `TerminatedWithoutRet` |

**Codegen** has the generator's record (`code`, `next_reg`, `free_regs`,
`reg_used`, the first `error`) and every primitive that does not call `emit_expr`
as a function from one record to the next. **Compiler** makes a state machine of
the recursion: `stack` holds the emitters waiting for an operand, `mode` says
whether `emit_expr` is being entered or has returned, and an action is all the
code between two calls of `emit_expr`. Errors are kept as in the code: the first
one sticks and the emitters go on. Messages are replaced by what they say went
wrong; `StatusOf` maps it to the status returned. An IPv4 or IPv6 literal is its
words, or `Malformed` where `inet_pton` refuses it.

**Evaluator** is the reference: the static type, the first fault, the mathematical
value and the number of registers of an expression, written without registers, words or
jumps.
**Filter** says what the library promises its caller. **Engine** is
`mbpf_compile_expression` followed by `mbpf_execute` calls: it instantiates
Compiler and Vm and passes the program and the `verified_` flag between them. Its
refinement mapping to Filter hides everything but the caller's view. Program memory and
other threads are not in it: they are in ProgramApi and Transfer.

**ProgramApi** has program objects instead of one program: in the heap and in
the caller's memory, compiled, serialized, deserialized, freed, and executed by
several threads. It does not look into programs: an *image* is what an object
holds and a blob carries, and `Valid` is the set of images the verifier accepts,
which is what `Vm` and its theorems are about. `Compiled` is the set of images
`mbpf_compile_expression` returns. It need not be part of `Valid`: the call verifies
nothing, and a program that loads a field of a type outside `mbpf_type_t` is returned
and refused at every execution.

| code | model |
| --- | --- |
| `mbpf_program` | `objects[o]`: `image` for counts and instructions, `verified` for `verified_`, `owns_self`, `owned_instructions` |
| `new[]`, `delete[]` of instruction arrays | `blocks`; `lost` has those nothing points to any more |
| `mbpf_compile_expression`, the deserializers, `mbpf_program_free` | one action each; they work on an object no other thread has or may touch |
| `mbpf_execute` | `BeginExecute`, `LoadVerified`, `VerifyProgram`, `StoreVerified`, `Run`: other threads act between any two |

`handles` is what the caller may use. A call that uses an object excludes
freeing or overwriting it (`~Busy`), which the library cannot check and leaves to
the caller. Memory of the caller remains his after `mbpf_program_free` and after a
refused `mbpf_program_deserialize_to_memory`, and a handle to it from before
remains usable, so that he may execute whatever it holds then. `accepted` and
`refused` are no state of the library: they are what the caller was told of the program
now in each cell (by a deserializer or an execution), for the property that these
answers agree.

**Parser** is one call of `parse_expression` and what
`mbpf_compile_expression` does with its result: tokens are read and shifted,
rules reduced, the tree built bottom up, and everything dropped at the end.

| code | model |
| --- | --- |
| the parser Bison makes of `expression_parser.y` | `stack`, `lookahead`; `Lex`, `Shift`, one `Reduce...` action per kind of rule, `Accept`, `SyntaxError`, `Exhausted` |
| `yylval.sval`, copied with `strdup` | `strings`, numbered by their tokens; freed by the rules and the `%destructor` |
| `make_ident` ... `make_binary` | `nodes`, numbered in the order they are made |
| `ParseResult` and its destructor | `root`, `error`; `Drop` |

The automaton is not copied from generated tables. Its states are told apart by
the two topmost symbols, and it makes a default reduction where no token can be
shifted, without reading one first; this is what decides when a text is copied
and when `set_parse_root` runs. `Trees` says what an expression is without an
automaton: the operator that binds least, outside parentheses, splits it. The
scanner is a source of tokens. One of them is a byte past ASCII, which the last
rule of the scanner returns as a `char`: where that is signed the parser takes it
for the end of the text, so that `a == 1` followed by such a byte and anything
else is accepted as `a == 1`. `Text`, which the properties are about, ends at that byte.

**Registry** is a registry over its life: `CheckQualifier` with the checks in the order
of the code, `InsertQualifier` for the entry that passed them, `RegisterThrows` for
allocations that fail before the checks or between checks and insertion, and between
calls `CompileField`, which runs Codegen's emitters for a field. `loads` keeps what was
compiled first for each name: a program outlives every later declaration. Offsets and
their sums have the width of `uint32_t` (`2 * AuxHalf`), and a type outside
`mbpf_type_t` is one of the types a caller may pass: it has size 0, is registered with
size 0 and compiles to a load of no bytes. In **Engine** such a field makes the first
execution fail with MBPF_ERR_VERIFICATION, and **Filter** promises just that.
`EngineAssumption` asks of registries what `Registry` is proved to ensure,
`WellDeclared`.

**Transfer** is the size protocol between a program and its copy in another
process. A sender asks for a size, allocates, and serializes; a receiver asks,
allocates and installs, or turns to the heap.

| code | model |
| --- | --- |
| `*inout_buffer_size`, `*inout_memory_size` | `size`, `memsize`: what the caller passes next |
| the buffer, the program memory | `buffer`, `memory`, sequences of 32-bit words; writing past the end makes them longer |
| `mbpf_program_serialize` | `QueryBlobSize`, `Serialize`, `SerializeThrows` |
| `mbpf_program_deserialize` | `Deserialize`, `DeserializeThrows` |
| `mbpf_program_deserialize_to_memory` | `QueryMemorySize`, `DeserializeToMemory`, `RefuseToMemory` |
| the callers, as in the tests | `AllocateBuffer`, `Send`, `AllocateMemory` |

Between any two calls a program may be replaced, a blob be damaged or lost, and
an allocation fail (`Fault`). Sizes are computed modulo `SizeMax + 1`.

Definitions named *Mistake* in the comments are plausible bugs. No specification
uses them; each is substituted for the operator after it to see that a property
fails.

## 3. What the runs check

| run | what it shows |
| --- | --- |
| `vm` | `TypeOK`; `VerdictCorrect`: the scan accepts a program exactly when it is `WellFormed`; `PcOnBoundary`: a well-formed program never executes the data of a `LoadImm`; `WellFormedNeverFaults`: the one runtime error it can meet is running past its end |
| `vm_live` | `VerifierTerminates`; `ForwardProgramsReturn`: a program whose jumps go forward returns. Programs with backward jumps are in the run and may loop: the verifier accepts them |
| `compiler` | `RegistersOwned`: at every step each live value has a register of its own and every other register is free exactly once; `NoInternalError`: no double release, no patch outside the code; `WaitingJumpsOpen`: what a waiting `&&` or `||` will patch is a jump without a target, and its own, which `patch_jump` does not check; `CompiledSound`: what is returned is made of legal instructions, none of them the data of another, jumps only forward to them, and ends in `Ret`; a load of a field of no type is the one thing the verifier would refuse; `StatusMatchesTyping`: the status is OK for exactly the well-typed expressions, limits apart; `FirstFaultReported`: of several errors it is that of the first, in the order `FaultIn` of Evaluator reads the expression in; `RegisterNeedExact`: the register count is the least the evaluation order allows, and the limit is reported only when that exceeds it. Deadlock is checked: no emitter gets stuck |
| `engine` | `CompiledNeverFails`: an execution of a compiled program fails only in the verifier, and only if the program loads a field of no type; `ControlGoesForward`: it comes back to no instruction; `ImplementsFilter`: what is compiled passes the verifier, never fails at run time and answers with the expression's value, in the first execution and in one that skips the verifier |
| `engine_live` | `ExecutionsReturn`: executions of compiled programs return |
| `program_api` | `VerdictFresh`: a set `verified_` is about the program the object holds now; `RunsOnlyValid`: no thread runs a program the verifier would refuse; `AnswersAgree`: until a program is freed or overwritten every call gives the same answer about it, also about a compiled one that the verifier refuses; `MemoryOwnedOnce`: every array has one owner and is deleted with it, except that of a refused blob, which leaks |
| `parser` | `AcceptsExpressions`: exactly the expressions are accepted, with the tree of their operators' precedence, and a syntax error is noticed at the first token that makes one; `TextsFreedOnce`, `NodesOwnedOnce`: on every way out texts are freed once and nodes have one owner; `CompleteTreesDeleted`: only the nodes of an expression that was never complete leak; `ParseReturns`: no state of the automaton reduces forever or has no move |
| `registry` | `FieldsWellDeclared`: what code generator and machine rely on; `FieldsReadAsRegistered`: a program compiled at any time reads the bytes of the field as it is registered now; `FailureLeavesRegistry`: a failing call changes nothing, also when memory runs out after its checks, and no entry is replaced |
| `transfer` | `WritesStayInMemory`: no call writes past the memory it is given, whatever the blob says; `AcceptedBlobsAreExact`: an accepted blob is the one its program is serialized to; `TransferCompletes`: after a refusal the size told is enough, and the program arrives |
| `compiler_far`, `engine_u64`, `engine_fold` | three places where code and documentation disagree (section 6) |

Bounds. `vm`: all programs of up to 2 slots over 25 slots (every opcode, register
operands, field sizes, sign flags and jump targets on both sides of their bounds), of 3
slots over 11 and of 4 slots over 7; register counts -1, 0, 1, 2, 3 and around the
maximum; contexts of zeros and of ones. Every hazard of the verifier needs at most a
`LoadImm`, a jump and one instruction more. `compiler`: all two-level expressions over
13 leaves (each qualifier type, missing names, malformed literals), three levels over
the operators that differ in control flow and over operands with different errors, and
chains of 9 operators; 9 registers, so that chains exhaust them, and jumps up to 29, so
that they overflow (`MaxRegisterCount > 8` is needed because an operand also holds the
field size 8). `engine`: words of 16 bits, every operator on every pair of fields and
literals, fields of 16 and 32 bits with and without a sign, logical operators nested on
both sides; contexts with zero, negative, most negative and large values; two
executions, the second without the verifier. `program_api`: two threads (a stale flag
needs one that stores and one that loads), two objects in the heap and one in the
caller's memory (reuse, and an array freed with the wrong object), three arrays (one may
be lost), and four images: a compiled one that is valid, a compiled one that is not (it
loads a field of no type), a valid one of other origin too long for the caller's memory,
and the empty one that freeing leaves. Threads, heap cells and arrays are symmetric.

`parser`: all texts of up to 7 tokens over 11 kinds: a text, a number, an operator of
each precedence, parentheses, a character no rule knows and a byte past ASCII. Seven
tokens have three operators next to each other, and any two with parentheses around one
of them; a stack of 7 is filled by nesting while such expressions go through.
`registry`: two names, a type of each size and sign and one outside the enumeration,
offsets at both ends of the ranges of `int32_t` and `uint32_t`, and wrong sizes.
`transfer`: programs of 1, 2 and 3 instructions (the verifier refuses empty ones), of
which the last has a blob that fits a `size_t` and an object that does not; memory too
small, just enough for one program and for all; three faults, so that a replaced
program, a damaged blob and a failed allocation may come together.

Deadlock is checked in `program_api`, `registry` and `compiler` (which has a step of
its own, `Terminating`, for a call that has returned): elsewhere a call that has
returned stops, and so does a specification that models one call.

Fairness. `Parser!FairSpec` says that the parser goes on: it waits for nothing.
`Transfer!FairSpec` says that both callers go on until the program is installed,
each retrying with what it was told; faults are bounded and never fair.
`Vm!FairSpec` and `Engine!FairSpec` assume weak fairness of the steps of
a running call and nothing else: the library is single-threaded code that blocks
on nothing, so that a call that can take a step takes it when its thread runs.
The caller is never assumed to call.

## 4. What is proved

`VmProofs`, for every set of programs and contexts and all values of the
constants, from `BytecodeAssumption` (the widths are positive) and `VmAssumption`
(programs are slots with a register count, contexts are memory):

- `TypeCorrect`: `Spec => []TypeOK`. The program counter, registers and starts stay
  in range even when verification is skipped, because the interpreter checks again.
- `VerifierDecidesWellFormed`: `Spec => []VerdictCorrect`.
- `ControlStaysOnBoundaries`: `Spec => []PcOnBoundary`.
- `WellFormednessExcludesFaults`: `Spec => []WellFormedNeverFaults`.

The invariants are not inductive: in the middle of a scan nothing in them relates
the starts marked so far to the program. `IInv` adds

- `ScanInv`: each marked start but the current one passed its checks, its successor
  is marked or is the current position, its target is recorded; each recorded target
  comes from a marked jump; and every boundary-closed set contains the starts and the
  current position (so nothing is marked that is not a boundary);
- `ExecuteInv`: a verified program being run is well formed, and control is at a
  boundary of a well-formed program;
- `StatusInv`: what each return status says about the program.

When the scan ends the starts are both closed and contained in every closed set,
hence the boundaries (`VerifyTargetsAccepts`); a refused instruction or target is at
a boundary (`RejectedInstruction`, `RejectedTargets`). One lemma per part says that
each step keeps it, with one case per action.

`ProgramApiProofs`, for any number of threads, objects, arrays and images, from
`ApiAssumption` (what is compiled or valid has slots; sizes are numbers) and
`AbsentAssumption` (a model value is not an object):

- `TypeCorrect`: `Spec => []TypeOK`.
- `VerdictStaysFresh`: `Spec => []VerdictFresh`.
- `ExecutionsRunValidPrograms`: `Spec => []RunsOnlyValid`.
- `MemoryStaysOwned`: `Spec => []MemoryOwnedOnce`.
- `AnswersNeverChange`: `Spec => []AnswersAgree`. Nothing is assumed of compiled images
  but that they have slots.

`VerdictFresh` is not inductive: `StoreVerified` sets the flag because of what
`VerifyProgram` saw earlier. `CallsInv` carries that over: a call in progress has
an object the caller may use and, past the verifier, that object holds a valid
program; it is kept because nothing replaces an object in use. `AnswersAgree` follows
from `AnswersRight`: what was accepted is valid and what was refused is not, in the
state in which the object is now. `TypeOK` needs
`MemoryOwnedOnce`: an array that `Free` deletes is not a lost one because its
object owns it. Two lemmas do most of the work: `ReplaceObject` for everything
that leaves a cell with a new object, and `CallStep` for every step of a call but
`StoreVerified`.

Together with the theorems of `VmProofs`: `Valid` is the well-formed programs
(`VerifierDecidesWellFormed`), every thread runs such a program, and such a
program stays on instruction boundaries and meets no runtime error but running
past its end. The link between the two is this text; it is not a theorem.

`RegistryProofs`, for any names, types, offsets and sizes, from
`RegistryAssumption` (offsets and sizes fit their C types) and
`BytecodeAssumption`:

- `TypeCorrect`: `Spec => []TypeOK`. Every load that is compiled is a slot.
- `FieldsStayWellDeclared`: `Spec => []FieldsWellDeclared`.
- `ProgramsReadRegisteredFields`: `Spec => []FieldsReadAsRegistered`.
- `FailedCallsRegisterNothing`: `Spec => FailureLeavesRegistry`.

That a program reads the field as it is registered *now* needs what was compiled
*then*: `LoadsInv` says that the loads of a name are those its present info would
give (`LoadsOf`), at offsets below 2^31. It is kept by a declaration because no
entry is replaced (`InsertKeeps`; `CheckedInv` says that a description that passed its
checks still would, since nothing is declared in between), and by a compilation because of what the
emitters do: `EmittedLoads` follows them through allocation and emission, with
`LoadEmitted` for one load, `FailureRemains` for an emitter that goes on after an
error, and `LowHalfInRange` for the offset of the low half, which cannot wrap in a
well-declared field.

`CompilerProofs`, for every set of expressions, every registry and any number of
registers, from `BytecodeAssumption`, `ExprAssumption` (nodes have the children and
literals of their kinds), `RootsAssumption` and `TreeAssumption` (an expression is a
finite tree: each operand has a smaller height):

- `TypeCorrect`: `Spec => []TypeOK`.
- `RegisterOwnership`: `Spec => []RegistersOwned`.
- `NoInternalErrors`: `Spec => []NoInternalError`. This is all `release_reg` and
  `patch_jump` check: a patch of the wrong slot within the code would go unnoticed.
- `WaitingJumpsAreOpen`: `Spec => []WaitingJumpsOpen`: what waits to be patched is right.
- `CompiledPrograms`: `Spec => []CompiledSound`.
- `TypingDecides`: `Spec => []StatusMatchesTyping`.

The recursion of `emit_expr` is on the stack, so that the invariant `Inv` is a contract
between an emitter and what it calls: `Called` is what holds when a node is entered,
`Returns` when its value comes back. Both contain

- `Sound`: the generator has handed out the registers of `Held` and no others (`Owned`),
  and the code so far is legal except for the targets of the jumps in `OpenOf`
  (`CodeOk`: data follows each `LoadImm` and nothing else; targets are forward and no
  data; what is in `OpenOf` is a jump with the target -1). Once an error is recorded
  nothing is known of registers and code, which is why both are conditional on
  `g.error = "none"`;
- `Waiting`: the emitters on the stack are the path from the root to the node
  (`StackOk`), what they keep is kept once (`Apart`), and what they know of the types of
  their left operands is right (`FrameTyped`);
- `Dooms`: if the node has no type that an operator takes, the whole expression is not
  well typed. So the first error is the user's fault exactly when the typing says so.

`SlotOk` is about one slot and the next. That no jump goes to data and that the last
slot is a `Ret` then makes the program closed under control (`CodeCompiles`). The
middle part has one lemma per primitive (`Gives...`: one more register is in use, code is
only added), and one per action says that it keeps `Inv`. That the type of an expression
has a value is proved, not assumed: `TypeFrom` looks at the types of the operands only,
and heights are well founded.

`RegisterProofs`, from the same assumptions:

- `RegisterNeeds`: `Spec => []RegisterNeedExact`. For every expression and every register
  limit, a compiled program has exactly the registers its evaluation needs at one time,
  and the limit refuses no expression that fits.

The need of an expression (`NeedOf`) is a nested maximum, and what it is compared with
grows a register at a time. `NeedInv` states the equality by what fits: for every n, the
need of the root is at most n exactly when `next_reg` is, and when everything still to be
done fits n, which is what each waiting emitter needs after its operand (`After`), above
the registers kept below it, and the node to be entered. At the end nothing is pending,
and `next_reg` is the need. The invariant only says so for well-typed expressions, as the
property does: after a type error the emitters go on with dummy values.

It is kept because of what each emitter does with registers: `Uses` says that with c
registers in use before, c1 are in use after and m were at one time, so that `next_reg`
becomes the larger of itself and m (`Peaks`), and the limit is met only if m exceeds it.
That needs `Owned` of CompilerProofs: a register is handed out anew only when none is
free. One `Uses` lemma per emitter adds up its allocations and releases, and one per step
says that After and the need of the operand that is entered next are what the emitter
still needed before (`OperatorFits`, `RightFits`).

`EngineProofs`, for all expressions, registries and contexts, from those assumptions and
`EngineAssumption` (of which it needs that roots are expressions and that no context is
the null pointer):

- `EngineCompiles`: `Spec => []CP!CompiledSound`.
- `ExecutionsSucceed`: `Spec => []CompiledNeverFails`.
- `ExecutionsBounded`: `Spec => ControlGoesForward`.

Its first part says that the compiler of Engine is the one CompilerProofs is about: `CP`
is the instance of the module with the theorems, `C` the one Engine steps, and
`SamePrimitives`, `SameActions` and `SameStates` show their operators to be equal. The
second is the invariant: a call works on the output of a compilation that has returned
(`CallInv`), the scan has checked the instructions before it and is never at data
(`ScanInv`), the interpreter is at an instruction of a program whose loads are all legal
(`ExecuteInv`). It does not use `VmProofs`, whose theorems are about well-formed programs:
for a compiled one more is known, namely where its instructions are. `ControlMoves` says
of each instruction that it leads to a later one; the property `ControlGoesForward`
cannot tell a jump to itself from a step that does nothing, the lemma does.

`TransferProofs`, for programs and memory of every size and any number of faults, from
`TransferAssumption` (sizes and words fit their C types; programs to send have a blob
that fits a `size_t` and are accepted by the verifier):

- `TypeCorrect`: `Spec => []TypeOK`.
- `MemorySafety`: `Spec => WritesStayInMemory`.
- `BlobsAreExact`: `Spec => []AcceptedBlobsAreExact`.

The invariant gives the two size variables their meaning, which changes with the step
of the protocol: before a call they are at most the capacity of the memory that is
passed to it (`SenderInv`, `ReceiverInv`), after a refusal they are a size to allocate and
bound nothing. A blob that was installed does not change any more (`BlobInv`).
`RequiredExact` and `MemoryExact` say that the sizes the code compares are the true
ones although they are computed modulo `SizeMax + 1`; `LoadedExact` that a
blob that passes the checks is the serialization of what is loaded from it.

`ParserProofs`, for texts of any length and every stack limit, from
`ParserAssumption`:

- `TypeCorrect`: `Spec => []TypeOK`.
- `TextsFreed`: `Spec => []TextsFreedOnce`.
- `NodesOwned`: `Spec => []NodesOwnedOnce`.
- `AcceptsExactly`: `Spec => []AcceptsExpressions`. Unless the stack is full, a text is
  accepted exactly if it has a tree by the precedence of the operators (`Trees`, which
  knows no automaton); then it has one, and that is the tree returned. A syntax error is
  noticed at the first token that makes one.
- `CompleteTreesGo`: `Spec => []CompleteTreesDeleted`, and its special case
  `NoNodeOutlives`: a compilation that met no error has deleted every node.

`StackInv` says which symbol may stand on which (`MayStandOn`, the items of the automaton
as far as ownership needs them): a rule finds on the stack what it pops. `TokenInv` says
that at most one copied text exists, that of the token read last, and that it is at the
top of the stack or is the lookahead. `NodeInv` says that children are older than their
parents and that every node has one owner: a symbol of the stack, the result or another
node. `Drop` deletes `Subtree[root]`, a recursive function; that it has a value and that
every node with one owner is in it is shown by induction on the nodes' numbers
(`TreesAre`, `SubtreeIs`). Without induction theorems, which take an operator as a
parameter, the induction is written with sets: a set of numbers has a least member
(`LeastNatural`), hence a set that holds every number whose predecessors it holds has
all of them (`Induction`).

`AcceptsExactly` needs to know what the stack means. `GrammarInv` says that its symbols
stand, one after the other, for the tokens consumed (`Placed`): a terminal for one token, a
nonterminal for some that are an expression of one tree, its node's, in every text that
begins as the one read (`Derives`). The lemmas it rests on, about `Trees` alone:

- `TreesAreSpan`, `SplitTrees`, `WholeTrees`: what the recursion of `Trees` says of the
  part of a text between two places;
- `GoodLeaf`, `GoodNot`, `GoodParens`, `GoodJoin`: how the trees of a part are those of
  smaller ones. `Good` says that parentheses are closed and that nothing outside them binds
  less than the nonterminal allows (`LevelOf`), so that the operator the parser reduces is
  the one `Trees` splits at;
- `TreesProper`: a text with a tree has closed parentheses, tokens that may follow one
  another (`Adjacent`), and no comparison of a comparison (`Chain`).

An accepted text is covered by the input symbol, so its tree is the root's (`AcceptTree`).
The converse is about the token that does not fit. `WideInv`: the nonterminals from a
comparison on are only made when the token read last is known not to go on with what they
are made of. With what the top of the stack can be (`ErrorTop`) it follows that no text
that goes on with the token has a tree (`Refused`). That the tokens before it could have
been completed is shown by writing down how: an identifier where an operand is missing, then
the parentheses that are open (`PrefixStarts`). From the top of the stack downwards every
symbol then has what it waits for (`FillsNot`, `FillsParens`, `FillsOperand`, `Completed`).
`CompleteTreesGo` adds that after an error only a text that was no expression has left
nodes without an owner (`OwnedInv`).

Each inductive invariant was an invariant of a TLC run before it was proved; `Derives`, which
is about every text, for the texts read and those one token longer.

Only model-checked:

- liveness (`VerifierTerminates`, `ForwardProgramsReturn`, `ExecutionsReturn`,
  `ParseReturns`, `TransferCompletes`): fairness is beyond the prover;
- `ImplementsFilter`: that the answer is the value of the expression compares a program
  with a recursive definition over expressions, on words and numbers; the parts of it
  that do not mention values are `TypingDecides` and `ExecutionsSucceed`;
- `FirstFaultReported`: `TypingDecides` says whether there is an error, not which.

## 5. What is not modelled

- The scanner: how characters make tokens, and integer literals beyond 64 bits, which
  saturate. Literals reach the models as words, tokens as their kinds. Null nodes, which
  the parser never builds, are left out.
- The scanner's globals: two compilations at once share one scanner (the result is per
  thread, the buffer is not), so that compilations must be serialized by the caller. The
  same goes for declaring a field during a compilation: the registry has no lock.
- Allocations that fail inside `yyparse`, and the depth of the call stack: a chain of
  operators that associate to the left makes a tree as deep as it is long.
- Freeing or overwriting an object during a call that uses it: undefined, and for the
  caller to avoid. The memory order of `verified_` (release, acquire): steps of
  different threads interleave.
- In Engine registries are constants. The engine assumes that a bool
  field holds 0 or 1 and that fields lie within the context.
- Bytes within a word of a blob: Transfer counts sizes in words of 32 bits. ProgramApi
  has blobs with a good header only; Transfer has the others.
- Error texts, allocation failures of the code generator, and the byte layout of a slot.
- That a 32-bit `pc` or instruction count overflows: programs are far shorter.

## 6. Where code and documentation disagree

- `compiler_far`: bytecode.hpp:38 says the payload of a `LoadField` is the unsigned
  field offset, and the interpreter reads it so; `emit` (compiler.cpp:525) refuses
  offsets of 2^31 and more, which the registry accepts.
- `engine_u64`: the README lists `u64` with the comparison operators; registers are
  `int64_t`, and a `u64` of 2^63 or more compares as a negative number.
- `engine_fold`: the README offers compile options such as constant folding;
  `mbpf_compile_expression` ignores its options argument.

## 7. Plan

1. Done: Bytecode, Program, Vm, VmProofs; Codegen, Evaluator, Compiler; Filter, Engine;
   ProgramApi, ProgramApiProofs.
2. Done: Transfer (the size protocol), Registry with RegistryProofs, Parser.
3. Done: CompilerProofs, RegisterProofs, EngineProofs, TransferProofs, ParserProofs.
4. ProgramApi with the programs of Vm for images, so that `Valid` is `WellFormed` by
   definition and the theorems of both modules meet in one.
