----------------------------- MODULE ProgramApi -----------------------------
(***************************************************************************)
(* Program objects behind the C API (src/c_api/mbpf_c_api.cpp): compiled,  *)
(* serialized, deserialized to the heap or into the caller's memory, freed, *)
(* and executed by several threads at once.  The verdict of the verifier   *)
(* is remembered in the object (verified_) and trusted by later calls.     *)
(*                                                                         *)
(* The content of a program, its register count and slots, is an image; of *)
(* an image only its length and the verifier's verdict matter here.        *)
(*                                                                         *)
(* Blobs are those whose header is in order; others are refused before any *)
(* memory is touched.                                                      *)
(*                                                                         *)
(* What is asked of the caller: a handle is not used after the object was  *)
(* freed, unless the object is in the caller's own memory, and an object   *)
(* is neither freed nor overwritten during a call that uses it.            *)
(***************************************************************************)
EXTENDS Integers

CONSTANTS
  Images,    \* contents of programs
  Valid,     \* the images verify_program accepts
  Compiled,  \* the images mbpf_compile_expression produces, valid or not
  Empty,     \* the image without slots
  Size,      \* the length of each image
  Heap,      \* where program objects can be allocated
  Areas,     \* the caller's memory for programs
  Capacity,  \* the length of the longest image each area has room for
  Blocks,    \* where instruction arrays can be allocated
  Threads,
  Absent,    \* no object
  NoBlock    \* the null pointer

ASSUME ApiAssumption ==
  /\ Valid \subseteq Images
  /\ Compiled \subseteq Images
  /\ Empty \in Images
  /\ Size \in [Images -> Nat]
  /\ \A image \in Valid \cup Compiled : Size[image] > 0
  /\ Size[Empty] = 0
  /\ Capacity \in [Areas -> Nat]
  /\ Heap \cap Areas = {}
  /\ NoBlock \notin Blocks

Cells == Heap \cup Areas

Object ==
  [image : Images, verified : BOOLEAN, owns_self : BOOLEAN, owned_instructions : Blocks \cup {NoBlock}]

ASSUME AbsentAssumption == Absent \notin Object

VARIABLES
  objects,  \* the object in each cell
  blocks,   \* the instruction arrays that are allocated
  lost,     \* those of them that nothing points to any more
  handles,  \* the objects the caller may use
  accepted, \* those whose program some call returned verified, or executed, and
  refused,  \* those whose program some call refused, since it was put there
  blobs,    \* the images the caller has as blobs
  call      \* the mbpf_execute each thread is in, with its last result

answers == <<accepted, refused>>
pvars == <<objects, blocks, lost, handles, answers, blobs, call>>

Phases  == {"idle", "load", "verify", "store", "run"}
Results == {"none", "VERIFICATION", "executed"}

Init ==
  /\ objects = [o \in Cells |-> Absent]
  /\ blocks = {}
  /\ lost = {}
  /\ handles = {}
  /\ accepted = {}
  /\ refused = {}
  /\ blobs \in SUBSET Images
  /\ call = [t \in Threads |-> [phase |-> "idle", object |-> Absent, result |-> "none"]]

Busy(o) == \E t \in Threads : call[t].phase # "idle" /\ call[t].object = o

\* An object that was constructed in cell o and returned to the caller.
Store(o, object) == objects' = [objects EXCEPT ![o] = object]
Publish(o)       == handles' = handles \cup {o}

\* What the caller was told of the program now in cell o, and of no earlier one.
Accept(o) == accepted' = accepted \cup {o} /\ refused' = refused \ {o}
Refuse(o) == accepted' = accepted \ {o} /\ refused' = refused \cup {o}
Forget(o) == accepted' = accepted \ {o} /\ refused' = refused \ {o}

-----------------------------------------------------------------------------
(* Operations that create, read or destroy an object. *)

\* A compiled program is not verified yet.  One that loads a field of a type
\* outside mbpf_type_t never will be: it is returned all the same.
CompileExpression(o, b, image) ==
  /\ objects[o] = Absent
  /\ b \notin blocks
  /\ image \in Compiled
  /\ Store(o, [image |-> image, verified |-> FALSE, owns_self |-> TRUE, owned_instructions |-> b])
  /\ Publish(o)
  /\ Forget(o)
  /\ blocks' = blocks \cup {b}
  /\ UNCHANGED <<lost, blobs, call>>

Serialize(o) ==
  /\ o \in handles
  /\ blobs' = blobs \cup {objects[o].image}
  /\ UNCHANGED <<objects, blocks, lost, handles, answers, call>>

\* Mistake: as after a compilation, verification is left to the first execution.
DeserializeUnverified(o, b, image) ==
  /\ image \in blobs
  /\ Size[image] > 0
  /\ objects[o] = Absent
  /\ b \notin blocks
  /\ Store(o, [image |-> image, verified |-> FALSE, owns_self |-> TRUE, owned_instructions |-> b])
  /\ Publish(o)
  /\ Accept(o)
  /\ blocks' = blocks \cup {b}
  /\ UNCHANGED <<lost, blobs, call>>

Deserialize(o, b, image) ==
  /\ image \in blobs \cap Valid
  /\ objects[o] = Absent
  /\ b \notin blocks
  /\ Store(o, [image |-> image, verified |-> TRUE, owns_self |-> TRUE, owned_instructions |-> b])
  /\ Publish(o)
  /\ Accept(o)
  /\ blocks' = blocks \cup {b}
  /\ UNCHANGED <<lost, blobs, call>>

\* The verifier refuses the program: its object is destroyed, but not the
\* array it points to.
DeserializeRefused(b, image) ==
  /\ image \in blobs \ Valid
  /\ Size[image] > 0
  /\ b \notin blocks
  /\ blocks' = blocks \cup {b}
  /\ lost' = lost \cup {b}
  /\ UNCHANGED <<objects, handles, answers, blobs, call>>

\* Mistake: the object's old verdict survives.
DeserializeKeepsVerdict(o, image) ==
  /\ image \in blobs
  /\ Size[image] <= Capacity[o]
  /\ ~Busy(o)
  /\ Store(o, [image |-> image, owns_self |-> FALSE, owned_instructions |-> NoBlock,
               verified |-> image \in Valid \/ (objects[o] # Absent /\ objects[o].verified)])
  /\ IF image \in Valid THEN Publish(o) /\ Accept(o) ELSE Refuse(o) /\ UNCHANGED handles
  /\ UNCHANGED <<blocks, lost, blobs, call>>

\* A new object is constructed over whatever the memory holds.  A program that
\* is refused stays there, and the caller may have a handle from before.
DeserializeToMemory(o, image) ==
  /\ image \in blobs
  /\ Size[image] <= Capacity[o]
  /\ ~Busy(o)
  /\ Store(o, [image |-> image, verified |-> image \in Valid,
               owns_self |-> FALSE, owned_instructions |-> NoBlock])
  /\ IF image \in Valid THEN Publish(o) /\ Accept(o) ELSE Refuse(o) /\ UNCHANGED handles
  /\ UNCHANGED <<blocks, lost, blobs, call>>

\* Mistake: the instruction array is forgotten.
FreeObjectOnly(o) ==
  /\ o \in handles
  /\ ~Busy(o)
  /\ IF objects[o].owns_self
     THEN Store(o, Absent) /\ handles' = handles \ {o}
     ELSE /\ Store(o, [objects[o] EXCEPT !.image = Empty, !.verified = FALSE])
          /\ UNCHANGED handles
  /\ Forget(o)
  /\ UNCHANGED <<blocks, lost, blobs, call>>

\* Mistake: the object is deleted whoever owns its memory.
FreeWhoeverOwns(o) ==
  /\ o \in handles
  /\ ~Busy(o)
  /\ blocks' = blocks \ {objects[o].owned_instructions}
  /\ Store(o, Absent)
  /\ handles' = IF objects[o].owns_self THEN handles \ {o} ELSE handles
  /\ Forget(o)
  /\ UNCHANGED <<lost, blobs, call>>

\* An object in the heap is gone, one in the caller's memory becomes empty.
Free(o) ==
  /\ o \in handles
  /\ ~Busy(o)
  /\ blocks' = blocks \ {objects[o].owned_instructions}
  /\ IF objects[o].owns_self
     THEN Store(o, Absent) /\ handles' = handles \ {o}
     ELSE /\ Store(o, [objects[o] EXCEPT !.image = Empty, !.verified = FALSE,
                                         !.owned_instructions = NoBlock])
          /\ UNCHANGED handles
  /\ Forget(o)
  /\ UNCHANGED <<lost, blobs, call>>

-----------------------------------------------------------------------------
(* mbpf_execute: the flag is loaded, the program verified, the flag stored, *)
(* and the program run, with other threads in between.                      *)

Step(t, next) == call' = [call EXCEPT ![t].phase = next]
Return(t, r)  == call' = [call EXCEPT ![t].phase = "idle", ![t].result = r]

Image(t) == objects[call[t].object].image

BeginExecute(t, o) ==
  /\ call[t].phase = "idle"
  /\ o \in handles
  /\ call' = [call EXCEPT ![t] = [phase |-> "load", object |-> o, result |-> "none"]]
  /\ UNCHANGED <<objects, blocks, lost, handles, answers, blobs>>

LoadVerified(t) ==
  /\ call[t].phase = "load"
  /\ Step(t, IF objects[call[t].object].verified THEN "run" ELSE "verify")
  /\ UNCHANGED <<objects, blocks, lost, handles, answers, blobs>>

\* Mistake: the flag is stored whatever the verifier says.
VerifyIgnoringVerdict(t) ==
  /\ call[t].phase = "verify"
  /\ Step(t, "store")
  /\ UNCHANGED <<objects, blocks, lost, handles, answers, blobs>>

VerifyProgram(t) ==
  /\ call[t].phase = "verify"
  /\ IF Image(t) \in Valid
     THEN Step(t, "store") /\ UNCHANGED refused
     ELSE Return(t, "VERIFICATION") /\ refused' = refused \cup {call[t].object}
  /\ UNCHANGED <<objects, blocks, lost, handles, accepted, blobs>>

StoreVerified(t) ==
  /\ call[t].phase = "store"
  /\ objects' = [objects EXCEPT ![call[t].object].verified = TRUE]
  /\ Step(t, "run")
  /\ UNCHANGED <<blocks, lost, handles, answers, blobs>>

Run(t) ==
  /\ call[t].phase = "run"
  /\ Return(t, "executed")
  /\ accepted' = accepted \cup {call[t].object}
  /\ UNCHANGED <<objects, blocks, lost, handles, refused, blobs>>

-----------------------------------------------------------------------------
Next ==
  \/ \E o \in Heap, b \in Blocks, image \in Images :
       CompileExpression(o, b, image) \/ Deserialize(o, b, image)
  \/ \E b \in Blocks, image \in Images : DeserializeRefused(b, image)
  \/ \E o \in Areas, image \in Images : DeserializeToMemory(o, image)
  \/ \E o \in Cells : Serialize(o) \/ Free(o)
  \/ \E t \in Threads, o \in Cells : BeginExecute(t, o)
  \/ \E t \in Threads : LoadVerified(t) \/ VerifyProgram(t) \/ StoreVerified(t) \/ Run(t)

Spec == Init /\ [][Next]_pvars

-----------------------------------------------------------------------------
(* Properties. *)

\* Every variable has its type, and handles are handles of objects.
TypeOK ==
  /\ objects \in [Cells -> Object \cup {Absent}]
  /\ lost \subseteq blocks
  /\ blocks \subseteq Blocks
  /\ accepted \subseteq handles
  /\ handles \cup refused \subseteq {o \in Cells : objects[o] # Absent}
  /\ blobs \subseteq Images
  /\ call \in [Threads -> [phase : Phases, object : Cells \cup {Absent}, result : Results]]

\* The remembered verdict is about the program the object holds now: not about
\* the one it held before its memory was reused or it was freed, and not about
\* one whose verification another thread has only begun (verified_).
VerdictFresh ==
  \A o \in Cells : objects[o] # Absent /\ objects[o].verified => objects[o].image \in Valid

\* Whichever way a call came to skip the verifier, the program it runs is one
\* the verifier accepts (mbpf_execute).
RunsOnlyValid == \A t \in Threads : call[t].phase = "run" => Image(t) \in Valid

\* As long as a program is neither freed nor overwritten, all answers the
\* caller gets about it agree, whichever threads and calls they come from: what
\* was deserialized or executed once is not refused later, and what was refused
\* once, such as a compiled program that loads a field of no type, is not
\* executed later (mbpf_execute, mbpf_program_deserialize_to_memory).
AnswersAgree == accepted \cap refused = {}

Owners == {o \in Cells : objects[o] # Absent /\ objects[o].owned_instructions # NoBlock}

\* Every instruction array belongs to exactly one object, and is deleted with
\* it; only that of a refused program is lost.  Objects in the heap, and no
\* others, own themselves and their array (mbpf_program_free,
\* mbpf_program_deserialize).
MemoryOwnedOnce ==
  /\ blocks \ lost = {objects[o].owned_instructions : o \in Owners}
  /\ \A o, p \in Owners : o # p => objects[o].owned_instructions # objects[p].owned_instructions
  /\ \A o \in Owners : o \in Heap
  /\ \A o \in Cells : objects[o] # Absent => (objects[o].owns_self <=> o \in Heap)
=============================================================================
