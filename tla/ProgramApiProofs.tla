-------------------------- MODULE ProgramApiProofs --------------------------
(***************************************************************************)
(* What holds of program objects for any number of threads, objects,       *)
(* instruction arrays and images.                                          *)
(***************************************************************************)
EXTENDS ProgramApi, TLAPS

(***************************************************************************)
(* The inductive invariant.  A call relies on what it learned in an earlier *)
(* step only because nothing frees or overwrites the object it uses.       *)
(***************************************************************************)

\* A call in progress has an object and no result, and past the verifier that
\* object holds a valid program.
CallsInv ==
  \A t \in Threads :
    /\ call[t].phase # "idle" => call[t].object \in handles /\ call[t].result = "none"
    /\ call[t].phase \in {"store", "run"} => Image(t) \in Valid

\* Every answer was right of the program that is still there.
AnswersRight ==
  /\ \A o \in accepted : objects[o].image \in Valid
  /\ \A o \in refused : objects[o].image \notin Valid

UseInv == TypeOK /\ VerdictFresh /\ CallsInv /\ AnswersRight

\* MemoryOwnedOnce is needed for TypeOK: an array that Free deletes is not one
\* of the lost ones, because an object owns it.
IInv == UseInv /\ MemoryOwnedOnce

-----------------------------------------------------------------------------
(* Storing an object that the caller may use. *)

\* A stored object is where it was put, and no other object changes.
LEMMA StoreObject ==
  ASSUME TypeOK, NEW o \in Cells, NEW object \in Object, Store(o, object)
  PROVE  /\ objects' \in [Cells -> Object \cup {Absent}]
         /\ objects'[o] = object
         /\ \A p \in Cells : p # o => objects'[p] = objects[p]
BY DEF TypeOK, Store

\* What every operation on cell o that leaves it with an object, and is not
\* made during a call that uses it, keeps.
LEMMA ReplaceObject ==
  ASSUME UseInv, NEW o \in Cells, NEW object \in Object, ~Busy(o), Store(o, object),
         object.verified => object.image \in Valid,
         handles \subseteq handles', handles' \subseteq handles \cup {o},
         accepted' \subseteq accepted \cup {o}, o \in accepted' => object.image \in Valid /\ o \in handles',
         refused' \subseteq refused \cup {o}, o \in refused' => object.image \notin Valid,
         blocks' \subseteq Blocks, lost' \subseteq blocks', blobs' \subseteq Images, call' = call
  PROVE  UseInv'
<1>1. /\ objects' \in [Cells -> Object \cup {Absent}]
      /\ objects'[o] = object
      /\ \A p \in Cells : p # o => objects'[p] = objects[p]
  BY StoreObject DEF UseInv
<1>2. object # Absent
  BY AbsentAssumption
<1>3. TypeOK'
  BY <1>1, <1>2 DEF UseInv, TypeOK
<1>4. VerdictFresh'
  BY <1>1 DEF UseInv, VerdictFresh
<1>5. CallsInv'
  BY <1>1 DEF UseInv, TypeOK, CallsInv, Busy, Image, Phases
<1>6. AnswersRight'
  BY <1>1 DEF UseInv, TypeOK, AnswersRight
<1> QED BY <1>3, <1>4, <1>5, <1>6 DEF UseInv

\* Steps of a call other than StoreVerified change nothing but the call and what
\* is known of its object.
LEMMA CallStep ==
  ASSUME UseInv, NEW t \in Threads,
         UNCHANGED <<objects, blocks, lost, handles, blobs>>,
         \A o \in accepted' \ accepted : o \in handles /\ objects[o].image \in Valid,
         \A o \in refused' \ refused : o \in handles /\ objects[o].image \notin Valid,
         NEW new \in [phase : Phases, object : Cells \cup {Absent}, result : Results],
         call' = [call EXCEPT ![t] = new],
         new.phase # "idle" => new.object \in handles /\ new.result = "none",
         new.phase \in {"store", "run"} => objects[new.object].image \in Valid
  PROVE  UseInv'
<1>1. /\ call'[t] = new
      /\ \A u \in Threads : u # t => call'[u] = call[u]
  BY DEF UseInv, TypeOK
<1>2. TypeOK'
  BY DEF UseInv, TypeOK
<1>3. VerdictFresh' /\ AnswersRight'
  BY DEF UseInv, VerdictFresh, AnswersRight
<1>4. CallsInv'
  BY <1>1 DEF UseInv, CallsInv, Image
<1> QED BY <1>2, <1>3, <1>4 DEF UseInv

-----------------------------------------------------------------------------
\* Nothing exists yet.
LEMMA InitIInv == Init => IInv
<1>1. Init => UseInv
  BY AbsentAssumption DEF Init, UseInv, TypeOK, VerdictFresh, CallsInv, AnswersRight, Phases, Results
<1>2. Init => MemoryOwnedOnce
  BY DEF Init, MemoryOwnedOnce, Owners
<1> QED BY <1>1, <1>2 DEF IInv

ObjectOperation ==
  \/ \E o \in Heap, b \in Blocks, image \in Images :
       CompileExpression(o, b, image) \/ Deserialize(o, b, image)
  \/ \E b \in Blocks, image \in Images : DeserializeRefused(b, image)
  \/ \E o \in Areas, image \in Images : DeserializeToMemory(o, image)
  \/ \E o \in Cells : Serialize(o) \/ Free(o)

\* The operations on objects keep what calls rely on.
LEMMA ObjectOperationsKeepUse ==
  ASSUME IInv, ObjectOperation
  PROVE  UseInv'
<1> USE ApiAssumption DEF Cells, IInv
<1>1. ASSUME NEW o \in Heap, objects[o] = Absent
      PROVE  ~Busy(o)
  BY <1>1, AbsentAssumption DEF UseInv, TypeOK, CallsInv, Busy
<1>2. ASSUME NEW o \in Heap, NEW b \in Blocks, NEW image \in Images,
             CompileExpression(o, b, image)
      PROVE  UseInv'
  <2> DEFINE object == [image |-> image, verified |-> FALSE, owns_self |-> TRUE,
                        owned_instructions |-> b]
  <2>1. object \in Object /\ ~object.verified
    BY <1>2 DEF Object, CompileExpression
  <2>2. blocks' \subseteq Blocks /\ lost' \subseteq blocks' /\ blobs' \subseteq Images
    BY <1>2 DEF UseInv, TypeOK, CompileExpression
  <2> QED BY <1>1, <1>2, <2>1, <2>2, ReplaceObject DEF CompileExpression, Publish, Forget, UseInv, TypeOK
<1>3. ASSUME NEW o \in Heap, NEW b \in Blocks, NEW image \in Images,
             Deserialize(o, b, image)
      PROVE  UseInv'
  <2> DEFINE object == [image |-> image, verified |-> TRUE, owns_self |-> TRUE,
                        owned_instructions |-> b]
  <2>1. object \in Object /\ object.image \in Valid
    BY <1>3 DEF Object, Deserialize
  <2>2. blocks' \subseteq Blocks /\ lost' \subseteq blocks' /\ blobs' \subseteq Images
    BY <1>3 DEF UseInv, TypeOK, Deserialize
  <2> QED BY <1>1, <1>3, <2>1, <2>2, ReplaceObject DEF Deserialize, Publish, Accept, UseInv, TypeOK
<1>4. ASSUME NEW b \in Blocks, NEW image \in Images, DeserializeRefused(b, image)
      PROVE  UseInv'
  BY <1>4 DEF DeserializeRefused, answers, UseInv, TypeOK, VerdictFresh, CallsInv, AnswersRight, Image
<1>5. ASSUME NEW o \in Areas, NEW image \in Images, DeserializeToMemory(o, image)
      PROVE  UseInv'
  <2>1. blocks' \subseteq Blocks /\ lost' \subseteq blocks' /\ blobs' \subseteq Images
    BY <1>5 DEF UseInv, TypeOK, DeserializeToMemory
  <2>2. CASE image \in Valid
    <3> DEFINE object == [image |-> image, verified |-> TRUE, owns_self |-> FALSE,
                          owned_instructions |-> NoBlock]
    <3>1. (image \in Valid) = TRUE
      BY <2>2, Zenon
    <3>2. Store(o, object) /\ object \in Object
      BY <1>5, <3>1, Zenon DEF DeserializeToMemory, Object
    <3> QED BY <1>5, <2>1, <2>2, <3>2, ReplaceObject DEF DeserializeToMemory, Publish, Accept, UseInv, TypeOK
  <2>3. CASE image \notin Valid
    <3> DEFINE object == [image |-> image, verified |-> FALSE, owns_self |-> FALSE,
                          owned_instructions |-> NoBlock]
    <3>1. (image \in Valid) = FALSE
      BY <2>3
    <3>2. Store(o, object) /\ object \in Object
      BY <1>5, <3>1, Zenon DEF DeserializeToMemory, Object
    <3> QED BY <1>5, <2>1, <2>3, <3>2, ReplaceObject DEF DeserializeToMemory, Refuse, UseInv, TypeOK
  <2> QED BY <2>2, <2>3
<1>6. ASSUME NEW o \in Cells, Serialize(o)
      PROVE  UseInv'
  <2>1. objects[o].image \in Images
    BY <1>6 DEF Serialize, UseInv, TypeOK, Object
  <2> QED BY <1>6, <2>1 DEF Serialize, answers, UseInv, TypeOK, VerdictFresh, CallsInv, AnswersRight, Image
<1>7. ASSUME NEW o \in Cells, Free(o)
      PROVE  UseInv'
  <2>1. objects[o] \in Object
    BY <1>7 DEF Free, UseInv, TypeOK
  <2>2. objects[o].owned_instructions \notin lost
    <3>1. CASE objects[o].owned_instructions = NoBlock
      BY <3>1 DEF UseInv, TypeOK
    <3>2. CASE objects[o].owned_instructions # NoBlock
      BY <2>1, <3>2, AbsentAssumption DEF MemoryOwnedOnce, Owners
    <3> QED BY <3>1, <3>2
  <2>3. blocks' \subseteq Blocks /\ lost' \subseteq blocks' /\ blobs' \subseteq Images
    BY <1>7, <2>2 DEF Free, UseInv, TypeOK
  <2>4. CASE objects[o].owns_self
    <3>1. /\ objects' = [objects EXCEPT ![o] = Absent]
          /\ handles' = handles \ {o} /\ call' = call
          /\ accepted' = accepted \ {o} /\ refused' = refused \ {o}
          /\ ~Busy(o)
      BY <1>7, <2>4 DEF Free, Store, Forget
    <3>2. TypeOK'
      BY <2>3, <3>1 DEF UseInv, TypeOK
    <3>3. VerdictFresh' /\ AnswersRight'
      BY <3>1 DEF UseInv, TypeOK, VerdictFresh, AnswersRight
    <3>4. CallsInv'
      BY <3>1 DEF UseInv, TypeOK, CallsInv, Busy, Image, Phases
    <3> QED BY <3>2, <3>3, <3>4 DEF UseInv
  <2>5. CASE ~objects[o].owns_self
    <3> DEFINE object == [objects[o] EXCEPT !.image = Empty, !.verified = FALSE,
                                            !.owned_instructions = NoBlock]
    <3>1. object \in Object /\ ~object.verified
      BY <2>1 DEF Object
    <3>2. /\ Store(o, object) /\ ~Busy(o) /\ handles' = handles /\ call' = call
          /\ accepted' = accepted \ {o} /\ refused' = refused \ {o}
      BY <1>7, <2>5 DEF Free, Forget
    <3> QED BY <2>3, <3>1, <3>2, ReplaceObject DEF UseInv, TypeOK
  <2> QED BY <2>4, <2>5
<1> QED BY <1>2, <1>3, <1>4, <1>5, <1>6, <1>7 DEF ObjectOperation

\* A new object in the heap has a new array.
LEMMA CreateKeepsMemory ==
  ASSUME IInv, NEW o \in Heap, NEW b \in Blocks, b \notin blocks,
         NEW object \in Object, object.owns_self, object.owned_instructions = b,
         objects[o] = Absent, Store(o, object),
         blocks' = blocks \cup {b}, lost' = lost
  PROVE  MemoryOwnedOnce'
<1> USE ApiAssumption DEF IInv, Cells
<1>1. /\ objects'[o] = object
      /\ \A p \in Cells : p # o => objects'[p] = objects[p]
  BY StoreObject DEF UseInv
<1>2. Owners' = Owners \cup {o} /\ o \notin Owners
  BY <1>1, AbsentAssumption DEF Owners
<1>3. \A p \in Owners : objects[p].owned_instructions \in blocks
  BY DEF MemoryOwnedOnce
<1>4. (blocks \ lost)' = {objects[p].owned_instructions : p \in Owners}'
  <2>1. b \notin lost
    BY DEF UseInv, TypeOK
  <2>2. {objects[p].owned_instructions : p \in Owners}'
          = {objects[p].owned_instructions : p \in Owners} \cup {b}
    BY <1>1, <1>2 DEF Owners
  <2> QED BY <2>1, <2>2 DEF MemoryOwnedOnce
<1>5. \A p, q \in Owners' : p # q => objects'[p].owned_instructions # objects'[q].owned_instructions
  BY <1>1, <1>2, <1>3 DEF MemoryOwnedOnce, Owners
<1>6. /\ \A p \in Owners' : p \in Heap
      /\ \A p \in Cells : objects'[p] # Absent => (objects'[p].owns_self <=> p \in Heap)
  BY <1>1, <1>2 DEF MemoryOwnedOnce
<1> QED BY <1>4, <1>5, <1>6 DEF MemoryOwnedOnce

\* An object in the caller's memory has no array, before and after.
LEMMA InPlaceKeepsMemory ==
  ASSUME IInv, NEW o \in Areas, NEW object \in Object,
         ~object.owns_self, object.owned_instructions = NoBlock,
         Store(o, object), blocks' = blocks, lost' = lost
  PROVE  MemoryOwnedOnce'
<1> USE ApiAssumption DEF IInv, Cells
<1>1. /\ objects'[o] = object
      /\ \A p \in Cells : p # o => objects'[p] = objects[p]
  BY StoreObject DEF UseInv
<1>2. o \notin Owners /\ o \notin Heap
  BY DEF MemoryOwnedOnce
<1>3. Owners' = Owners
  BY <1>1, <1>2 DEF Owners
<1>4. \A p \in Owners : objects'[p] = objects[p]
  BY <1>1, <1>2 DEF Owners
<1> QED BY <1>1, <1>2, <1>3, <1>4 DEF MemoryOwnedOnce

\* A deleted object takes its array with it.
LEMMA FreeKeepsMemory ==
  ASSUME IInv, NEW o \in Cells, Free(o)
  PROVE  MemoryOwnedOnce'
<1> USE ApiAssumption DEF IInv, Cells
<1> DEFINE b == objects[o].owned_instructions
<1>1. objects[o] \in Object /\ objects[o] # Absent
  BY AbsentAssumption DEF Free, UseInv, TypeOK
<1>2. blocks' = blocks \ {b} /\ lost' = lost
  BY DEF Free
<1>3. CASE objects[o].owns_self
  <2>1. /\ objects'[o] = Absent
        /\ \A p \in Cells : p # o => objects'[p] = objects[p]
    BY <1>3 DEF Free, Store, UseInv, TypeOK
  <2>2. Owners' = Owners \ {o}
    BY <2>1 DEF Owners
  <2>3. \A p \in Owners' : objects'[p] = objects[p] /\ objects[p].owned_instructions # b
    <3>1. CASE b = NoBlock
      BY <2>1, <2>2, <3>1 DEF Owners
    <3>2. CASE b # NoBlock
      BY <1>1, <2>1, <2>2, <3>2 DEF Owners, MemoryOwnedOnce
    <3> QED BY <3>1, <3>2
  <2>4. (blocks \ lost)' = {objects[p].owned_instructions : p \in Owners}'
    <3>1. {objects[p].owned_instructions : p \in Owners}'
            = {objects[p].owned_instructions : p \in Owners \ {o}}
      BY <2>2, <2>3
    <3>2. {objects[p].owned_instructions : p \in Owners \ {o}}
            = {objects[p].owned_instructions : p \in Owners} \ {b}
      BY <2>2, <2>3
    <3> QED BY <1>2, <3>1, <3>2 DEF MemoryOwnedOnce
  <2> QED BY <2>1, <2>2, <2>3, <2>4 DEF MemoryOwnedOnce
<1>4. CASE ~objects[o].owns_self
  <2> DEFINE object == [objects[o] EXCEPT !.image = Empty, !.verified = FALSE,
                                          !.owned_instructions = NoBlock]
  <2>1. o \in Areas /\ b = NoBlock
    BY <1>1, <1>4 DEF MemoryOwnedOnce, Owners
  <2>2. /\ object \in Object
        /\ ~object.owns_self /\ object.owned_instructions = NoBlock
    BY <1>1, <1>4 DEF Object
  <2>3. Store(o, object) /\ blocks' = blocks
    BY <1>2, <1>4, <2>1 DEF Free, UseInv, TypeOK
  <2> QED BY <1>2, <2>1, <2>2, <2>3, InPlaceKeepsMemory
<1> QED BY <1>3, <1>4

\* The operations on objects keep the ownership of arrays.
LEMMA ObjectOperationsKeepMemory ==
  ASSUME IInv, ObjectOperation
  PROVE  MemoryOwnedOnce'
<1> USE ApiAssumption DEF Cells
<1>1. ASSUME NEW o \in Heap, NEW b \in Blocks, NEW image \in Images,
             CompileExpression(o, b, image)
      PROVE  MemoryOwnedOnce'
  BY <1>1, CreateKeepsMemory DEF CompileExpression, Object
<1>2. ASSUME NEW o \in Heap, NEW b \in Blocks, NEW image \in Images,
             Deserialize(o, b, image)
      PROVE  MemoryOwnedOnce'
  BY <1>2, CreateKeepsMemory DEF Deserialize, Object
<1>3. ASSUME NEW b \in Blocks, NEW image \in Images, DeserializeRefused(b, image)
      PROVE  MemoryOwnedOnce'
  BY <1>3 DEF DeserializeRefused, IInv, UseInv, TypeOK, MemoryOwnedOnce, Owners
<1>4. ASSUME NEW o \in Areas, NEW image \in Images, DeserializeToMemory(o, image)
      PROVE  MemoryOwnedOnce'
  <2> DEFINE object(v) == [image |-> image, verified |-> v, owns_self |-> FALSE,
                           owned_instructions |-> NoBlock]
  <2>1. Store(o, object(TRUE)) \/ Store(o, object(FALSE))
    <3>1. (image \in Valid) = TRUE \/ (image \in Valid) = FALSE
      OBVIOUS
    <3>2. Store(o, object(image \in Valid))
      BY <1>4 DEF DeserializeToMemory
    <3> QED BY <3>1, <3>2, Zenon
  <2>2. \A v \in BOOLEAN : object(v) \in Object
    BY DEF Object
  <2> QED BY <1>4, <2>1, <2>2, InPlaceKeepsMemory DEF DeserializeToMemory
<1>5. ASSUME NEW o \in Cells, Serialize(o)
      PROVE  MemoryOwnedOnce'
  BY <1>5 DEF Serialize, IInv, MemoryOwnedOnce, Owners
<1>6. ASSUME NEW o \in Cells, Free(o)
      PROVE  MemoryOwnedOnce'
  BY <1>6, FreeKeepsMemory
<1> QED BY <1>1, <1>2, <1>3, <1>4, <1>5, <1>6 DEF ObjectOperation

-----------------------------------------------------------------------------
\* The steps of mbpf_execute keep the invariant.
LEMMA CallsKeepIInv ==
  ASSUME IInv, NEW t \in Threads,
         \/ \E o \in Cells : BeginExecute(t, o)
         \/ LoadVerified(t) \/ VerifyProgram(t) \/ StoreVerified(t) \/ Run(t)
  PROVE  IInv'
<1> USE DEF IInv
<1>1. call[t] \in [phase : Phases, object : Cells \cup {Absent}, result : Results]
  BY DEF UseInv, TypeOK
<1>2. UNCHANGED <<objects, blocks, lost>> => MemoryOwnedOnce'
  BY DEF MemoryOwnedOnce, Owners
<1>3. ASSUME NEW o \in Cells, BeginExecute(t, o)
      PROVE  IInv'
  BY <1>2, <1>3, CallStep DEF BeginExecute, answers, Phases, Results
<1>4. CASE LoadVerified(t)
  <2> DEFINE new == [call[t] EXCEPT !.phase = IF objects[call[t].object].verified THEN "run" ELSE "verify"]
  <2>1. /\ call' = [call EXCEPT ![t] = new]
        /\ new \in [phase : Phases, object : Cells \cup {Absent}, result : Results]
        /\ new.object = call[t].object /\ new.result = call[t].result
    BY <1>1, <1>4 DEF LoadVerified, Step, Phases
  <2>2. call[t].object \in handles /\ call[t].result = "none"
    BY <1>4 DEF LoadVerified, UseInv, CallsInv
  <2>3. new.phase \in {"store", "run"} => objects[new.object].image \in Valid
    BY <1>1, <2>1, <2>2 DEF UseInv, TypeOK, VerdictFresh
  <2> QED BY <1>2, <1>4, <2>1, <2>2, <2>3, CallStep DEF LoadVerified, answers
<1>5. CASE VerifyProgram(t)
  <2>1. call[t].object \in handles /\ call[t].result = "none"
    BY <1>5 DEF VerifyProgram, UseInv, CallsInv
  <2>2. CASE Image(t) \in Valid
    <3> DEFINE new == [call[t] EXCEPT !.phase = "store"]
    <3>1. /\ call' = [call EXCEPT ![t] = new]
          /\ new \in [phase : Phases, object : Cells \cup {Absent}, result : Results]
          /\ new.object = call[t].object /\ new.result = call[t].result
      BY <1>1, <1>5, <2>2 DEF VerifyProgram, Step, Phases
    <3> QED BY <1>2, <1>5, <2>1, <2>2, <3>1, CallStep DEF VerifyProgram, Image
  <2>3. CASE Image(t) \notin Valid
    <3> DEFINE new == [call[t] EXCEPT !.phase = "idle", !.result = "VERIFICATION"]
    <3>1. /\ call' = [call EXCEPT ![t] = new]
          /\ new \in [phase : Phases, object : Cells \cup {Absent}, result : Results]
          /\ new.phase = "idle"
      BY <1>1, <1>5, <2>3 DEF VerifyProgram, Return, Phases, Results
    <3> QED BY <1>2, <1>5, <2>1, <2>3, <3>1, CallStep DEF VerifyProgram, Image
  <2> QED BY <2>2, <2>3
<1>6. CASE StoreVerified(t)
  <2> DEFINE o == call[t].object
  <2>1. o \in handles /\ objects[o].image \in Valid
    BY <1>6 DEF StoreVerified, UseInv, CallsInv, Image
  <2>2. o \in Cells /\ objects[o] \in Object
    BY <2>1 DEF UseInv, TypeOK
  <2>3. /\ objects'[o] = [objects[o] EXCEPT !.verified = TRUE]
        /\ \A p \in Cells : p # o => objects'[p] = objects[p]
        /\ objects' \in [Cells -> Object \cup {Absent}]
    BY <1>6, <2>2 DEF StoreVerified, UseInv, TypeOK, Object
  <2>4. \A p \in Cells : objects'[p] # Absent <=> objects[p] # Absent
    BY <2>1, <2>2, <2>3, AbsentAssumption DEF Object
  <2>5. \A p \in Cells : objects[p] # Absent =>
           /\ objects'[p].image = objects[p].image
           /\ objects'[p].owns_self = objects[p].owns_self
           /\ objects'[p].owned_instructions = objects[p].owned_instructions
    BY <2>2, <2>3 DEF Object
  <2>6. call' = [call EXCEPT ![t].phase = "run"] /\ UNCHANGED <<blocks, lost, handles, accepted, refused, blobs>>
    BY <1>6 DEF StoreVerified, Step, answers
  <2>7. TypeOK'
    BY <1>1, <2>3, <2>4, <2>6 DEF UseInv, TypeOK, Phases
  <2>8. VerdictFresh'
    <3> SUFFICES ASSUME NEW p \in Cells, objects'[p] # Absent, objects'[p].verified
                 PROVE  objects'[p].image \in Valid
      BY DEF VerdictFresh
    <3>1. CASE p = o
      BY <2>1, <2>2, <2>3, <3>1 DEF Object
    <3>2. CASE p # o
      BY <2>3, <3>2 DEF UseInv, VerdictFresh
    <3> QED BY <3>1, <3>2
  <2>9. CallsInv'
    <3> SUFFICES ASSUME NEW u \in Threads
                 PROVE  /\ call'[u].phase # "idle" => call'[u].object \in handles /\ call'[u].result = "none"
                        /\ call'[u].phase \in {"store", "run"} => objects'[call'[u].object].image \in Valid
      BY <2>6 DEF CallsInv, Image
    <3>1. CASE u = t
      <4>1. call'[t].object = o /\ call'[t].result = call[t].result
        BY <1>1, <2>6 DEF UseInv, TypeOK
      <4>2. call[t].result = "none"
        BY <1>6 DEF StoreVerified, UseInv, CallsInv
      <4>3. objects'[o].image \in Valid
        BY <2>1, <2>2, <2>3 DEF Object
      <4> QED BY <2>1, <3>1, <4>1, <4>2, <4>3
    <3>2. CASE u # t
      <4>1. call'[u] = call[u]
        BY <2>6, <3>2 DEF UseInv, TypeOK
      <4>2. call[u].phase # "idle" => call[u].object \in Cells /\ objects[call[u].object] # Absent
        BY DEF UseInv, CallsInv, TypeOK
      <4> QED BY <2>5, <4>1, <4>2 DEF UseInv, CallsInv, Image
    <3> QED BY <3>1, <3>2
  <2>10. AnswersRight'
    BY <2>5, <2>6 DEF UseInv, TypeOK, AnswersRight
  <2>11. Owners' = Owners
    BY <2>4, <2>5 DEF Owners
  <2>12. \A p \in Owners : objects'[p].owned_instructions = objects[p].owned_instructions
    BY <2>5 DEF Owners
  <2>13. MemoryOwnedOnce'
    BY <2>4, <2>5, <2>6, <2>11, <2>12 DEF MemoryOwnedOnce
  <2> QED BY <2>7, <2>8, <2>9, <2>10, <2>13 DEF UseInv
<1>7. CASE Run(t)
  <2> DEFINE new == [call[t] EXCEPT !.phase = "idle", !.result = "executed"]
  <2>1. /\ call' = [call EXCEPT ![t] = new]
        /\ new \in [phase : Phases, object : Cells \cup {Absent}, result : Results]
        /\ new.phase = "idle"
    BY <1>1, <1>7 DEF Run, Return, Phases, Results
  <2>2. call[t].object \in handles /\ objects[call[t].object].image \in Valid
    BY <1>7 DEF Run, UseInv, CallsInv, Image
  <2> QED BY <1>2, <1>7, <2>1, <2>2, CallStep DEF Run
<1> QED BY <1>3, <1>4, <1>5, <1>6, <1>7

\* Every step keeps the invariant.
LEMMA NextIInv == IInv /\ [Next]_pvars => IInv'
<1> SUFFICES ASSUME IInv, [Next]_pvars PROVE IInv'
  OBVIOUS
<1>1. CASE ObjectOperation
  BY <1>1, ObjectOperationsKeepUse, ObjectOperationsKeepMemory DEF IInv
<1>2. ASSUME NEW t \in Threads,
             \/ \E o \in Cells : BeginExecute(t, o)
             \/ LoadVerified(t) \/ VerifyProgram(t) \/ StoreVerified(t) \/ Run(t)
      PROVE  IInv'
  BY <1>2, CallsKeepIInv
<1>3. CASE UNCHANGED pvars
  BY <1>3 DEF pvars, answers, IInv, UseInv, TypeOK, VerdictFresh, CallsInv, AnswersRight, MemoryOwnedOnce,
              Owners, Image
<1> QED BY <1>1, <1>2, <1>3 DEF Next, ObjectOperation

-----------------------------------------------------------------------------
\* The invariant holds in every state the library and its callers reach.
THEOREM Invariance == Spec => []IInv
<1>1. Init => IInv
  BY InitIInv
<1>2. IInv /\ [Next]_pvars => IInv'
  BY NextIInv
<1> QED BY <1>1, <1>2, PTL DEF Spec

\* Every variable keeps its type, and the caller's handles refer to objects.
THEOREM TypeCorrect == Spec => []TypeOK
<1>1. IInv => TypeOK
  BY DEF IInv, UseInv
<1> QED BY <1>1, Invariance, PTL

\* The remembered verdict is always about the program the object holds now,
\* whatever threads execute it (verified_).
THEOREM VerdictStaysFresh == Spec => []VerdictFresh
<1>1. IInv => VerdictFresh
  BY DEF IInv, UseInv
<1> QED BY <1>1, Invariance, PTL

\* No thread runs a program that the verifier would refuse (mbpf_execute).
THEOREM ExecutionsRunValidPrograms == Spec => []RunsOnlyValid
<1>1. IInv => RunsOnlyValid
  BY DEF IInv, UseInv, CallsInv, RunsOnlyValid
<1> QED BY <1>1, Invariance, PTL

\* Arrays are deleted once, with the object that owns them, and only those of
\* refused programs are lost (mbpf_program_free).
THEOREM MemoryStaysOwned == Spec => []MemoryOwnedOnce
<1>1. IInv => MemoryOwnedOnce
  BY DEF IInv
<1> QED BY <1>1, Invariance, PTL

\* What was accepted once is not refused before it is freed or overwritten, and
\* what was refused once, also as compiled, is not executed (mbpf_execute).
THEOREM AnswersNeverChange == Spec => []AnswersAgree
<1>1. IInv => AnswersAgree
  BY DEF IInv, UseInv, AnswersRight, AnswersAgree
<1> QED BY <1>1, Invariance, PTL
=============================================================================
