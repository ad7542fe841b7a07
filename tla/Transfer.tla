------------------------------ MODULE Transfer ------------------------------
(***************************************************************************)
(* A program goes from one process to another: its sender asks for the     *)
(* size of its blob and has it written to a buffer                         *)
(* (mbpf_program_serialize), its receiver makes a program of the blob in   *)
(* the heap or in memory of his own (mbpf_program_deserialize,             *)
(* mbpf_program_deserialize_to_memory).                                    *)
(*                                                                         *)
(* Sender and receiver follow the protocol of the tests: every call gets   *)
(* the capacity of the memory it is given, and one that was refused is     *)
(* tried again with as much as it asked for.  Meanwhile the program may be *)
(* replaced in place, a blob lost or damaged, and memory run out.          *)
(*                                                                         *)
(* Sizes are counted in words of 32 bits: a header is 4 of them, an        *)
(* instruction 2.                                                          *)
(***************************************************************************)
EXTENDS Integers, Sequences

CONSTANTS
  Programs,       \* the programs that are sent
  Accepts(_),     \* whether the verifier accepts a program
  IntMax,         \* the largest int
  SizeMax,        \* the largest size_t
  ObjectSize,     \* sizeof(mbpf_program_t)
  Magic, Version, \* kProgramBlobMagic, kProgramBlobVersion
  Damages,        \* words that damage puts in the place of another
  Capacities,     \* the sizes of the memory both sides begin with
  MaxFaults       \* bound: replaced programs, damaged and lost blobs, failed allocations

U32        == 0 .. 2 * IntMax + 1
HeaderSize == 4
Image      == [register_count : Int, instructions : Seq(U32 \X U32)]

ASSUME TransferAssumption ==
  /\ IntMax \in Nat
  /\ {SizeMax, ObjectSize, MaxFaults} \subseteq Nat
  /\ SizeMax >= HeaderSize /\ SizeMax >= ObjectSize
  /\ {Magic, Version} \cup Damages \subseteq U32
  /\ Capacities \subseteq 0 .. SizeMax
  /\ \A p \in Programs :
       /\ p.register_count \in 0 .. IntMax
       /\ p.instructions \in Seq(U32 \X U32)
       /\ Len(p.instructions) \in U32
       /\ HeaderSize + 2 * Len(p.instructions) <= SizeMax
       /\ Accepts(p)

NoBlob  == <<>>
NoImage == [register_count |-> -1, instructions |-> <<>>]

VARIABLES
  program,   \* the sender's program
  buffer,    \* his buffer
  size,      \* his *inout_buffer_size
  sender,    \* what he does next: "ask", "allocate", "fill", "send" or "wait"
  blob,      \* the blob at the receiver's
  memory,    \* the receiver's memory for a program
  memsize,   \* his *inout_memory_size
  receiver,  \* "wait", "ask", "allocate", "install", "heap" or "done"
  installed, \* the program he was returned
  faults     \* faults so far

sendvars == <<program, buffer, size, sender>>
receivevars == <<memory, memsize, receiver, installed>>
tvars == <<sendvars, blob, receivevars, faults>>

Words(n) == [i \in 1 .. n |-> 0]

Init ==
  /\ program \in Programs
  /\ buffer \in {Words(n) : n \in Capacities}
  /\ size = Len(buffer)
  /\ sender = "ask"
  /\ blob = NoBlob
  /\ memory \in {Words(n) : n \in Capacities}
  /\ memsize = Len(memory)
  /\ receiver = "wait"
  /\ installed = NoImage
  /\ faults = 0

-----------------------------------------------------------------------------
(* Sizes, as size_t. *)

SizeT(n) == n % (SizeMax + 1)

BlobSize(count)     == SizeT(HeaderSize + 2 * count)
BlobTooLarge(count) == count > (SizeMax - HeaderSize) \div 2
MemorySize(count)   == SizeT(ObjectSize + 2 * count)

\* Mistake: the size of an object is not checked as that of its blob was.
NeverTooLarge(count) == FALSE
MemoryTooLarge(count) == count > (SizeMax - ObjectSize) \div 2

\* Memory of n words after data was copied to its start; it has become longer
\* when the data did not fit.
Copied(mem, data) ==
  [i \in 1 .. (IF Len(data) > Len(mem) THEN Len(data) ELSE Len(mem)) |->
     IF i <= Len(data) THEN data[i] ELSE mem[i]]

\* Mistake: only the instructions have to fit.
TooSmallForCode(provided, required) == provided + HeaderSize < required
TooSmall(provided, required) == provided < required

-----------------------------------------------------------------------------
(* mbpf_program_serialize. *)

\* The instructions, less significant word first.
Code(image) ==
  [i \in 1 .. 2 * Len(image.instructions) |-> image.instructions[(i + 1) \div 2][2 - (i % 2)]]

Serialized(image) ==
  <<Magic, Version, image.register_count, Len(image.instructions)>> \o Code(image)

Required == BlobSize(Len(program.instructions))

\* Without a buffer.
QueryBlobSize ==
  /\ sender = "ask"
  /\ size' = Required
  /\ sender' = "allocate"
  /\ UNCHANGED <<program, buffer, blob, receivevars, faults>>

\* The sender gets a buffer of the size he was told.
AllocateBuffer ==
  /\ sender = "allocate"
  /\ buffer' = Words(size)
  /\ sender' = "fill"
  /\ UNCHANGED <<program, size, blob, receivevars, faults>>

\* Mistake: the required size is told only when the call succeeds.
ToldOnSuccess == IF TooSmall(size, Required) THEN size ELSE Required

\* *inout_buffer_size after the call, whatever it returns.
Told == Required

Serialize ==
  /\ sender \in {"ask", "fill"}
  /\ size' = Told
  /\ IF TooSmall(size, Required)
     THEN /\ sender' = "allocate"
          /\ UNCHANGED buffer
     ELSE /\ sender' = "send"
          /\ buffer' = Copied(buffer, Serialized(program))
  /\ UNCHANGED <<program, blob, receivevars, faults>>

\* The blob cannot be allocated: an error, with the size already told.
SerializeThrows ==
  /\ sender \in {"ask", "fill"}
  /\ faults < MaxFaults
  /\ faults' = faults + 1
  /\ size' = Told
  /\ sender' = "allocate"
  /\ UNCHANGED <<program, buffer, blob, receivevars>>

Send ==
  /\ sender = "send"
  /\ blob' = SubSeq(buffer, 1, size)
  /\ sender' = "wait"
  /\ receiver' = "ask"
  /\ UNCHANGED <<program, buffer, size, memory, memsize, installed, faults>>

-----------------------------------------------------------------------------
(* mbpf_program_deserialize and mbpf_program_deserialize_to_memory. *)

\* Mistake: any version will do.
AnyVersion(b) == TRUE
VersionSupported(b) == b[2] = Version

\* parse_serialized_program_header.
HeaderAccepted(b) ==
  /\ Len(b) >= HeaderSize
  /\ b[1] = Magic
  /\ VersionSupported(b)
  /\ b[3] <= IntMax
  /\ ~BlobTooLarge(b[4])
  /\ BlobSize(b[4]) = Len(b)

\* load_serialized_instructions and the fields of the object.
Loaded(b) ==
  [register_count |-> b[3],
   instructions   |-> [i \in 1 .. b[4] |-> <<b[HeaderSize + 2 * i - 1], b[HeaderSize + 2 * i]>>]]

\* Mistake: a program is returned whatever the verifier says of it.
Unverified(b) == Loaded(b)

\* *out_program.
Verified(b) == IF Accepts(Loaded(b)) THEN Loaded(b) ELSE NoImage

\* The call is refused for its blob and the receiver asks for another one.
Refuse ==
  /\ receiver' = "wait"
  /\ sender' = "send"
  /\ blob' = NoBlob
  /\ UNCHANGED <<program, buffer, size, installed>>

\* The rest of a call with a good header: the program is verified.
Install ==
  IF Verified(blob) = NoImage
  THEN Refuse
  ELSE /\ installed' = Verified(blob)
       /\ receiver' = "done"
       /\ UNCHANGED <<sendvars, blob>>

Deserialize ==
  /\ receiver \in {"ask", "heap"}
  /\ IF HeaderAccepted(blob) THEN Install ELSE Refuse
  /\ UNCHANGED <<memory, memsize, faults>>

\* The object or its instructions cannot be allocated.
DeserializeThrows ==
  /\ receiver \in {"ask", "heap"}
  /\ faults < MaxFaults
  /\ faults' = faults + 1
  /\ Refuse
  /\ UNCHANGED <<memory, memsize>>

\* Without memory.
QueryMemorySize ==
  /\ receiver = "ask"
  /\ HeaderAccepted(blob)
  /\ ~MemoryTooLarge(blob[4])
  /\ memsize' = MemorySize(blob[4])
  /\ receiver' = "allocate"
  /\ UNCHANGED <<sendvars, blob, memory, installed, faults>>

AllocateMemory ==
  /\ receiver = "allocate"
  /\ memory' = Words(memsize)
  /\ receiver' = "install"
  /\ UNCHANGED <<sendvars, blob, memsize, installed, faults>>

DeserializeToMemory ==
  /\ receiver \in {"ask", "install"}
  /\ HeaderAccepted(blob)
  /\ ~MemoryTooLarge(blob[4])
  /\ memsize' = MemorySize(blob[4])
  /\ IF TooSmall(memsize, memsize')
     THEN /\ receiver' = "allocate"
          /\ UNCHANGED <<sendvars, blob, memory, installed>>
     ELSE /\ memory' = Copied(memory, Words(ObjectSize) \o Code(Loaded(blob)))
          /\ Install
  /\ UNCHANGED faults

\* Either call, with or without memory, on a bad blob; or the size of the
\* program in memory is out of range and the receiver turns to the heap.
RefuseToMemory ==
  /\ receiver \in {"ask", "install"}
  /\ \/ ~HeaderAccepted(blob) /\ Refuse
     \/ /\ HeaderAccepted(blob)
        /\ MemoryTooLarge(blob[4])
        /\ receiver' = "heap"
        /\ UNCHANGED <<sendvars, blob, installed>>
  /\ UNCHANGED <<memory, memsize, faults>>

-----------------------------------------------------------------------------
(* What may go wrong meanwhile. *)

\* Another program takes the place of the sender's, in his memory.
ReplaceProgram ==
  /\ program' \in Programs \ {program}
  /\ UNCHANGED <<buffer, size, sender, blob, receivevars>>

\* A word changes, or the blob is cut short or grows, also between two calls
\* of the receiver.
DamageBlob ==
  /\ receiver \in {"ask", "allocate", "install"}
  /\ \/ \E i \in DOMAIN blob, word \in Damages : blob' = [blob EXCEPT ![i] = word]
     \/ \E n \in 0 .. (Len(blob) - 1) : blob' = SubSeq(blob, 1, n)
     \/ \E word \in Damages : blob' = Append(blob, word)
  /\ Len(blob') <= SizeMax
  /\ UNCHANGED <<sendvars, receivevars>>

\* The sender repeats what was lost.
LoseBlob ==
  /\ receiver = "ask"
  /\ Refuse
  /\ UNCHANGED <<memory, memsize>>

Fault ==
  /\ faults < MaxFaults
  /\ faults' = faults + 1
  /\ ReplaceProgram \/ DamageBlob \/ LoseBlob

Steps ==
  \/ QueryBlobSize \/ AllocateBuffer \/ Serialize \/ Send
  \/ Deserialize \/ QueryMemorySize \/ AllocateMemory \/ DeserializeToMemory \/ RefuseToMemory

Next == Steps \/ SerializeThrows \/ DeserializeThrows \/ Fault

Spec == Init /\ [][Next]_tvars

\* Sender and receiver go on until the program is installed.
FairSpec == Spec /\ WF_tvars(Steps)

-----------------------------------------------------------------------------
(* Properties. *)

\* Type invariant; the receiver is returned only what the verifier accepts.
TypeOK ==
  /\ program \in Programs
  /\ buffer \in Seq(U32) /\ memory \in Seq(U32)
  /\ {size, memsize} \subseteq 0 .. SizeMax
  /\ sender \in {"ask", "allocate", "fill", "send", "wait"}
  /\ blob \in Seq(U32)
  /\ receiver \in {"wait", "ask", "allocate", "install", "heap", "done"}
  /\ installed = NoImage \/ (installed \in Image /\ Accepts(installed))
  /\ (receiver = "done") = (installed # NoImage)
  /\ faults \in 0 .. MaxFaults

\* No call writes past the end of the memory it is given: only its owner's
\* allocation changes the length of a buffer, whatever the blob says and
\* wherever the sizes end up that both sides pass around.
WritesStayInMemory ==
  [][/\ sender' # "fill" => Len(buffer') = Len(buffer)
     /\ receiver' # "install" => Len(memory') = Len(memory)]_tvars

\* A blob that is accepted is the one its program would be serialized to:
\* no two blobs mean the same program, and none is accepted in part or with
\* more than a program in it.
AcceptedBlobsAreExact == receiver = "done" => Serialized(installed) = blob

\* What the size arguments are for: after a refusal, for a buffer that is too
\* small or because the program has grown, the size the caller was told is
\* enough the next time, so that the program arrives in the end.
TransferCompletes == <>(receiver = "done")
=============================================================================
