--------------------------- MODULE TransferProofs ---------------------------
(***************************************************************************)
(* What holds of every transfer, for any programs, sizes, capacities and   *)
(* number of faults.                                                       *)
(***************************************************************************)
EXTENDS Transfer, SequenceTheorems, TLAPS

(***************************************************************************)
(* The inductive invariant.  That nothing is written past the end of the   *)
(* memory follows from what the two size variables mean, which changes     *)
(* with the step of the protocol: before a call they are the capacity of   *)
(* the memory that is passed to it (or less, after a call that needed      *)
(* less), after a refusal the size to allocate.                            *)
(***************************************************************************)

SenderInv ==
  /\ program \in Programs
  /\ buffer \in Seq(U32)
  /\ size \in 0 .. SizeMax
  /\ sender \in {"ask", "allocate", "fill", "send", "wait"}
  /\ sender # "allocate" => size <= Len(buffer)

ReceiverInv ==
  /\ memory \in Seq(U32)
  /\ memsize \in 0 .. SizeMax
  /\ receiver \in {"wait", "ask", "allocate", "install", "heap", "done"}
  /\ receiver # "allocate" => memsize <= Len(memory)

\* The two take turns, and a blob does not change any more once a program was
\* made of it.
BlobInv ==
  /\ blob \in Seq(U32)
  /\ (sender = "wait") = (receiver # "wait")
  /\ receiver # "done" => installed = NoImage
  /\ receiver = "done" =>
       /\ installed \in Image /\ installed # NoImage /\ Accepts(installed)
       /\ Serialized(installed) = blob

IInv == SenderInv /\ ReceiverInv /\ BlobInv /\ faults \in 0 .. MaxFaults

-----------------------------------------------------------------------------
(* Sizes and memory. *)

\* A size that fits a size_t is not changed by it.
LEMMA SizeTExact == \A n \in 0 .. SizeMax : SizeT(n) = n
<1> SUFFICES ASSUME NEW n \in 0 .. SizeMax PROVE SizeT(n) = n
  OBVIOUS
<1>1. n \in Nat /\ SizeMax \in Nat /\ n < SizeMax + 1
  BY TransferAssumption
<1>2. QED
  BY <1>1 DEF SizeT

LEMMA U32Type ==
  /\ U32 \subseteq Nat /\ 0 \in U32 /\ 0 .. IntMax \subseteq U32
  /\ IntMax \in Nat /\ SizeMax \in Nat /\ ObjectSize \in Nat /\ MaxFaults \in Nat
  /\ HeaderSize = 4 /\ SizeMax >= 4 /\ SizeMax >= ObjectSize
  /\ Magic \in U32 /\ Version \in U32
BY TransferAssumption DEF U32, HeaderSize

LEMMA WordsType == \A n \in Nat : Words(n) \in Seq(U32) /\ Len(Words(n)) = n
BY U32Type DEF Words

\* What fits is written inside the memory.
LEMMA CopiedFits ==
  ASSUME NEW mem \in Seq(U32), NEW data \in Seq(U32), Len(data) <= Len(mem)
  PROVE  Copied(mem, data) \in Seq(U32) /\ Len(Copied(mem, data)) = Len(mem)
<1> DEFINE f == [i \in 1 .. Len(mem) |-> IF i <= Len(data) THEN data[i] ELSE mem[i]]
<1>1. Len(mem) \in Nat /\ Len(data) \in Nat
  OBVIOUS
<1>2. Copied(mem, data) = f
  BY <1>1 DEF Copied
<1>3. ASSUME NEW i \in 1 .. Len(mem) PROVE f[i] \in U32
  BY <1>1
<1>4. f \in Seq(U32) /\ Len(f) = Len(mem)
  BY <1>1, <1>3
<1>5. QED
  BY <1>2, <1>4

\* The words of a program's instructions.
LEMMA CodeType ==
  ASSUME NEW image, image.instructions \in Seq(U32 \X U32)
  PROVE  Code(image) \in Seq(U32) /\ Len(Code(image)) = 2 * Len(image.instructions)
<1> DEFINE n == Len(image.instructions)
<1>1. n \in Nat /\ 2 * n \in Nat
  OBVIOUS
<1>2. ASSUME NEW i \in 1 .. 2 * n
      PROVE  image.instructions[(i + 1) \div 2][2 - (i % 2)] \in U32
  <2>1. (i + 1) \div 2 \in 1 .. n /\ 2 - (i % 2) \in {1, 2}
    BY <1>1
  <2>2. image.instructions[(i + 1) \div 2] \in U32 \X U32
    BY <2>1
  <2>3. QED
    BY <2>1, <2>2
<1>3. QED
  BY <1>1, <1>2 DEF Code

\* The blob of a program whose counts fit their words.
LEMMA SerializedType ==
  ASSUME NEW image, image.instructions \in Seq(U32 \X U32),
         image.register_count \in U32, Len(image.instructions) \in U32
  PROVE  /\ Serialized(image) \in Seq(U32)
         /\ Len(Serialized(image)) = HeaderSize + 2 * Len(image.instructions)
<1>1. Code(image) \in Seq(U32) /\ Len(Code(image)) = 2 * Len(image.instructions)
  BY CodeType
<1> DEFINE h == <<Magic, Version, image.register_count, Len(image.instructions)>>
<1>2. h \in Seq(U32) /\ Len(h) = 4
  BY TransferAssumption
<1>3. h \o Code(image) \in Seq(U32) /\ Len(h \o Code(image)) = 4 + Len(Code(image))
  BY <1>1, <1>2
<1>4. QED
  BY <1>1, <1>3 DEF Serialized, HeaderSize

\* The sizes of a program that is sent are exact.
LEMMA RequiredExact ==
  ASSUME program \in Programs
  PROVE  /\ Required \in 0 .. SizeMax
         /\ Serialized(program) \in Seq(U32)
         /\ Len(Serialized(program)) = Required
<1>1. /\ program.register_count \in U32
      /\ program.instructions \in Seq(U32 \X U32)
      /\ Len(program.instructions) \in U32
      /\ HeaderSize + 2 * Len(program.instructions) <= SizeMax
  BY TransferAssumption DEF U32
<1>2. HeaderSize + 2 * Len(program.instructions) \in 0 .. SizeMax
  BY <1>1, U32Type DEF HeaderSize
<1>3. Required = HeaderSize + 2 * Len(program.instructions)
  BY <1>2, SizeTExact DEF Required, BlobSize
<1>4. QED
  BY <1>1, <1>2, <1>3, SerializedType

\* An element of a concatenation is one of the first or of the second sequence.
LEMMA ConcatElement ==
  ASSUME NEW S, NEW s \in Seq(S), NEW t \in Seq(S), NEW i \in 1 .. Len(s) + Len(t)
  PROVE  (s \o t)[i] = IF i <= Len(s) THEN s[i] ELSE t[i - Len(s)]
OBVIOUS

-----------------------------------------------------------------------------
(* What a blob means. *)

\* A blob whose header is accepted has just the words of its program.
LEMMA HeaderExact ==
  ASSUME NEW b \in Seq(U32), HeaderAccepted(b)
  PROVE  /\ b[1] = Magic /\ b[2] = Version /\ b[3] \in 0 .. IntMax /\ b[4] \in U32
         /\ Len(b) = HeaderSize + 2 * b[4]
<1>1. /\ Len(b) \in Nat /\ Len(b) >= 4
      /\ b[1] = Magic /\ b[2] = Version /\ b[3] <= IntMax
      /\ ~BlobTooLarge(b[4]) /\ BlobSize(b[4]) = Len(b)
  BY DEF HeaderAccepted, HeaderSize, VersionSupported
<1>2. b[3] \in U32 /\ b[4] \in U32 /\ b[3] \in Nat /\ b[4] \in Nat
  <2>1. 3 \in 1 .. Len(b) /\ 4 \in 1 .. Len(b)
    BY <1>1
  <2>2. b[3] \in U32 /\ b[4] \in U32
    BY <2>1
  <2>3. QED
    BY <2>2, U32Type
<1>3. ~(b[4] > (SizeMax - 4) \div 2)
  BY <1>1, U32Type DEF BlobTooLarge
<1>4. 4 + 2 * b[4] \in 0 .. SizeMax
  BY <1>2, <1>3, U32Type
<1>5. SizeT(4 + 2 * b[4]) = 4 + 2 * b[4]
  BY <1>4, SizeTExact
<1>6. Len(b) = 4 + 2 * b[4]
  BY <1>1, <1>5, U32Type DEF BlobSize
<1>7. QED
  BY <1>1, <1>2, <1>6, U32Type

\* The program made of such a blob is one, and the blob is what it is
\* serialized to.
LEMMA LoadedExact ==
  ASSUME NEW b \in Seq(U32), HeaderAccepted(b)
  PROVE  /\ Loaded(b) \in Image
         /\ Loaded(b) # NoImage
         /\ Len(Loaded(b).instructions) = b[4]
         /\ Loaded(b).instructions \in Seq(U32 \X U32)
         /\ Serialized(Loaded(b)) = b
<1> DEFINE p == Loaded(b)
           n == b[4]
           ins == [i \in 1 .. n |-> <<b[HeaderSize + 2 * i - 1], b[HeaderSize + 2 * i]>>]
<1>1. /\ b[1] = Magic /\ b[2] = Version /\ b[3] \in 0 .. IntMax
      /\ n \in Nat /\ n \in U32 /\ Len(b) = 4 + 2 * n
  BY HeaderExact, U32Type
<1> HIDE DEF n
<1>2. p.register_count = b[3] /\ p.instructions = ins /\ p = [register_count |-> b[3], instructions |-> ins]
  BY DEF Loaded, n
<1>3. ASSUME NEW i \in 1 .. n
      PROVE  /\ 4 + 2 * i - 1 \in 1 .. Len(b) /\ 4 + 2 * i \in 1 .. Len(b)
             /\ ins[i] = <<b[4 + 2 * i - 1], b[4 + 2 * i]>> /\ ins[i] \in U32 \X U32
  <2>1. 4 + 2 * i - 1 \in 1 .. Len(b) /\ 4 + 2 * i \in 1 .. Len(b)
    BY <1>1
  <2>2. b[4 + 2 * i - 1] \in U32 /\ b[4 + 2 * i] \in U32
    BY <2>1
  <2>3. ins[i] = <<b[4 + 2 * i - 1], b[4 + 2 * i]>>
    BY U32Type
  <2> HIDE DEF ins
  <2>4. QED
    BY <2>1, <2>2, <2>3
<1> HIDE DEF p
<1>4. ins \in Seq(U32 \X U32) /\ Len(ins) = n
  <2>1. \A i \in 1 .. n : <<b[HeaderSize + 2 * i - 1], b[HeaderSize + 2 * i]>> \in U32 \X U32
    BY <1>3
  <2>2. QED
    BY <1>1, <2>1
<1> HIDE DEF ins
<1>5. p \in Image /\ p # NoImage
  BY <1>1, <1>2, <1>4, U32Type DEF Image, NoImage
<1>6. Code(p) \in Seq(U32) /\ Len(Code(p)) = 2 * n
  BY <1>2, <1>4, CodeType
<1>7. ASSUME NEW j \in 1 .. 2 * n PROVE Code(p)[j] = b[4 + j]
  <2>1. Code(p)[j] = ins[(j + 1) \div 2][2 - (j % 2)]
    BY <1>1, <1>2, <1>4 DEF Code
  <2>2. CASE j % 2 = 0
    <3>1. (j + 1) \div 2 \in 1 .. n /\ 2 * ((j + 1) \div 2) = j /\ 2 - (j % 2) = 2
      BY <1>1, <2>2
    <3>2. QED
      BY <1>3, <2>1, <3>1
  <2>3. CASE j % 2 = 1
    <3>1. (j + 1) \div 2 \in 1 .. n /\ 4 + 2 * ((j + 1) \div 2) - 1 = 4 + j /\ 2 - (j % 2) = 1
      BY <1>1, <2>3
    <3>2. QED
      BY <1>3, <2>1, <3>1
  <2>4. QED
    BY <1>1, <2>2, <2>3
<1>8. Serialized(p) = b
  <2> DEFINE h == <<Magic, Version, b[3], n>>
             s == h \o Code(p)
  <2>1. Serialized(p) = s
    BY <1>2, <1>4 DEF Serialized
  <2>2. h \in Seq(U32) /\ Len(h) = 4
    BY <1>1, TransferAssumption, U32Type DEF U32
  <2>3. s \in Seq(U32) /\ Len(s) = Len(b)
    BY <1>1, <1>6, <2>2
  <2> HIDE DEF h, s
  <2>4. ASSUME NEW i \in 1 .. Len(b) PROVE s[i] = b[i]
    <3>1. i \in 1 .. Len(h) + Len(Code(p))
      BY <1>1, <1>6, <2>2
    <3>2. s[i] = IF i <= Len(h) THEN h[i] ELSE Code(p)[i - Len(h)]
      BY <1>6, <2>2, <3>1, ConcatElement DEF s
    <3>3. CASE i <= 4
      <4>1. s[i] = h[i] /\ i \in {1, 2, 3, 4}
        BY <2>2, <3>2, <3>3
      <4>2. h[1] = Magic /\ h[2] = Version /\ h[3] = b[3] /\ h[4] = n /\ n = b[4]
        BY DEF h, n
      <4>3. QED
        BY <1>1, <4>1, <4>2
    <3>4. CASE i > 4
      <4>1. PICK j \in 1 .. 2 * n : i = 4 + j
        BY <1>1, <3>4
      <4>2. s[i] = Code(p)[j]
        BY <1>1, <2>2, <3>2, <3>4, <4>1
      <4>3. QED
        BY <1>7, <4>1, <4>2
    <3>5. QED
      BY <1>1, <3>3, <3>4
  <2>5. QED
    BY <2>1, <2>3, <2>4
<1>9. QED
  BY <1>2, <1>4, <1>5, <1>8 DEF p, n

\* A program in memory is written inside the memory it was told to fit.
LEMMA MemoryExact ==
  ASSUME NEW b \in Seq(U32), HeaderAccepted(b), ~MemoryTooLarge(b[4])
  PROVE  /\ MemorySize(b[4]) \in 0 .. SizeMax
         /\ Words(ObjectSize) \o Code(Loaded(b)) \in Seq(U32)
         /\ Len(Words(ObjectSize) \o Code(Loaded(b))) = MemorySize(b[4])
<1> DEFINE n == b[4]
<1>1. n \in Nat
  BY HeaderExact, U32Type
<1> HIDE DEF n
<1>2. ~(n > (SizeMax - ObjectSize) \div 2)
  BY DEF MemoryTooLarge, n
<1>3. ObjectSize + 2 * n \in 0 .. SizeMax
  BY <1>1, <1>2, U32Type
<1>4. MemorySize(n) = ObjectSize + 2 * n
  BY <1>3, SizeTExact DEF MemorySize
<1>5. Code(Loaded(b)) \in Seq(U32) /\ Len(Code(Loaded(b))) = 2 * n
  BY LoadedExact, CodeType DEF n
<1>6. Words(ObjectSize) \in Seq(U32) /\ Len(Words(ObjectSize)) = ObjectSize
  BY WordsType, U32Type
<1>7. /\ Words(ObjectSize) \o Code(Loaded(b)) \in Seq(U32)
      /\ Len(Words(ObjectSize) \o Code(Loaded(b))) = ObjectSize + 2 * n
  BY <1>5, <1>6
<1>8. QED
  BY <1>3, <1>4, <1>7 DEF n

-----------------------------------------------------------------------------
(* Every step keeps the invariant, and none but an allocation changes the  *)
(* length of the memory of either side.                                    *)


Kept == IInv' /\ (sender' # "fill" => Len(buffer') = Len(buffer))
              /\ (receiver' # "install" => Len(memory') = Len(memory))

LEMMA QueryBlobSizeKeeps == IInv /\ QueryBlobSize => Kept
BY RequiredExact DEF IInv, SenderInv, ReceiverInv, BlobInv, QueryBlobSize, receivevars, Kept

LEMMA AllocateBufferKeeps == IInv /\ AllocateBuffer => Kept
<1> SUFFICES ASSUME IInv, AllocateBuffer PROVE Kept
  OBVIOUS
<1>1. buffer' \in Seq(U32) /\ Len(buffer') = size /\ size \in Nat
  BY WordsType, U32Type DEF IInv, SenderInv, AllocateBuffer
<1>2. QED
  BY <1>1 DEF IInv, SenderInv, ReceiverInv, BlobInv, AllocateBuffer, receivevars, Kept

LEMMA SerializeKeeps == IInv /\ Serialize => Kept
<1> SUFFICES ASSUME IInv, Serialize PROVE Kept
  OBVIOUS
<1>1. /\ program \in Programs /\ buffer \in Seq(U32) /\ size \in 0 .. SizeMax /\ size <= Len(buffer)
      /\ sender \in {"ask", "fill"} /\ size' = Required
      /\ UNCHANGED <<program, blob, receivevars, faults>>
  BY DEF IInv, SenderInv, Serialize, Told
<1>2. Required \in 0 .. SizeMax /\ Serialized(program) \in Seq(U32) /\ Len(Serialized(program)) = Required
  BY <1>1, RequiredExact
<1>3. CASE TooSmall(size, Required)
  <2>1. sender' = "allocate" /\ buffer' = buffer
    BY <1>3 DEF Serialize
  <2>2. QED
    BY <1>1, <1>2, <2>1 DEF IInv, SenderInv, ReceiverInv, BlobInv, receivevars, Kept
<1>4. CASE ~TooSmall(size, Required)
  <2>1. sender' = "send" /\ buffer' = Copied(buffer, Serialized(program))
    BY <1>4 DEF Serialize
  <2>2. Required <= Len(buffer)
    BY <1>1, <1>2, <1>4, U32Type DEF TooSmall
  <2>3. buffer' \in Seq(U32) /\ Len(buffer') = Len(buffer)
    BY <1>1, <1>2, <2>1, <2>2, CopiedFits
  <2>4. QED
    BY <1>1, <1>2, <2>1, <2>2, <2>3 DEF IInv, SenderInv, ReceiverInv, BlobInv, receivevars, Kept
<1>5. QED
  BY <1>3, <1>4

LEMMA SerializeThrowsKeeps == IInv /\ SerializeThrows => Kept
BY RequiredExact, U32Type
   DEF IInv, SenderInv, ReceiverInv, BlobInv, SerializeThrows, Told, receivevars, Kept

LEMMA SendKeeps == IInv /\ Send => Kept
<1> SUFFICES ASSUME IInv, Send PROVE Kept
  OBVIOUS
<1>1. size \in Nat /\ size <= Len(buffer) /\ buffer \in Seq(U32)
  BY U32Type DEF IInv, SenderInv, Send
<1>2. SubSeq(buffer, 1, size) \in Seq(U32)
  BY <1>1
<1>3. QED
  BY <1>1, <1>2 DEF IInv, SenderInv, ReceiverInv, BlobInv, Send, Kept

\* A refused blob: the sender has his turn.
LEMMA RefuseKeeps ==
  ASSUME IInv, Refuse, receiver \notin {"wait", "done"}, faults' \in 0 .. MaxFaults,
         memory' \in Seq(U32), Len(memory') = Len(memory),
         memsize' \in 0 .. SizeMax, memsize' <= Len(memory)
  PROVE  Kept
<1>1. <<>> \in Seq(U32)
  OBVIOUS
<1>2. QED
  BY <1>1 DEF IInv, SenderInv, ReceiverInv, BlobInv, Refuse, NoBlob, Kept

\* A program that is verified is returned.
LEMMA InstallKeeps ==
  ASSUME IInv, Install, receiver \notin {"wait", "done"}, HeaderAccepted(blob), faults' = faults,
         memory' \in Seq(U32), Len(memory') = Len(memory),
         memsize' \in 0 .. SizeMax, memsize' <= Len(memory)
  PROVE  Kept
<1>1. CASE Verified(blob) = NoImage
  <2>1. Refuse /\ faults' \in 0 .. MaxFaults
    BY <1>1 DEF Install, IInv
  <2>2. QED
    BY <2>1, RefuseKeeps
<1>2. CASE Verified(blob) # NoImage
  <2>1. installed' = Verified(blob) /\ receiver' = "done" /\ UNCHANGED <<sendvars, blob>>
    BY <1>2 DEF Install
  <2>2. blob \in Seq(U32)
    BY DEF IInv, BlobInv
  <2>3. Verified(blob) = Loaded(blob) /\ Accepts(Loaded(blob))
    BY <1>2 DEF Verified
  <2>4. /\ installed' \in Image /\ installed' # NoImage /\ Accepts(installed')
        /\ Serialized(installed') = blob
    BY <2>1, <2>2, <2>3, LoadedExact
  <2>5. QED
    BY <2>1, <2>4 DEF IInv, SenderInv, ReceiverInv, BlobInv, sendvars, Kept
<1>3. QED
  BY <1>1, <1>2

LEMMA DeserializeKeeps == IInv /\ Deserialize => Kept
<1> SUFFICES ASSUME IInv, Deserialize PROVE Kept
  OBVIOUS
<1>1. /\ receiver \in {"ask", "heap"} /\ UNCHANGED <<memory, memsize, faults>>
      /\ IF HeaderAccepted(blob) THEN Install ELSE Refuse
  BY DEF Deserialize
<1>2. /\ faults' \in 0 .. MaxFaults /\ memory' \in Seq(U32) /\ Len(memory') = Len(memory)
      /\ memsize' \in 0 .. SizeMax /\ memsize' <= Len(memory)
  BY <1>1 DEF IInv, ReceiverInv
<1>3. QED
  BY <1>1, <1>2, InstallKeeps, RefuseKeeps

LEMMA DeserializeThrowsKeeps == IInv /\ DeserializeThrows => Kept
<1> SUFFICES ASSUME IInv, DeserializeThrows PROVE Kept
  OBVIOUS
<1>1. receiver \in {"ask", "heap"} /\ Refuse /\ faults' = faults + 1 /\ faults < MaxFaults
      /\ UNCHANGED <<memory, memsize>>
  BY DEF DeserializeThrows
<1>2. /\ faults' \in 0 .. MaxFaults /\ memory' \in Seq(U32) /\ Len(memory') = Len(memory)
      /\ memsize' \in 0 .. SizeMax /\ memsize' <= Len(memory)
  BY <1>1, U32Type DEF IInv, ReceiverInv
<1>3. QED
  BY <1>1, <1>2, RefuseKeeps

LEMMA QueryMemorySizeKeeps == IInv /\ QueryMemorySize => Kept
<1> SUFFICES ASSUME IInv, QueryMemorySize PROVE Kept
  OBVIOUS
<1>1. memsize' \in 0 .. SizeMax
  BY MemoryExact DEF IInv, BlobInv, QueryMemorySize
<1>2. QED
  BY <1>1 DEF IInv, SenderInv, ReceiverInv, BlobInv, QueryMemorySize, sendvars, Kept

LEMMA AllocateMemoryKeeps == IInv /\ AllocateMemory => Kept
<1> SUFFICES ASSUME IInv, AllocateMemory PROVE Kept
  OBVIOUS
<1>1. memory' \in Seq(U32) /\ Len(memory') = memsize /\ memsize \in Nat
  BY WordsType, U32Type DEF IInv, ReceiverInv, AllocateMemory
<1>2. QED
  BY <1>1 DEF IInv, SenderInv, ReceiverInv, BlobInv, AllocateMemory, sendvars, Kept

LEMMA DeserializeToMemoryKeeps == IInv /\ DeserializeToMemory => Kept
<1> SUFFICES ASSUME IInv, DeserializeToMemory PROVE Kept
  OBVIOUS
<1> DEFINE data == Words(ObjectSize) \o Code(Loaded(blob))
<1>1. /\ receiver \in {"ask", "install"} /\ HeaderAccepted(blob) /\ ~MemoryTooLarge(blob[4])
      /\ memsize' = MemorySize(blob[4]) /\ faults' = faults
      /\ IF TooSmall(memsize, memsize')
         THEN /\ receiver' = "allocate"
              /\ UNCHANGED <<sendvars, blob, memory, installed>>
         ELSE memory' = Copied(memory, data) /\ Install
  BY DEF DeserializeToMemory
<1>2. blob \in Seq(U32) /\ memory \in Seq(U32) /\ memsize \in 0 .. SizeMax /\ memsize <= Len(memory)
  BY <1>1 DEF IInv, BlobInv, ReceiverInv
<1>3. memsize' \in 0 .. SizeMax /\ data \in Seq(U32) /\ Len(data) = memsize'
  BY <1>1, <1>2, MemoryExact
<1> HIDE DEF data
<1>4. CASE TooSmall(memsize, memsize')
  BY <1>1, <1>3, <1>4 DEF IInv, SenderInv, ReceiverInv, BlobInv, sendvars, Kept
<1>5. CASE ~TooSmall(memsize, memsize')
  <2>1. memsize' <= Len(memory) /\ Len(data) <= Len(memory)
    BY <1>2, <1>3, <1>5, U32Type DEF TooSmall
  <2>2. memory' \in Seq(U32) /\ Len(memory') = Len(memory) /\ Install
    BY <1>1, <1>2, <1>3, <1>5, <2>1, CopiedFits
  <2>3. QED
    BY <1>1, <1>3, <2>1, <2>2, InstallKeeps
<1>6. QED
  BY <1>4, <1>5

LEMMA RefuseToMemoryKeeps == IInv /\ RefuseToMemory => Kept
<1> SUFFICES ASSUME IInv, RefuseToMemory PROVE Kept
  OBVIOUS
<1>1. /\ receiver \in {"ask", "install"} /\ UNCHANGED <<memory, memsize, faults>>
      /\ Refuse \/ (receiver' = "heap" /\ UNCHANGED <<sendvars, blob, installed>>)
  BY DEF RefuseToMemory
<1>2. /\ faults' \in 0 .. MaxFaults /\ memory' \in Seq(U32) /\ Len(memory') = Len(memory)
      /\ memsize' \in 0 .. SizeMax /\ memsize' <= Len(memory)
  BY <1>1 DEF IInv, ReceiverInv
<1>3. CASE Refuse
  BY <1>1, <1>2, <1>3, RefuseKeeps
<1>4. CASE receiver' = "heap" /\ UNCHANGED <<sendvars, blob, installed>>
  BY <1>1, <1>2, <1>4 DEF IInv, SenderInv, ReceiverInv, BlobInv, sendvars, Kept
<1>5. QED
  BY <1>1, <1>3, <1>4

LEMMA FaultKeeps == IInv /\ Fault => Kept
<1> SUFFICES ASSUME IInv, Fault PROVE Kept
  OBVIOUS
<1>1. faults' \in 0 .. MaxFaults
  BY U32Type DEF IInv, Fault
<1>2. CASE ReplaceProgram
  BY <1>1, <1>2 DEF IInv, SenderInv, ReceiverInv, BlobInv, ReplaceProgram, receivevars, Kept
<1>3. CASE DamageBlob
  <2>1. receiver \in {"ask", "allocate", "install"} /\ UNCHANGED <<sendvars, receivevars>>
    BY <1>3 DEF DamageBlob
  <2>2. blob \in Seq(U32) /\ Damages \subseteq U32
    BY TransferAssumption DEF IInv, BlobInv
  <2>3. ASSUME NEW i \in DOMAIN blob, NEW word \in Damages PROVE [blob EXCEPT ![i] = word] \in Seq(U32)
    BY <2>2
  <2>4. ASSUME NEW n \in 0 .. (Len(blob) - 1) PROVE SubSeq(blob, 1, n) \in Seq(U32)
    BY <2>2
  <2>5. ASSUME NEW word \in Damages PROVE Append(blob, word) \in Seq(U32)
    BY <2>2
  <2>6. blob' \in Seq(U32)
    BY <1>3, <2>3, <2>4, <2>5 DEF DamageBlob
  <2>7. QED
    BY <1>1, <2>1, <2>6
       DEF IInv, SenderInv, ReceiverInv, BlobInv, sendvars, receivevars, Kept
<1>4. CASE LoseBlob
  <2>1. receiver = "ask" /\ Refuse /\ UNCHANGED <<memory, memsize>>
    BY <1>4 DEF LoseBlob
  <2>2. /\ memory' \in Seq(U32) /\ Len(memory') = Len(memory)
        /\ memsize' \in 0 .. SizeMax /\ memsize' <= Len(memory)
    BY <2>1 DEF IInv, ReceiverInv
  <2>3. QED
    BY <1>1, <2>1, <2>2, RefuseKeeps
<1>5. QED
  BY <1>2, <1>3, <1>4 DEF Fault

LEMMA InitKeeps == Init => IInv
<1> SUFFICES ASSUME Init PROVE IInv
  OBVIOUS
<1>1. ASSUME NEW n \in Capacities PROVE Words(n) \in Seq(U32) /\ Len(Words(n)) = n /\ n \in 0 .. SizeMax
  <2>1. n \in 0 .. SizeMax
    BY TransferAssumption
  <2>2. QED
    BY <2>1, WordsType, U32Type
<1>2. buffer \in Seq(U32) /\ Len(buffer) \in 0 .. SizeMax /\ memory \in Seq(U32) /\ Len(memory) \in 0 .. SizeMax
  BY <1>1 DEF Init
<1>3. <<>> \in Seq(U32)
  OBVIOUS
<1>4. QED
  BY <1>2, <1>3, U32Type DEF Init, IInv, SenderInv, ReceiverInv, BlobInv, NoBlob

-----------------------------------------------------------------------------
(* The theorems. *)

LEMMA StepKeeps == IInv /\ [Next]_tvars => Kept \/ (IInv' /\ UNCHANGED tvars)
<1>1. IInv /\ UNCHANGED tvars => IInv'
  BY DEF IInv, SenderInv, ReceiverInv, BlobInv, tvars, sendvars, receivevars
<1>2. QED
  BY <1>1, QueryBlobSizeKeeps, AllocateBufferKeeps, SerializeKeeps, SerializeThrowsKeeps, SendKeeps,
     DeserializeKeeps, DeserializeThrowsKeeps, QueryMemorySizeKeeps, AllocateMemoryKeeps,
     DeserializeToMemoryKeeps, RefuseToMemoryKeeps, FaultKeeps DEF Next, Steps

LEMMA Invariance == Spec => []IInv
<1>1. IInv /\ [Next]_tvars => IInv'
  BY StepKeeps DEF Kept
<1>2. QED
  BY <1>1, InitKeeps, PTL DEF Spec

\* The state stays in its types, and whatever the receiver is returned was
\* accepted by the verifier (mbpf_program_deserialize and _to_memory).
THEOREM TypeCorrect == Spec => []TypeOK
<1>1. IInv => TypeOK
  BY DEF IInv, SenderInv, ReceiverInv, BlobInv, TypeOK
<1>2. QED
  BY <1>1, Invariance, PTL

\* No call writes past the end of the memory it is given (the std::memcpy of
\* mbpf_program_serialize and of mbpf_program_deserialize_to_memory).
THEOREM MemorySafety == Spec => WritesStayInMemory
<1>1. IInv /\ [Next]_tvars =>
        [/\ sender' # "fill" => Len(buffer') = Len(buffer)
         /\ receiver' # "install" => Len(memory') = Len(memory)]_tvars
  BY StepKeeps DEF Kept
<1>2. QED
  BY <1>1, Invariance, PTL DEF Spec, WritesStayInMemory

\* The program that is returned is serialized to the very blob it was made of
\* (parse_serialized_program_header and load_serialized_instructions).
THEOREM BlobsAreExact == Spec => []AcceptedBlobsAreExact
<1>1. IInv => AcceptedBlobsAreExact
  BY DEF IInv, BlobInv, AcceptedBlobsAreExact
<1>2. QED
  BY <1>1, Invariance, PTL

=============================================================================
