---------------------------- MODULE SerialBoot_proof ----------------------------
(***************************************************************************)
(* Proofs about the serial boot of SerialBoot, for images, memories and    *)
(* receive buffers of any size, any loss and any number of runs.           *)
(***************************************************************************)
EXTENDS SerialBoot, Integers, SequenceTheorems, TLAPS

(* Each image leaves room for the other, and both for the device tree,      *)
(* whichever place it is stored in.                                         *)
AllFit ==
  \A x \in Image : Size[x] <= RAMFS_BASE /\ RAMFS_BASE + Size[x] <= DTB_BASE

-----------------------------------------------------------------------------
(* Every byte of the script is a byte.                                      *)
LEMMA WordType ==
  ASSUME NEW f \in {"magic", "size", "crc"}, NEW x \in Image \cup {"any"}
  PROVE  WordOf(f, x) \in Seq(Bytes) /\ Len(WordOf(f, x)) = 2
  <1>1. \A i \in 1 .. 2 : Byte(f, x, i) \in Bytes
    BY DEF Byte, Bytes
  <1> QED  BY <1>1 DEF WordOf

LEMMA PayloadType ==
  ASSUME NEW x \in Image
  PROVE  Payload(x) \in Seq(Bytes) /\ Len(Payload(x)) = Size[x]
  <1>1. \A i \in 1 .. Size[x] : Byte("data", x, i) \in Bytes
    BY SerialAssumption DEF Byte, Bytes
  <1> QED  BY <1>1, SerialAssumption DEF Payload

LEMMA FrameType == ASSUME NEW x \in Image PROVE FrameOf(x) \in Seq(Bytes)
  BY WordType, PayloadType DEF FrameOf, Magic

LEMMA ScriptType == Script \in Seq(Bytes)
  BY FrameType DEF Script, Image

LEMMA LengthBound == dtb_len \in 0 .. DTB_SIZE
  BY SerialAssumption DEF dtb_len

-----------------------------------------------------------------------------
LEMMA TypeInit == Init => TypeOK
  <1> SUFFICES ASSUME Init PROVE TypeOK
    OBVIOUS
  <1>1. \A a \in Address : mem[a] \in Bytes
    BY DEF Init, Byte, Bytes
  <1>2. <<>> \in Seq(Bytes) /\ Len(<<>>) = 0
    OBVIOUS
  <1>3. sent \in 0 .. Len(Script)
    BY ScriptType, LenProperties DEF Init
  <1>4. DOMAIN mem = Address /\ slot \in Image
    BY DEF Init, Image
  <1>5. runs \in 1 .. MaxRuns /\ lost \in 0 .. MaxLost
    BY SerialAssumption DEF Init
  <1>6. length \in 0 .. DDR2_SIZE /\ Len(fifo) <= FifoSize /\ Len(frame) <= length + 5
    BY <1>2, SerialAssumption DEF Init
  <1> QED  BY <1>1, <1>2, <1>3, <1>4, <1>5, <1>6 DEF Init, TypeOK

LEMMA HostType == ASSUME TypeOK, Send \/ Lose \/ Rerun PROVE TypeOK'
  <1>1. UNCHANGED board
    BY DEF Send, Lose, Rerun
  <1>2. /\ sent' \in 0 .. Len(Script) /\ runs' \in 1 .. MaxRuns
        /\ lost' \in 0 .. MaxLost
    <2> USE ScriptType, LenProperties, SerialAssumption DEF TypeOK
    <2>1. CASE Send
      BY <2>1 DEF NextByte, Send
    <2>2. CASE Lose
      BY <2>2 DEF NextByte, Lose
    <2>3. CASE Rerun
      BY <2>3 DEF Rerun
    <2> QED  BY <2>1, <2>2, <2>3
  <1>3. fifo' \in Seq(Bytes) /\ Len(fifo') <= FifoSize
    <2>1. CASE Send
      <3>1. sent + 1 \in 1 .. Len(Script)
        BY <2>1, ScriptType, LenProperties DEF NextByte, Send, TypeOK
      <3>2. Script[sent + 1] \in Bytes
        BY <3>1, ScriptType, ElementOfSeq
      <3> QED  BY <2>1, <3>2, SerialAssumption DEF NextByte, Send, Deliver, TypeOK
    <2>2. CASE Lose \/ Rerun
      BY <2>2 DEF NextByte, Lose, Rerun, TypeOK
    <2> QED  BY <2>1, <2>2
  <1> QED  BY <1>1, <1>2, <1>3 DEF TypeOK, board

LEMMA StartType == ASSUME TypeOK, Started \/ Printed \/ Reboot PROVE TypeOK'
  <1>1. CASE Started
    <2>1. DOMAIN mem' = Address /\ \A a \in Address : mem'[a] \in Bytes
      <3>1. \A a \in DTB_BASE .. DTB_BASE + dtb_len - 1 :
              Byte("dtb", "any", a - DTB_BASE + 1) \in Bytes
        BY SerialAssumption, LengthBound DEF Byte, Bytes
      <3> QED  BY <1>1, <3>1 DEF Started, copy_dtb, TypeOK
    <2>2. <<>> \in Seq(Bytes) /\ Len(<<>>) <= 5 /\ 0 \in 0 .. DDR2_SIZE
      BY SerialAssumption
    <2> QED  BY <1>1, <2>1, <2>2 DEF Started, TypeOK, host, Image
  <1>2. CASE Printed
    BY <1>2 DEF Printed, TypeOK, host
  <1>3. CASE Reboot
    <2>1. <<>> \in Seq(Bytes) /\ Len(<<>>) <= FifoSize
      BY SerialAssumption
    <2> QED  BY <1>3, <2>1 DEF Reboot, TypeOK, host
  <1> QED  BY <1>1, <1>2, <1>3

(* A byte that is read is a byte, and leaves the FIFO.                      *)
LEMMA ReadByte ==
  ASSUME TypeOK, Read
  PROVE  /\ Head(fifo) \in Bytes
         /\ fifo' \in Seq(Bytes) /\ Len(fifo') <= FifoSize
         /\ Append(frame, Head(fifo)) \in Seq(Bytes)
         /\ Len(Append(frame, Head(fifo))) = Len(frame) + 1
         /\ Append(frame, Head(fifo))[Len(frame) + 1] = Head(fifo)
         /\ \A n \in 1 .. Len(frame) : Append(frame, Head(fifo))[n] = frame[n]
         /\ Len(frame) \in Nat
  <1>1. Head(fifo) \in Bytes
    BY DEF TypeOK, Read
  <1>2. fifo' \in Seq(Bytes) /\ Len(fifo') <= FifoSize
    BY SerialAssumption DEF TypeOK, Read
  <1> QED  BY <1>1, <1>2 DEF TypeOK

(* A size word claims a number, whatever its bytes are.                     *)
LEMMA ClaimType == ASSUME NEW word, NEW size \in Claims(word) PROVE size \in Nat
  BY SerialAssumption DEF Claims, Image

(* The header ends in a panic, or with a size that the memory has room for. *)
LEMMA HeaderCases ==
  ASSUME NEW byte, Header(byte)
  PROVE  \/ Fail
         \/ /\ frame' = Append(frame, byte) /\ length' \in 0 .. DDR2_SIZE
            /\ SubSeq(Append(frame, byte), 1, 2) = Magic
            /\ length' \in Claims(SubSeq(Append(frame, byte), 3, 4))
            /\ busy' = TRUE /\ UNCHANGED <<phase, slot, mem>>
  <1> DEFINE header == Append(frame, byte)
  <1>1. PICK size \in Claims(SubSeq(header, 3, 4)) :
          IF SubSeq(header, 1, 2) # Magic \/ size > DDR2_SIZE
          THEN Fail
          ELSE /\ frame' = header /\ length' = size
               /\ busy' = TRUE /\ UNCHANGED <<phase, slot, mem>>
    BY DEF Header
  <1>2. ~(size > DDR2_SIZE) => size \in 0 .. DDR2_SIZE
    BY ClaimType, SerialAssumption
  <1> HIDE DEF header
  <1>3. CASE SubSeq(header, 1, 2) # Magic \/ size > DDR2_SIZE
    BY <1>1, <1>3
  <1>4. CASE ~(SubSeq(header, 1, 2) # Magic \/ size > DDR2_SIZE)
    BY <1>1, <1>2, <1>4 DEF header
  <1> QED  BY <1>3, <1>4

(* The checksum ends in a panic, in the next image or in the kernel.        *)
LEMMA TrailerCases ==
  ASSUME NEW byte, Trailer(byte)
  PROVE  \/ Fail
         \/ /\ Checked(Append(frame, byte))
            /\ \/ slot = "kernel" /\ slot' = "ramfs" /\ UNCHANGED phase
               \/ slot # "kernel" /\ phase' = "running" /\ UNCHANGED slot
            /\ busy' = TRUE /\ frame' = <<>> /\ length' = 0
            /\ UNCHANGED mem
  BY DEF Trailer

LEMMA ReadType == ASSUME TypeOK, Read PROVE TypeOK'
  <1> DEFINE byte == Head(fifo)
  <1>1. /\ byte \in Bytes
        /\ fifo' \in Seq(Bytes) /\ Len(fifo') <= FifoSize
        /\ Append(frame, byte) \in Seq(Bytes)
        /\ Len(Append(frame, byte)) = Len(frame) + 1
        /\ Len(frame) \in Nat
    BY ReadByte
  <1>2. UNCHANGED <<sent, runs, lost>>
    BY DEF Read, host
  <1> HIDE DEF byte
  <1>3. CASE HeaderByte(byte)
    BY <1>1, <1>2, <1>3 DEF HeaderByte, Take, TypeOK
  <1>4. CASE Header(byte)
    <2>1. CASE Fail
      BY <1>1, <1>2, <2>1 DEF Fail, TypeOK
    <2>2. CASE frame' = Append(frame, byte) /\ length' \in 0 .. DDR2_SIZE
               /\ busy' = TRUE /\ UNCHANGED <<phase, slot, mem>>
      <3>1. Len(frame') <= length' + 5
        BY <1>1, <1>4, <2>2 DEF Header
      <3> QED  BY <1>1, <1>2, <2>2, <3>1 DEF TypeOK
    <2> QED  BY <1>4, <2>1, <2>2, HeaderCases
  <1>5. CASE PayloadByte(byte)
    <2>1. DOMAIN mem' = Address /\ \A a \in Address : mem'[a] \in Bytes
      BY <1>1, <1>5 DEF PayloadByte, TypeOK
    <2> QED  BY <1>1, <1>2, <1>5, <2>1 DEF PayloadByte, TypeOK
  <1>6. CASE CrcByte(byte)
    BY <1>1, <1>2, <1>6 DEF CrcByte, Take, TypeOK
  <1>7. CASE Trailer(byte)
    <2>1. <<>> \in Seq(Bytes) /\ Len(<<>>) <= 5 /\ 0 \in 0 .. DDR2_SIZE
      BY SerialAssumption
    <2>2. CASE Fail
      BY <1>1, <1>2, <2>2 DEF Fail, TypeOK
    <2>3. CASE /\ slot' \in Image /\ phase' \in {"loading", "running"}
               /\ busy' = TRUE /\ frame' = <<>> /\ length' = 0
               /\ UNCHANGED mem
      BY <1>1, <1>2, <2>1, <2>3 DEF TypeOK
    <2>4. phase = "loading" /\ slot \in Image
      BY DEF Read, TypeOK
    <2> QED  BY <1>7, <2>2, <2>3, <2>4, TrailerCases DEF Image
  <1> QED  BY <1>3, <1>4, <1>5, <1>6, <1>7 DEF Read, byte

(* Bytes, frames and memory have their types in every reachable state.      *)
THEOREM TypeCorrect == Spec => []TypeOK
<1>1. TypeOK /\ [Next]_vars => TypeOK'
  <2>1. TypeOK /\ Next => TypeOK'
    BY HostType, StartType, ReadType DEF Next
  <2>2. TypeOK /\ UNCHANGED vars => TypeOK'
    BY DEF TypeOK, vars, host, board
  <2> QED  BY <2>1, <2>2
<1> QED
  BY <1>1, TypeInit, PTL DEF Spec

-----------------------------------------------------------------------------
(* What memory holds while the loader works.                                *)

(* The payload read so far is where the slot is.                            *)
Stored ==
  phase = "loading" =>
    \A n \in 5 .. Len(frame) :
      n <= length + 4 /\ Base(slot) + n - 5 \in Address
        => mem[Base(slot) + n - 5] = frame[n]

(* While the ramfs comes, a whole image is where the kernel goes.           *)
KernelThere ==
  phase = "loading" /\ slot = "ramfs" => \E x \in Image : Holds("kernel", x)

(* The device tree is there, unless this frame's size reaches into it.      *)
TreeThere ==
  phase = "loading" /\ (Len(frame) <= 4 \/ Base(slot) + length <= DTB_BASE)
    => DtbHas(dtb_len)

IInv ==
  /\ TypeOK
  /\ Stored /\ KernelThere /\ TreeThere
  /\ OnlyWholeImages /\ DtbKept

(* A frame that passes the checksum is an image, stored whole, that stays   *)
(* clear of the device tree; its last byte tells which.                     *)
LEMMA Whole ==
  ASSUME AllFit, TypeOK, Stored, phase = "loading", NEW byte \in Bytes,
         Len(frame) = length + 5, Checked(Append(frame, byte))
  PROVE  /\ Base(slot) + length <= DTB_BASE
         /\ \E x \in Image : Holds(slot, x) /\ byte = Byte("crc", x, 2)
  <1> DEFINE all == Append(frame, byte)
             paid == SubSeq(all, 5, length + 4)
  <1>1. PICK x \in Image :
          /\ paid = Payload(x)
          /\ SubSeq(all, length + 5, length + 6) = WordOf("crc", x)
    BY DEF Checked, CrcOf
  <1>2. /\ length \in Nat /\ slot \in Image /\ frame \in Seq(Bytes)
        /\ Size[x] \in Nat /\ RAMFS_BASE \in Nat /\ DTB_BASE \in Nat /\ DDR2_SIZE \in Nat
        /\ DTB_SIZE \in Nat /\ DTB_BASE <= DDR2_SIZE
        /\ Size[x] <= RAMFS_BASE /\ RAMFS_BASE + Size[x] <= DTB_BASE
    BY SerialAssumption DEF TypeOK, AllFit
  <1>3. all \in Seq(Bytes) /\ Len(all) = length + 6
    BY <1>2
  <1>4. /\ Len(paid) = length
        /\ \A i \in 1 .. length : paid[i] = all[4 + i]
    BY <1>2, <1>3, SubSeqProperties
  <1>5. length = Size[x]
    BY <1>1, <1>4, PayloadType
  <1>6. Base(slot) \in Nat /\ Base(slot) + length <= DTB_BASE
    BY <1>2, <1>5 DEF Base
  <1>7. ASSUME NEW i \in 1 .. Size[x]
        PROVE  /\ Base(slot) + i - 1 \in Address
               /\ mem[Base(slot) + i - 1] = Byte("data", x, i)
    <2>0. i \in Nat /\ 1 <= i /\ i <= length
      BY <1>2, <1>5
    <2> HIDE DEF paid
    <2>1. Base(slot) + i - 1 \in Address
      <3>1. /\ Base(slot) + i - 1 \in Nat
            /\ Base(slot) + i - 1 <= DTB_BASE - 1
        BY <1>2, <1>6, <2>0
      <3> QED  BY <1>2, <3>1 DEF Address
    <2>2. paid[i] = Byte("data", x, i)
      BY <1>1, <1>2 DEF Payload
    <2>3. frame[4 + i] = all[4 + i]
      BY <1>2, <1>5
    <2>4. /\ 4 + i \in 5 .. Len(frame) /\ 4 + i <= length + 4
          /\ Base(slot) + (4 + i) - 5 = Base(slot) + i - 1
      BY SMTT(30), <1>2, <1>5, <1>6
    <2>5. mem[Base(slot) + (4 + i) - 5] = frame[4 + i]
      BY <2>1, <2>4 DEF Stored
    <2> QED  BY <1>4, <1>5, <2>1, <2>2, <2>3, <2>4, <2>5
  <1>8. byte = Byte("crc", x, 2)
    <2>1. length + 5 \in 1 .. Len(all) /\ length + 6 \in 1 .. Len(all)
      BY <1>2, <1>3
    <2>2. SubSeq(all, length + 5, length + 6)[2] = all[(length + 5) + 2 - 1]
      BY <1>2, <1>3, <2>1, SubSeqProperties
    <2>3. all[length + 6] = byte
      BY <1>2
    <2>4. (length + 5) + 2 - 1 = length + 6
      BY <1>2
    <2>5. WordOf("crc", x)[2] = Byte("crc", x, 2)
      BY DEF WordOf
    <2> QED  BY <1>1, <2>2, <2>3, <2>4, <2>5
  <1> QED  BY <1>6, <1>7, <1>8 DEF Holds

-----------------------------------------------------------------------------
LEMMA InvInit == Init => IInv
  BY TypeInit
     DEF Init, IInv, Stored, KernelThere, TreeThere, OnlyWholeImages, DtbKept

(* What neither memory nor the loader's place in it loses, stays.           *)
LEMMA MemorySame ==
  ASSUME UNCHANGED <<phase, slot, frame, length, mem>>,
         Stored /\ KernelThere /\ TreeThere /\ OnlyWholeImages /\ DtbKept
  PROVE  (Stored /\ KernelThere /\ TreeThere /\ OnlyWholeImages /\ DtbKept)'
  BY DEF Stored, KernelThere, TreeThere, OnlyWholeImages, DtbKept, Holds, DtbHas

(* Outside the loop that loads and before the kernel, nothing is promised.  *)
LEMMA NothingPromised ==
  ASSUME phase' \in {"starting", "panic"}
  PROVE  (Stored /\ KernelThere /\ TreeThere /\ OnlyWholeImages /\ DtbKept)'
  BY DEF Stored, KernelThere, TreeThere, OnlyWholeImages, DtbKept

LEMMA StartKeeps ==
  ASSUME TypeOK, Started
  PROVE  (Stored /\ KernelThere /\ TreeThere /\ OnlyWholeImages /\ DtbKept)'
  <1>1. mem' = copy_dtb /\ phase' = "loading" /\ slot' = "kernel" /\ frame' = <<>>
    BY DEF Started
  <1>2. DtbHas(dtb_len)'
    <2> SUFFICES ASSUME NEW i \in 1 .. dtb_len
                 PROVE  mem'[DTB_BASE + i - 1] = Byte("dtb", "any", i)
      BY DEF DtbHas, dtb_len
    <2>1. /\ DTB_BASE + i - 1 \in DTB_BASE .. DTB_BASE + dtb_len - 1
          /\ DTB_BASE + i - 1 \in Address
          /\ (DTB_BASE + i - 1) - DTB_BASE + 1 = i
      BY LengthBound, SerialAssumption DEF Address
    <2> QED  BY <1>1, <2>1 DEF copy_dtb
  <1> QED  BY <1>1, <1>2 DEF Stored, KernelThere, TreeThere, OnlyWholeImages, DtbKept

LEMMA HeaderKeeps ==
  ASSUME IInv, Read, HeaderByte(Head(fifo)) \/ Header(Head(fifo))
  PROVE  (Stored /\ KernelThere /\ TreeThere /\ OnlyWholeImages /\ DtbKept)'
  <1>1. phase = "loading" /\ Len(frame) \in Nat /\ Len(frame) <= 3
    <2>1. phase = "loading" /\ Len(frame) \in Nat
      BY DEF Read, IInv, TypeOK
    <2>2. CASE HeaderByte(Head(fifo))
      BY <2>1, <2>2 DEF HeaderByte
    <2>3. CASE Header(Head(fifo))
      BY <2>1, <2>3 DEF Header
    <2> QED  BY <2>1, <2>2, <2>3
  <1>2. CASE Fail
    BY <1>2, NothingPromised DEF Fail
  <1>3. CASE frame' = Append(frame, Head(fifo)) /\ UNCHANGED <<phase, slot, mem>>
    <2>1. Len(frame') <= 4
      BY <1>1, <1>3, ReadByte DEF IInv
    <2>2. \A n \in 5 .. Len(frame') : FALSE
      BY <1>1, <1>3, <2>1, ReadByte DEF IInv
    <2>3. DtbHas(dtb_len)'
      BY <1>1, <1>3 DEF IInv, TreeThere, DtbHas, dtb_len
    <2> QED  BY <1>1, <1>3, <2>2, <2>3
             DEF IInv, Stored, KernelThere, TreeThere, OnlyWholeImages, DtbKept, Holds
  <1> QED  BY <1>2, <1>3, HeaderCases DEF HeaderByte, Take

(* A byte of the ramfs is stored beyond the kernel, whatever its frame says. *)
LEMMA KernelKept ==
  ASSUME AllFit, TypeOK, PayloadByte(Head(fifo)), slot = "ramfs",
         NEW x \in Image, Holds("kernel", x)
  PROVE  Holds("kernel", x)'
  <1>1. /\ mem' = IF Cell \in Address THEN [mem EXCEPT ![Cell] = Head(fifo)] ELSE mem
        /\ Len(frame) \in 4 .. length + 3
    BY DEF PayloadByte
  <1>2. /\ length \in Nat /\ DOMAIN mem = Address
        /\ RAMFS_BASE \in Nat /\ Size[x] \in Nat /\ Size[x] <= RAMFS_BASE
    BY SerialAssumption DEF TypeOK, AllFit
  <1>3. \A i \in 1 .. Size[x] : Base("kernel") + i - 1 # Cell
    BY <1>1, <1>2 DEF Base, Cell
  <1> QED  BY <1>1, <1>2, <1>3 DEF Holds, Base, Address

LEMMA PayloadKeeps ==
  ASSUME AllFit, IInv, Read, PayloadByte(Head(fifo))
  PROVE  (Stored /\ KernelThere /\ TreeThere /\ OnlyWholeImages /\ DtbKept)'
  <1> DEFINE byte == Head(fifo)
  <1>1. /\ phase = "loading" /\ phase' = phase /\ slot' = slot /\ length' = length
        /\ frame' = Append(frame, byte)
        /\ mem' = IF Cell \in Address THEN [mem EXCEPT ![Cell] = byte] ELSE mem
        /\ Len(frame) \in 4 .. length + 3
    BY DEF Read, PayloadByte
  <1>2. /\ Len(frame') = Len(frame) + 1
        /\ frame'[Len(frame) + 1] = byte
        /\ \A n \in 1 .. Len(frame) : frame'[n] = frame[n]
        /\ Len(frame) \in Nat
    BY <1>1, ReadByte DEF IInv
  <1>3. /\ length \in Nat /\ slot \in Image /\ DOMAIN mem = Address
        /\ RAMFS_BASE \in Nat /\ DTB_BASE \in Nat /\ Base(slot) \in Nat
    BY SerialAssumption DEF IInv, TypeOK, Base
  <1>4. Cell = Base(slot) + Len(frame) - 4
    BY DEF Cell
  <1> HIDE DEF byte
  <1>5. Stored'
    <2> SUFFICES ASSUME NEW n \in 5 .. Len(frame'), n <= length + 4,
                        Base(slot) + n - 5 \in Address
                 PROVE  mem'[Base(slot) + n - 5] = frame'[n]
      BY <1>1 DEF Stored, Base, Address
    <2>1. CASE n = Len(frame) + 1
      <3>1. Base(slot) + n - 5 = Cell
        BY <1>2, <1>3, <1>4, <2>1
      <3> QED  BY <1>1, <1>2, <1>3, <2>1, <3>1
    <2>2. CASE n # Len(frame) + 1
      <3>1. n \in 5 .. Len(frame) /\ Base(slot) + n - 5 # Cell
        BY <1>2, <1>3, <1>4, <2>2
      <3>2. mem[Base(slot) + n - 5] = frame[n]
        BY <1>1, <3>1 DEF IInv, Stored
      <3> QED  BY <1>1, <1>2, <1>3, <3>1, <3>2
    <2> QED  BY <2>1, <2>2
  <1>6. KernelThere'
    <2> SUFFICES ASSUME slot = "ramfs" PROVE \E x \in Image : Holds("kernel", x)'
      BY <1>1 DEF KernelThere, Holds
    <2>1. PICK x \in Image : Holds("kernel", x)
      BY <1>1 DEF IInv, KernelThere
    <2>2. Holds("kernel", x)'
      BY <2>1, KernelKept DEF IInv
    <2> QED  BY <2>2
  <1>7. TreeThere'
    <2> SUFFICES ASSUME Base(slot) + length <= DTB_BASE
                 PROVE  DtbHas(dtb_len)'
      BY <1>1, <1>2 DEF TreeThere, Base
    <2>1. DtbHas(dtb_len)
      BY <1>1 DEF IInv, TreeThere
    <2>2. Cell < DTB_BASE
      BY <1>1, <1>2, <1>3, <1>4
    <2>3. \A i \in 1 .. dtb_len : DTB_BASE + i - 1 # Cell
      BY <1>1, <1>2, <1>3, <1>4, <2>2, LengthBound
    <2> QED  BY <1>1, <1>3, <2>1, <2>3 DEF DtbHas, dtb_len
  <1> QED  BY <1>1, <1>5, <1>6, <1>7 DEF OnlyWholeImages, DtbKept

LEMMA TrailerKeeps ==
  ASSUME AllFit, IInv, Read, CrcByte(Head(fifo)) \/ Trailer(Head(fifo))
  PROVE  (Stored /\ KernelThere /\ TreeThere /\ OnlyWholeImages /\ DtbKept)'
  <1> DEFINE byte == Head(fifo)
  <1>1. /\ phase = "loading" /\ slot \in Image /\ length \in Nat
        /\ Len(frame) \in Nat /\ byte \in Bytes
    BY ReadByte DEF Read, IInv, TypeOK
  <1>2. CASE CrcByte(byte)
    <2>1. /\ UNCHANGED <<phase, slot, length, mem>>
          /\ frame' = Append(frame, byte)
          /\ Len(frame) = length + 4
      BY <1>2 DEF CrcByte, Take
    <2>2. /\ Len(frame') = Len(frame) + 1
          /\ \A n \in 1 .. Len(frame) : frame'[n] = frame[n]
      BY <2>1, ReadByte DEF IInv
    <2>3. Stored'
      <3> SUFFICES ASSUME NEW n \in 5 .. Len(frame'), n <= length + 4,
                          Base(slot) + n - 5 \in Address
                   PROVE  mem[Base(slot) + n - 5] = frame'[n]
        BY <2>1 DEF Stored, Base, Address
      <3>1. n \in 5 .. Len(frame)
        BY <1>1, <2>1, <2>2
      <3> QED  BY <1>1, <2>2, <3>1 DEF IInv, Stored
    <2>4. TreeThere'
      BY <1>1, <2>1, <2>2 DEF IInv, TreeThere, Base, DtbHas, dtb_len
    <2> QED  BY <1>1, <2>1, <2>3, <2>4
             DEF IInv, KernelThere, OnlyWholeImages, DtbKept, Holds, Base, Address
  <1>3. CASE Trailer(byte)
    <2>1. CASE Fail
      BY <2>1, NothingPromised DEF Fail
    <2>2. CASE /\ Checked(Append(frame, byte))
               /\ \/ slot = "kernel" /\ slot' = "ramfs" /\ UNCHANGED phase
                  \/ slot # "kernel" /\ phase' = "running" /\ UNCHANGED slot
               /\ frame' = <<>>
               /\ UNCHANGED mem
      <3>1. Base(slot) + length <= DTB_BASE /\ \E x \in Image : Holds(slot, x)
        BY <1>1, <1>3, <2>2, Whole DEF IInv, Trailer
      <3>2. DtbHas(dtb_len)'
        BY <1>1, <2>2, <3>1 DEF IInv, TreeThere, DtbHas, dtb_len
      <3>3. \A y, x \in Image : Holds(y, x) => Holds(y, x)'
        BY <2>2 DEF Holds, Base, Address
      <3>4. CASE slot = "kernel"
        BY <1>1, <2>2, <3>1, <3>2, <3>3, <3>4
           DEF Stored, KernelThere, TreeThere, OnlyWholeImages, DtbKept, Image
      <3>5. CASE slot = "ramfs"
        BY <1>1, <2>2, <3>1, <3>2, <3>3, <3>5
           DEF IInv, Stored, KernelThere, TreeThere, OnlyWholeImages, DtbKept, Image
      <3> QED  BY <1>1, <3>4, <3>5 DEF Image
    <2> QED  BY <1>3, <2>1, <2>2, TrailerCases
  <1> QED  BY <1>2, <1>3

(* No step, of the host, the line or the board, loses what memory holds.    *)
LEMMA InvStep == ASSUME AllFit, IInv, [Next]_vars PROVE IInv'
  <1>1. TypeOK'
    BY HostType, StartType, ReadType
       DEF IInv, Next, TypeOK, vars, host, board
  <1>2. CASE Send \/ Lose \/ Rerun \/ Printed \/ UNCHANGED vars
    <2>1. UNCHANGED <<phase, slot, frame, length, mem>>
      BY <1>2 DEF Send, Lose, Rerun, Printed, vars, board
    <2> QED  BY <1>1, <2>1, MemorySame DEF IInv
  <1>3. CASE Started
    BY <1>1, <1>3, StartKeeps DEF IInv
  <1>4. CASE Read
    BY <1>1, <1>4, HeaderKeeps, PayloadKeeps, TrailerKeeps DEF IInv, Read
  <1>5. CASE Reboot
    BY <1>1, <1>5, NothingPromised DEF IInv, Reboot
  <1> QED  BY <1>2, <1>3, <1>4, <1>5 DEF Next

(* While it loads, what was read is stored, and what was stored before stays *)
(* unless the frame's size reaches into it.                                 *)
THEOREM Invariance == AllFit /\ Spec => []IInv
<1>1. AllFit /\ Init => IInv
  BY InvInit
<1>2. AllFit /\ IInv /\ [Next]_vars => IInv'
  BY InvStep
<1>3. AllFit => []AllFit
  <2>1. AllFit => AllFit'
    BY DEF AllFit, Image
  <2> QED  BY <2>1, PTL
<1> QED
  BY <1>1, <1>2, <1>3, PTL DEF Spec

(* Whatever the line loses and however often either side starts again, the  *)
(* kernel is started only with a whole image in each place.                 *)
THEOREM WholeImages == AllFit /\ Spec => []OnlyWholeImages
<1>1. IInv => OnlyWholeImages
  BY DEF IInv
<1> QED
  BY <1>1, Invariance, PTL

(* ... and with the part of the device tree that was copied in its place,   *)
(* although misread size words may have made the loader write over it.      *)
THEOREM TreeKept == AllFit /\ Spec => []DtbKept
<1>1. IInv => DtbKept
  BY DEF IInv
<1> QED
  BY <1>1, Invariance, PTL

-----------------------------------------------------------------------------
(* In a single run, each frame comes once, the kernel's before the ramfs's. *)
KernelEnd == Len(FrameOf("kernel"))
ScriptEnd == Len(Script)
Last(x) == Byte("crc", x, 2)

(* Where the elements of two sequences are in their concatenation.          *)
LEMMA Joined ==
  ASSUME NEW s \in Seq(Bytes), NEW t \in Seq(Bytes), NEW st, st = s \o t
  PROVE  /\ st \in Seq(Bytes) /\ Len(st) = Len(s) + Len(t)
         /\ Len(s) \in Nat /\ Len(t) \in Nat
         /\ \A i \in 1 .. Len(st) : st[i] = IF i <= Len(s) THEN s[i] ELSE t[i - Len(s)]
  BY ConcatProperties, LenProperties

LEMMA LastByte ==
  ASSUME NEW x \in Image
  PROVE  /\ FrameOf(x) \in Seq(Bytes) /\ Len(FrameOf(x)) = Size[x] + 6
         /\ \A n \in 1 .. Size[x] + 6 : \A y \in Image :
              FrameOf(x)[n] = Last(y) <=> x = y /\ n = Size[x] + 6
  <1> DEFINE M == Magic
             S == WordOf("size", x)
             P == Payload(x)
             C == WordOf("crc", x)
             MS == M \o S
             MSP == MS \o P
             F == MSP \o C
  <1>1. /\ M \in Seq(Bytes) /\ Len(M) = 2
        /\ S \in Seq(Bytes) /\ Len(S) = 2 /\ C \in Seq(Bytes) /\ Len(C) = 2
        /\ P \in Seq(Bytes) /\ Len(P) = Size[x] /\ Size[x] \in Nat
    BY WordType, PayloadType, SerialAssumption DEF Magic
  <1>2. /\ \A i \in 1 .. 2 : \A y \in Image : M[i] # Last(y) /\ S[i] # Last(y)
        /\ \A i \in 1 .. Size[x] : \A y \in Image : P[i] # Last(y)
        /\ \A i \in 1 .. 2 : \A y \in Image : C[i] = Last(y) <=> x = y /\ i = 2
    <2>1. \A f, g, y, z, i, j : Byte(f, y, i) = Byte(g, z, j) => f = g /\ y = z /\ i = j
      BY DEF Byte
    <2>2. /\ \A i \in 1 .. 2 : M[i] = Byte("magic", "any", i) /\ S[i] = Byte("size", x, i)
          /\ \A i \in 1 .. 2 : C[i] = Byte("crc", x, i)
          /\ \A i \in 1 .. Size[x] : P[i] = Byte("data", x, i)
      BY DEF Magic, WordOf, Payload
    <2> HIDE DEF M, S, C, P
    <2>3. "magic" # "crc" /\ "size" # "crc" /\ "data" # "crc"
      OBVIOUS
    <2>4. /\ \A i \in 1 .. 2 : \A y \in Image : M[i] # Last(y) /\ S[i] # Last(y)
          /\ \A i \in 1 .. Size[x] : \A y \in Image : P[i] # Last(y)
      BY <2>1, <2>2, <2>3 DEF Last
    <2>5. \A i \in 1 .. 2 : \A y \in Image : C[i] = Last(y) <=> x = y /\ i = 2
      BY <2>1, <2>2 DEF Last
    <2> QED  BY <2>4, <2>5
  <1>3. FrameOf(x) = F
    BY DEF FrameOf
  <1>4. MS = M \o S /\ MSP = MS \o P /\ F = MSP \o C
    OBVIOUS
  <1> HIDE DEF M, S, P, C, MS, MSP, F
  <1>5. /\ MS \in Seq(Bytes) /\ Len(MS) = 4
        /\ \A i \in 1 .. 4 : MS[i] = IF i <= 2 THEN M[i] ELSE S[i - 2]
    <2>1. /\ MS \in Seq(Bytes) /\ Len(MS) = Len(M) + Len(S)
          /\ \A i \in 1 .. Len(MS) : MS[i] = IF i <= Len(M) THEN M[i] ELSE S[i - Len(M)]
      <3>1. M \in Seq(Bytes) /\ S \in Seq(Bytes) /\ MS = M \o S
        BY <1>1, <1>4
      <3> QED  BY <3>1, Joined
    <2> QED  BY <1>1, <2>1
  <1>6. /\ MSP \in Seq(Bytes) /\ Len(MSP) = 4 + Size[x]
        /\ \A i \in 1 .. 4 + Size[x] : MSP[i] = IF i <= 4 THEN MS[i] ELSE P[i - 4]
    <2>1. /\ MSP \in Seq(Bytes) /\ Len(MSP) = Len(MS) + Len(P)
          /\ \A i \in 1 .. Len(MSP) : MSP[i] = IF i <= Len(MS) THEN MS[i] ELSE P[i - Len(MS)]
      BY <1>1, <1>4, <1>5, Joined
    <2> QED  BY <1>1, <1>5, <2>1
  <1>7. /\ F \in Seq(Bytes) /\ Len(F) = Size[x] + 6
        /\ \A i \in 1 .. Size[x] + 6 :
             F[i] = IF i <= 4 + Size[x] THEN MSP[i] ELSE C[i - (4 + Size[x])]
    <2>1. /\ F \in Seq(Bytes) /\ Len(F) = Len(MSP) + Len(C)
          /\ \A i \in 1 .. Len(F) : F[i] = IF i <= Len(MSP) THEN MSP[i] ELSE C[i - Len(MSP)]
      BY SMTT(30), <1>1, <1>4, <1>6, Joined
    <2>2. Len(MSP) + Len(C) = Size[x] + 6
      BY <1>1, <1>6
    <2> QED  BY <1>1, <1>6, <2>1, <2>2
  <1>8. ASSUME NEW n \in 1 .. Size[x] + 6, NEW y \in Image
        PROVE  F[n] = Last(y) <=> x = y /\ n = Size[x] + 6
    <2>1. CASE n <= 2
      <3>1. n \in 1 .. 2 /\ F[n] = M[n]
        BY SMTT(30), <1>1, <1>5, <1>6, <1>7, <2>1
      <3> QED  BY <1>1, <1>2, <2>1, <3>1
    <2>2. CASE n \in 3 .. 4
      <3>1. n - 2 \in 1 .. 2 /\ F[n] = S[n - 2]
        BY SMTT(30), <1>1, <1>5, <1>6, <1>7, <2>2
      <3> QED  BY <1>1, <1>2, <2>2, <3>1
    <2>3. CASE n \in 5 .. Size[x] + 4
      <3>1. n - 4 \in 1 .. Size[x] /\ F[n] = P[n - 4]
        BY <1>1, <1>6, <1>7, <2>3
      <3> QED  BY <1>1, <1>2, <2>3, <3>1
    <2>4. CASE n > Size[x] + 4
      <3>1. n - (4 + Size[x]) \in 1 .. 2 /\ F[n] = C[n - (4 + Size[x])]
        BY <1>1, <1>7, <2>4
      <3>2. n - (4 + Size[x]) = 2 <=> n = Size[x] + 6
        BY <1>1
      <3> QED  BY <1>2, <3>1, <3>2
    <2> QED  BY <1>1, <2>1, <2>2, <2>3, <2>4
  <1> QED  BY <1>3, <1>7, <1>8

(* So the last byte of each frame is at one place of the script.            *)
LEMMA ScriptOrder ==
  /\ KernelEnd \in Nat /\ ScriptEnd \in Nat /\ KernelEnd < ScriptEnd
  /\ \A n \in 1 .. ScriptEnd :
       /\ Script[n] \in Bytes
       /\ Script[n] = Last("kernel") <=> n = KernelEnd
       /\ Script[n] = Last("ramfs") <=> n = ScriptEnd
  <1> DEFINE A == FrameOf("kernel")
             B == FrameOf("ramfs")
  <1>1. /\ A \in Seq(Bytes) /\ Len(A) = Size["kernel"] + 6
        /\ B \in Seq(Bytes) /\ Len(B) = Size["ramfs"] + 6
        /\ Size["kernel"] \in Nat /\ Size["ramfs"] \in Nat
    BY LastByte, SerialAssumption DEF Image
  <1>2. /\ \A n \in 1 .. Len(A) : /\ A[n] = Last("kernel") <=> n = Len(A)
                                  /\ A[n] # Last("ramfs")
        /\ \A n \in 1 .. Len(B) : /\ B[n] # Last("kernel")
                                  /\ B[n] = Last("ramfs") <=> n = Len(B)
    <2> SUFFICES ASSUME TRUE PROVE
          /\ \A n \in 1 .. Size["kernel"] + 6 :
               /\ A[n] = Last("kernel") <=> n = Size["kernel"] + 6
               /\ A[n] # Last("ramfs")
          /\ \A n \in 1 .. Size["ramfs"] + 6 :
               /\ B[n] # Last("kernel")
               /\ B[n] = Last("ramfs") <=> n = Size["ramfs"] + 6
      BY <1>1
    <2>1. "kernel" \in Image /\ "ramfs" \in Image /\ "kernel" # "ramfs"
      BY DEF Image
    <2>2. \A n \in 1 .. Size["kernel"] + 6 : \A y \in Image :
            A[n] = Last(y) <=> "kernel" = y /\ n = Size["kernel"] + 6
      BY <2>1, LastByte
    <2>3. \A n \in 1 .. Size["ramfs"] + 6 : \A y \in Image :
            B[n] = Last(y) <=> "ramfs" = y /\ n = Size["ramfs"] + 6
      BY <2>1, LastByte
    <2> HIDE DEF A, B
    <2> QED  BY <2>1, <2>2, <2>3
  <1>3. Script = A \o B /\ KernelEnd = Len(A) /\ ScriptEnd = Len(Script)
    BY DEF Script, KernelEnd, ScriptEnd
  <1> HIDE DEF A, B
  <1>4. /\ Script \in Seq(Bytes) /\ Len(Script) = Len(A) + Len(B)
        /\ \A i \in 1 .. Len(Script) :
             Script[i] = IF i <= Len(A) THEN A[i] ELSE B[i - Len(A)]
    <2>1. A \in Seq(Bytes) /\ B \in Seq(Bytes) /\ Script = A \o B
      BY <1>1, <1>3
    <2> QED  BY <2>1, Joined
  <1>5. ASSUME NEW n \in 1 .. ScriptEnd
        PROVE  /\ Script[n] \in Bytes
               /\ Script[n] = Last("kernel") <=> n = KernelEnd
               /\ Script[n] = Last("ramfs") <=> n = ScriptEnd
    <2>1. Script[n] \in Bytes
      BY <1>3, <1>4, ElementOfSeq
    <2>2. CASE n <= Len(A)
      <3>1. n \in 1 .. Len(A) /\ Script[n] = A[n] /\ n # ScriptEnd
        BY <1>1, <1>3, <1>4, <2>2
      <3> QED  BY <1>2, <1>3, <2>1, <3>1
    <2>3. CASE n > Len(A)
      <3>1. n - Len(A) \in 1 .. Len(B) /\ Script[n] = B[n - Len(A)] /\ n # KernelEnd
        BY SMTT(30), <1>1, <1>3, <1>4, <2>3
      <3>2. n - Len(A) = Len(B) <=> n = ScriptEnd
        BY <1>1, <1>3, <1>4
      <3> QED  BY <1>2, <2>1, <3>1, <3>2
    <2> QED  BY <1>1, <2>2, <2>3
  <1> QED  BY SMTT(30), <1>1, <1>3, <1>4, <1>5

(* The last byte of the kernel's frame is on its way at most once, and only *)
(* after the frame was sent; the last of the ramfs's comes after all others. *)
Ordered ==
  runs = 1 =>
    /\ \A n \in 1 .. Len(fifo) :
         /\ fifo[n] = Last("kernel") => sent >= KernelEnd
         /\ fifo[n] = Last("ramfs") => sent = ScriptEnd /\ n = Len(fifo)
    /\ \A n, m \in 1 .. Len(fifo) :
         fifo[n] = Last("kernel") /\ fifo[m] = Last("kernel") => n = m

(* Nothing will come any more.                                              *)
Silent == sent = ScriptEnd /\ fifo = <<>>

(* The kernel is in its place, and its frame is past.                       *)
KernelPast ==
  /\ Holds("kernel", "kernel") /\ sent >= KernelEnd
  /\ \A n \in 1 .. Len(fifo) : fifo[n] # Last("kernel")

InOrder ==
  runs = 1 =>
    /\ phase = "loading" /\ slot = "ramfs" => Silent \/ KernelPast
    /\ BootsWhatWasSent

OInv == IInv /\ Ordered /\ InOrder

LEMMA OrderInit == Init => Ordered /\ InOrder
  BY DEF Init, Ordered, InOrder, BootsWhatWasSent

(* What happens to the line and the FIFO.                                   *)
LEMMA FifoCases ==
  ASSUME TypeOK, [Next]_vars, runs' = 1
  PROVE  /\ runs = 1
         /\ \/ UNCHANGED <<sent, fifo>>
            \/ /\ sent < ScriptEnd /\ sent' = sent + 1
               /\ fifo' \in {fifo, Append(fifo, Script[sent + 1])}
            \/ UNCHANGED sent /\ fifo # <<>> /\ fifo' = Tail(fifo)
            \/ UNCHANGED sent /\ fifo' = <<>>
  <1>1. CASE Send
    BY <1>1 DEF NextByte, Send, Deliver, ScriptEnd
  <1>2. CASE Lose
    BY <1>2 DEF NextByte, Lose, ScriptEnd
  <1>3. CASE Rerun
    BY <1>3 DEF Rerun, TypeOK
  <1>4. CASE Started \/ Printed \/ UNCHANGED vars
    BY <1>4 DEF Started, Printed, vars, host
  <1>5. CASE Read
    BY <1>5 DEF Read, host
  <1>6. CASE Reboot
    BY <1>6 DEF Reboot, host
  <1> QED  BY <1>1, <1>2, <1>3, <1>4, <1>5, <1>6 DEF Next

LEMMA OrderedKept ==
  ASSUME TypeOK, Ordered, [Next]_vars
  PROVE  Ordered'
  <1> SUFFICES ASSUME runs' = 1 PROVE Ordered'
    BY DEF Ordered
  <1>1. /\ sent \in Nat /\ sent <= ScriptEnd /\ fifo \in Seq(Bytes) /\ Len(fifo) \in Nat
        /\ KernelEnd \in Nat /\ ScriptEnd \in Nat /\ KernelEnd < ScriptEnd
    BY ScriptOrder DEF TypeOK, ScriptEnd
  <1>2. /\ \A n \in 1 .. Len(fifo) :
             /\ fifo[n] = Last("kernel") => sent >= KernelEnd
             /\ fifo[n] = Last("ramfs") => sent = ScriptEnd /\ n = Len(fifo)
        /\ \A n, m \in 1 .. Len(fifo) :
             fifo[n] = Last("kernel") /\ fifo[m] = Last("kernel") => n = m
    BY FifoCases DEF Ordered
  <1>3. KernelEnd' = KernelEnd /\ ScriptEnd' = ScriptEnd
    BY DEF KernelEnd, ScriptEnd
  <1>4. CASE UNCHANGED <<sent, fifo>>
    BY <1>2, <1>3, <1>4 DEF Ordered
  <1>5. CASE sent < ScriptEnd /\ sent' = sent + 1 /\ fifo' = fifo
    BY <1>1, <1>2, <1>3, <1>5 DEF Ordered
  <1>6. CASE sent < ScriptEnd /\ sent' = sent + 1 /\ fifo' = Append(fifo, Script[sent + 1])
    <2>1. /\ sent + 1 \in 1 .. ScriptEnd
          /\ Script[sent + 1] \in Bytes
          /\ Script[sent + 1] = Last("kernel") => sent + 1 = KernelEnd
          /\ Script[sent + 1] = Last("ramfs") => sent + 1 = ScriptEnd
      BY <1>1, <1>6, ScriptOrder
    <2>2. /\ Len(fifo') = Len(fifo) + 1 /\ fifo'[Len(fifo) + 1] = Script[sent + 1]
          /\ \A n \in 1 .. Len(fifo) : fifo'[n] = fifo[n]
      BY <1>1, <1>6, <2>1
    <2>3. \A n \in 1 .. Len(fifo') : n \in 1 .. Len(fifo) \/ n = Len(fifo) + 1
      BY <1>1, <2>2
    <2>4. \A n \in 1 .. Len(fifo) : fifo[n] # Last("ramfs")
      BY <1>1, <1>2, <1>6
    <2>5. Script[sent + 1] = Last("kernel") => \A n \in 1 .. Len(fifo) : fifo[n] # Last("kernel")
      BY <1>1, <1>2, <2>1
    <2>6. \A n \in 1 .. Len(fifo') :
            /\ fifo'[n] = Last("kernel") => sent' >= KernelEnd
            /\ fifo'[n] = Last("ramfs") => sent' = ScriptEnd /\ n = Len(fifo')
      BY <1>1, <1>2, <1>6, <2>1, <2>2, <2>3, <2>4
    <2>7. \A n, m \in 1 .. Len(fifo') :
            fifo'[n] = Last("kernel") /\ fifo'[m] = Last("kernel") => n = m
      BY <1>1, <1>2, <2>2, <2>3, <2>5
    <2> QED  BY <1>3, <2>6, <2>7 DEF Ordered, Last
  <1>7. CASE UNCHANGED sent /\ fifo # <<>> /\ fifo' = Tail(fifo)
    <2>1. /\ Len(fifo') = Len(fifo) - 1
          /\ \A n \in 1 .. Len(fifo) - 1 : fifo'[n] = fifo[n + 1] /\ n + 1 \in 1 .. Len(fifo)
      BY <1>1, <1>7
    <2>2. \A n \in 1 .. Len(fifo') :
            /\ fifo'[n] = Last("kernel") => sent' >= KernelEnd
            /\ fifo'[n] = Last("ramfs") => sent' = ScriptEnd /\ n = Len(fifo')
      <3> SUFFICES ASSUME NEW n \in 1 .. Len(fifo')
                   PROVE  /\ fifo'[n] = Last("kernel") => sent' >= KernelEnd
                          /\ fifo'[n] = Last("ramfs") => sent' = ScriptEnd /\ n = Len(fifo')
        OBVIOUS
      <3>1. n + 1 \in 1 .. Len(fifo) /\ fifo'[n] = fifo[n + 1]
        BY <1>1, <2>1
      <3>2. n + 1 = Len(fifo) => n = Len(fifo')
        BY <1>1, <2>1
      <3> QED  BY <1>2, <1>7, <3>1, <3>2
    <2>3. \A n, m \in 1 .. Len(fifo') :
            fifo'[n] = Last("kernel") /\ fifo'[m] = Last("kernel") => n = m
      <3> SUFFICES ASSUME NEW n \in 1 .. Len(fifo'), NEW m \in 1 .. Len(fifo'),
                          fifo'[n] = Last("kernel"), fifo'[m] = Last("kernel")
                   PROVE  n = m
        OBVIOUS
      <3>1. n + 1 = m + 1
        BY <1>1, <1>2, <2>1
      <3> QED  BY <1>1, <2>1, <3>1
    <2> QED  BY <1>3, <2>2, <2>3 DEF Ordered, Last
  <1>8. CASE UNCHANGED sent /\ fifo' = <<>>
    BY <1>8 DEF Ordered
  <1> QED  BY <1>4, <1>5, <1>6, <1>7, <1>8, FifoCases

(* Neither what the loader waits for nor what it holds is lost, unless it   *)
(* finishes a frame.                                                        *)
LEMMA PastKept ==
  ASSUME TypeOK, Ordered, runs = 1, [Next]_vars, runs' = 1
  PROVE  /\ Silent => Silent'
         /\ KernelPast /\ (\A x \in Image : Holds("kernel", x) => Holds("kernel", x)')
              => KernelPast'
  <1>1. /\ sent \in Nat /\ sent <= ScriptEnd /\ fifo \in Seq(Bytes) /\ Len(fifo) \in Nat
        /\ KernelEnd \in Nat /\ ScriptEnd \in Nat
        /\ KernelEnd' = KernelEnd /\ ScriptEnd' = ScriptEnd
    BY ScriptOrder DEF TypeOK, KernelEnd, ScriptEnd
  <1>2. CASE UNCHANGED <<sent, fifo>>
    BY <1>1, <1>2 DEF Silent, KernelPast, Last, Image
  <1>3. CASE sent < ScriptEnd /\ sent' = sent + 1 /\ fifo' = fifo
    BY <1>1, <1>3 DEF Silent, KernelPast, Last, Image
  <1>4. CASE sent < ScriptEnd /\ sent' = sent + 1 /\ fifo' = Append(fifo, Script[sent + 1])
    <2>1. /\ sent + 1 \in 1 .. ScriptEnd
          /\ Script[sent + 1] \in Bytes
          /\ Script[sent + 1] = Last("kernel") => sent + 1 = KernelEnd
      BY <1>1, <1>4, ScriptOrder
    <2>2. /\ Len(fifo') = Len(fifo) + 1 /\ fifo'[Len(fifo) + 1] = Script[sent + 1]
          /\ \A n \in 1 .. Len(fifo) : fifo'[n] = fifo[n]
      BY <1>1, <1>4, <2>1
    <2>3. KernelPast => \A n \in 1 .. Len(fifo') : fifo'[n] # Last("kernel")
      BY <1>1, <2>1, <2>2 DEF KernelPast
    <2> QED  BY <1>1, <1>4, <2>3 DEF Silent, KernelPast, Last, Image
  <1>5. CASE UNCHANGED sent /\ fifo # <<>> /\ fifo' = Tail(fifo)
    <2>1. /\ Len(fifo') = Len(fifo) - 1
          /\ \A n \in 1 .. Len(fifo) - 1 : fifo'[n] = fifo[n + 1] /\ n + 1 \in 1 .. Len(fifo)
      BY <1>1, <1>5
    <2>2. KernelPast => \A n \in 1 .. Len(fifo') : fifo'[n] # Last("kernel")
      BY <1>1, <2>1 DEF KernelPast
    <2> QED  BY <1>1, <1>5, <2>2 DEF Silent, KernelPast, Last, Image
  <1>6. CASE UNCHANGED sent /\ fifo' = <<>>
    BY <1>1, <1>6 DEF Silent, KernelPast, Last, Image
  <1> QED  BY <1>2, <1>3, <1>4, <1>5, <1>6, FifoCases

(* The frame that passed its checksum is the next of the script.            *)
LEMMA TrailerOrder ==
  ASSUME AllFit, OInv, Read, Trailer(Head(fifo)), runs = 1
  PROVE  InOrder'
  <1> DEFINE byte == Head(fifo)
  <1>1. /\ phase = "loading" /\ slot \in Image /\ length \in Nat
        /\ byte \in Bytes /\ fifo # <<>> /\ fifo' = Tail(fifo) /\ UNCHANGED <<sent, runs>>
        /\ Len(frame) = length + 5
    BY ReadByte DEF Read, OInv, IInv, TypeOK, host, Trailer
  <1>2. /\ sent \in Nat /\ fifo \in Seq(Bytes) /\ Len(fifo) \in Nat /\ 1 \in 1 .. Len(fifo)
        /\ fifo[1] = byte /\ Len(fifo') = Len(fifo) - 1
        /\ \A n \in 1 .. Len(fifo') : fifo'[n] = fifo[n + 1] /\ n + 1 \in 1 .. Len(fifo)
    BY <1>1 DEF OInv, IInv, TypeOK
  <1>3. /\ byte = Last("kernel") =>
             sent >= KernelEnd /\ \A n \in 1 .. Len(fifo') : fifo'[n] # Last("kernel")
        /\ byte = Last("ramfs") => sent = ScriptEnd /\ fifo' = <<>>
    <2>1. /\ \A n \in 1 .. Len(fifo) :
               /\ fifo[n] = Last("kernel") => sent >= KernelEnd
               /\ fifo[n] = Last("ramfs") => sent = ScriptEnd /\ n = Len(fifo)
          /\ \A n, m \in 1 .. Len(fifo) :
               fifo[n] = Last("kernel") /\ fifo[m] = Last("kernel") => n = m
      BY DEF OInv, Ordered
    <2>2. byte = Last("kernel") => \A n \in 1 .. Len(fifo') : fifo'[n] # Last("kernel")
      BY <1>2, <2>1
    <2>3. byte = Last("ramfs") => Len(fifo) = 1
      BY <1>2, <2>1
    <2>4. Len(fifo) = 1 => fifo' = <<>>
      BY <1>1, <1>2
    <2> QED  BY <1>2, <2>1, <2>2, <2>3, <2>4
  <1> HIDE DEF byte
  <1>4. CASE Fail
    BY <1>4 DEF Fail, InOrder, BootsWhatWasSent
  <1>5. CASE /\ Checked(Append(frame, byte))
             /\ \/ slot = "kernel" /\ slot' = "ramfs" /\ UNCHANGED phase
                \/ slot # "kernel" /\ phase' = "running" /\ UNCHANGED slot
             /\ UNCHANGED mem
    <2>1. PICK x \in Image : Holds(slot, x) /\ byte = Last(x)
      BY <1>1, <1>5, Whole DEF OInv, IInv, Last
    <2>2. /\ KernelEnd' = KernelEnd /\ ScriptEnd' = ScriptEnd
          /\ \A y, z \in Image : Holds(y, z) => Holds(y, z)'
      BY <1>5 DEF KernelEnd, ScriptEnd, Holds, Base, Address
    <2>3. CASE slot = "kernel" /\ x = "kernel"
      BY <1>1, <1>3, <1>5, <2>1, <2>2, <2>3
         DEF InOrder, BootsWhatWasSent, KernelPast, Last, Image
    <2>4. CASE slot = "kernel" /\ x = "ramfs"
      BY <1>1, <1>3, <1>5, <2>1, <2>2, <2>4
         DEF InOrder, BootsWhatWasSent, Silent
    <2>5. CASE slot = "ramfs"
      <3>1. KernelPast
        BY <1>1, <2>5 DEF OInv, InOrder, Silent
      <3>2. x = "ramfs"
        BY <1>2, <2>1, <3>1 DEF KernelPast, Image
      <3> QED  BY <1>1, <1>5, <2>1, <2>2, <2>5, <3>1, <3>2
               DEF InOrder, BootsWhatWasSent, KernelPast, Image
    <2> QED  BY <1>1, <2>3, <2>4, <2>5 DEF Image
  <1> QED  BY <1>4, <1>5, TrailerCases DEF byte

LEMMA OrderStep ==
  ASSUME AllFit, OInv, [Next]_vars
  PROVE  Ordered' /\ InOrder'
  <1>1. Ordered'
    BY OrderedKept DEF OInv, IInv
  <1> SUFFICES ASSUME runs' = 1 PROVE InOrder'
    BY <1>1 DEF InOrder
  <1>2. runs = 1 /\ TypeOK /\ Ordered
    BY FifoCases DEF OInv, IInv
  <1>3. /\ Silent => Silent'
        /\ KernelPast /\ (\A x \in Image : Holds("kernel", x) => Holds("kernel", x)')
             => KernelPast'
    BY <1>2, PastKept
  <1>4. ASSUME UNCHANGED <<phase, slot, mem>> PROVE InOrder'
    <2>1. \A y, x \in Image : Holds(y, x) => Holds(y, x)'
      BY <1>4 DEF Holds, Base, Address
    <2> QED  BY <1>2, <1>3, <1>4, <2>1 DEF OInv, InOrder, BootsWhatWasSent, Image
  <1>5. ASSUME phase' \in {"starting", "panic"} PROVE InOrder'
    BY <1>5 DEF InOrder, BootsWhatWasSent
  <1>6. CASE Send \/ Lose \/ Rerun \/ Printed \/ UNCHANGED vars
    BY <1>4, <1>6 DEF Send, Lose, Rerun, Printed, vars, board
  <1>7. CASE Started
    BY <1>7 DEF Started, InOrder, BootsWhatWasSent
  <1>8. CASE Read
    <2>1. CASE HeaderByte(Head(fifo)) \/ CrcByte(Head(fifo))
      BY <1>4, <2>1 DEF HeaderByte, CrcByte, Take
    <2>2. CASE Header(Head(fifo))
      BY <1>4, <1>5, <2>2, HeaderCases DEF Fail
    <2>3. CASE PayloadByte(Head(fifo))
      <3>1. phase = "loading" /\ UNCHANGED <<phase, slot>>
        BY <1>8, <2>3 DEF Read, PayloadByte
      <3>2. slot = "ramfs" => \A x \in Image : Holds("kernel", x) => Holds("kernel", x)'
        BY <1>2, <2>3, KernelKept
      <3> QED  BY <1>2, <1>3, <3>1, <3>2 DEF OInv, InOrder, BootsWhatWasSent
    <2>4. CASE Trailer(Head(fifo))
      BY <1>2, <1>8, <2>4, TrailerOrder
    <2> QED  BY <1>8, <2>1, <2>2, <2>3, <2>4 DEF Read
  <1>9. CASE Reboot
    BY <1>5, <1>9 DEF Reboot
  <1> QED  BY <1>6, <1>7, <1>8, <1>9 DEF Next

(* Whatever the line loses, and however often the board starts again in the *)
(* middle of it, a single run of the script boots nothing but what it sent. *)
THEOREM OneRun == AllFit /\ Spec => []OneRunBootsWhatWasSent
<1>1. AllFit /\ Init => OInv
  BY InvInit, OrderInit DEF OInv
<1>2. AllFit /\ OInv /\ [Next]_vars => OInv'
  <2>1. AllFit /\ OInv /\ [Next]_vars => IInv'
    BY InvStep DEF OInv
  <2> QED  BY <2>1, OrderStep DEF OInv
<1>3. OInv => OneRunBootsWhatWasSent
  BY DEF OInv, InOrder, OneRunBootsWhatWasSent
<1>4. AllFit => []AllFit
  <2>1. AllFit => AllFit'
    BY DEF AllFit, Image
  <2> QED  BY <2>1, PTL
<1> QED
  BY <1>1, <1>2, <1>3, <1>4, PTL DEF Spec
=============================================================================
