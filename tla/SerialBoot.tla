------------------------------ MODULE SerialBoot ------------------------------
(***************************************************************************)
(* Loading the system over the serial line: scripts/serial_boot.sh on the  *)
(* host sends the kernel and the ramfs as frames of magic, size, payload   *)
(* and checksum; the firmware (start.c, serial.c, uart.c) stores each      *)
(* payload as it arrives, and jumps to the kernel or panics and reboots.   *)
(* Nothing flows back: neither side knows what the other has done.         *)
(*                                                                         *)
(* The unit of the line is a byte; header words are two bytes long here    *)
(* and a memory cell holds one, so a lost byte shifts every later word.    *)
(* CRC32 is taken to tell all payloads apart (external: zlib on the host). *)
(***************************************************************************)
EXTENDS Naturals, Sequences

CONSTANTS Size,     \* image |-> cells it takes, of "kernel" and "ramfs"
          RAMFS_BASE, DTB_BASE, DDR2_SIZE,  \* addresses, from DDR2_BASE 0 on
          DTB_SIZE, \* bytes of the device tree
          PTR_SIZE, \* bytes of a uintptr_t (8)
          FifoSize, \* bytes the UART keeps until they are read (16)
          MaxLost,  \* bytes that the line may lose
          MaxRuns   \* times that the script is run

Image == {"kernel", "ramfs"}

ASSUME SerialAssumption ==
  /\ Size \in [Image -> Nat]
  /\ {RAMFS_BASE, DTB_BASE, DDR2_SIZE, DTB_SIZE} \subseteq Nat
  /\ DTB_BASE + DTB_SIZE <= DDR2_SIZE
  /\ PTR_SIZE \in Nat \ {0}
  /\ FifoSize \in Nat \ {0}
  /\ MaxLost \in Nat /\ MaxRuns \in Nat \ {0}

VARIABLES
  sent, runs,   \* bytes the script has sent, and how often it was started
  lost,         \* bytes lost on the line so far
  fifo,         \* received bytes that the firmware has not read
  phase,        \* "starting", "loading", "panic" or "running"
  busy,         \* it is printing a message and reads nothing
  slot,         \* the image that the firmware takes to be coming
  frame,        \* the bytes of the current frame it has read
  length,       \* the payload size it has found in the header
  mem           \* address |-> the byte stored there

host == <<sent, runs>>
board == <<phase, busy, slot, frame, length, mem>>
vars == <<host, lost, fifo, board>>

-----------------------------------------------------------------------------
(* Bytes and frames.                                                        *)
Byte(field, image, i) == [field |-> field, image |-> image, i |-> i]

(* The bytes of a header word; all images have the same magic.              *)
WordOf(field, image) == [i \in 1 .. 2 |-> Byte(field, image, i)]
Magic == WordOf("magic", "any")
Payload(image) == [i \in 1 .. Size[image] |-> Byte("data", image, i)]

FrameOf(image) ==
  Magic \o WordOf("size", image) \o Payload(image) \o WordOf("crc", image)

Script == FrameOf("kernel") \o FrameOf("ramfs")

Base(image) == IF image = "kernel" THEN 0 ELSE RAMFS_BASE
Address == 0 .. DDR2_SIZE - 1

-----------------------------------------------------------------------------
(* The host.                                                                *)

(* What becomes of a byte on the line: it waits in the UART, unless the     *)
(* UART is full.  The firmware's polling loop is faster than the line, so   *)
(* while it polls the next byte finds room; while it prints, any number of  *)
(* bytes may arrive.                                                        *)
Deliver(byte) ==
  /\ phase = "loading" /\ ~busy => Len(fifo) < FifoSize
  /\ fifo' = IF Len(fifo) < FifoSize THEN Append(fifo, byte) ELSE fifo

(* The script sleeps before the first frame, after every header and after   *)
(* every checksum.                                                          *)
Sleeping ==
  sent \in {0, 4, Len(FrameOf("kernel")), Len(FrameOf("kernel")) + 4}

Paced_Slip == TRUE  \* wrong: the script never sleeps

(* A sleep of 0.2 s outlasts every message the loader prints, but not the   *)
(* second that a panic waits.                                               *)
Paced == Sleeping /\ phase = "loading" => fifo = <<>> /\ ~busy

(* The script has a byte to send; the user starts it when the firmware      *)
(* first waits for data.                                                    *)
NextByte ==
  /\ sent < Len(Script)
  /\ (sent = 0 /\ runs = 1) => phase = "loading"
  /\ Paced

Send ==
  /\ NextByte
  /\ Deliver(Script[sent + 1])
  /\ sent' = sent + 1
  /\ UNCHANGED <<runs, lost, board>>

(* The line loses a byte, whichever it is.                                  *)
Lose ==
  /\ NextByte /\ lost < MaxLost
  /\ sent' = sent + 1 /\ lost' = lost + 1
  /\ UNCHANGED <<runs, fifo, board>>

(* The system has not come up: the user runs the script again.              *)
Rerun ==
  /\ sent = Len(Script) /\ runs < MaxRuns /\ phase # "running"
  /\ sent' = 0 /\ runs' = runs + 1
  /\ UNCHANGED <<lost, fifo, board>>

-----------------------------------------------------------------------------
(* The firmware.                                                            *)

(* The length that copy_dtb passes to memcpy is a difference of pointers to *)
(* uintptr_t.                                                               *)
dtb_len == DTB_SIZE \div PTR_SIZE

copy_dtb_Slip ==  \* wrong: only on a cold start, before anything was loaded
  [a \in Address |->
     IF /\ a \in DTB_BASE .. DTB_BASE + dtb_len - 1
        /\ mem[0] = Byte("none", "any", 1)
     THEN Byte("dtb", "any", a - DTB_BASE + 1) ELSE mem[a]]

copy_dtb ==
  [a \in Address |->
     IF a \in DTB_BASE .. DTB_BASE + dtb_len - 1
     THEN Byte("dtb", "any", a - DTB_BASE + 1) ELSE mem[a]]

(* copy_dtb, and serial_load for the first image.                           *)
Started ==
  /\ phase = "starting"
  /\ mem' = copy_dtb
  /\ phase' = "loading" /\ busy' = TRUE
  /\ slot' = "kernel" /\ frame' = <<>> /\ length' = 0
  /\ UNCHANGED <<host, lost, fifo>>

(* What the size word says: the size that was sent or, if its bytes are not *)
(* those of one word, any number; DDR2_SIZE + 1 stands for all larger ones. *)
Claims(word) ==
  IF \E x \in Image : word = WordOf("size", x)
  THEN {Size[x] : x \in {y \in Image : word = WordOf("size", y)}}
  ELSE 0 .. DDR2_SIZE + 1

CrcOf(payload, word) ==
  \E x \in Image : payload = Payload(x) /\ word = WordOf("crc", x)

Take(byte) ==
  /\ frame' = Append(frame, byte)
  /\ UNCHANGED <<phase, busy, slot, length, mem>>

Fail ==
  /\ phase' = "panic"
  /\ UNCHANGED <<busy, slot, frame, length, mem>>

HeaderByte(byte) == Len(frame) < 3 /\ Take(byte)

(* Wrong: any size is taken.                                                *)
Header_Slip(byte) ==
  /\ Len(frame) = 3
  /\ \E size \in Claims(SubSeq(Append(frame, byte), 3, 4)) :
       IF SubSeq(frame, 1, 2) # Magic
       THEN Fail
       ELSE /\ frame' = Append(frame, byte) /\ length' = size
            /\ busy' = TRUE /\ UNCHANGED <<phase, slot, mem>>

(* Both header words are read before either is looked at.                   *)
Header(byte) ==
  /\ Len(frame) = 3
  /\ LET header == Append(frame, byte)
     IN \E size \in Claims(SubSeq(header, 3, 4)) :
          IF SubSeq(header, 1, 2) # Magic \/ size > DDR2_SIZE
          THEN Fail
          ELSE /\ frame' = header /\ length' = size
               /\ busy' = TRUE /\ UNCHANGED <<phase, slot, mem>>

Cell_Slip == Base(slot) + Len(frame) - 3  \* wrong: counts after the store
Cell == Base(slot) + Len(frame) - 4

PayloadByte(byte) ==
  /\ Len(frame) \in 4 .. length + 3
  /\ frame' = Append(frame, byte)
  /\ LET a == Cell
     IN mem' = IF a \in Address THEN [mem EXCEPT ![a] = byte] ELSE mem
  /\ UNCHANGED <<phase, busy, slot, length>>

CrcByte(byte) ==
  /\ Len(frame) = length + 4
  /\ Take(byte)

Checked_Slip(all) == TRUE  \* wrong: no checksum

Checked(all) ==
  CrcOf(SubSeq(all, 5, length + 4), SubSeq(all, length + 5, length + 6))

Trailer(byte) ==
  /\ Len(frame) = length + 5
  /\ IF ~Checked(Append(frame, byte)) THEN Fail
     ELSE /\ IF slot = "kernel"
             THEN slot' = "ramfs" /\ UNCHANGED phase
             ELSE phase' = "running" /\ UNCHANGED slot
          /\ busy' = TRUE /\ frame' = <<>> /\ length' = 0
          /\ UNCHANGED mem

(* The message is out and the loader reads on.                              *)
Printed ==
  /\ phase = "loading" /\ busy
  /\ busy' = FALSE
  /\ UNCHANGED <<host, lost, fifo, phase, slot, frame, length, mem>>

Read ==
  /\ phase = "loading" /\ ~busy /\ fifo # <<>>
  /\ \/ HeaderByte(Head(fifo))
     \/ Header(Head(fifo))
     \/ PayloadByte(Head(fifo))
     \/ CrcByte(Head(fifo))
     \/ Trailer(Head(fifo))
  /\ fifo' = Tail(fifo)
  /\ UNCHANGED <<host, lost>>

(* panic reboots the board; the firmware starts again and uart_init clears  *)
(* what the UART had received.                                              *)
Reboot ==
  /\ phase = "panic"
  /\ phase' = "starting" /\ fifo' = <<>>
  /\ UNCHANGED <<host, lost, busy, slot, frame, length, mem>>

-----------------------------------------------------------------------------
Init ==
  /\ sent = 0 /\ runs = 1 /\ lost = 0
  /\ fifo = <<>>
  /\ phase = "starting" /\ busy = FALSE /\ slot = "kernel" /\ frame = <<>> /\ length = 0
  /\ mem = [a \in Address |-> Byte("none", "any", 1)]

Next ==
  \/ Send
  \/ Lose
  \/ Rerun
  \/ Started
  \/ Printed
  \/ Read
  \/ Reboot

(* The script writes what it has, and the processor runs.                   *)
Fairness ==
  /\ WF_vars(Send) /\ WF_vars(Started) /\ WF_vars(Printed)
  /\ WF_vars(Read) /\ WF_vars(Reboot)

Spec == Init /\ [][Next]_vars
FairSpec == Spec /\ Fairness

-----------------------------------------------------------------------------
Bytes ==
  [field : {"magic", "size", "crc", "data", "dtb", "none"},
   image : Image \cup {"any"}, i : Nat]

TypeOK ==
  /\ sent \in 0 .. Len(Script) /\ runs \in 1 .. MaxRuns
  /\ lost \in 0 .. MaxLost
  /\ fifo \in Seq(Bytes) /\ Len(fifo) <= FifoSize
  /\ phase \in {"starting", "loading", "panic", "running"}
  /\ busy \in BOOLEAN /\ slot \in Image
  /\ frame \in Seq(Bytes) /\ Len(frame) <= length + 5
  /\ length \in 0 .. DDR2_SIZE
  /\ DOMAIN mem = Address /\ \A a \in Address : mem[a] \in Bytes

(* Image x lies in memory where the slot y is, from its first byte to its   *)
(* last.                                                                    *)
Holds(y, x) ==
  \A i \in 1 .. Size[x] :
    /\ Base(y) + i - 1 \in Address
    /\ mem[Base(y) + i - 1] = Byte("data", x, i)

(* The firmware jumps only into the kernel that was sent, with the ramfs    *)
(* that was sent beside it (start.c, load_images and jump_to_payload).      *)
BootsWhatWasSent ==
  phase = "running" => \A x \in Image : Holds(x, x)

(* A single run of the script never boots anything but what it sent, no     *)
(* matter which bytes are lost and how often the board starts again in the  *)
(* middle of it.                                                            *)
OneRunBootsWhatWasSent == runs = 1 => BootsWhatWasSent

(* Whatever is lost and however often it starts again, it never jumps with  *)
(* a damaged image in memory (the checksum of serial_load).                 *)
OnlyWholeImages ==
  phase = "running" => \A y \in Image : \E x \in Image : Holds(y, x)

DtbHas(n) ==
  \A i \in 1 .. n : mem[DTB_BASE + i - 1] = Byte("dtb", "any", i)

(* Whatever a misread size word made the loader write over, the device tree *)
(* that was copied (start.c, copy_dtb) is back when the kernel starts.      *)
DtbKept == phase = "running" => DtbHas(dtb_len)

(* The whole device tree is there when the kernel starts.                   *)
DtbWhole == phase = "running" => DtbHas(DTB_SIZE)

(* If nothing is lost the system comes up: the script's blind sending and   *)
(* the firmware's parsing never wait for each other in vain.                *)
BootsUnlessLost == [](lost = 0) => <>(phase = "running")
=============================================================================
