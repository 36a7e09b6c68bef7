-------------------------- MODULE Firmware_proof ------------------------------
(***************************************************************************)
(* The firmware's C code: string.c does what ISO C says, crc32.c computes  *)
(* zlib's checksum, print writes what its format asks for, init_fb shows   *)
(* its bitmap, dev_init and uart_init leave the devices as they must be,   *)
(* and panic's message has left the UART when the reset comes.             *)
(*                                                                         *)
(* Strings. A loop of string.c has done the first part of its work: the    *)
(* bytes written hold their final value and all others what they held at   *)
(* the call, so a source byte that is still to be read is intact (the      *)
(* direction in which memmove goes sees to that), and the bytes a search   *)
(* has passed did not end it.                                              *)
(*                                                                         *)
(* Checksum. A word is the set of its bits, so all is linear: the four     *)
(* bits that are shifted out leave the same whatever is above them, which  *)
(* is their entry in the table.                                            *)
(*                                                                         *)
(* Print. What is on the line, in the UART, still to be put, and still to  *)
(* come from putnumber's loops is what the characters of the format that   *)
(* were read so far ask for.                                               *)
(*                                                                         *)
(* What a recursive definition computes is proved by induction from the    *)
(* least element of a set of numbers (Least, Induction).                   *)
(*                                                                         *)
(* Picture. A row of the bitmap fits into a row of the frame buffer, so    *)
(* rows cannot overlap.                                                    *)
(*                                                                         *)
(* Boot. The registers hold what the stores so far have put there, and a   *)
(* store changes one of them, or its latch, but no other. The characters   *)
(* of panic's message are, in this order, on the terminal, in the UART and *)
(* still to be put there. A character in the UART when the delay begins    *)
(* has been there no longer than the delay, so it is gone before the delay *)
(* ends.                                                                   *)
(***************************************************************************)
EXTENDS MCFirmware, SequenceTheorems, FiniteSetTheorems,
        WellFoundedInduction, TLAPS

(* string.c: how far a loop has come.                                       *)
Copiers == {"memcpy", "memmove"}
Downwards == call.fn = "memmove" /\ call.a > call.b

(* The bytes a writer has written, and what is left to memmove when it goes *)
(* down.                                                                    *)
Written ==
  IF Downwards THEN call.a + i .. call.a + call.n - 1
  ELSE IF call.fn \in Writers THEN call.a .. call.a + i - 1 ELSE {}

(* A call is one that string.c can be given.                                *)
Shape ==
  /\ call \in Call
  /\ mem \in [Address -> Byte] /\ start \in [Address -> Byte]
  /\ call.fn \in Writers => InMemory(call.a) /\ i \in 0 .. call.n
  /\ call.fn \in Copiers => InMemory(call.b)
  /\ call.fn = "memcpy" => Apart
  /\ call.fn = "memmove" /\ call.a = call.b => i = 0

Progress ==
  \A p \in Address : mem[p] = IF p \in Written THEN Value(p) ELSE start[p]

Complete ==
  done /\ call.fn \in Writers =>
    IF Downwards THEN i = 0
    ELSE i = call.n \/ (call.fn = "memmove" /\ call.a = call.b)

LibInv == Shape /\ Progress /\ Complete

-----------------------------------------------------------------------------
(* What the fields of a call may be.                                        *)
LEMMA CallFields ==
  ASSUME call \in Call
  PROVE  /\ call.a \in Address /\ call.b \in Address
         /\ call.n \in 0 .. Cells /\ call.c \in Int
         /\ uint8_t(call.c) \in Byte
<1> USE StringAssumption
<1>1. call.a \in Address
  BY DEF Call
<1>2. call.b \in Address
  BY <1>1 DEF Call, Address
<1>3. call.n \in 0 .. Cells
  BY DEF Call
<1>4. call.c \in Ints \cup {0}
  BY DEF Call
<1>5. call.c \in Int
  <2>1. 0 \in Int /\ Ints \subseteq Int
    OBVIOUS
  <2> QED
    BY ONLY <1>4, <2>1
<1>6. 0 % 256 = 0
  OBVIOUS
<1>7. call.c % 256 \in Byte
  <2>1. CASE call.c = 0
    BY <2>1, <1>6
  <2>2. CASE call.c \in Ints
    BY <2>2
  <2> QED
    BY <1>4, <2>1, <2>2
<1> QED
  BY <1>1, <1>2, <1>3, <1>5, <1>7 DEF uint8_t

(* Init and one step per loop that writes.                                  *)
LEMMA LibInitially == LibInit => LibInv
<1> SUFFICES ASSUME LibInit PROVE LibInv
  OBVIOUS
<1> USE StringAssumption
<1>1. call \in Call /\ mem \in [Address -> Byte] /\ start = mem /\ ~done
  BY DEF LibInit
<1>2. /\ call.a \in Address /\ call.b \in Address /\ call.n \in 0 .. Cells
  BY <1>1, CallFields
<1>3. Shape
  <2>1. call.fn \in Writers => InMemory(call.a)
    BY DEF LibInit, Legal, Writers
  <2>2. call.fn \in Writers => i \in 0 .. call.n
    BY <1>2 DEF LibInit
  <2>3. call.fn \in Copiers => InMemory(call.b)
    BY DEF LibInit, Legal, Copiers
  <2>4. call.fn = "memcpy" => Apart
    BY DEF LibInit, Legal
  <2>5. call.fn = "memmove" /\ call.a = call.b => i = 0
    BY <1>2 DEF LibInit, Address
  <2> QED
    BY <1>1, <2>1, <2>2, <2>3, <2>4, <2>5 DEF Shape
<1>4. Progress
  <2>1. Written = {}
    BY <1>2 DEF LibInit, Written, Downwards, Writers, Address
  <2> QED
    BY <1>1, <2>1 DEF Progress
<1> QED
  BY <1>1, <1>3, <1>4 DEF LibInv, Complete

(* A step that only counts or returns, by a function that does not write.   *)
LEMMA ReaderStep ==
  ASSUME LibInv, UNCHANGED <<start, call, mem>>, call.fn \notin Writers
  PROVE  LibInv'
BY DEF LibInv, Shape, Progress, Complete, Written, Downwards, Writers, Copiers,
       Value, uint8_t, ch

(* The return of a function that writes.                                    *)
LEMMA WriterReturn ==
  ASSUME LibInv, UNCHANGED <<start, call, mem, i>>,
         IF Downwards THEN i = 0
         ELSE i = call.n \/ (call.fn = "memmove" /\ call.a = call.b)
  PROVE  LibInv'
BY DEF LibInv, Shape, Progress, Complete, Written, Downwards, InMemory, Apart,
       Value, ch, uint8_t

(* The byte after those written is written upwards.                         *)
LEMMA UpStep ==
  ASSUME LibInv, UNCHANGED <<start, call, done>>, ~done,
         call.fn \in Writers, ~Downwards, i < call.n,
         call.fn = "memmove" => call.a # call.b,
         NEW v \in Byte, v = Value(call.a + i),
         mem' = [mem EXCEPT ![call.a + i] = v], i' = i + 1
  PROVE  LibInv'
<1> USE StringAssumption
<1>1. /\ call.a \in 1 .. Cells /\ call.b \in 1 .. Cells /\ call.n \in 0 .. Cells
      /\ i \in 0 .. call.n /\ call.a + call.n - 1 <= Cells /\ Cells \in Nat
  BY CallFields DEF LibInv, Shape, InMemory, Address
<1>2. mem \in [1 .. Cells -> Byte] /\ call.a + i \in 1 .. Cells
  BY <1>1 DEF LibInv, Shape, Address
<1>3. Shape'
  BY <1>1, <1>2 DEF LibInv, Shape, InMemory, Apart, Address
<1>4. Progress'
  <2> SUFFICES ASSUME NEW p \in 1 .. Cells
               PROVE  mem'[p] = IF p \in Written' THEN Value(p) ELSE start[p]
    BY DEF Progress, Value, Address, ch, uint8_t
  <2>1. p \in Written' <=> p \in Written \/ p = call.a + i
    BY <1>1 DEF Written, Downwards
  <2>2. mem[p] = IF p \in Written THEN Value(p) ELSE start[p]
    BY DEF LibInv, Progress, Address
  <2> QED
    BY <1>2, <2>1, <2>2
<1> QED
  BY <1>3, <1>4 DEF LibInv, Complete

(* The byte before those written is written downwards.                      *)
LEMMA DownStep ==
  ASSUME LibInv, UNCHANGED <<start, call, done>>, ~done, Downwards, i > 0,
         NEW v \in Byte, v = Value(call.a + i - 1),
         mem' = [mem EXCEPT ![call.a + i - 1] = v], i' = i - 1
  PROVE  LibInv'
<1> USE StringAssumption
<1>1. /\ call.a \in 1 .. Cells /\ call.b \in 1 .. Cells /\ call.n \in 0 .. Cells
      /\ i \in 0 .. call.n /\ call.a + call.n - 1 <= Cells /\ Cells \in Nat
  BY CallFields DEF LibInv, Shape, InMemory, Address, Downwards, Writers
<1>2. mem \in [1 .. Cells -> Byte] /\ call.a + i - 1 \in 1 .. Cells
  BY SMTT(30), <1>1 DEF LibInv, Shape, Address
<1>3. Shape'
  BY <1>1, <1>2 DEF LibInv, Shape, InMemory, Apart, Address, Downwards
<1>4. Progress'
  <2> SUFFICES ASSUME NEW p \in 1 .. Cells
               PROVE  mem'[p] = IF p \in Written' THEN Value(p) ELSE start[p]
    BY DEF Progress, Value, Address, ch, uint8_t
  <2>1. p \in Written' <=> p \in Written \/ p = call.a + i - 1
    BY <1>1 DEF Written, Downwards
  <2>2. mem[p] = IF p \in Written THEN Value(p) ELSE start[p]
    BY DEF LibInv, Progress, Address
  <2> QED
    BY <1>2, <2>1, <2>2
<1> QED
  BY <1>3, <1>4 DEF LibInv, Complete

-----------------------------------------------------------------------------
(* memset, memcpy and memmove.                                              *)
LEMMA SetStep == LibInv /\ memset /\ UNCHANGED <<start, call>> => LibInv'
<1> SUFFICES ASSUME LibInv, memset, UNCHANGED <<start, call>> PROVE LibInv'
  OBVIOUS
<1>1. call.fn = "memset" /\ ~done /\ call.fn \in Writers /\ ~Downwards
  BY DEF memset, Goes, Writers, Downwards
<1>2. i \in 0 .. call.n /\ call.n \in Nat
  BY <1>1, CallFields, StringAssumption DEF LibInv, Shape
<1>3. CASE i < call.n
  <2>1. ch \in Byte /\ ch = Value(call.a + i)
    BY <1>1, CallFields DEF LibInv, Shape, Value, ch
  <2>2. mem' = [mem EXCEPT ![call.a + i] = ch] /\ i' = i + 1 /\ done' = done
    BY <1>3 DEF memset, Put
  <2> QED
    BY <1>1, <1>3, <2>1, <2>2, UpStep
<1>4. CASE ~ (i < call.n)
  <2>1. i = call.n
    BY <1>2, <1>4
  <2>2. UNCHANGED <<mem, i>>
    BY <1>4 DEF memset, Return
  <2> QED
    BY <1>1, <2>1, <2>2, WriterReturn
<1> QED
  BY <1>3, <1>4

LEMMA CopyStep == LibInv /\ memcpy /\ UNCHANGED <<start, call>> => LibInv'
<1> SUFFICES ASSUME LibInv, memcpy, UNCHANGED <<start, call>> PROVE LibInv'
  OBVIOUS
<1> USE StringAssumption
<1>1. call.fn = "memcpy" /\ ~done /\ call.fn \in Writers /\ ~Downwards
  BY DEF memcpy, Goes, Writers, Downwards
<1>2. /\ i \in 0 .. call.n /\ call.n \in Nat /\ Cells \in Nat
      /\ call.a \in 1 .. Cells /\ call.b \in 1 .. Cells
      /\ call.b + call.n - 1 <= Cells
      /\ call.a + call.n <= call.b \/ call.b + call.n <= call.a
  BY <1>1, CallFields DEF LibInv, Shape, Copiers, InMemory, Apart, Address
<1>3. CASE i < call.n
  <2>1. call.b + i \in 1 .. Cells /\ call.b + i \notin call.a .. call.a + i - 1
    BY <1>2, <1>3
  <2>2. AtB = start[call.b + i]
    BY <1>1, <2>1 DEF LibInv, Progress, Written, AtB, Address
  <2>3. call.b + (call.a + i) - call.a = call.b + i
    BY <1>2
  <2>4. AtB \in Byte /\ AtB = Value(call.a + i)
    BY <1>1, <2>1, <2>2, <2>3 DEF LibInv, Shape, Value, Address
  <2>5. mem' = [mem EXCEPT ![call.a + i] = AtB] /\ i' = i + 1 /\ done' = done
    BY <1>3 DEF memcpy, Put
  <2> QED
    BY <1>1, <1>3, <2>4, <2>5, UpStep
<1>4. CASE ~ (i < call.n)
  <2>1. i = call.n
    BY <1>2, <1>4
  <2>2. UNCHANGED <<mem, i>>
    BY <1>4 DEF memcpy, Return
  <2> QED
    BY <1>1, <2>1, <2>2, WriterReturn
<1> QED
  BY <1>3, <1>4

LEMMA MoveStep == LibInv /\ memmove /\ UNCHANGED <<start, call>> => LibInv'
<1> SUFFICES ASSUME LibInv, memmove, UNCHANGED <<start, call>> PROVE LibInv'
  OBVIOUS
<1> USE StringAssumption
<1>1. call.fn = "memmove" /\ ~done /\ call.fn \in Writers
  BY DEF memmove, Goes, Writers
<1>2. /\ i \in 0 .. call.n /\ call.n \in Nat /\ Cells \in Nat
      /\ call.a \in 1 .. Cells /\ call.b \in 1 .. Cells
      /\ call.b + call.n - 1 <= Cells
  BY <1>1, CallFields DEF LibInv, Shape, Copiers, InMemory, Address
<1>3. CASE call.a < call.b /\ i < call.n /\ Put(i, AtB) /\ i' = i + 1
  <2>1. call.b + i \in 1 .. Cells /\ call.b + i \notin call.a .. call.a + i - 1
    BY <1>2, <1>3
  <2>2. ~Downwards /\ call.a # call.b
    BY <1>2, <1>3 DEF Downwards
  <2>3. AtB = start[call.b + i]
    BY <1>1, <2>1, <2>2 DEF LibInv, Progress, Written, AtB, Address
  <2>4. call.b + (call.a + i) - call.a = call.b + i
    BY <1>2
  <2>5. AtB \in Byte /\ AtB = Value(call.a + i)
    BY <1>1, <2>1, <2>3, <2>4 DEF LibInv, Shape, Value, Address
  <2>6. mem' = [mem EXCEPT ![call.a + i] = AtB] /\ done' = done
    BY <1>3 DEF Put
  <2> QED
    BY <1>1, <1>3, <2>2, <2>5, <2>6, UpStep
<1>4. CASE call.a > call.b /\ i > 0 /\ Put(i - 1, mem[call.b + i - 1]) /\ i' = i - 1
  <2> DEFINE v == mem[call.b + i - 1]
  <2>1. /\ call.b + i - 1 \in 1 .. Cells
        /\ call.b + i - 1 \notin call.a + i .. call.a + call.n - 1
    BY <1>2, <1>4
  <2>2. Downwards
    BY <1>1, <1>4 DEF Downwards
  <2>3. v = start[call.b + i - 1]
    BY <2>1, <2>2 DEF LibInv, Progress, Written, Address
  <2>4. call.b + (call.a + i - 1) - call.a = call.b + i - 1
    BY <1>2
  <2>5. v \in Byte /\ v = Value(call.a + i - 1)
    BY <1>1, <2>1, <2>3, <2>4 DEF LibInv, Shape, Value, Address
  <2>6. call.a + (i - 1) = call.a + i - 1
    BY <1>2
  <2>7. mem' = [mem EXCEPT ![call.a + i - 1] = v] /\ done' = done
    BY <1>4, <2>6 DEF Put
  <2> QED
    BY <1>1, <1>4, <2>2, <2>5, <2>7, DownStep
<1>5. CASE /\ call.a = call.b \/ (call.a < call.b /\ i = call.n) \/ (call.a > call.b /\ i = 0)
           /\ Return(call.a)
  <2>1. UNCHANGED <<mem, i>>
    BY <1>5 DEF Return
  <2>2. IF Downwards THEN i = 0
        ELSE i = call.n \/ (call.fn = "memmove" /\ call.a = call.b)
    BY <1>1, <1>2, <1>5 DEF Downwards
  <2> QED
    BY <2>1, <2>2, WriterReturn
<1> QED
  BY <1>3, <1>4, <1>5 DEF memmove

(* The functions that read write nothing.                                   *)
LEMMA LibStep == LibInv /\ [LibNext]_libVars => LibInv'
<1> SUFFICES ASSUME LibInv, [LibNext]_libVars PROVE LibInv'
  OBVIOUS
<1>1. CASE UNCHANGED libVars
  BY <1>1 DEF libVars, LibInv, Shape, Progress, Complete, Written, Downwards,
              InMemory, Apart, Value, ch, uint8_t
<1>2. CASE LibNext
  <2>1. UNCHANGED <<start, call>>
    BY <1>2 DEF LibNext
  <2>2. CASE strcmp \/ strncmp \/ strlen \/ strnlen \/ strrchr \/ memcmp \/ memchr
    <3>1. call.fn \notin Writers
      BY <2>2 DEF strcmp, strncmp, strlen, strnlen, strrchr, memcmp, memchr, Goes, Writers
    <3>2. mem' = mem
      BY <2>2 DEF strcmp, strncmp, strlen, strnlen, strrchr, memcmp, memchr, More, Return
    <3> QED
      BY <2>1, <3>1, <3>2, ReaderStep
  <2> QED
    BY <1>2, <2>1, <2>2, SetStep, CopyStep, MoveStep DEF LibNext
<1> QED
  BY <1>1, <1>2

-----------------------------------------------------------------------------
(* The bytes written, in whatever order, are the destination in the end.    *)
LEMMA InvGivesMemory == LibInv => MemoryAsInC
<1> SUFFICES ASSUME LibInv PROVE MemoryAsInC
  OBVIOUS
<1> USE StringAssumption
<1>1. /\ call.a \in 1 .. Cells /\ call.b \in 1 .. Cells /\ call.n \in 0 .. Cells
      /\ Cells \in Nat
  BY CallFields DEF LibInv, Shape, Address
<1>2. call.fn \in Writers => i \in 0 .. call.n /\ call.a + call.n - 1 <= Cells
  BY DEF LibInv, Shape, InMemory
<1>3. Written \subseteq Destination
  BY <1>1, <1>2 DEF Written, Destination, Downwards, Writers
<1>4. ASSUME NEW p \in Address \ Destination PROVE mem[p] = start[p]
  BY <1>3 DEF LibInv, Progress
<1>5. ASSUME done, NEW p \in Destination PROVE mem[p] = Value(p)
  <2>1. call.fn \in Writers /\ p \in call.a .. call.a + call.n - 1 /\ p \in Address
    BY <1>1, <1>2, <1>5 DEF Destination, Address
  <2>2. CASE p \in Written
    BY <2>1, <2>2 DEF LibInv, Progress
  <2>3. CASE p \notin Written
    <3>1. call.fn = "memmove" /\ call.a = call.b
      BY <1>1, <1>2, <1>5, <2>1, <2>3 DEF LibInv, Complete, Written, Downwards
    <3>2. call.b + p - call.a = p
      BY <1>1, <2>1, <3>1
    <3> QED
      BY <2>1, <2>3, <3>1, <3>2 DEF LibInv, Progress, Value
  <2> QED
    BY <2>2, <2>3
<1> QED
  BY <1>4, <1>5 DEF MemoryAsInC

-----------------------------------------------------------------------------
(* The functions that compare, that end at a NUL, that count, and what each *)
(* has found so far.                                                        *)
Compares == {"strcmp", "strncmp", "memcmp"}
OnStrings == {"strcmp", "strncmp", "strlen", "strnlen", "strrchr"}
Counted == {"strncmp", "memcmp", "strnlen", "memchr"}

(* What the bytes that a loop has passed tell: they did not end it.         *)
Passed ==
  /\ call.fn \in Compares => \A j \in 0 .. i - 1 : ~Differs(j)
  /\ call.fn \in OnStrings => \A j \in 0 .. i - 1 : ~Ends(j)
  /\ call.fn \in Counted => i <= call.n
  /\ call.fn = "memchr" => \A j \in 0 .. i - 1 : start[call.a + j] # ch
  /\ call.fn = "strrchr" =>
       last = LargestOr({p \in call.a .. call.a + i - 1 : start[p] = ch}, NULL)

Reading == call.fn \notin Writers => mem = start /\ Legal /\ i \in Nat
(* What is returned is what was promised.                                   *)
Answered == IF done THEN Result = Promised ELSE Passed

StringInv == LibInv /\ Reading /\ Answered

-----------------------------------------------------------------------------
(* The least and the greatest of a set of numbers.                          *)
LEMMA TheSmallest ==
  ASSUME NEW T, T \subseteq Int, NEW m \in T, \A j \in T : m <= j, NEW d
  PROVE  SmallestOr(T, d) = m
<1> DEFINE P(q) == q \in T /\ \A j \in T : q <= j
           c == CHOOSE q \in T : \A j \in T : q <= j
<1>1. c \in T /\ \A j \in T : c <= j
  <2>1. \E q \in T : \A j \in T : q <= j
    OBVIOUS
  <2> QED
    BY <2>1
<1>2. c = m
  <2>1. c \in Int /\ m \in Int /\ c <= m /\ m <= c
    BY <1>1
  <2> HIDE DEF c
  <2> QED
    BY <2>1
<1> QED
  BY <1>2 DEF SmallestOr

LEMMA TheLargest ==
  ASSUME NEW T, T \subseteq Int, NEW m \in T, \A j \in T : m >= j, NEW d
  PROVE  LargestOr(T, d) = m
<1> DEFINE c == CHOOSE q \in T : \A j \in T : q >= j
<1>1. c \in T /\ \A j \in T : c >= j
  <2>1. \E q \in T : \A j \in T : q >= j
    OBVIOUS
  <2> QED
    BY <2>1
<1>2. c = m
  <2>1. c \in Int /\ m \in Int /\ c <= m /\ m <= c
    BY <1>1
  <2> HIDE DEF c
  <2> QED
    BY <2>1
<1> QED
  BY <1>2 DEF LargestOr

(* A string ends in memory, so a loop that has only passed bytes that are   *)
(* not zero is still inside it.                                             *)
LEMMA InString ==
  ASSUME NEW s \in Address, NEW n \in Nat, Terminated(s),
         \A j \in 0 .. n - 1 : mem[s + j] # 0
  PROVE  s + n \in Address
<1> USE StringAssumption DEF Address
<1>1. PICK t \in s .. Cells : mem[t] = 0
  BY DEF Terminated
<1>2. t \in Nat /\ s \in Nat /\ Cells \in Nat /\ s >= 1
  OBVIOUS
<1>3. ~ (n > t - s)
  <2> SUFFICES ASSUME n > t - s PROVE FALSE
    OBVIOUS
  <2>1. t - s \in 0 .. n - 1 /\ s + (t - s) = t
    BY <1>2
  <2> QED
    BY <1>1, <2>1
<1> QED
  BY <1>2, <1>3

(* What a reader's loop looks at lies in memory, and is what was there at   *)
(* the call.                                                                *)
LEMMA LooksInMemory ==
  ASSUME StringInv, ~done, call.fn \notin Writers,
         call.fn \in Counted => i # call.n
  PROVE  /\ call.a + i \in Address /\ AtA = start[call.a + i] /\ AtA \in Int
         /\ call.fn \in Compares =>
              call.b + i \in Address /\ AtB = start[call.b + i] /\ AtB \in Int
<1> USE StringAssumption
<1>1. /\ call.a \in Address /\ call.b \in Address /\ call.n \in 0 .. Cells
      /\ i \in Nat /\ mem = start /\ Cells \in Nat /\ Legal
      /\ mem \in [Address -> Byte]
  BY CallFields DEF StringInv, LibInv, Shape, Reading
<1>2. Passed
  BY DEF StringInv, Answered
<1>3. call.fn \in Counted => i < call.n
  BY <1>1, <1>2 DEF Passed
<1>4. call.fn \in OnStrings => \A j \in 0 .. i - 1 : mem[call.a + j] # 0
  BY <1>1, <1>2 DEF Passed, Ends
<1>5. call.fn \in {"strcmp", "strncmp"} => \A j \in 0 .. i - 1 : mem[call.b + j] # 0
  BY <1>1, <1>2 DEF Passed, Ends, Differs, OnStrings, Compares
<1>6. ASSUME NEW s \in Address, InMemory(s), i < call.n
      PROVE  s + i \in Address
  BY <1>1, <1>6 DEF InMemory, Address
<1>7. call.fn \in {"strcmp", "strncmp", "strlen", "strnlen", "strrchr", "memcmp", "memchr"}
  BY DEF StringInv, LibInv, Shape, Call, Writers
<1>8. call.a + i \in Address
  <2>1. CASE call.fn \in {"strcmp", "strlen", "strrchr"}
    BY <1>1, <1>4, <2>1, InString DEF Legal, OnStrings
  <2>2. CASE call.fn \in {"strncmp", "strnlen"}
    BY <1>1, <1>3, <1>4, <1>6, <2>2, InString DEF Legal, OnStrings, Counted, Bounded
  <2>3. CASE call.fn \in {"memcmp", "memchr"}
    BY <1>1, <1>3, <1>6, <2>3 DEF Legal, Counted
  <2> QED
    BY <1>7, <2>1, <2>2, <2>3
<1>9. call.fn \in Compares => call.b + i \in Address
  <2>1. CASE call.fn = "strcmp"
    BY <1>1, <1>5, <2>1, InString DEF Legal
  <2>2. CASE call.fn = "strncmp"
    BY <1>1, <1>3, <1>5, <1>6, <2>2, InString DEF Legal, Counted, Bounded
  <2>3. CASE call.fn = "memcmp"
    BY <1>1, <1>3, <1>6, <2>3 DEF Legal, Counted
  <2> QED
    BY <2>1, <2>2, <2>3 DEF Compares
<1>10. \A p \in Address : mem[p] \in Int
  <2>1. Byte \subseteq Int /\ mem \in [Address -> Byte]
    BY <1>1
  <2> QED
    BY ONLY <2>1
<1> QED
  BY <1>1, <1>8, <1>9, <1>10 DEF AtA, AtB

-----------------------------------------------------------------------------
(* A reader's loop goes on.                                                 *)
LEMMA GoesOn ==
  ASSUME StringInv, ~done, call.fn \notin Writers, UNCHANGED <<start, call, mem, done>>,
         call.fn \in Counted => i # call.n,
         call.fn \in Compares => AtA = AtB,
         call.fn \in OnStrings => AtA # 0,
         call.fn = "memchr" => AtA # ch,
         call.fn = "strrchr" => last' = IF AtA = ch THEN call.a + i ELSE last,
         i' = i + 1
  PROVE  StringInv'
<1> USE StringAssumption
<1>1. /\ i \in Nat /\ call.n \in Nat /\ call.a \in Nat /\ mem = start
      /\ call.a + i \in Address /\ AtA = start[call.a + i]
      /\ call.fn \in Compares => AtB = start[call.b + i]
  <2>1. call.a \in Address /\ call.n \in 0 .. Cells /\ i \in Nat /\ mem = start
    BY CallFields DEF StringInv, LibInv, Shape, Reading
  <2> QED
    BY <2>1, LooksInMemory DEF Address
<1>2. Passed
  BY DEF StringInv, Answered
<1>3. \A j \in 0 .. i' - 1 : j \in 0 .. i - 1 \/ j = i
  BY <1>1
<1>4. LibInv'
  BY ReaderStep DEF StringInv
<1>5. Reading'
  <2>1. Legal => Legal'
    BY DEF Legal, Terminated, Bounded, InMemory, Apart
  <2>2. i' \in Nat
    BY <1>1
  <2> QED
    BY <2>1, <2>2 DEF StringInv, Reading
<1>6. call.fn \in Compares => \A j \in 0 .. i' - 1 : ~Differs(j)
  BY <1>1, <1>2, <1>3 DEF Passed, Differs
<1>7. call.fn \in OnStrings => \A j \in 0 .. i' - 1 : ~Ends(j)
  BY <1>1, <1>2, <1>3 DEF Passed, Ends
<1>8. call.fn \in Counted => i' <= call.n
  BY <1>1, <1>2 DEF Passed
<1>9. call.fn = "memchr" => \A j \in 0 .. i' - 1 : start[call.a + j] # ch
  BY <1>1, <1>2, <1>3 DEF Passed
<1>10. ASSUME call.fn = "strrchr"
       PROVE  last' = LargestOr({p \in call.a .. call.a + i' - 1 : start[p] = ch}, NULL)
  <2> DEFINE T == {p \in call.a .. call.a + i - 1 : start[p] = ch}
             U == {p \in call.a .. call.a + i' - 1 : start[p] = ch}
  <2>1. last = LargestOr(T, NULL)
    BY <1>2, <1>10 DEF Passed
  <2>2. \A p : p \in call.a .. call.a + i' - 1 <=> p \in call.a .. call.a + i - 1 \/ p = call.a + i
    BY <1>1
  <2>3. CASE AtA = ch
    <3>1. call.a + i \in U
      BY <1>1, <2>2, <2>3
    <3>2. \A p \in U : call.a + i >= p
      BY <1>1, <2>2
    <3>3. U \subseteq Int
      BY <1>1
    <3>4. LargestOr(U, NULL) = call.a + i
      <4> HIDE DEF U
      <4> QED
        BY <3>1, <3>2, <3>3, TheLargest
    <3> QED
      BY <1>10, <2>3, <3>4
  <2>4. CASE AtA # ch
    <3>1. U = T
      BY <1>1, <2>2, <2>4
    <3> QED
      BY <1>10, <2>1, <2>4, <3>1
  <2> QED
    BY <2>3, <2>4
<1>11. Passed'
  BY <1>6, <1>7, <1>8, <1>9, <1>10 DEF Passed, Differs, Ends, ch, uint8_t
<1> QED
  BY <1>4, <1>5, <1>11 DEF StringInv, Answered

(* A reader returns.                                                        *)
LEMMA Returns ==
  ASSUME StringInv, call.fn \notin Writers, UNCHANGED <<start, call, mem, i>>,
         done', Result' = Promised
  PROVE  StringInv'
<1>1. LibInv'
  BY ReaderStep DEF StringInv
<1>2. Reading'
  BY DEF StringInv, Reading, Legal, Terminated, Bounded, InMemory, Apart
<1>3. Promised' = Promised
  BY DEF Promised, Compare, Reach, Differs, Ends, Below, StrEnd, ch, uint8_t
<1> QED
  BY <1>1, <1>2, <1>3 DEF StringInv, Answered

-----------------------------------------------------------------------------
(* A comparison ends at the first position that tells the ranges apart, or  *)
(* finds none.                                                              *)
LEMMA ComparedAt ==
  ASSUME NEW T, T \subseteq Nat, i \in T, \A j \in T : i <= j,
         call.fn \in Compares, ret' = start[call.a + i] - start[call.b + i],
         UNCHANGED call
  PROVE  Result' = Compare(T)
<1>1. SmallestOr(T, 0) = i /\ T # {}
  <2>1. T \subseteq Int
    OBVIOUS
  <2> QED
    BY <2>1, TheSmallest
<1>2. Result' = Sign(ret')
  BY DEF Result, Compares, Sign
<1> QED
  BY <1>1, <1>2 DEF Compare, Sign

(* At its first byte a loop has been told nothing.                          *)
LEMMA NothingTold ==
  ASSUME call.fn \in Compares, ret' = 0, UNCHANGED call
  PROVE  Result' = Compare({})
BY DEF Result, Compares, Sign, Compare

(* The end of the string is where the loop finds its first zero.            *)
LEMMA EndsHere ==
  ASSUME StringInv, ~done, call.fn \in {"strlen", "strrchr"}, AtA = 0
  PROVE  StrEnd(call.a) = call.a + i
<1> DEFINE Stops(e) == start[e] = 0 /\ \A j \in call.a .. e - 1 : start[j] # 0
           c == CHOOSE e \in call.a .. Cells : Stops(e)
<1>1. /\ call.a + i \in Address /\ start[call.a + i] = 0
      /\ \A j \in 0 .. i - 1 : start[call.a + j] # 0
  <2>1. call.fn \notin Writers /\ call.fn \notin Counted /\ call.fn \in OnStrings
    BY DEF Writers, Counted, OnStrings
  <2> QED
    BY <2>1, LooksInMemory DEF StringInv, Answered, Passed, Ends
<1>2. call.a \in Nat /\ i \in Nat /\ Cells \in Nat
  BY CallFields, StringAssumption DEF StringInv, LibInv, Shape, Reading, Writers, Address
<1>3. \A j \in call.a .. call.a + i - 1 : start[j] # 0
  <2> SUFFICES ASSUME NEW j \in call.a .. call.a + i - 1 PROVE start[j] # 0
    OBVIOUS
  <2>1. j - call.a \in 0 .. i - 1 /\ call.a + (j - call.a) = j
    BY <1>2
  <2> QED
    BY <1>1, <2>1
<1>4. call.a + i \in call.a .. Cells /\ Stops(call.a + i)
  BY <1>1, <1>2, <1>3 DEF Address
<1>5. c \in call.a .. Cells /\ Stops(c)
  BY <1>4
<1>6. \A e, f \in call.a .. Cells : Stops(e) /\ Stops(f) => e = f
  <2> SUFFICES ASSUME NEW e \in call.a .. Cells, NEW f \in call.a .. Cells,
                      Stops(e), Stops(f), e < f
               PROVE  FALSE
    BY <1>2
  <2> QED
    BY <1>2
<1> HIDE DEF Stops
<1>7. c = call.a + i
  <2> HIDE DEF c
  <2> QED
    BY <1>4, <1>5, <1>6
<1> QED
  BY <1>7 DEF StrEnd, Stops

(* One step per loop that reads.                                            *)
LEMMA StrcmpStep == StringInv /\ strcmp /\ UNCHANGED <<start, call>> => StringInv'
<1> SUFFICES ASSUME StringInv, strcmp, UNCHANGED <<start, call>> PROVE StringInv'
  OBVIOUS
<1>1. ~done /\ call.fn = "strcmp" /\ call.fn \notin Writers /\ call.fn \in Compares
      /\ call.fn \notin Counted
  BY DEF strcmp, Goes, Writers, Compares, Counted
<1>2. CASE AtA # 0 /\ AtA = AtB
  BY <1>1, <1>2, GoesOn DEF strcmp, More
<1>3. CASE ~ (AtA # 0 /\ AtA = AtB)
  <2> DEFINE T == {p \in Reach : Differs(p) \/ Ends(p)}
  <2>1. UNCHANGED <<mem, i>> /\ done' /\ ret' = AtA - AtB
    BY <1>3 DEF strcmp, Return
  <2>2. /\ call.a + i \in Address /\ AtA = start[call.a + i]
        /\ call.b + i \in Address /\ AtB = start[call.b + i]
    BY <1>1, LooksInMemory
  <2>3. i \in Nat /\ call.a \in Nat /\ call.b \in Nat /\ call.a >= 1 /\ Cells \in Nat
    BY <1>1, CallFields, StringAssumption DEF StringInv, LibInv, Shape, Reading, Address
  <2>4. T \subseteq Nat
    BY DEF Reach
  <2>5. i \in T
    BY <1>3, <2>2, <2>3 DEF Reach, Differs, Ends, Address
  <2>6. \A j \in T : i <= j
    <3>1. \A j \in 0 .. i - 1 : ~Differs(j) /\ ~Ends(j)
      BY <1>1 DEF StringInv, Answered, Passed, OnStrings
    <3> QED
      BY <2>3, <2>4, <3>1
  <2>7. Result' = Compare(T)
    <3> HIDE DEF T
    <3> QED
      BY <1>1, <2>1, <2>2, <2>4, <2>5, <2>6, ComparedAt
  <2>8. Promised = Compare(T)
    BY <1>1 DEF Promised
  <2> QED
    BY <1>1, <2>1, <2>7, <2>8, Returns
<1> QED
  BY <1>2, <1>3

LEMMA StrncmpStep == StringInv /\ strncmp /\ UNCHANGED <<start, call>> => StringInv'
<1> SUFFICES ASSUME StringInv, strncmp, UNCHANGED <<start, call>> PROVE StringInv'
  OBVIOUS
<1> DEFINE T == {p \in Reach \cap Below : Differs(p) \/ Ends(p)}
<1>1. /\ ~done /\ call.fn = "strncmp" /\ call.fn \notin Writers /\ call.fn \in Compares
      /\ call.fn \in Counted /\ call.fn \in OnStrings
  BY DEF strncmp, Goes, Writers, Compares, Counted, OnStrings
<1>2. /\ i \in Nat /\ i <= call.n /\ call.n \in Nat /\ Cells \in Nat
      /\ call.a \in Nat /\ call.b \in Nat /\ call.a >= 1
      /\ \A j \in 0 .. i - 1 : ~Differs(j) /\ ~Ends(j)
  BY <1>1, CallFields, StringAssumption
     DEF StringInv, LibInv, Shape, Reading, Address, Answered, Passed
<1>3. Promised = Compare(T)
  BY <1>1 DEF Promised
<1>4. CASE i = call.n
  <2>1. UNCHANGED <<mem, i>> /\ done' /\ ret' = 0
    BY <1>4 DEF strncmp, Return
  <2>2. T = {}
    BY <1>2, <1>4 DEF Below
  <2>3. Result' = Compare(T)
    BY <1>1, <2>1, <2>2, NothingTold
  <2> QED
    BY <1>1, <1>3, <2>1, <2>3, Returns
<1>5. CASE i # call.n /\ (AtA # AtB \/ AtA = 0)
  <2>1. UNCHANGED <<mem, i>> /\ done' /\ ret' = AtA - AtB
    BY <1>5 DEF strncmp, Return
  <2>2. /\ call.a + i \in Address /\ AtA = start[call.a + i]
        /\ call.b + i \in Address /\ AtB = start[call.b + i]
    BY <1>1, <1>5, LooksInMemory
  <2>3. T \subseteq Nat
    BY DEF Reach
  <2>4. i \in T
    BY <1>2, <1>5, <2>2 DEF Reach, Differs, Ends, Address, Below
  <2>5. \A j \in T : i <= j
    BY <1>2, <2>3
  <2>6. Result' = Compare(T)
    <3> HIDE DEF T
    <3> QED
      BY <1>1, <2>1, <2>2, <2>3, <2>4, <2>5, ComparedAt
  <2> QED
    BY <1>1, <1>3, <2>1, <2>6, Returns
<1>6. CASE i # call.n /\ AtA = AtB /\ AtA # 0
  <2>1. More
    BY <1>6 DEF strncmp
  <2> QED
    BY <1>1, <1>6, <2>1, GoesOn DEF More
<1> QED
  BY <1>4, <1>5, <1>6

LEMMA MemcmpStep == StringInv /\ memcmp /\ UNCHANGED <<start, call>> => StringInv'
<1> SUFFICES ASSUME StringInv, memcmp, UNCHANGED <<start, call>> PROVE StringInv'
  OBVIOUS
<1> DEFINE T == {p \in Below : Differs(p)}
<1>1. /\ ~done /\ call.fn = "memcmp" /\ call.fn \notin Writers /\ call.fn \in Compares
      /\ call.fn \in Counted /\ call.fn \notin OnStrings
  BY DEF memcmp, Goes, Writers, Compares, Counted, OnStrings
<1>2. /\ i \in Nat /\ i <= call.n /\ call.n \in Nat
      /\ \A j \in 0 .. i - 1 : ~Differs(j)
  BY <1>1, CallFields, StringAssumption
     DEF StringInv, LibInv, Shape, Reading, Answered, Passed
<1>3. Promised = Compare(T)
  BY <1>1 DEF Promised
<1>4. CASE i = call.n
  <2>1. UNCHANGED <<mem, i>> /\ done' /\ ret' = 0
    BY <1>4 DEF memcmp, Return
  <2>2. T = {}
    BY <1>2, <1>4 DEF Below
  <2>3. Result' = Compare(T)
    BY <1>1, <2>1, <2>2, NothingTold
  <2> QED
    BY <1>1, <1>3, <2>1, <2>3, Returns
<1>5. CASE i # call.n /\ AtA # AtB
  <2>1. UNCHANGED <<mem, i>> /\ done' /\ ret' = AtA - AtB
    BY <1>5 DEF memcmp, Return
  <2>2. AtA = start[call.a + i] /\ AtB = start[call.b + i]
    BY <1>1, <1>5, LooksInMemory
  <2>3. T \subseteq Nat
    BY <1>2 DEF Below
  <2>4. i \in T
    BY <1>2, <1>5, <2>2 DEF Differs, Below
  <2>5. \A j \in T : i <= j
    BY <1>2, <2>3
  <2>6. Result' = Compare(T)
    <3> HIDE DEF T
    <3> QED
      BY <1>1, <2>1, <2>2, <2>3, <2>4, <2>5, ComparedAt
  <2> QED
    BY <1>1, <1>3, <2>1, <2>6, Returns
<1>6. CASE i # call.n /\ AtA = AtB
  <2>1. More
    BY <1>6 DEF memcmp
  <2> QED
    BY <1>1, <1>6, <2>1, GoesOn DEF More
<1> QED
  BY <1>4, <1>5, <1>6

(* The functions that look for a byte.                                      *)
LEMMA StrlenStep == StringInv /\ strlen /\ UNCHANGED <<start, call>> => StringInv'
<1> SUFFICES ASSUME StringInv, strlen, UNCHANGED <<start, call>> PROVE StringInv'
  OBVIOUS
<1>1. /\ ~done /\ call.fn = "strlen" /\ call.fn \notin Writers /\ call.fn \notin Compares
      /\ call.fn \notin Counted /\ call.fn \in OnStrings
  BY DEF strlen, Goes, Writers, Compares, Counted, OnStrings
<1>2. CASE AtA # 0
  BY <1>1, <1>2, GoesOn DEF strlen, More
<1>3. CASE AtA = 0
  <2>1. UNCHANGED <<mem, i>> /\ done' /\ ret' = i
    BY <1>3 DEF strlen, Return
  <2>2. StrEnd(call.a) = call.a + i
    BY <1>1, <1>3, EndsHere
  <2>3. call.a \in Nat /\ i \in Nat
    BY <1>1, CallFields, StringAssumption DEF StringInv, LibInv, Shape, Reading, Address
  <2>4. Result' = Promised
    BY <1>1, <2>1, <2>2, <2>3 DEF Result, Promised
  <2> QED
    BY <1>1, <2>1, <2>4, Returns
<1> QED
  BY <1>2, <1>3

LEMMA StrnlenStep == StringInv /\ strnlen /\ UNCHANGED <<start, call>> => StringInv'
<1> SUFFICES ASSUME StringInv, strnlen, UNCHANGED <<start, call>> PROVE StringInv'
  OBVIOUS
<1> DEFINE T == {p \in Below : call.a + p \in Address /\ Ends(p)}
<1>1. /\ ~done /\ call.fn = "strnlen" /\ call.fn \notin Writers /\ call.fn \notin Compares
      /\ call.fn \in Counted /\ call.fn \in OnStrings
  BY DEF strnlen, Goes, Writers, Compares, Counted, OnStrings
<1>2. /\ i \in Nat /\ i <= call.n /\ call.n \in Nat
      /\ \A j \in 0 .. i - 1 : ~Ends(j)
  BY <1>1, CallFields, StringAssumption
     DEF StringInv, LibInv, Shape, Reading, Answered, Passed
<1>3. Promised = SmallestOr(T, call.n)
  BY <1>1 DEF Promised
<1>4. CASE i < call.n /\ AtA # 0
  BY <1>1, <1>2, <1>4, GoesOn DEF strnlen, More
<1>5. CASE ~ (i < call.n /\ AtA # 0)
  <2>1. UNCHANGED <<mem, i>> /\ done' /\ ret' = i
    BY <1>5 DEF strnlen, Return
  <2>2. SmallestOr(T, call.n) = i
    <3>1. CASE i = call.n
      <4>1. T = {}
        BY <1>2, <3>1 DEF Below
      <4> QED
        BY <3>1, <4>1 DEF SmallestOr
    <3>2. CASE i # call.n
      <4>1. call.a + i \in Address /\ AtA = start[call.a + i] /\ AtA = 0
        BY <1>1, <1>2, <1>5, <3>2, LooksInMemory
      <4>2. i \in T
        <5>1. i \in Below
          BY <1>2, <3>2 DEF Below
        <5> QED
          BY <4>1, <5>1 DEF Ends
      <4>3. T \subseteq Int
        BY <1>2 DEF Below
      <4>4. \A j \in T : i <= j
        BY <1>2, <4>3 DEF Below
      <4> HIDE DEF T
      <4> QED
        BY <4>2, <4>3, <4>4, TheSmallest
    <3> QED
      BY <3>1, <3>2
  <2>3. Result' = Promised
    BY <1>1, <1>3, <2>1, <2>2 DEF Result, Compares
  <2> QED
    BY <1>1, <2>1, <2>3, Returns
<1> QED
  BY <1>4, <1>5

LEMMA MemchrStep == StringInv /\ memchr /\ UNCHANGED <<start, call>> => StringInv'
<1> SUFFICES ASSUME StringInv, memchr, UNCHANGED <<start, call>> PROVE StringInv'
  OBVIOUS
<1> DEFINE T == {p \in call.a .. call.a + call.n - 1 : start[p] = ch}
<1>1. /\ ~done /\ call.fn = "memchr" /\ call.fn \notin Writers /\ call.fn \notin Compares
      /\ call.fn \in Counted /\ call.fn \notin OnStrings
  BY DEF memchr, Goes, Writers, Compares, Counted, OnStrings
<1>2. /\ i \in Nat /\ i <= call.n /\ call.n \in Nat /\ call.a \in Nat
      /\ \A j \in 0 .. i - 1 : start[call.a + j] # ch
  BY <1>1, CallFields, StringAssumption
     DEF StringInv, LibInv, Shape, Reading, Answered, Passed, Address
<1>3. Promised = SmallestOr(T, NULL)
  BY <1>1 DEF Promised
<1>4. \A p \in T : p >= call.a + i
  <2> SUFFICES ASSUME NEW p \in T, ~ (p >= call.a + i) PROVE FALSE
    OBVIOUS
  <2>1. p - call.a \in 0 .. i - 1 /\ call.a + (p - call.a) = p
    BY <1>2
  <2> QED
    BY <1>2, <2>1
<1>5. CASE i = call.n
  <2>1. UNCHANGED <<mem, i>> /\ done' /\ ret' = NULL
    BY <1>5 DEF memchr, Return
  <2>2. T = {}
    BY <1>2, <1>4, <1>5
  <2>3. Result' = Promised
    BY <1>1, <1>3, <2>1, <2>2 DEF Result, Compares, SmallestOr
  <2> QED
    BY <1>1, <2>1, <2>3, Returns
<1>6. CASE i # call.n /\ AtA = ch
  <2>1. UNCHANGED <<mem, i>> /\ done' /\ ret' = call.a + i
    BY <1>6 DEF memchr, Return
  <2>2. AtA = start[call.a + i]
    BY <1>1, <1>6, LooksInMemory
  <2>3. call.a + i \in T
    BY <1>2, <1>6, <2>2
  <2>4. T \subseteq Int /\ \A p \in T : call.a + i <= p
    BY <1>2, <1>4
  <2>5. SmallestOr(T, NULL) = call.a + i
    <3> HIDE DEF T
    <3> QED
      BY <2>3, <2>4, TheSmallest
  <2>6. Result' = Promised
    BY <1>1, <1>3, <2>1, <2>5 DEF Result, Compares
  <2> QED
    BY <1>1, <2>1, <2>6, Returns
<1>7. CASE i # call.n /\ AtA # ch
  <2>1. More
    BY <1>7 DEF memchr
  <2> QED
    BY <1>1, <1>7, <2>1, GoesOn DEF More
<1> QED
  BY <1>5, <1>6, <1>7

LEMMA StrrchrStep == StringInv /\ strrchr /\ UNCHANGED <<start, call>> => StringInv'
<1> SUFFICES ASSUME StringInv, strrchr, UNCHANGED <<start, call>> PROVE StringInv'
  OBVIOUS
<1>1. /\ ~done /\ call.fn = "strrchr" /\ call.fn \notin Writers /\ call.fn \notin Compares
      /\ call.fn \notin Counted /\ call.fn \in OnStrings
  BY DEF strrchr, Goes, Writers, Compares, Counted, OnStrings
<1>2. CASE AtA # 0
  BY <1>1, <1>2, GoesOn DEF strrchr, Return
<1>3. CASE AtA = 0
  <2> DEFINE T == {p \in call.a .. call.a + i - 1 : start[p] = ch}
             U == {p \in call.a .. StrEnd(call.a) : start[p] = ch}
  <2>1. UNCHANGED <<mem, i>> /\ done' /\ ret' = IF ch = 0 THEN call.a + i ELSE last
    BY <1>3 DEF strrchr, Return
  <2>2. StrEnd(call.a) = call.a + i
    BY <1>1, <1>3, EndsHere
  <2>3. call.a \in Nat /\ i \in Nat /\ start[call.a + i] = 0
    BY <1>1, <1>3, CallFields, StringAssumption, LooksInMemory
       DEF StringInv, LibInv, Shape, Reading, Address
  <2>4. last = LargestOr(T, NULL)
    BY <1>1 DEF StringInv, Answered, Passed
  <2>5. LargestOr(U, NULL) = IF ch = 0 THEN call.a + i ELSE last
    <3>1. CASE ch = 0
      <4>1. call.a + i \in U
        BY <2>2, <2>3, <3>1
      <4>2. U \subseteq Int /\ \A p \in U : call.a + i >= p
        BY <2>2, <2>3
      <4> HIDE DEF U
      <4> QED
        BY <3>1, <4>1, <4>2, TheLargest
    <3>2. CASE ch # 0
      <4>1. \A p : p \in call.a .. call.a + i <=> p \in call.a .. call.a + i - 1 \/ p = call.a + i
        BY <2>3
      <4>2. U = T
        BY <2>2, <2>3, <3>2, <4>1
      <4> QED
        BY <2>4, <3>2, <4>2
    <3> QED
      BY <3>1, <3>2
  <2>6. Result' = Promised
    BY <1>1, <2>1, <2>5 DEF Result, Promised
  <2> QED
    BY <1>1, <2>1, <2>6, Returns
<1> QED
  BY <1>2, <1>3

-----------------------------------------------------------------------------
(* The functions that write return their destination.                       *)
LEMMA WriterAnswers ==
  ASSUME StringInv, call.fn \in Writers, LibInv',
         UNCHANGED <<start, call>>,
         ~done' \/ (done' /\ ret' = call.a)
  PROVE  StringInv'
<1>1. call'.fn \in Writers
  OBVIOUS
<1>2. Reading'
  BY <1>1 DEF Reading
<1>3. done' => Result' = Promised'
  BY <1>1 DEF Result, Promised, Writers
<1>4. Passed'
  BY <1>1 DEF Passed, Writers, Compares, OnStrings, Counted
<1> QED
  BY <1>2, <1>3, <1>4 DEF StringInv, Answered

LEMMA StringInitially == LibInit => StringInv
<1> SUFFICES ASSUME LibInit PROVE StringInv
  OBVIOUS
<1>1. LibInv
  BY LibInitially
<1>2. call.a \in Nat /\ call.n \in Nat
  BY <1>1, CallFields, StringAssumption DEF LibInv, Shape, Address
<1>3. Reading
  BY <1>2 DEF LibInit, Reading, Writers
<1>4. Passed
  <2>1. CASE call.fn \in Writers
    BY <2>1 DEF Passed, Writers, Compares, OnStrings, Counted
  <2>2. CASE call.fn \notin Writers
    <3>1. i = 0 /\ last = NULL
      BY <2>2 DEF LibInit, Writers
    <3>2. \A j \in 0 .. i - 1 : FALSE
      BY <3>1
    <3>3. {p \in call.a .. call.a + i - 1 : start[p] = ch} = {}
      BY <1>2, <3>1
    <3>4. last = LargestOr({p \in call.a .. call.a + i - 1 : start[p] = ch}, NULL)
      BY <3>1, <3>3 DEF LargestOr
    <3>5. i <= call.n
      BY <1>2, <3>1
    <3> QED
      BY <3>2, <3>4, <3>5 DEF Passed
  <2> QED
    BY <2>1, <2>2
<1> QED
  BY <1>1, <1>3, <1>4 DEF LibInit, StringInv, Answered

(* Every loop of string.c.                                                  *)
LEMMA StringStep == StringInv /\ [LibNext]_libVars => StringInv'
<1> SUFFICES ASSUME StringInv, [LibNext]_libVars PROVE StringInv'
  OBVIOUS
<1>1. LibInv'
  BY LibStep DEF StringInv
<1>2. CASE UNCHANGED libVars
  <2>1. Reading'
    BY <1>2 DEF libVars, StringInv, Reading, Legal, Terminated, Bounded, InMemory, Apart
  <2>2. Answered'
    BY <1>2 DEF libVars, StringInv, Answered, Passed, Result, Promised, Compare, Reach,
                Differs, Ends, Below, StrEnd, ch, uint8_t
  <2> QED
    BY <1>1, <2>1, <2>2 DEF StringInv
<1>3. CASE LibNext
  <2>1. UNCHANGED <<start, call>>
    BY <1>3 DEF LibNext
  <2>2. CASE memset \/ memcpy \/ memmove
    <3>1. call.fn \in Writers
      BY <2>2 DEF memset, memcpy, memmove, Goes, Writers
    <3>2. ~done' \/ (done' /\ ret' = call.a)
      BY <2>2 DEF memset, memcpy, memmove, Goes, Put, Return
    <3> QED
      BY <1>1, <2>1, <3>1, <3>2, WriterAnswers
  <2> QED
    BY <1>3, <2>1, <2>2, StrcmpStep, StrncmpStep, StrlenStep, StrnlenStep, StrrchrStep,
       MemcmpStep, MemchrStep DEF LibNext
<1> QED
  BY <1>2, <1>3

(* What the property needs of it.                                           *)
LEMMA InvGivesStrings == StringInv => StringsAsInC
BY InvGivesMemory DEF StringInv, Answered, StringsAsInC

(* The invariant from the call to the return, of every loop of string.c.    *)
THEOREM StringInvariance == LibSpec => []StringInv
BY StringInitially, StringStep, PTL DEF LibSpec

(* Every function of string.c does what ISO C says of its name, for         *)
(* memories of any size and ranges of any length: no byte is written that   *)
(* should not be, memset, memcpy and memmove leave what they should, for    *)
(* ranges that overlap on either side by any length, and every value that   *)
(* is returned is the one promised.                                         *)
THEOREM StringsRight == LibSpec => []StringsAsInC
BY StringInvariance, InvGivesStrings, PTL

-----------------------------------------------------------------------------
(* init_fb: white first, then row by row, and never another picture.        *)
ScreenInv ==
  /\ picture \in DOMAIN Bitmap
  /\ filled \in {0, STRIDE * ROWS} /\ row \in 0 .. ROWS
  /\ filled = 0 => white = {} /\ row = 0
  /\ ShowsPicture

-----------------------------------------------------------------------------
(* A later row begins where an earlier one has ended, or beyond.            *)
LEMMA RowAfterRow ==
  ASSUME NEW r \in Nat, NEW s \in Nat, NEW width \in Nat, r < s
  PROVE  r * width + width <= s * width
<1>1. PICK q \in Nat : s = r + 1 + q
  <2>1. s - r - 1 \in Nat /\ s = r + 1 + (s - r - 1)
    OBVIOUS
  <2> QED
    BY <2>1
<1>2. s * width = r * width + width + q * width
  BY <1>1
<1>3. r * width \in Nat /\ q * width \in Nat
  OBVIOUS
<1> QED
  BY <1>2, <1>3

(* No word of the frame buffer lies in two rows or two columns.             *)
LEMMA OnePlace ==
  ASSUME NEW width \in Nat, NEW r \in Nat, NEW s \in Nat,
         NEW c \in 0 .. width - 1, NEW d \in 0 .. width - 1,
         r * width + c = s * width + d
  PROVE  r = s /\ c = d
<1>1. r * width \in Nat /\ s * width \in Nat
  OBVIOUS
<1>2. ~ (r < s)
  BY <1>1, RowAfterRow
<1>3. ~ (s < r)
  BY <1>1, RowAfterRow
<1> QED
  BY <1>1, <1>2, <1>3

(* The sizes of the picture in use, which never changes.                    *)
LEMMA Sizes ==
  ASSUME picture \in DOMAIN Bitmap
  PROVE  /\ ROWS \in Nat /\ BYTES \in Nat /\ BITS \in Nat /\ STRIDE \in Nat /\ WORDS \in Nat
         /\ BYTES * BITS <= STRIDE
         /\ STRIDE * ROWS <= WORDS
BY ScreenAssumption DEF ROWS, BYTES, BITS, STRIDE, WORDS

(* The picture never changes, so its sizes do not.                          *)
LEMMA SamePicture ==
  ASSUME UNCHANGED picture
  PROVE  UNCHANGED <<ROWS, BYTES, BITS, STRIDE, WORDS, wallpaper>>
BY DEF ROWS, BYTES, BITS, STRIDE, WORDS, wallpaper

(* Pixel by pixel, a row of the picture stays inside its width.             *)
LEMMA InRow ==
  ASSUME picture \in DOMAIN Bitmap, NEW b \in 0 .. BYTES - 1, NEW bit \in 0 .. BITS - 1
  PROVE  b * BITS + bit \in 0 .. WIDTH - 1 /\ WIDTH \in Nat /\ WIDTH <= STRIDE
<1>1. b * BITS \in Nat /\ BYTES * BITS \in Nat /\ BITS \in Nat
  BY Sizes
<1>2. b * BITS + BITS <= BYTES * BITS
  BY Sizes, RowAfterRow
<1> QED
  BY <1>1, <1>2, Sizes DEF WIDTH

-----------------------------------------------------------------------------
(* Init, the white and a row.                                               *)
LEMMA ScreenInitially ==
  ASSUME NEW p \in DOMAIN Bitmap, ScreenInit(p)
  PROVE  ScreenInv
<1>1. picture \in DOMAIN Bitmap /\ filled = 0 /\ row = 0 /\ white = {}
  BY DEF ScreenInit
<1>2. ROWS \in Nat /\ WORDS \in Nat
  BY <1>1, Sizes
<1> QED
  BY <1>1, <1>2 DEF ScreenInv, ShowsPicture

LEMMA FillStep == ScreenInv /\ Fill => ScreenInv'
<1> SUFFICES ASSUME ScreenInv, Fill PROVE ScreenInv'
  OBVIOUS
<1>1. /\ picture \in DOMAIN Bitmap /\ picture' = picture /\ row' = 0 /\ row = 0
      /\ white = {} /\ white' = {} /\ filled' = STRIDE * ROWS
  BY DEF ScreenInv, Fill
<1>2. UNCHANGED <<ROWS, BYTES, BITS, STRIDE, WORDS, wallpaper>>
  BY <1>1, SamePicture
<1>3. STRIDE * ROWS \in Nat /\ STRIDE * ROWS <= WORDS /\ ROWS \in Nat
  BY <1>1, Sizes
<1>4. ShowsPicture'
  BY <1>1, <1>2, <1>3 DEF ShowsPicture
<1> QED
  BY <1>1, <1>2, <1>3, <1>4 DEF ScreenInv

LEMMA DrawRowStep == ScreenInv /\ DrawRow => ScreenInv'
<1> SUFFICES ASSUME ScreenInv, DrawRow PROVE ScreenInv'
  OBVIOUS
<1>0. /\ ROWS \in Nat /\ BYTES \in Nat /\ BITS \in Nat /\ STRIDE \in Nat
      /\ BYTES * BITS <= STRIDE /\ STRIDE * ROWS <= WORDS
      /\ picture \in DOMAIN Bitmap
  BY Sizes DEF ScreenInv
<1> USE <1>0
<1> DEFINE Cleared == fb_base .. fb_base + BYTES * BITS - 1
           Drawing == {fb_base + p[1] * BITS + p[2] : p \in Lit}
<1>1. /\ row \in Nat /\ row < ROWS /\ row' = row + 1 /\ filled' = filled
      /\ filled = STRIDE * ROWS /\ white' = (white \ Cleared) \cup Drawing
  BY DEF ScreenInv, DrawRow
<1>2. STRIDE * ROWS \in Nat /\ fb_base \in Nat /\ WIDTH \in Nat /\ WIDTH <= STRIDE
  BY <1>1 DEF fb_base, WIDTH
<1>3. \A w : w \in Drawing <=>
        \E b \in 0 .. BYTES - 1 : \E bit \in 0 .. BITS - 1 :
           w = fb_base + b * BITS + bit /\ pixel(b, bit)
  <2>1. ASSUME NEW p \in Lit
        PROVE  /\ p[1] \in 0 .. BYTES - 1 /\ p[2] \in 0 .. BITS - 1
               /\ pixel(p[1], p[2])
    BY DEF Lit
  <2>2. ASSUME NEW b \in 0 .. BYTES - 1, NEW bit \in 0 .. BITS - 1, pixel(b, bit)
        PROVE  <<b, bit>> \in Lit /\ <<b, bit>>[1] = b /\ <<b, bit>>[2] = bit
    BY <2>2 DEF Lit
  <2>3. ASSUME NEW w, w \in Drawing
        PROVE  \E b \in 0 .. BYTES - 1 : \E bit \in 0 .. BITS - 1 :
                  w = fb_base + b * BITS + bit /\ pixel(b, bit)
    <3>1. PICK p \in Lit : w = fb_base + p[1] * BITS + p[2]
      BY <2>3
    <3> QED
      BY <2>1, <3>1
  <2>4. ASSUME NEW w, NEW b \in 0 .. BYTES - 1, NEW bit \in 0 .. BITS - 1,
               w = fb_base + b * BITS + bit, pixel(b, bit)
        PROVE  w \in Drawing
    <3>1. PICK p \in Lit : p[1] = b /\ p[2] = bit
      BY <2>2, <2>4
    <3>2. w = fb_base + p[1] * BITS + p[2]
      BY <2>4, <3>1
    <3> QED
      BY <3>2
  <2> HIDE DEF Drawing
  <2> QED
    BY <2>3, <2>4
<1>4. \A w : w \in Drawing <=> \E c \in 0 .. WIDTH - 1 : w = fb_base + c /\ Ink(row, c)
  <2>1. ASSUME NEW w, w \in Drawing
        PROVE  \E c \in 0 .. WIDTH - 1 : w = fb_base + c /\ Ink(row, c)
    <3>1. PICK b \in 0 .. BYTES - 1, bit \in 0 .. BITS - 1 :
            w = fb_base + b * BITS + bit /\ pixel(b, bit)
      BY <1>3, <2>1
    <3>2. b * BITS + bit \in 0 .. WIDTH - 1
      BY InRow
    <3>3. b * BITS \in Nat
      OBVIOUS
    <3>4. w = fb_base + (b * BITS + bit)
      BY <1>2, <3>1, <3>3
    <3>5. Ink(row, b * BITS + bit)
      BY <3>1 DEF Ink, pixel, byte_base
    <3> QED
      BY <3>2, <3>4, <3>5
  <2>2. ASSUME NEW w, NEW c \in 0 .. WIDTH - 1, w = fb_base + c, Ink(row, c)
        PROVE  w \in Drawing
    <3>1. PICK b \in 0 .. BYTES - 1, bit \in 0 .. BITS - 1 :
            c = b * BITS + bit /\ pixel(b, bit)
      BY <2>2 DEF Ink, pixel, byte_base
    <3>2. b * BITS \in Nat
      OBVIOUS
    <3>3. w = fb_base + b * BITS + bit
      BY <1>2, <2>2, <3>1, <3>2
    <3> QED
      BY <1>3, <3>1, <3>3
  <2> QED
    BY <2>1, <2>2
<1>5. white' \subseteq 0 .. filled' - 1
  <2>1. row * STRIDE + STRIDE <= ROWS * STRIDE
    BY <1>1, RowAfterRow
  <2>2. fb_base + STRIDE <= filled
    BY <1>1, <1>2, <2>1 DEF fb_base
  <2>3. Drawing \subseteq 0 .. filled - 1
    <3> SUFFICES ASSUME NEW w \in Drawing PROVE w \in 0 .. filled - 1
      BY Zenon
    <3>1. PICK c \in 0 .. WIDTH - 1 : w = fb_base + c
      BY <1>4
    <3>2. filled \in Nat
      BY <1>1, <1>2
    <3> HIDE DEF Drawing
    <3> QED
      BY ONLY <1>2, <2>2, <3>1, <3>2, STRIDE \in Nat
  <2>4. white \subseteq 0 .. filled - 1
    BY DEF ScreenInv, ShowsPicture
  <2> HIDE DEF Drawing, Cleared
  <2> QED
    BY <1>1, <2>3, <2>4
<1>6. ASSUME NEW r \in 0 .. ROWS - 1, NEW c \in 0 .. STRIDE - 1
      PROVE  r * STRIDE + c \in white' <=> (r < row' /\ Ink(r, c))
  <2>1. r * STRIDE + c \in white <=> (r < row /\ Ink(r, c))
    BY DEF ScreenInv, ShowsPicture
  <2>2. ASSUME NEW d \in 0 .. WIDTH - 1, r * STRIDE + c = fb_base + d
        PROVE  r = row /\ c = d
    <3>1. d \in 0 .. STRIDE - 1
      BY <1>2
    <3> QED
      BY <1>1, <2>2, <3>1, OnePlace DEF fb_base
  <2>3. CASE r = row
    <3>1. r * STRIDE + c \in Drawing <=> Ink(r, c)
      <4>1. Ink(r, c) => c \in 0 .. WIDTH - 1
        BY InRow DEF Ink
      <4> QED
        BY <1>4, <2>2, <2>3, <4>1 DEF fb_base
    <3> QED
      BY <1>1, <2>1, <2>3, <3>1
  <2>4. CASE r # row
    <3>1. r * STRIDE + c \notin Drawing
      BY <1>4, <2>2, <2>4
    <3>2. r * STRIDE + c \notin Cleared
      <4>1. ASSUME r * STRIDE + c \in Cleared PROVE FALSE
        <5> DEFINE d == r * STRIDE + c - fb_base
        <5>1. d \in 0 .. WIDTH - 1 /\ r * STRIDE + c = fb_base + d
          BY <1>2, <4>1 DEF WIDTH
        <5> QED
          BY <2>2, <2>4, <5>1
      <4> QED
        BY <4>1
    <3>3. r < row' <=> r < row
      BY <1>1, <2>4
    <3> QED
      BY <1>1, <2>1, <3>1, <3>2, <3>3
  <2> QED
    BY <2>3, <2>4
<1>7. picture' = picture /\ UNCHANGED <<ROWS, BYTES, BITS, STRIDE, WORDS, wallpaper>>
  BY SamePicture DEF DrawRow
<1>8. ShowsPicture'
  <2>1. filled' <= WORDS' /\ white' \subseteq 0 .. filled' - 1
    BY <1>1, <1>5, <1>7 DEF ScreenInv, ShowsPicture
  <2>2. \A r, c : Ink(r, c)' <=> Ink(r, c)
    BY <1>7 DEF Ink
  <2>3. \A r \in 0 .. ROWS' - 1 : \A c \in 0 .. STRIDE' - 1 :
          r * STRIDE' + c \in white' <=> (r < row' /\ Ink(r, c)')
    BY <1>6, <1>7, <2>2
  <2> QED
    BY <2>1, <2>3 DEF ShowsPicture
<1>9. filled' \in {0, STRIDE' * ROWS'} /\ row' \in 0 .. ROWS' /\ filled' # 0
  BY <1>1, <1>7 DEF DrawRow
<1> QED
  BY <1>0, <1>7, <1>8, <1>9 DEF ScreenInv

LEMMA ScreenStep == ScreenInv /\ [ScreenNext]_screenVars => ScreenInv'
<1>1. ASSUME ScreenInv, UNCHANGED screenVars PROVE ScreenInv'
  <2>1. UNCHANGED <<picture, filled, row, white>>
    BY <1>1 DEF screenVars
  <2>2. UNCHANGED <<ROWS, BYTES, BITS, STRIDE, WORDS, wallpaper>>
    BY <2>1, SamePicture
  <2> QED
    BY <1>1, <2>1, <2>2 DEF ScreenInv, ShowsPicture, Ink
<1> QED
  BY <1>1, FillStep, DrawRowStep DEF ScreenNext

-----------------------------------------------------------------------------
(* After every row, what has been drawn is the picture and nothing else is  *)
(* white, whatever its size and that of the frame buffer (init_fb).         *)
THEOREM PictureRight == ScreenSpec => []ShowsPicture
<1>1. (\E p \in DOMAIN Bitmap : ScreenInit(p)) => ScreenInv
  BY ScreenInitially
<1>2. ScreenInv => ShowsPicture
  BY DEF ScreenInv
<1> QED
  BY <1>1, <1>2, ScreenStep, PTL DEF ScreenSpec

-----------------------------------------------------------------------------
(* How far the stores of a stage have got.                                  *)
UartStored(n) ==
  /\ 1 <= n /\ n < 4 => io[UART_LCR] = UART_LCR_DLAB
  /\ 2 <= n => io[Latch(UART_DLL)] = divisor % 256
  /\ 3 <= n => io[Latch(UART_DLM)] = (divisor \div 256) % 256
  /\ 4 <= n => io[UART_LCR] = UART_LCR_8N1
  /\ 5 <= n => io[UART_FCR] = UART_FCR_ALL
  /\ 7 <= n => io[UART_IER] = 0

IrqStored(n) ==
  /\ \A id \in 1 .. 32 : id <= n => io[PlicRegister(id)] = 0
  /\ 33 <= n => io[PLIC_M_THRESHOLD] = 0
  /\ 34 <= n => io[PLIC_M_ENABLE] = 0
  /\ 35 <= n => io[PLIC_M_ENABLE + 4] = 0

(* The stages: print is called, stores are done, an image is loaded; the    *)
(* last are those after init_pmc.                                           *)
Speaks == {"hello", "banner", "reason", "farewell"}
Silent == {"uart_init", "init_irqchips", "init_fb", "draw", "init_pmc"}
Loading == {"kernel", "ramfs", "payload"}
Later == Speaks \cup Loading \cup {"udelay", "waiting"}

(* How many steps a stage has.                                              *)
Steps(s) ==
  IF s = "uart_init" THEN 7
  ELSE IF s = "init_irqchips" THEN 35
  ELSE IF s = "init_fb" THEN 3
  ELSE IF s \in Speaks THEN 2
  ELSE 1

(* What has been stored where, at every point of the way.                   *)
StoresInv ==
  /\ io \in [Register -> Int]
  /\ stage \in Silent \cup Later \cup {"rebooting"}
  /\ k \in 1 .. Steps(stage)
  /\ UartStored(IF stage = "uart_init" THEN k - 1 ELSE 7)
  /\ stage # "uart_init" => IrqStored(IF stage = "init_irqchips" THEN k - 1 ELSE 35)
  /\ stage \notin {"uart_init", "init_irqchips"} =>
       (stage = "init_fb" /\ k = 1) \/ io[TFT_AR] = FB_BASE_ADDR
  /\ stage \in Later => io[PMC_CONTROL] = 0
  /\ stage = "rebooting" => io[PMC_CONTROL] = PMC_REBOOT

-----------------------------------------------------------------------------
(* The addresses as numbers; no two registers share one.                    *)
LEMMA Addresses ==
  /\ UART_DLL = 1241513984 /\ UART_DLM = 1241513988 /\ UART_IER = 1241513988
  /\ UART_FCR = 1241513992 /\ UART_LCR = 1241513996 /\ UART_MCR = 1241514000
  /\ Latch(UART_DLL) = 1241513985 /\ Latch(UART_DLM) = 1241513989
  /\ TFT_AR = 1073741824 /\ TFT_CR = 1073741828 /\ TFT_IESR = 1073741832
  /\ PMC_CONTROL = 536870912
  /\ PLIC_M_THRESHOLD = 1344274432 /\ PLIC_M_ENABLE = 1342185472
  /\ PLIC_M_PRIORITY = 1342177284
  /\ \A id \in 1 .. 32 : PlicRegister(id) = 1342177280 + 4 * id
BY DEF UART_BASE_ADDR, UART_DLL, UART_DLM, UART_IER, UART_FCR, UART_LCR, UART_MCR, Latch,
       TFT_BASE_ADDR, TFT_AR, TFT_CR, TFT_IESR, PMC_CONTROL, PLIC_BASE_ADDR,
       PLIC_M_THRESHOLD, PLIC_M_ENABLE, PLIC_M_PRIORITY, PlicRegister

(* The registers the firmware names, one by one.                            *)
Fixed == {UART_DLL, UART_DLM, Latch(UART_DLL), Latch(UART_DLM), UART_FCR, UART_LCR,
   UART_MCR, TFT_AR, TFT_CR, TFT_IESR, PMC_CONTROL,
   PLIC_M_THRESHOLD, PLIC_M_ENABLE, PLIC_M_ENABLE + 4}

LEMMA Registers ==
  /\ Fixed \subseteq Register
  /\ \A id \in 1 .. 32 : PlicRegister(id) \in Register
BY DEF Register, Fixed

(* A store of one register, and no other changes.                           *)
Sets(r, v) ==
  /\ r \in Register
  /\ io' \in [Register -> Int]
  /\ io'[r] = v
  /\ \A q \in Register : q # r => io'[q] = io[q]

(* A step of a list of stores is one such store.                            *)
LEMMA OneStore ==
  ASSUME io \in [Register -> Int], NEW s, NEW list, NEW next, Stores(s, list, next),
         NEW a, NEW v \in Int, list[k] = <<a, v>>, Place(a) \in Register
  PROVE  /\ stage = s /\ Sets(Place(a), v)
         /\ IF k < Len(list) THEN k' = k + 1 /\ stage' = s ELSE k' = 1 /\ stage' = next
BY DEF Stores, Sets

(* uart_init: the second and the third store reach the divisor, because the *)
(* first has set bit 7 of LCR, and the last does not, because the fourth    *)
(* has cleared it.                                                          *)
LEMMA UartStores ==
  ASSUME io \in [Register -> Int], NEW n \in 1 .. 7, k = n, UartStored(n - 1),
         Stores("uart_init", uart_init, "init_irqchips")
  PROVE  io' \in [Register -> Int] /\ UartStored(n)'
<1>1. /\ divisor % 256 \in Int /\ (divisor \div 256) % 256 \in Int
      /\ UART_LCR_DLAB = 128 /\ UART_LCR_8N1 = 3 /\ UART_FCR_ALL \in Int /\ UART_MCR_ALL \in Int
  BY DEF divisor, SYS_CLK_FREQ, UART_BAUDRATE, UART_LCR_DLAB, UART_LCR_8N1, UART_FCR_ALL,
         UART_MCR_ALL
<1>2. /\ UART_DLL \in Register /\ UART_DLM \in Register /\ UART_FCR \in Register
      /\ UART_LCR \in Register /\ UART_MCR \in Register /\ UART_IER \in Register
      /\ Latch(UART_DLL) \in Register /\ Latch(UART_DLM) \in Register
  BY Registers DEF Fixed, UART_IER, UART_DLM
<1>3. CASE n = 1
  <2>1. uart_init[n] = <<UART_LCR, UART_LCR_DLAB>> /\ Place(UART_LCR) = UART_LCR
    BY SMT, <1>3, Addresses DEF uart_init, Place
  <2>2. Sets(UART_LCR, UART_LCR_DLAB)
    BY <1>1, <1>2, <2>1, OneStore
  <2> QED
    BY SMT, <1>3, <2>2 DEF Sets, UartStored
<1>4. CASE n = 2
  <2>1. uart_init[n] = <<UART_DLL, divisor % 256>> /\ Place(UART_DLL) = Latch(UART_DLL)
    BY SMT, <1>1, <1>4, Addresses DEF uart_init, Place, UartStored
  <2>2. Sets(Latch(UART_DLL), divisor % 256)
    BY <1>1, <1>2, <2>1, OneStore
  <2> QED
    BY SMT, <1>2, <1>4, <2>2, Addresses DEF Sets, UartStored
<1>5. CASE n = 3
  <2>1. /\ uart_init[n] = <<UART_DLM, (divisor \div 256) % 256>>
        /\ Place(UART_DLM) = Latch(UART_DLM)
    BY SMT, <1>1, <1>5, Addresses DEF uart_init, Place, UartStored
  <2>2. Sets(Latch(UART_DLM), (divisor \div 256) % 256)
    BY <1>1, <1>2, <2>1, OneStore
  <2> QED
    BY SMT, <1>2, <1>5, <2>2, Addresses DEF Sets, UartStored
<1>6. CASE n = 4
  <2>1. uart_init[n] = <<UART_LCR, UART_LCR_8N1>> /\ Place(UART_LCR) = UART_LCR
    BY SMT, <1>6, Addresses DEF uart_init, Place
  <2>2. Sets(UART_LCR, UART_LCR_8N1)
    BY <1>1, <1>2, <2>1, OneStore
  <2> QED
    BY SMT, <1>2, <1>6, <2>2, Addresses DEF Sets, UartStored
<1>7. CASE n = 5
  <2>1. uart_init[n] = <<UART_FCR, UART_FCR_ALL>> /\ Place(UART_FCR) = UART_FCR
    BY SMT, <1>7, Addresses DEF uart_init, Place
  <2>2. Sets(UART_FCR, UART_FCR_ALL)
    BY <1>1, <1>2, <2>1, OneStore
  <2> QED
    BY SMT, <1>2, <1>7, <2>2, Addresses DEF Sets, UartStored
<1>8. CASE n = 6
  <2>1. uart_init[n] = <<UART_MCR, UART_MCR_ALL>> /\ Place(UART_MCR) = UART_MCR
    BY SMT, <1>8, Addresses DEF uart_init, Place
  <2>2. Sets(UART_MCR, UART_MCR_ALL)
    BY <1>1, <1>2, <2>1, OneStore
  <2> QED
    BY SMT, <1>2, <1>8, <2>2, Addresses DEF Sets, UartStored
<1>9. CASE n = 7
  <2>1. uart_init[n] = <<UART_IER, 0>> /\ Place(UART_IER) = UART_IER
    BY SMT, <1>1, <1>9, Addresses DEF uart_init, Place, UartStored
  <2>2. Sets(UART_IER, 0)
    BY <1>1, <1>2, <2>1, OneStore
  <2> QED
    BY SMT, <1>2, <1>9, <2>2, Addresses DEF Sets, UartStored
<1> QED
  BY <1>3, <1>4, <1>5, <1>6, <1>7, <1>8, <1>9

(* A store to another device leaves the UART and the PLIC as they are.      *)
UartOnes == {Latch(UART_DLL), Latch(UART_DLM), UART_LCR, UART_FCR, UART_IER}
PlicOnes == {PlicRegister(id) : id \in 1 .. 32}
              \cup {PLIC_M_THRESHOLD, PLIC_M_ENABLE, PLIC_M_ENABLE + 4}

LEMMA StoreElsewhere ==
  ASSUME NEW r, NEW v, Sets(r, v)
  PROVE  /\ r \notin UartOnes /\ UartStored(7) => UartStored(7)'
         /\ r \notin PlicOnes /\ IrqStored(35) => IrqStored(35)'
<1>1. r \notin UartOnes /\ UartStored(7) => UartStored(7)'
  <2>1. UART_IER \in Fixed /\ UartOnes \subseteq Fixed
    BY DEF UartOnes, Fixed, UART_IER, UART_DLM
  <2> QED
    BY <2>1, Registers DEF Sets, UartStored, UartOnes
<1>2. r \notin PlicOnes /\ IrqStored(35) => IrqStored(35)'
  <2>1. PlicOnes \subseteq Register
    BY DEF PlicOnes, Register
  <2> QED
    BY <2>1 DEF Sets, IrqStored, PlicOnes
<1> QED
  BY <1>1, <1>2

(* The list that init_irqchips goes through.                                *)
LEMMA IrqList ==
  /\ Len(init_irqchips) = 35
  /\ \A n \in 1 .. 32 : init_irqchips[n] = <<PlicRegister(n), 0>>
  /\ init_irqchips[33] = <<PLIC_M_THRESHOLD, 0>>
  /\ init_irqchips[34] = <<PLIC_M_ENABLE, 0>>
  /\ init_irqchips[35] = <<PLIC_M_ENABLE + 4, 0>>
<1> DEFINE S == Int \X Int
           A == [n \in 1 .. PLIC_MAX_SOURCES |-> <<PLIC_M_PRIORITY + 4 * (n - 1), 0>>]
           B == << <<PLIC_M_THRESHOLD, 0>>, <<PLIC_M_ENABLE, 0>>, <<PLIC_M_ENABLE + 4, 0>> >>
<1>1. /\ PLIC_M_PRIORITY \in Int /\ PLIC_M_THRESHOLD \in Int /\ PLIC_M_ENABLE \in Int
      /\ \A n \in 1 .. 32 : PLIC_M_PRIORITY + 4 * (n - 1) = PlicRegister(n)
  BY SMT DEF PLIC_M_PRIORITY, PLIC_M_THRESHOLD, PLIC_M_ENABLE, PLIC_BASE_ADDR, PlicRegister
<1>2. PLIC_MAX_SOURCES = 32
  BY DEF PLIC_MAX_SOURCES
<1>3. A \in Seq(S) /\ Len(A) = 32 /\ \A n \in 1 .. 32 : A[n] = <<PlicRegister(n), 0>>
  <2>1. A \in [1 .. 32 -> S]
    BY SMT, <1>1, <1>2
  <2> QED
    BY SMT, <1>1, <1>2, <2>1
<1>4. /\ B \in Seq(S) /\ Len(B) = 3
      /\ B[1] = <<PLIC_M_THRESHOLD, 0>> /\ B[2] = <<PLIC_M_ENABLE, 0>>
      /\ B[3] = <<PLIC_M_ENABLE + 4, 0>>
  BY SMT, <1>1
<1> HIDE DEF A, B, S
<1>5. /\ Len(A \o B) = Len(A) + Len(B)
      /\ \A n \in 1 .. Len(A) + Len(B) :
           (A \o B)[n] = IF n <= Len(A) THEN A[n] ELSE B[n - Len(A)]
  BY Zenon, <1>3, <1>4, ConcatProperties
<1>6. /\ Len(init_irqchips) = 35
      /\ \A n \in 1 .. 32 : init_irqchips[n] = A[n]
      /\ init_irqchips[33] = B[1] /\ init_irqchips[34] = B[2] /\ init_irqchips[35] = B[3]
  <2>1. init_irqchips = A \o B
    BY Zenon DEF init_irqchips, A, B
  <2>2. /\ Len(init_irqchips) = Len(A) + Len(B)
        /\ \A n \in 1 .. Len(A) + Len(B) :
             init_irqchips[n] = IF n <= Len(A) THEN A[n] ELSE B[n - Len(A)]
    BY Zenon, <1>5, <2>1
  <2>3. Len(A) = 32 /\ Len(B) = 3
    BY Zenon, <1>3, <1>4
  <2> QED
    BY <2>2, <2>3
<1>7. ASSUME NEW n \in 1 .. 32 PROVE init_irqchips[n] = <<PlicRegister(n), 0>>
  BY Zenon, <1>3, <1>6
<1> QED
  BY Zenon, <1>4, <1>6, <1>7

(* init_irqchips: every priority, the threshold and both enables.           *)
LEMMA IrqStores ==
  ASSUME io \in [Register -> Int], NEW n \in 1 .. 35, k = n,
         IrqStored(n - 1), UartStored(7),
         Stores("init_irqchips", init_irqchips, "init_fb")
  PROVE  io' \in [Register -> Int] /\ IrqStored(n)' /\ UartStored(7)'
<1>1. ASSUME NEW r \in PlicOnes, init_irqchips[n] = <<r, 0>>
      PROVE  Sets(r, 0) /\ UartStored(7)'
  <2>1. r \in Register /\ Place(r) = r /\ r \notin UartOnes
    BY SMT, Addresses DEF PlicOnes, Place, UartOnes, Register
  <2>2. Sets(r, 0)
    BY <1>1, <2>1, OneStore
  <2> QED
    BY <2>1, <2>2, StoreElsewhere
<1>2. CASE n \in 1 .. 32
  <2>1. Sets(PlicRegister(n), 0) /\ UartStored(7)'
    BY <1>1, <1>2, IrqList DEF PlicOnes
  <2>2. ASSUME NEW id \in 1 .. 32, id <= n PROVE io'[PlicRegister(id)] = 0
    <3>1. PlicRegister(id) \in Register /\ io' \in [Register -> Int]
      BY <2>1, Registers DEF Sets
    <3>2. CASE id = n
      BY <2>1, <3>2 DEF Sets
    <3>3. CASE id < n
      <4>1. PlicRegister(id) # PlicRegister(n)
        BY SMT, <1>2, <3>3, Addresses
      <4>2. io[PlicRegister(id)] = 0
        BY <3>3 DEF IrqStored
      <4> QED
        BY <2>1, <3>1, <4>1, <4>2 DEF Sets
    <3> QED
      BY <2>2, <3>2, <3>3
  <2> QED
    BY <1>2, <2>1, <2>2 DEF Sets, IrqStored
<1>3. CASE n \in 33 .. 35
  <2> DEFINE r == IF n = 33 THEN PLIC_M_THRESHOLD ELSE IF n = 34 THEN PLIC_M_ENABLE
                  ELSE PLIC_M_ENABLE + 4
  <2>1. init_irqchips[n] = <<r, 0>> /\ r \in PlicOnes
    BY <1>3, IrqList DEF PlicOnes
  <2>2. Sets(r, 0) /\ UartStored(7)'
    BY <1>1, <2>1
  <2>3. ASSUME NEW id \in 1 .. 32 PROVE io'[PlicRegister(id)] = 0
    <3>1. PlicRegister(id) \in Register /\ PlicRegister(id) # r
      BY SMT, Addresses, Registers
    <3>2. io[PlicRegister(id)] = 0
      BY <1>3 DEF IrqStored
    <3> QED
      BY <2>2, <3>1, <3>2 DEF Sets
  <2>4. /\ n > 33 => PLIC_M_THRESHOLD # r /\ io[PLIC_M_THRESHOLD] = 0
        /\ n > 34 => PLIC_M_ENABLE # r /\ io[PLIC_M_ENABLE] = 0
    BY SMT, <1>3, Addresses DEF IrqStored
  <2>5. PLIC_M_THRESHOLD \in Register /\ PLIC_M_ENABLE \in Register
    BY DEF Register
  <2>6. /\ io'[PLIC_M_THRESHOLD] = 0
        /\ n >= 34 => io'[PLIC_M_ENABLE] = 0
        /\ n >= 35 => io'[PLIC_M_ENABLE + 4] = 0
    <3>1. io' [r] = 0 /\ \A q \in Register : q # r => io'[q] = io[q]
      BY <2>2 DEF Sets
    <3> QED
      BY SMT, <1>3, <2>4, <2>5, <3>1
  <2> HIDE DEF r
  <2> QED
    BY <1>3, <2>2, <2>3, <2>6 DEF Sets, IrqStored
<1> QED
  BY <1>2, <1>3

(* init_fb's three registers and init_pmc's one.                            *)
LEMMA FbStores ==
  ASSUME io \in [Register -> Int], NEW n \in 1 .. 3, k = n,
         IrqStored(35), UartStored(7), n > 1 => io[TFT_AR] = FB_BASE_ADDR,
         Stores("init_fb", init_fb, "draw")
  PROVE  io' \in [Register -> Int] /\ IrqStored(35)' /\ UartStored(7)'
         /\ io'[TFT_AR] = FB_BASE_ADDR
<1> DEFINE r == IF n = 1 THEN TFT_AR ELSE IF n = 2 THEN TFT_CR ELSE TFT_IESR
           v == IF n = 1 THEN FB_BASE_ADDR ELSE IF n = 2 THEN 1 ELSE 0
<1>1. init_fb[n] = <<r, v>>
  BY DEF init_fb
<1>2. v \in Int
  BY SMT DEF FB_BASE_ADDR
<1>3. /\ r \in Register /\ TFT_AR \in Register /\ Place(r) = r
      /\ r \notin UartOnes /\ r \notin PlicOnes
      /\ n > 1 => r # TFT_AR
  BY SMT, Addresses, Registers DEF Fixed, Place, UartOnes, PlicOnes
<1> HIDE DEF r, v
<1>4. Sets(r, v)
  BY <1>1, <1>2, <1>3, OneStore
<1>5. IrqStored(35)' /\ UartStored(7)'
  BY <1>3, <1>4, StoreElsewhere
<1>6. n = 1 => r = TFT_AR /\ v = FB_BASE_ADDR
  BY DEF r, v
<1> QED
  BY <1>3, <1>4, <1>5, <1>6 DEF Sets

(* init_pmc stores nothing but a zero.                                      *)
LEMMA PmcStore ==
  ASSUME io \in [Register -> Int], k = 1,
         IrqStored(35), UartStored(7), io[TFT_AR] = FB_BASE_ADDR,
         Stores("init_pmc", init_pmc, "hello")
  PROVE  io' \in [Register -> Int] /\ IrqStored(35)' /\ UartStored(7)'
         /\ io'[TFT_AR] = FB_BASE_ADDR /\ io'[PMC_CONTROL] = 0
<1>1. init_pmc[1] = <<PMC_CONTROL, 0>>
  BY DEF init_pmc
<1>2. /\ PMC_CONTROL \in Register /\ TFT_AR \in Register /\ Place(PMC_CONTROL) = PMC_CONTROL
      /\ PMC_CONTROL \notin UartOnes /\ PMC_CONTROL \notin PlicOnes
      /\ PMC_CONTROL # TFT_AR
  BY SMT, Addresses, Registers DEF Fixed, Place, UartOnes, PlicOnes
<1>3. Sets(PMC_CONTROL, 0)
  BY <1>1, <1>2, OneStore
<1> QED
  BY <1>2, <1>3, StoreElsewhere DEF Sets

-----------------------------------------------------------------------------
(* The characters of the message after the first a, up to the first b.      *)
Part(a, b) == [j \in 1 .. b - a |-> PanicText[a + j]]

(* What it is made of.                                                      *)
PanicChar == {PanicText[j] : j \in 1 .. 16}

(* How much of it print has given to putchar when it has come to character  *)
(* p of what it prints in stage s.                                          *)
Spoken(s) ==
  CASE s = "hello" -> <<0, 1, 3, 5>>
    [] s = "banner" -> <<5, 6, 8>>
    [] s = "reason" -> <<8, 8, 11>>
    [] s = "farewell" -> <<11, 12, 14, 16>>

(* The same in every stage.                                                 *)
Given ==
  IF stage \in Silent THEN 0
  ELSE IF stage \in Loading THEN 5
  ELSE IF stage \in Speaks THEN Spoken(stage)[IF k = 2 THEN at ELSE 1]
  ELSE 16

(* A call of print, and how far it can be.                                  *)
InCall == stage \in Speaks /\ k = 2

(* The characters at which print reads in stage s; the %s is two long.      *)
Reached(s) == CASE s \in {"hello", "farewell"} -> {1, 2, 3, 4}
                [] s = "banner" -> {1, 2, 3}
                [] s = "reason" -> {1, 3}

Calling ==
  InCall =>
    /\ doing = "text" /\ text = Format(stage)
    /\ at \in Reached(stage)
    /\ at = 1 => taken = 0
    /\ stage = "reason" => args = <<String(Reason)>>

(* What has been given is on the terminal, in the UART or still to be put   *)
(* there, in this order.                                                    *)
Spread(u) ==
  \E n, m \in 0 .. 16 :
    /\ n <= m /\ m <= n + 1 /\ m <= u
    /\ line = Part(0, n) /\ tx = Part(n, m) /\ todo = Part(m, u)

(* Outside of print nothing is to be put.                                   *)
TextInv ==
  /\ Calling
  /\ Spread(Given)
  /\ InCall \/ todo = <<>>

-----------------------------------------------------------------------------
(* The characters one by one.                                               *)
LEMMA PanicChars ==
  /\ PanicText[1] = "len-fpga is booting..." /\ PanicText[2] = "CR" /\ PanicText[3] = "NL"
  /\ PanicText[4] = "CR" /\ PanicText[5] = "NL" /\ PanicText[6] = "[PANIC]"
  /\ PanicText[7] = "CR" /\ PanicText[8] = "NL"
  /\ PanicText[9] = "Kernel or ramfs loading failed."
  /\ PanicText[10] = "CR" /\ PanicText[11] = "NL" /\ PanicText[12] = "Rebooting..."
  /\ PanicText[13] = "CR" /\ PanicText[14] = "NL" /\ PanicText[15] = "CR"
  /\ PanicText[16] = "NL"
BY DEF PanicText

LEMMA Whole == Part(0, 16) = PanicText
BY DEF Part, PanicText

(* What is put in one go: one character, a line feed with its carriage      *)
(* return, or a string.                                                     *)
LEMMA One ==
  ASSUME NEW a \in Nat, NEW p, p = a + 1
  PROVE  Part(a, p) = <<PanicText[p]>>
BY SMT DEF Part

LEMMA Two ==
  ASSUME NEW a \in Nat, NEW p, NEW q, p = a + 1, q = a + 2
  PROVE  Part(a, q) = <<PanicText[p], PanicText[q]>>
BY SMT DEF Part

LEMMA Three ==
  ASSUME NEW a \in Nat, NEW p, NEW q, NEW r, p = a + 1, q = a + 2, r = a + 3
  PROVE  Part(a, r) = <<PanicText[p], PanicText[q], PanicText[r]>>
BY SMT DEF Part

(* The pieces in which the message is put.                                  *)
LEMMA Pieces ==
  /\ Part(0, 1) = <<"len-fpga is booting...">> /\ Part(1, 3) = <<"CR", "NL">>
  /\ Part(3, 5) = <<"CR", "NL">>
  /\ Part(5, 6) = <<"[PANIC]">> /\ Part(6, 8) = <<"CR", "NL">>
  /\ Part(8, 11) = <<"Kernel or ramfs loading failed.", "CR", "NL">>
  /\ Part(11, 12) = <<"Rebooting...">> /\ Part(12, 14) = <<"CR", "NL">>
  /\ Part(14, 16) = <<"CR", "NL">>
<1>1. /\ Part(0, 1) = <<PanicText[1]>> /\ Part(5, 6) = <<PanicText[6]>>
      /\ Part(11, 12) = <<PanicText[12]>>
  BY One
<1>2. /\ Part(1, 3) = <<PanicText[2], PanicText[3]>>
      /\ Part(3, 5) = <<PanicText[4], PanicText[5]>>
      /\ Part(6, 8) = <<PanicText[7], PanicText[8]>>
      /\ Part(12, 14) = <<PanicText[13], PanicText[14]>>
      /\ Part(14, 16) = <<PanicText[15], PanicText[16]>>
  BY Two
<1>3. Part(8, 11) = <<PanicText[9], PanicText[10], PanicText[11]>>
  BY Three
<1>4. /\ Part(0, 1) = <<"len-fpga is booting...">> /\ Part(5, 6) = <<"[PANIC]">>
      /\ Part(11, 12) = <<"Rebooting...">>
  BY Zenon, <1>1, PanicChars
<1>5. /\ Part(1, 3) = <<"CR", "NL">> /\ Part(3, 5) = <<"CR", "NL">>
      /\ Part(6, 8) = <<"CR", "NL">> /\ Part(12, 14) = <<"CR", "NL">>
      /\ Part(14, 16) = <<"CR", "NL">>
  BY Zenon, <1>2, PanicChars
<1>6. Part(8, 11) = <<"Kernel or ramfs loading failed.", "CR", "NL">>
  BY Zenon, <1>3, PanicChars
<1> QED
  BY Zenon, <1>4, <1>5, <1>6

(* A part has the length its ends say, and is empty if they are one.        *)
LEMMA PartShape ==
  ASSUME NEW a \in 0 .. 16, NEW b \in 0 .. 16, a <= b
  PROVE  /\ Part(a, b) \in Seq(PanicChar)
         /\ Len(Part(a, b)) = b - a
         /\ \A j \in 1 .. b - a : Part(a, b)[j] = PanicText[a + j]
         /\ Part(a, b) = <<>> <=> a = b
<1>1. Part(a, b) \in [1 .. b - a -> PanicChar] /\ b - a \in Nat
  BY DEF Part, PanicChar
<1>2. Part(a, b) \in Seq(PanicChar) /\ Len(Part(a, b)) = b - a
  BY <1>1
<1> QED
  BY <1>2 DEF Part

(* The first character leaves a part, or one comes to its end.              *)
LEMMA TailOf ==
  ASSUME NEW C, NEW s \in Seq(C), NEW t \in Seq(C), s # <<>>, Len(t) = Len(s) - 1,
         \A j \in 1 .. Len(t) : t[j] = s[j + 1]
  PROVE  Tail(s) = t /\ Head(s) = s[1]
<1>1. /\ Tail(s) \in Seq(C) /\ Len(Tail(s)) = Len(s) - 1
      /\ \A j \in 1 .. Len(Tail(s)) : Tail(s)[j] = s[j + 1]
  BY HeadTailProperties
<1>2. Tail(s) = t
  BY <1>1, SeqEqual
<1> QED
  BY <1>2

LEMMA AppendOf ==
  ASSUME NEW C, NEW s \in Seq(C), NEW t \in Seq(C), Len(t) = Len(s) + 1,
         \A j \in 1 .. Len(s) : t[j] = s[j], t[Len(t)] \in C
  PROVE  Append(s, t[Len(t)]) = t
<1> DEFINE e == t[Len(t)]
           r == Append(s, e)
<1>1. /\ r \in Seq(C) /\ Len(r) = Len(s) + 1
      /\ \A j \in 1 .. Len(s) : r[j] = s[j]
      /\ r[Len(s) + 1] = e
  BY AppendProperties
<1> HIDE DEF r
<1>2. r = t
  BY <1>1, SeqEqual
<1> QED
  BY <1>2 DEF r

LEMMA PartHeadTail ==
  ASSUME NEW a \in 0 .. 16, NEW b \in 0 .. 16, a < b
  PROVE  /\ Head(Part(a, b)) = PanicText[a + 1]
         /\ Tail(Part(a, b)) = Part(a + 1, b)
<1>0. a <= b /\ a # b
  OBVIOUS
<1>1. /\ Part(a, b) \in Seq(PanicChar) /\ Len(Part(a, b)) = b - a /\ Part(a, b) # <<>>
      /\ \A j \in 1 .. b - a : Part(a, b)[j] = PanicText[a + j]
  BY Zenon, <1>0, PartShape
<1>2. a + 1 \in 0 .. 16 /\ a + 1 <= b
  OBVIOUS
<1>3. /\ Part(a + 1, b) \in Seq(PanicChar) /\ Len(Part(a + 1, b)) = b - (a + 1)
      /\ \A j \in 1 .. b - (a + 1) : Part(a + 1, b)[j] = PanicText[a + 1 + j]
  BY <1>2, PartShape
<1>4. \A j \in 1 .. b - (a + 1) : Part(a + 1, b)[j] = Part(a, b)[j + 1]
  <2> TAKE j \in 1 .. b - (a + 1)
  <2>1. j + 1 \in 1 .. b - a /\ a + (j + 1) = a + 1 + j
    OBVIOUS
  <2> QED
    BY <1>1, <1>3, <2>1
<1>5. Len(Part(a + 1, b)) = Len(Part(a, b)) - 1
  BY <1>1, <1>3
<1>6. \A j \in 1 .. Len(Part(a + 1, b)) : Part(a + 1, b)[j] = Part(a, b)[j + 1]
  BY <1>3, <1>4
<1>7. Tail(Part(a, b)) = Part(a + 1, b) /\ Head(Part(a, b)) = Part(a, b)[1]
  BY <1>1, <1>3, <1>5, <1>6, TailOf
<1> QED
  BY <1>1, <1>7

LEMMA PartAppend ==
  ASSUME NEW n \in 0 .. 15
  PROVE  Append(Part(0, n), PanicText[n + 1]) = Part(0, n + 1)
<1>0. ASSUME NEW p \in 0 .. 16
      PROVE  /\ Part(0, p) \in Seq(PanicChar) /\ Len(Part(0, p)) = p
             /\ \A j \in 1 .. p : Part(0, p)[j] = PanicText[j]
  <2>1. 0 \in 0 .. 16 /\ 0 <= p
    OBVIOUS
  <2>2. /\ Part(0, p) \in Seq(PanicChar) /\ Len(Part(0, p)) = p - 0
        /\ \A j \in 1 .. p - 0 : Part(0, p)[j] = PanicText[0 + j]
    BY Zenon, <2>1, PartShape
  <2> QED
    BY <2>2
<1>1. /\ Part(0, n) \in Seq(PanicChar) /\ Len(Part(0, n)) = n
      /\ \A j \in 1 .. n : Part(0, n)[j] = PanicText[j]
  <2>1. n \in 0 .. 16
    OBVIOUS
  <2> QED
    BY Zenon, <1>0, <2>1
<1>2. /\ Part(0, n + 1) \in Seq(PanicChar) /\ Len(Part(0, n + 1)) = n + 1
      /\ \A j \in 1 .. n + 1 : Part(0, n + 1)[j] = PanicText[j]
  <2>1. n + 1 \in 0 .. 16
    OBVIOUS
  <2> QED
    BY Zenon, <1>0, <2>1
<1>3. PanicText[n + 1] \in PanicChar
  BY DEF PanicChar
<1>4. Part(0, n + 1)[n + 1] = PanicText[n + 1]
  BY <1>2
<1>5. /\ Len(Part(0, n + 1)) = Len(Part(0, n)) + 1
      /\ \A j \in 1 .. Len(Part(0, n)) : Part(0, n + 1)[j] = Part(0, n)[j]
      /\ Part(0, n + 1)[Len(Part(0, n + 1))] = PanicText[n + 1]
  BY <1>1, <1>2, <1>4
<1>6. Append(Part(0, n), Part(0, n + 1)[Len(Part(0, n + 1))]) = Part(0, n + 1)
  <2>1. Part(0, n + 1)[Len(Part(0, n + 1))] \in PanicChar
    BY Zenon, <1>3, <1>5
  <2> QED
    BY Zenon, <1>1, <1>2, <1>5, <2>1, AppendOf
<1> QED
  BY Zenon, <1>5, <1>6

-----------------------------------------------------------------------------
(* A character leaves the UART: the first two thirds of Spread move on.     *)
LEMMA ShiftText ==
  ASSUME NEW u \in 0 .. 16, Spread(u), TxShift
  PROVE  Spread(u)'
<1>1. PICK n \in 0 .. 16, m \in 0 .. 16 :
        /\ n <= m /\ m <= n + 1 /\ m <= u
        /\ line = Part(0, n) /\ tx = Part(n, m) /\ todo = Part(m, u)
  BY DEF Spread
<1>2. m = n + 1 /\ n + 1 \in 0 .. 16 /\ n \in 0 .. 15 /\ n < m
  <2>1. m # n
    BY <1>1, PartShape DEF TxShift
  <2> QED
    BY <1>1, <2>1
<1>3. Head(tx) = PanicText[n + 1] /\ Tail(tx) = Part(n + 1, n + 1)
  BY <1>1, <1>2, PartHeadTail
<1>4. line' = Part(0, n + 1) /\ tx' = Part(n + 1, n + 1) /\ todo' = Part(n + 1, u)
  BY <1>1, <1>2, <1>3, PartAppend DEF TxShift
<1> QED
  BY <1>1, <1>2, <1>4 DEF Spread

(* A character goes to the UART.                                            *)
LEMMA PutText ==
  ASSUME NEW u \in 0 .. 16, Spread(u), uart_putc
  PROVE  Spread(u)'
<1>1. PICK n \in 0 .. 16, m \in 0 .. 16 :
        /\ n <= m /\ m <= n + 1 /\ m <= u
        /\ line = Part(0, n) /\ tx = Part(n, m) /\ todo = Part(m, u)
  BY DEF Spread
<1>2. m = n /\ n < u
  <2>1. m \in 0 .. 16 /\ n <= m
    BY <1>1
  <2>2. n = m
    BY <1>1, <2>1, PartShape DEF uart_putc
  <2>3. m # u
    BY <1>1, <2>1, PartShape DEF uart_putc
  <2> QED
    BY <1>1, <2>2, <2>3
<1>3. Head(todo) = PanicText[n + 1] /\ Tail(todo) = Part(n + 1, u)
  BY <1>1, <1>2, PartHeadTail
<1>4. Part(n, n + 1) = <<PanicText[n + 1]>>
  BY One
<1>5. tx' = Part(n, n + 1) /\ todo' = Part(n + 1, u) /\ line' = Part(0, n)
  BY <1>1, <1>2, <1>3, <1>4 DEF uart_putc
<1> QED
  BY <1>1, <1>2, <1>5 DEF Spread

(* Print has put more into putchar's hands, which had nothing left.         *)
LEMMA MoreText ==
  ASSUME NEW u \in 0 .. 16, NEW w \in 0 .. 16, u <= w, Spread(u), todo = <<>>,
         todo' = Part(u, w), UNCHANGED <<tx, line>>
  PROVE  Spread(w)'
<1>1. PICK n \in 0 .. 16, m \in 0 .. 16 :
        /\ n <= m /\ m <= n + 1 /\ m <= u
        /\ line = Part(0, n) /\ tx = Part(n, m) /\ todo = Part(m, u)
  BY DEF Spread
<1>2. m = u
  BY <1>1, PartShape
<1> QED
  BY <1>1, <1>2 DEF Spread

LEMMA SameText ==
  ASSUME NEW u, Spread(u), UNCHANGED <<todo, tx, line>>
  PROVE  Spread(u)'
BY DEF Spread

(* Two strings, one after the other.                                        *)
LEMMA FlattenTwo ==
  ASSUME NEW s, NEW x, NEW y, Len(s) = 2, s[1] = x, s[2] = y
  PROVE  FlattenSeq(s) = x \o y
<1> DEFINE flat == CHOOSE f : f = [j \in 1 .. Len(s) |->
                                     IF j = 1 THEN s[j] ELSE f[j - 1] \o s[j]]
           two == [j \in 1 .. 2 |-> IF j = 1 THEN x ELSE x \o y]
<1>1. Len(s) # 0
  OBVIOUS
<1>2. FlattenSeq(s) = flat[Len(s)]
  BY Zenon, <1>1 DEF FlattenSeq
<1>3. two = [j \in 1 .. Len(s) |-> IF j = 1 THEN s[j] ELSE two[j - 1] \o s[j]]
  BY SMT
<1>4. flat = [j \in 1 .. Len(s) |-> IF j = 1 THEN s[j] ELSE flat[j - 1] \o s[j]]
  <2> HIDE DEF two
  <2> QED BY Zenon, <1>3
<1> DEFINE e(j) == IF j = 1 THEN s[j] ELSE flat[j - 1] \o s[j]
<1>5. flat[1] = e(1) /\ flat[2] = e(2)
  <2>1. flat = [j \in 1 .. Len(s) |-> e(j)]
    BY Zenon, <1>4
  <2>2. 1 \in 1 .. Len(s) /\ 2 \in 1 .. Len(s)
    OBVIOUS
  <2> HIDE DEF flat, e
  <2> QED
    BY Zenon, <2>1, <2>2
<1>6. e(1) = x /\ e(2) = flat[1] \o y
  <2>1. 2 - 1 = 1 /\ 2 # 1
    OBVIOUS
  <2> HIDE DEF flat
  <2> QED
    BY Zenon, <2>1
<1> QED
  BY Zenon, <1>2, <1>5, <1>6

(* A string of one character and one of two make one of three.              *)
LEMMA OneAndTwo ==
  ASSUME NEW x, NEW y, NEW z
  PROVE  <<x>> \o <<y, z>> = <<x, y, z>>
<1> DEFINE C == {x, y, z}
           s == <<x>>
           t == <<y, z>>
           r == <<x, y, z>>
<1>1. s \in Seq(C) /\ t \in Seq(C) /\ r \in Seq(C)
  OBVIOUS
<1>2. Len(s) = 1 /\ Len(t) = 2 /\ Len(r) = 3
  OBVIOUS
<1>3. s[1] = r[1] /\ t[1] = r[2] /\ t[2] = r[3]
  OBVIOUS
<1> HIDE DEF C, s, t, r
<1>4. /\ s \o t \in Seq(C) /\ Len(s \o t) = Len(s) + Len(t)
      /\ \A p \in 1 .. Len(s) + Len(t) :
           (s \o t)[p] = IF p <= Len(s) THEN s[p] ELSE t[p - Len(s)]
  BY Zenon, <1>1, ConcatProperties
<1> DEFINE w == s \o t
<1>5. w \in Seq(C) /\ Len(w) = 3 /\ w[1] = s[1] /\ w[2] = t[1] /\ w[3] = t[2]
  <2>1. w \in Seq(C) /\ Len(w) = Len(s) + Len(t)
        /\ \A p \in 1 .. Len(s) + Len(t) : w[p] = IF p <= Len(s) THEN s[p] ELSE t[p - Len(s)]
    BY Zenon, <1>4
  <2> HIDE DEF w
  <2> QED
    BY <1>2, <2>1
<1>6. w = r
  <2> HIDE DEF w
  <2>1. Len(w) = Len(r) /\ \A p \in 1 .. Len(w) : w[p] = r[p]
    BY <1>2, <1>3, <1>5
  <2> QED
    BY Zenon, <1>1, <1>5, <2>1, SeqEqual
<1> QED
  BY Zenon, <1>6 DEF r, s, t

(* What %s puts of the reason.                                              *)
LEMMA ReasonChars ==
  LET s == [p \in DOMAIN Reason |-> Chars(Reason[p])]
  IN  Len(s) = 2 /\ s[1] = <<"Kernel or ramfs loading failed.">> /\ s[2] = <<"CR", "NL">>
<1>1. DOMAIN Reason = 1 .. 2 /\ Reason[1] = "Kernel or ramfs loading failed." /\ Reason[2] = "NL"
  BY DEF Reason
<1>2. Chars("Kernel or ramfs loading failed.") = <<"Kernel or ramfs loading failed.">>
      /\ Chars("NL") = <<"CR", "NL">>
  BY DEF Chars
<1> DEFINE s == [p \in DOMAIN Reason |-> Chars(Reason[p])]
<1>3. s[1] = Chars(Reason[1]) /\ s[2] = Chars(Reason[2])
  <2>1. 1 \in 1 .. 2 /\ 2 \in 1 .. 2
    OBVIOUS
  <2> QED
    BY Zenon, <1>1, <2>1
<1>4. Len(s) = 2
  <2> DEFINE C == {Chars(Reason[p]) : p \in 1 .. 2}
  <2>1. s \in [1 .. 2 -> C]
    BY <1>1
  <2> HIDE DEF s, C
  <2> QED
    BY <2>1
<1> QED
  BY Zenon, <1>1, <1>2, <1>3, <1>4

LEMMA ReasonText == AllChars(Reason) = Part(8, 11)
<1> DEFINE s == [p \in DOMAIN Reason |-> Chars(Reason[p])]
<1>1. /\ Len(s) = 2 /\ s[1] = <<"Kernel or ramfs loading failed.">>
      /\ s[2] = <<"CR", "NL">>
  BY Zenon, ReasonChars
<1>2. AllChars(Reason) = FlattenSeq(s)
  BY Zenon DEF AllChars
<1> HIDE DEF s
<1> QED
  BY Zenon, <1>1, <1>2, OneAndTwo, FlattenTwo, Pieces

(* Their characters and what putchar makes of them.                         *)
LEMMA FormatChars ==
  /\ Hello[1] = "len-fpga is booting..." /\ Hello[2] = "NL" /\ Hello[3] = "NL"
  /\ Hello[4] = "NUL"
  /\ Banner[1] = "[PANIC]" /\ Banner[2] = "NL" /\ Banner[3] = "NUL"
  /\ Farewell[1] = "Rebooting..." /\ Farewell[2] = "NL" /\ Farewell[3] = "NL"
  /\ Farewell[4] = "NUL"
BY DEF Hello, Banner, Farewell

(* What putchar makes of them.                                              *)
LEMMA CharsPut ==
  /\ Chars("NL") = <<"CR", "NL">> /\ Chars("[PANIC]") = <<"[PANIC]">>
  /\ Chars("len-fpga is booting...") = <<"len-fpga is booting...">>
  /\ Chars("Rebooting...") = <<"Rebooting...">>
BY DEF Chars

(* The stages of the calls and what they print.                             *)
LEMMA Formats ==
  /\ Format("hello") = Hello /\ Format("banner") = Banner
  /\ Format("reason") = <<"%", "s", "NUL">> /\ Format("farewell") = Farewell
  /\ Spoken("hello") = <<0, 1, 3, 5>> /\ Spoken("banner") = <<5, 6, 8>>
  /\ Spoken("reason") = <<8, 8, 11>> /\ Spoken("farewell") = <<11, 12, 14, 16>>
  /\ Reached("hello") = {1, 2, 3, 4} /\ Reached("farewell") = {1, 2, 3, 4}
  /\ Reached("banner") = {1, 2, 3} /\ Reached("reason") = {1, 3}
BY DEF Format, Spoken, Reached

(* Given is a place in the message.                                         *)
LEMMA GivenInCall ==
  ASSUME stage \in Speaks
  PROVE  Given = Spoken(stage)[IF k = 2 THEN at ELSE 1]
BY DEF Given, Silent, Loading, Speaks

LEMMA GivenRange ==
  ASSUME stage \in Speaks => k \in {1, 2}, Calling
  PROVE  Given \in 0 .. 16
<1>1. CASE stage \notin Speaks
  BY <1>1 DEF Given
<1>2. CASE stage \in Speaks
  <2>1. stage \in {"hello", "banner", "reason", "farewell"}
    BY <1>2 DEF Speaks
  <2>2. (IF k = 2 THEN at ELSE 1) \in Reached(stage)
    BY <1>2, <2>1, Formats DEF Calling, InCall
  <2> DEFINE p == IF k = 2 THEN at ELSE 1
  <2> HIDE DEF p
  <2>3. Spoken(stage)[p] \in 0 .. 16
    BY <2>1, <2>2, Formats DEF p
  <2> QED
    BY <1>2, <2>3, GivenInCall DEF p
<1> QED
  BY <1>1, <1>2

(* The plain characters of the formats.                                     *)
LEMMA PlainText ==
  ASSUME InCall, Calling, Plain, UNCHANGED <<stage, k, text, args>>
  PROVE  /\ Calling'
         /\ Given \in 0 .. 16 /\ Given' \in 0 .. 16 /\ Given <= Given'
         /\ todo' = Part(Given, Given')
<1> DEFINE From(p) == Spoken(stage)[p]
<1>1. /\ stage \in Speaks /\ k = 2 /\ text = Format(stage) /\ at \in Reached(stage)
      /\ text[at] \notin {"%", "NUL"} /\ todo' = Chars(text[at]) /\ at' = at + 1
      /\ doing = "text" /\ UNCHANGED <<taken, doing>>
  BY DEF InCall, Calling, Plain, Runs
<1>2. Given = From(at) /\ Given' = From(at + 1)
  BY <1>1, GivenInCall DEF Given, Silent, Loading, Speaks
<1>3. /\ at + 1 \in Reached(stage) /\ at + 1 # 1 /\ stage # "reason"
      /\ From(at) \in 0 .. 16 /\ From(at + 1) \in 0 .. 16 /\ From(at) <= From(at + 1)
      /\ Chars(text[at]) = Part(From(at), From(at + 1))
  <2>1. CASE stage = "hello"
    <3>1. text = Hello /\ at \in {1, 2, 3}
      BY <1>1, <2>1, Formats, FormatChars
    <3>2. From(1) = 0 /\ From(2) = 1 /\ From(3) = 3 /\ From(4) = 5
      BY <2>1, Formats
    <3>3. /\ at = 1 => Chars(text[at]) = Part(0, 1)
          /\ at = 2 => Chars(text[at]) = Part(1, 3)
          /\ at = 3 => Chars(text[at]) = Part(3, 5)
      BY <3>1, FormatChars, CharsPut, Pieces
    <3> HIDE DEF From
    <3> QED
      BY <2>1, <3>1, <3>2, <3>3, Formats
  <2>2. CASE stage = "banner"
    <3>1. text = Banner /\ at \in {1, 2}
      BY <1>1, <2>2, Formats, FormatChars
    <3>2. From(1) = 5 /\ From(2) = 6 /\ From(3) = 8
      BY <2>2, Formats
    <3>3. /\ at = 1 => Chars(text[at]) = Part(5, 6)
          /\ at = 2 => Chars(text[at]) = Part(6, 8)
      BY <3>1, FormatChars, CharsPut, Pieces
    <3> HIDE DEF From
    <3> QED
      BY <2>2, <3>1, <3>2, <3>3, Formats
  <2>3. CASE stage = "reason"
    <3>1. text = <<"%", "s", "NUL">> /\ at \in {1, 3}
      BY <1>1, <2>3, Formats
    <3> QED
      BY <1>1, <3>1
  <2>4. CASE stage = "farewell"
    <3>1. text = Farewell /\ at \in {1, 2, 3}
      BY <1>1, <2>4, Formats, FormatChars
    <3>2. From(1) = 11 /\ From(2) = 12 /\ From(3) = 14 /\ From(4) = 16
      BY <2>4, Formats
    <3>3. /\ at = 1 => Chars(text[at]) = Part(11, 12)
          /\ at = 2 => Chars(text[at]) = Part(12, 14)
          /\ at = 3 => Chars(text[at]) = Part(14, 16)
      BY <3>1, FormatChars, CharsPut, Pieces
    <3> HIDE DEF From
    <3> QED
      BY <2>4, <3>1, <3>2, <3>3, Formats
  <2> QED
    BY <1>1, <2>1, <2>2, <2>3, <2>4 DEF Speaks
<1>4. Calling'
  BY <1>1, <1>3 DEF Calling, InCall
<1> QED
  BY <1>1, <1>2, <1>3, <1>4

(* The %s of the reason.                                                    *)
LEMMA ReasonPrinted ==
  ASSUME InCall, Calling, Convert, UNCHANGED <<stage, k, text, args>>
  PROVE  /\ Calling' /\ Given = 8 /\ Given' = 11 /\ todo' = Part(8, 11)
<1>1. /\ stage \in Speaks /\ k = 2 /\ text = Format(stage) /\ at \in Reached(stage)
      /\ text[at] = "%"
  BY DEF InCall, Calling, Convert, Runs
<1>2. stage = "reason" /\ at = 1 /\ text = <<"%", "s", "NUL">>
  <2>1. stage = "hello" \/ stage = "banner" \/ stage = "farewell" => text[at] # "%"
    <3>1. CASE stage = "hello"
      BY <1>1, <3>1, Formats, FormatChars
    <3>2. CASE stage = "banner"
      BY <1>1, <3>2, Formats, FormatChars
    <3>3. CASE stage = "farewell"
      BY <1>1, <3>3, Formats, FormatChars
    <3> QED
      BY <3>1, <3>2, <3>3
  <2>2. stage = "reason"
    BY <1>1, <2>1 DEF Speaks
  <2>3. text = <<"%", "s", "NUL">> /\ at \in {1, 3}
    BY <1>1, <2>2, Formats
  <2> QED
    BY <1>1, <2>2, <2>3
<1>3. taken = 0 /\ args = <<String(Reason)>>
  BY <1>1, <1>2 DEF Calling, InCall
<1>4. text[at + 1] = "s" /\ args[taken + 1] = String(Reason)
  BY <1>2, <1>3
<1>5. Puts(AllChars(Reason)) /\ at' = 3
  BY <1>2, <1>4 DEF Convert, String
<1>6. doing' = "text"
  BY <1>5 DEF Puts, Convert, Runs
<1>7. Given = 8 /\ Given' = 11
  BY <1>1, <1>2, <1>5, Formats DEF Given, Silent, Loading, Speaks
<1>8. Calling'
  BY <1>1, <1>2, <1>3, <1>5, <1>6, Formats DEF Calling, InCall
<1> QED
  BY <1>5, <1>7, <1>8, ReasonText DEF Puts

-----------------------------------------------------------------------------
(* panic's second: while a character is in the UART, its age is the time    *)
(* waited, which is then shorter than a second.                             *)
TimeInv ==
  /\ time \in 0 .. TimeMod - 1 /\ begun \in 0 .. TimeMod - 1
  /\ stage \notin {"waiting", "rebooting"} => age = 0
  /\ stage = "waiting" /\ tx # <<>> => age = Elapsed /\ age <= CharTicks
  /\ stage = "rebooting" => tx = <<>>

(* The invariant of the firmware from uart_init to the reset.               *)
BootInv ==
  /\ StoresInv
  /\ TextInv
  /\ TimeInv
  /\ ScreenInv
  /\ stage = "init_pmc" => Drawn

-----------------------------------------------------------------------------
(* The counter may wrap between the start of the delay and its end.         *)
LEMMA Remainder ==
  ASSUME NEW m \in Nat, NEW d \in Int, - m < d, d < m
  PROVE  d % m = IF d >= 0 THEN d ELSE d + m
OBVIOUS

(* No time has passed when the delay begins.                                *)
LEMMA NoTime ==
  ASSUME NEW m \in Nat, m > 0, NEW d \in 0 .. m - 1
  PROVE  (d - d) % m = 0
<1>1. d - d = 0
  OBVIOUS
<1>2. 0 % m = 0
  OBVIOUS
<1> QED
  BY Zenon, <1>1, <1>2

(* A tick of the counter is a tick of the delay.                            *)
LEMMA ElapsedTicks ==
  ASSUME time \in 0 .. TimeMod - 1, begun \in 0 .. TimeMod - 1, Elapsed < WaitTicks,
         time' = (time + 1) % TimeMod, begun' = begun
  PROVE  time' \in 0 .. TimeMod - 1 /\ Elapsed' = Elapsed + 1
<1>1. TimeMod \in Nat /\ WaitTicks \in Nat /\ WaitTicks + 1 < TimeMod
  BY BootAssumption
<1>2. time' = IF time + 1 = TimeMod THEN 0 ELSE time + 1
  BY <1>1
<1>3. Elapsed = IF time >= begun THEN time - begun ELSE time - begun + TimeMod
  <2>1. time - begun \in Int /\ - TimeMod < time - begun /\ time - begun < TimeMod
    BY <1>1
  <2>2. (time - begun) % TimeMod
          = IF time - begun >= 0 THEN time - begun ELSE time - begun + TimeMod
    BY Zenon, <1>1, <2>1, Remainder
  <2> QED
    BY <1>1, <2>2 DEF Elapsed
<1>4. time' \in 0 .. TimeMod - 1
  BY <1>1, <1>2
<1>5. Elapsed' = IF time' >= begun THEN time' - begun ELSE time' - begun + TimeMod
  <2>1. time' - begun \in Int /\ - TimeMod < time' - begun /\ time' - begun < TimeMod
    BY <1>1, <1>4
  <2>2. (time' - begun) % TimeMod
          = IF time' - begun >= 0 THEN time' - begun ELSE time' - begun + TimeMod
    BY Zenon, <1>1, <2>1, Remainder
  <2>3. Elapsed' = (time' - begun) % TimeMod
    BY DEF Elapsed
  <2> QED
    BY <1>1, <1>4, <2>2, <2>3
<1> QED
  BY <1>1, <1>2, <1>3, <1>4, <1>5

(* The text stands still when print is neither called nor running.          *)
LEMMA QuietText ==
  ASSUME TextInv, UNCHANGED consoleVars, ~ InCall, ~ InCall', Given' = Given
  PROVE  TextInv'
<1>1. todo' = todo /\ tx' = tx /\ line' = line /\ todo = <<>>
  BY DEF TextInv, consoleVars
<1>2. Spread(Given)'
  BY <1>1 DEF TextInv, Spread
<1> QED
  BY <1>1, <1>2 DEF TextInv, Calling

(* The time stands still before the delay.                                  *)
LEMMA QuietTime ==
  ASSUME TimeInv, UNCHANGED <<clock, consoleVars>>, stage \notin {"waiting", "rebooting"},
         stage' \notin {"waiting", "rebooting"}
  PROVE  TimeInv'
BY DEF TimeInv, clock

LEMMA QuietScreen ==
  ASSUME ScreenInv, UNCHANGED screenVars
  PROVE  ScreenInv'
BY ScreenStep

(* Where a step of a list of stores leads.                                  *)
LEMMA StoresLead ==
  ASSUME NEW s, NEW list, NEW next, Stores(s, list, next)
  PROVE  /\ stage = s
         /\ k < Len(list) => k' = k + 1 /\ stage' = s
         /\ ~ (k < Len(list)) => k' = 1 /\ stage' = next
         /\ UNCHANGED <<clock, consoleVars, screenVars>>
BY DEF Stores

(* Such a step changes neither text, nor time, nor picture.                 *)
LEMMA StoresKeep ==
  ASSUME BootInv, NEW s \in Silent, NEW list, NEW next \in Silent \cup {"hello"},
         Stores(s, list, next), next # "init_pmc", stage' = "init_pmc" => Drawn'
  PROVE  TextInv' /\ TimeInv' /\ ScreenInv'
<1>1. /\ stage = s /\ stage' \in {s, next} /\ (stage' = next /\ stage' # s => k' = 1)
      /\ UNCHANGED <<clock, consoleVars, screenVars>>
  BY StoresLead
<1>2. ~ InCall /\ ~ InCall' /\ Given = 0 /\ Given' = 0
  BY <1>1, Formats DEF InCall, Given, Silent, Loading, Speaks
<1>3. TextInv'
  BY <1>1, <1>2, QuietText DEF BootInv
<1>4. TimeInv'
  BY <1>1, QuietTime DEF BootInv, Silent
<1> QED
  BY <1>1, <1>3, <1>4, QuietScreen DEF BootInv

-----------------------------------------------------------------------------
(* uart_init and dev_init.                                                  *)
LEMMA UartInitStep == BootInv /\ UartInit => BootInv'
<1> SUFFICES ASSUME BootInv, UartInit PROVE BootInv'
  OBVIOUS
<1>1. /\ stage = "uart_init" /\ Len(uart_init) = 7
      /\ k < 7 => k' = k + 1 /\ stage' = "uart_init"
      /\ ~ (k < 7) => k' = 1 /\ stage' = "init_irqchips"
  <2>1. Len(uart_init) = 7
    BY DEF uart_init
  <2> QED
    BY <2>1, StoresLead DEF UartInit
<1>2. k \in 1 .. 7 /\ io \in [Register -> Int] /\ UartStored(k - 1)
  BY <1>1 DEF BootInv, StoresInv, Steps
<1>3. PICK n \in 1 .. 7 : k = n
  BY <1>2
<1>4. io' \in [Register -> Int] /\ UartStored(n)'
  BY <1>2, <1>3, UartStores DEF UartInit
<1>5. TextInv' /\ TimeInv' /\ ScreenInv'
  BY <1>1, StoresKeep DEF UartInit, Silent
<1>6. StoresInv'
  <2>1. CASE n < 7
    <3>1. stage' = "uart_init" /\ k' = n + 1 /\ k' - 1 = n
      BY <1>1, <1>3, <2>1
    <3>2. UartStored(k - 1)'
      BY <1>4, <3>1 DEF UartStored
    <3> QED
      BY <1>4, <2>1, <3>1, <3>2 DEF StoresInv, Steps, Silent, Later, Speaks, Loading
  <2>2. CASE n = 7
    <3>1. stage' = "init_irqchips" /\ k' = 1
      BY <1>1, <1>3, <2>2
    <3>2. IrqStored(k - 1)'
      BY <3>1 DEF IrqStored
    <3> QED
      BY <1>4, <2>2, <3>1, <3>2 DEF StoresInv, Steps, Silent, Later, Speaks, Loading
  <2> QED
    BY <2>1, <2>2
<1> QED
  BY <1>1, <1>5, <1>6 DEF BootInv

LEMMA InitIrqchipsStep == BootInv /\ InitIrqchips => BootInv'
<1> SUFFICES ASSUME BootInv, InitIrqchips PROVE BootInv'
  OBVIOUS
<1>1. /\ stage = "init_irqchips"
      /\ k < 35 => k' = k + 1 /\ stage' = "init_irqchips"
      /\ ~ (k < 35) => k' = 1 /\ stage' = "init_fb"
  BY IrqList, StoresLead DEF InitIrqchips
<1>2. k \in 1 .. 35 /\ io \in [Register -> Int] /\ UartStored(7) /\ IrqStored(k - 1)
  BY <1>1 DEF BootInv, StoresInv, Steps
<1>3. PICK n \in 1 .. 35 : k = n
  BY <1>2
<1>4. io' \in [Register -> Int] /\ UartStored(7)' /\ IrqStored(n)'
  BY <1>2, <1>3, IrqStores DEF InitIrqchips
<1>5. TextInv' /\ TimeInv' /\ ScreenInv'
  BY <1>1, StoresKeep DEF InitIrqchips, Silent
<1>6. StoresInv'
  <2>1. CASE n < 35
    <3>1. stage' = "init_irqchips" /\ k' = n + 1 /\ k' - 1 = n
      BY <1>1, <1>3, <2>1
    <3>2. IrqStored(k - 1)'
      BY <1>4, <3>1 DEF IrqStored
    <3> QED
      BY <1>4, <2>1, <3>1, <3>2 DEF StoresInv, Steps, Silent, Later, Speaks, Loading
  <2>2. CASE n = 35
    <3>1. stage' = "init_fb" /\ k' = 1
      BY <1>1, <1>3, <2>2
    <3> QED
      BY <1>4, <2>2, <3>1 DEF StoresInv, Steps, Silent, Later, Speaks, Loading
  <2> QED
    BY <2>1, <2>2
<1> QED
  BY <1>1, <1>5, <1>6 DEF BootInv

LEMMA InitFbStep == BootInv /\ InitFb => BootInv'
<1> SUFFICES ASSUME BootInv, InitFb PROVE BootInv'
  OBVIOUS
<1>1. /\ stage = "init_fb" /\ Len(init_fb) = 3
      /\ k < 3 => k' = k + 1 /\ stage' = "init_fb"
      /\ ~ (k < 3) => k' = 1 /\ stage' = "draw"
  <2>1. Len(init_fb) = 3
    BY DEF init_fb
  <2> QED
    BY <2>1, StoresLead DEF InitFb
<1>2. /\ k \in 1 .. 3 /\ io \in [Register -> Int] /\ UartStored(7) /\ IrqStored(35)
      /\ k > 1 => io[TFT_AR] = FB_BASE_ADDR
  BY <1>1 DEF BootInv, StoresInv, Steps
<1>3. PICK n \in 1 .. 3 : k = n
  BY <1>2
<1>4. io' \in [Register -> Int] /\ UartStored(7)' /\ IrqStored(35)' /\ io'[TFT_AR] = FB_BASE_ADDR
  BY <1>2, <1>3, FbStores DEF InitFb
<1>5. TextInv' /\ TimeInv' /\ ScreenInv'
  BY <1>1, StoresKeep DEF InitFb, Silent
<1>6. stage' \in {"init_fb", "draw"} /\ k' \in 1 .. Steps(stage')
  BY <1>1, <1>2 DEF Steps, Speaks
<1>7. StoresInv'
  <2>1. TFT_AR' = TFT_AR /\ FB_BASE_ADDR' = FB_BASE_ADDR
    BY DEF TFT_AR, FB_BASE_ADDR
  <2> QED
    BY <1>4, <1>6 DEF StoresInv, Silent, Later, Speaks, Loading
<1> QED
  BY <1>1, <1>5, <1>7 DEF BootInv

LEMMA DrawStep == BootInv /\ Draw => BootInv'
<1> SUFFICES ASSUME BootInv, Draw PROVE BootInv'
  OBVIOUS
<1>1. /\ stage = "draw" /\ ScreenNext /\ stage' = IF Drawn' THEN "init_pmc" ELSE stage
      /\ UNCHANGED <<k, io, clock, consoleVars>>
  BY DEF Draw
<1>2. stage' \in {"draw", "init_pmc"} /\ (stage' = "init_pmc" => Drawn')
  BY <1>1
<1>3. ScreenInv'
  BY <1>1, ScreenStep DEF BootInv
<1>4. ~ InCall /\ ~ InCall' /\ Given = 0 /\ Given' = 0
  BY <1>1, <1>2 DEF InCall, Given, Silent, Speaks
<1>5. TextInv' /\ TimeInv'
  BY <1>1, <1>2, <1>4, QuietText, QuietTime DEF BootInv
<1>6. StoresInv'
  BY <1>1, <1>2 DEF BootInv, StoresInv, UartStored, IrqStored, Steps, Silent, Later, Speaks, Loading
<1> QED
  BY <1>2, <1>3, <1>5, <1>6 DEF BootInv

LEMMA InitPmcStep == BootInv /\ InitPmc => BootInv'
<1> SUFFICES ASSUME BootInv, InitPmc PROVE BootInv'
  OBVIOUS
<1>1. k = 1 /\ stage = "init_pmc"
  BY StoresLead DEF BootInv, StoresInv, Steps, InitPmc, Speaks
<1>2. k' = 1 /\ stage' = "hello"
  <2>1. Len(init_pmc) = 1
    BY DEF init_pmc
  <2>2. ~ (k < Len(init_pmc))
    BY <1>1, <2>1
  <2> QED
    BY Zenon, <2>2, StoresLead DEF InitPmc
<1>3. /\ io \in [Register -> Int] /\ UartStored(7) /\ IrqStored(35)
      /\ io[TFT_AR] = FB_BASE_ADDR
  BY <1>1 DEF BootInv, StoresInv
<1>4. /\ io' \in [Register -> Int] /\ UartStored(7)' /\ IrqStored(35)'
      /\ io'[TFT_AR] = FB_BASE_ADDR /\ io'[PMC_CONTROL] = 0
  BY <1>1, <1>3, PmcStore DEF InitPmc
<1>5. TextInv' /\ TimeInv' /\ ScreenInv'
  BY <1>2, StoresKeep DEF InitPmc, Silent
<1>6. StoresInv'
  BY <1>2, <1>4 DEF StoresInv, Steps, Silent, Later, Speaks, Loading
<1> QED
  BY <1>2, <1>5, <1>6 DEF BootInv

-----------------------------------------------------------------------------
(* The registers keep what they hold while the program talks and loads.     *)
LEMMA SameStores ==
  ASSUME StoresInv, UNCHANGED io, stage \in Later, stage' \in Later, k' \in 1 .. Steps(stage')
  PROVE  StoresInv'
<1>1. /\ stage \notin {"uart_init", "init_irqchips", "init_fb", "rebooting"}
      /\ stage' \notin {"uart_init", "init_irqchips", "init_fb", "rebooting"}
  BY DEF Later, Speaks, Loading
<1>2. /\ io \in [Register -> Int] /\ UartStored(7) /\ IrqStored(35)
      /\ io[TFT_AR] = FB_BASE_ADDR /\ io[PMC_CONTROL] = 0
  BY <1>1 DEF StoresInv
<1>3. UartStored(7)' /\ IrqStored(35)'
  BY <1>2 DEF UartStored, IrqStored
<1> QED
  BY <1>1, <1>2, <1>3 DEF StoresInv

(* A call of print begins, or returns.                                      *)
LEMMA SaysStep ==
  ASSUME BootInv, NEW s \in Speaks, NEW next \in Later \ {"waiting"}, Says(s, next),
         NEW v, \A p \in Reached(s) : Format(s)[p] = "NUL" => Spoken(s)[p] = v,
         v = IF next \in Loading THEN 5
             ELSE IF next \in Speaks THEN Spoken(next)[1] ELSE 16
  PROVE  BootInv'
<1>1. stage = s /\ UNCHANGED <<io, clock, screenVars>>
  BY DEF Says
<1>2. CASE k = 1 /\ k' = 2 /\ UNCHANGED <<stage, todo, tx, line>>
           /\ StartPrint(Format(s), IF s = "reason" THEN <<String(Reason)>> ELSE <<>>)
  <2>1. at' = 1 /\ taken' = 0 /\ doing' = "text" /\ text' = Format(s)
        /\ (s = "reason" => args' = <<String(Reason)>>)
    BY <1>2 DEF StartPrint
  <2>2. Calling'
    BY <1>1, <1>2, <2>1, Formats DEF Calling, InCall, Speaks
  <2>3. Given = Spoken(s)[1] /\ Given' = Spoken(s)[1]
    BY <1>1, <1>2, <2>1, GivenInCall DEF Given, Silent, Loading, Speaks
  <2>4. Spread(Given)'
    BY <1>2, <2>3 DEF BootInv, TextInv, Spread
  <2>5. TextInv'
    BY <1>1, <1>2, <2>2, <2>4 DEF TextInv, InCall
  <2>6. StoresInv'
    BY <1>1, <1>2, SameStores DEF BootInv, Later, Steps, Speaks
  <2>7. TimeInv'
    BY <1>1, <1>2 DEF BootInv, TimeInv, clock, Speaks
  <2> QED
    BY <1>1, <1>2, <2>5, <2>6, <2>7, QuietScreen DEF BootInv, Speaks
<1>3. CASE k = 2 /\ Returned /\ k' = 1 /\ stage' = next /\ UNCHANGED consoleVars
  <2>1. text = Format(s) /\ at \in Reached(s) /\ text[at] = "NUL" /\ todo = <<>>
    BY <1>1, <1>3 DEF Returned, BootInv, TextInv, Calling, InCall
  <2>2. Given = Spoken(s)[at]
    BY <1>1, <1>3, GivenInCall
  <2>3. Given' = IF next \in Loading THEN 5
                 ELSE IF next \in Speaks THEN Spoken(next)[1] ELSE 16
    BY <1>3 DEF Given, Silent, Later, Loading, Speaks
  <2>4. Given' = Given
    BY <2>1, <2>2, <2>3
  <2>5. todo' = todo /\ tx' = tx /\ line' = line
    BY <1>3 DEF consoleVars
  <2>6. Spread(Given)'
    BY <2>4, <2>5 DEF BootInv, TextInv, Spread
  <2>7. TextInv'
    BY <1>3, <2>1, <2>5, <2>6 DEF TextInv, Calling, InCall
  <2>8. StoresInv'
    BY <1>1, <1>3, SameStores DEF BootInv, Later, Steps
  <2>9. TimeInv'
    BY <1>1, <1>3, QuietTime DEF BootInv, Later, Loading, Speaks
  <2> QED
    BY <1>1, <1>3, <2>7, <2>8, <2>9, QuietScreen DEF BootInv, Later, Loading, Speaks
<1> QED
  BY <1>2, <1>3 DEF Says

(* The four calls of print.                                                 *)
LEMMA SayStep == BootInv /\ Say => BootInv'
<1> SUFFICES ASSUME BootInv, Say PROVE BootInv'
  OBVIOUS
<1>1. CASE Says("hello", "kernel")
  <2>1. /\ "hello" \in Speaks /\ "kernel" \in Later \ {"waiting"}
        /\ 5 = IF "kernel" \in Loading THEN 5
            ELSE IF "kernel" \in Speaks THEN Spoken("kernel")[1] ELSE 16
    BY Formats DEF Speaks, Later, Loading
  <2>2. \A p \in Reached("hello") : Format("hello")[p] = "NUL" => Spoken("hello")[p] = 5
    <3>1. Spoken("hello")[4] = 5
      BY Formats
    <3>2. \A p \in {1, 2, 3, 4} : p # 4 => Format("hello")[p] # "NUL"
      BY Formats, FormatChars
    <3> QED
      BY <3>1, <3>2, Formats
  <2> QED
    BY Zenon, <1>1, <2>1, <2>2, SaysStep
<1>2. CASE Says("banner", "reason")
  <2>1. /\ "banner" \in Speaks /\ "reason" \in Later \ {"waiting"}
        /\ 8 = IF "reason" \in Loading THEN 5
            ELSE IF "reason" \in Speaks THEN Spoken("reason")[1] ELSE 16
    BY Formats DEF Speaks, Later, Loading
  <2>2. \A p \in Reached("banner") : Format("banner")[p] = "NUL" => Spoken("banner")[p] = 8
    <3>1. Spoken("banner")[3] = 8
      BY Formats
    <3>2. \A p \in {1, 2, 3} : p # 3 => Format("banner")[p] # "NUL"
      BY Formats, FormatChars
    <3> QED
      BY <3>1, <3>2, Formats
  <2> QED
    BY Zenon, <1>2, <2>1, <2>2, SaysStep
<1>3. CASE Says("reason", "farewell")
  <2>1. /\ "reason" \in Speaks /\ "farewell" \in Later \ {"waiting"}
        /\ 11 = IF "farewell" \in Loading THEN 5
            ELSE IF "farewell" \in Speaks THEN Spoken("farewell")[1] ELSE 16
    BY Formats DEF Speaks, Later, Loading
  <2>2. \A p \in Reached("reason") : Format("reason")[p] = "NUL" => Spoken("reason")[p] = 11
    <3>1. Spoken("reason")[3] = 11
      BY Formats
    <3>2. \A p \in {1, 3} : p # 3 => Format("reason")[p] # "NUL"
      <4>1. Format("reason")[1] = "%"
        BY Formats
      <4> QED
        BY <4>1
    <3> QED
      BY <3>1, <3>2, Formats
  <2> QED
    BY Zenon, <1>3, <2>1, <2>2, SaysStep
<1>4. CASE Says("farewell", "udelay")
  <2>1. /\ "farewell" \in Speaks /\ "udelay" \in Later \ {"waiting"}
        /\ 16 = IF "udelay" \in Loading THEN 5
            ELSE IF "udelay" \in Speaks THEN Spoken("udelay")[1] ELSE 16
    BY Formats DEF Speaks, Later, Loading
  <2>2. \A p \in Reached("farewell") : Format("farewell")[p] = "NUL" => Spoken("farewell")[p] = 16
    <3>1. Spoken("farewell")[4] = 16
      BY Formats
    <3>2. \A p \in {1, 2, 3, 4} : p # 4 => Format("farewell")[p] # "NUL"
      BY Formats, FormatChars
    <3> QED
      BY <3>1, <3>2, Formats
  <2> QED
    BY Zenon, <1>4, <2>1, <2>2, SaysStep
<1> QED
  BY <1>1, <1>2, <1>3, <1>4 DEF Say

(* Inside a call of print: a character of the format, a string, or one to   *)
(* the UART.                                                                *)
LEMMA InPrintStep == BootInv /\ InPrint => BootInv'
<1> SUFFICES ASSUME BootInv, InPrint PROVE BootInv'
  OBVIOUS
<1>1. /\ InCall /\ stage \in Speaks /\ k = 2
      /\ UNCHANGED <<own, time, begun, screenVars>>
      /\ age' = IF tx' # tx THEN 0 ELSE age
  BY DEF InPrint, InCall, Speaks
<1>2. UNCHANGED <<stage, k, io>> /\ Calling /\ Spread(Given)
  BY <1>1 DEF own, BootInv, TextInv
<1>3. InCall'
  BY <1>1, <1>2 DEF InCall
<1>4. Given \in 0 .. 16
  BY <1>1, <1>2, GivenRange
<1>5. TextInv'
  <2>1. CASE uart_putc
    <3>1. UNCHANGED <<text, args, at, taken, doing>>
      BY <2>1 DEF uart_putc, callVars, cpuVars
    <3>2. Calling' /\ Given' = Given
      BY <1>2, <3>1 DEF Calling, InCall, Given
    <3>3. Spread(Given)'
      <4>1. PICK u \in 0 .. 16 : Given = u
        BY <1>4
      <4>2. Spread(u)'
        BY <1>2, <2>1, <4>1, PutText
      <4> QED
        BY <3>2, <4>1, <4>2 DEF Spread
    <3> QED
      BY <1>3, <3>2, <3>3 DEF TextInv
  <2>2. CASE print
    <3>1. UNCHANGED <<text, args, tx, line>> /\ doing = "text"
      BY <1>1, <1>2, <2>2 DEF print, callVars, Calling
    <3>2. Plain \/ Convert
      BY <2>2, <3>1 DEF print, Divide, Emit, Runs
    <3>3. todo = <<>>
      BY <3>2 DEF Plain, Convert, Runs
    <3>4. /\ Calling' /\ Given' \in 0 .. 16 /\ Given <= Given'
          /\ todo' = Part(Given, Given')
      <4>1. CASE Plain
        BY <1>1, <1>2, <3>1, <4>1, PlainText
      <4>2. CASE Convert
        BY <1>1, <1>2, <3>1, <4>2, ReasonPrinted
      <4> QED
        BY <3>2, <4>1, <4>2
    <3>5. Spread(Given)'
      <4>1. PICK u \in 0 .. 16, w \in 0 .. 16 : u = Given /\ w = Given'
        BY <1>4, <3>4
      <4>2. Spread(w)'
        BY <1>2, <3>1, <3>3, <3>4, <4>1, MoreText
      <4> QED
        BY <4>1, <4>2 DEF Spread
    <3> QED
      BY <1>3, <3>4, <3>5 DEF TextInv
  <2> QED
    BY <2>1, <2>2 DEF InPrint, ConsoleStep
<1>6. StoresInv'
  BY <1>1, <1>2 DEF BootInv, StoresInv, UartStored, IrqStored, Steps, Later, Speaks
<1>7. TimeInv'
  BY <1>1, <1>2 DEF BootInv, TimeInv, Speaks
<1> QED
  BY <1>1, <1>2, <1>5, <1>6, <1>7, QuietScreen DEF BootInv, Speaks

(* A load, and the start of the delay.                                      *)
LEMMA LoadStep ==
  ASSUME BootInv, NEW image \in {"kernel", "ramfs"}, NEW next \in {"ramfs", "payload"},
         Load(image, next)
  PROVE  BootInv'
<1>1. /\ stage = image /\ stage' \in {next, "banner"}
      /\ UNCHANGED <<k, io, clock, consoleVars, screenVars>>
  BY DEF Load
<1>2. k = 1 /\ k' = 1
  BY <1>1 DEF BootInv, StoresInv, Steps, Speaks
<1>3. Given = 5 /\ Given' = 5 /\ ~ InCall /\ ~ InCall'
  BY <1>1, <1>2, Formats DEF Given, InCall, Silent, Loading, Speaks
<1>4. TextInv' /\ TimeInv' /\ ScreenInv'
  BY <1>1, <1>3, QuietText, QuietTime, QuietScreen DEF BootInv
<1>5. StoresInv'
  BY <1>1, <1>2, SameStores DEF BootInv, Later, Loading, Speaks, Steps
<1> QED
  BY <1>1, <1>4, <1>5 DEF BootInv

LEMMA StartDelayStep == BootInv /\ StartDelay => BootInv'
<1> SUFFICES ASSUME BootInv, StartDelay PROVE BootInv'
  OBVIOUS
<1>1. /\ stage = "udelay" /\ stage' = "waiting" /\ UNCHANGED <<k, io, age, consoleVars, screenVars>>
      /\ time' \in 0 .. TimeMod - 1 /\ begun' = time'
  BY DEF StartDelay
<1>2. Given = 16 /\ Given' = 16 /\ ~ InCall /\ ~ InCall'
  BY <1>1 DEF Given, InCall, Silent, Loading, Speaks
<1>3. TextInv'
  BY <1>1, <1>2, QuietText DEF BootInv
<1>4. StoresInv'
  <2>1. k' \in 1 .. Steps(stage')
    BY <1>1 DEF BootInv, StoresInv, Steps, Speaks
  <2> QED
    BY <1>1, <2>1, SameStores DEF BootInv, Later
<1>5. TimeInv'
  <2>1. TimeMod \in Nat /\ TimeMod > 0 /\ CharTicks \in Nat
    BY BootAssumption
  <2>2. (time' - begun') % TimeMod = 0
    <3>1. time' \in 0 .. TimeMod - 1 /\ begun' = time'
      BY <1>1
    <3> QED
      BY Zenon, <2>1, <3>1, NoTime
  <2>3. Elapsed' = 0 /\ age' = 0
    BY <1>1, <2>2 DEF Elapsed, BootInv, TimeInv
  <2> QED
    BY <1>1, <2>1, <2>3 DEF TimeInv
<1> QED
  BY <1>1, <1>3, <1>4, <1>5, QuietScreen DEF BootInv

(* A second has passed: what was in the UART has left it.                   *)
LEMMA RebootStep == BootInv /\ Reboot => BootInv'
<1> SUFFICES ASSUME BootInv, Reboot PROVE BootInv'
  OBVIOUS
<1>1. /\ stage = "waiting" /\ stage' = "rebooting" /\ Elapsed >= WaitTicks
      /\ UNCHANGED <<k, clock, consoleVars, screenVars>>
      /\ io' = [io EXCEPT ![PMC_CONTROL] = IF @ = -1 THEN -1 ELSE @ - (@ % 256) + PMC_REBOOT]
  BY DEF Reboot
<1>2. Given = 16 /\ Given' = 16 /\ ~ InCall /\ ~ InCall'
  BY <1>1 DEF Given, InCall, Silent, Loading, Speaks
<1>3. TextInv'
  BY <1>1, <1>2, QuietText DEF BootInv
<1>4. TimeInv'
  <2>1. tx = <<>>
    <3>1. WaitTicks \in Nat /\ CharTicks \in Nat /\ CharTicks < WaitTicks
      BY BootAssumption
    <3>2. tx # <<>> => age = Elapsed /\ age <= CharTicks
      BY <1>1 DEF BootInv, TimeInv
    <3>3. Elapsed \in Int
      BY BootAssumption DEF BootInv, TimeInv, Elapsed
    <3> QED
      BY <1>1, <3>1, <3>2, <3>3
  <2>2. tx' = <<>> /\ time' = time /\ begun' = begun
    BY <1>1, <2>1 DEF consoleVars, clock
  <2> QED
    BY <1>1, <2>2 DEF BootInv, TimeInv
<1>5. /\ io \in [Register -> Int] /\ io[PMC_CONTROL] = 0 /\ io[TFT_AR] = FB_BASE_ADDR
      /\ UartStored(7) /\ IrqStored(35)
  BY <1>1 DEF BootInv, StoresInv, Later
<1>6. Sets(PMC_CONTROL, PMC_REBOOT)
  <2>1. PMC_CONTROL \in Register /\ PMC_REBOOT \in Int
    BY SMT DEF Register, PMC_REBOOT
  <2>2. (IF io[PMC_CONTROL] = -1 THEN -1
         ELSE io[PMC_CONTROL] - (io[PMC_CONTROL] % 256) + PMC_REBOOT) = PMC_REBOOT
    BY <1>5, <2>1
  <2> QED
    BY <1>1, <1>5, <2>1, <2>2 DEF Sets
<1>7. /\ PMC_CONTROL \notin UartOnes /\ PMC_CONTROL \notin PlicOnes
      /\ PMC_CONTROL # TFT_AR /\ TFT_AR \in Register
  BY SMT, Addresses, Registers DEF Fixed, UartOnes, PlicOnes
<1>8. StoresInv'
  <2>1. UartStored(7)' /\ IrqStored(35)'
    BY <1>5, <1>6, <1>7, StoreElsewhere
  <2>2. io' \in [Register -> Int] /\ io'[PMC_CONTROL] = PMC_REBOOT /\ io'[TFT_AR] = FB_BASE_ADDR
    BY <1>5, <1>6, <1>7 DEF Sets
  <2>3. k' = 1
    BY <1>1 DEF BootInv, StoresInv, Steps, Speaks
  <2> QED
    BY <1>1, <2>1, <2>2, <2>3 DEF StoresInv, Steps, Later, Speaks, Loading
<1> QED
  BY <1>1, <1>3, <1>4, <1>8, QuietScreen DEF BootInv

(* A character leaves the UART; time passes only if none is due to.         *)
LEMMA TransmitStep == BootInv /\ Transmit => BootInv'
<1> SUFFICES ASSUME BootInv, Transmit PROVE BootInv'
  OBVIOUS
<1>1. /\ TxShift /\ UNCHANGED <<stage, k, io, time, begun, age, screenVars>>
      /\ UNCHANGED <<text, args, at, taken, doing, todo>>
  BY DEF Transmit, TxShift, own, clock, callVars, cpuVars
<1>2. Given \in 0 .. 16
  <2>1. Calling /\ (stage \in Speaks => k \in {1, 2})
    BY DEF BootInv, StoresInv, TextInv, Steps, Speaks
  <2> QED
    BY <2>1, GivenRange
<1>3. TextInv'
  <2>1. Calling' /\ Given' = Given /\ InCall' = InCall
    BY <1>1 DEF BootInv, TextInv, Calling, InCall, Given
  <2>2. PICK u \in 0 .. 16 : Given = u
    BY <1>2
  <2>3. Spread(u)'
    BY <1>1, <2>2, ShiftText DEF BootInv, TextInv
  <2>4. Spread(Given)'
    BY <2>1, <2>2, <2>3 DEF Spread
  <2> QED
    BY <1>1, <2>1, <2>4 DEF BootInv, TextInv
<1>4. TimeInv'
  <2>1. tx # <<>>
    BY <1>1 DEF TxShift
  <2> QED
    BY <1>1, <2>1 DEF BootInv, TimeInv, Elapsed
<1>5. StoresInv'
  BY <1>1 DEF BootInv, StoresInv, UartStored, IrqStored
<1>6. Drawn' = Drawn
  BY <1>1, SamePicture DEF Drawn, screenVars
<1> QED
  BY <1>1, <1>3, <1>4, <1>5, <1>6, QuietScreen DEF BootInv

LEMMA TickStep == BootInv /\ Tick => BootInv'
<1> SUFFICES ASSUME BootInv, Tick PROVE BootInv'
  OBVIOUS
<1>1. /\ stage = "waiting" /\ Elapsed < WaitTicks /\ (tx # <<>> => age < CharTicks)
      /\ time' = (time + 1) % TimeMod /\ age' = IF tx # <<>> THEN age + 1 ELSE age
      /\ UNCHANGED <<stage, k, io, begun, consoleVars, screenVars>>
  BY DEF Tick, own
<1>2. Given = 16 /\ Given' = 16 /\ ~ InCall /\ ~ InCall'
  BY <1>1 DEF Given, InCall, Silent, Loading, Speaks
<1>3. TextInv'
  BY <1>1, <1>2, QuietText DEF BootInv
<1>4. TimeInv'
  <2>1. time \in 0 .. TimeMod - 1 /\ begun \in 0 .. TimeMod - 1
    BY DEF BootInv, TimeInv
  <2>2. time' \in 0 .. TimeMod - 1 /\ Elapsed' = Elapsed + 1
    BY <1>1, <2>1, ElapsedTicks
  <2>3. tx' = tx /\ CharTicks \in Nat
    BY <1>1, BootAssumption DEF consoleVars
  <2>4. tx # <<>> => age' = Elapsed' /\ age' <= CharTicks
    <3>1. tx # <<>> => age = Elapsed
      BY <1>1 DEF BootInv, TimeInv
    <3>2. Elapsed \in Int
      BY <2>1, BootAssumption DEF Elapsed
    <3> QED
      BY <1>1, <2>2, <2>3, <3>1, <3>2
  <2> QED
    BY <1>1, <2>1, <2>2, <2>3, <2>4 DEF TimeInv
<1>5. StoresInv'
  BY <1>1 DEF BootInv, StoresInv, UartStored, IrqStored
<1> QED
  BY <1>1, <1>3, <1>4, <1>5, QuietScreen DEF BootInv

-----------------------------------------------------------------------------
(* The firmware as a whole.                                                 *)
LEMMA BootInitially == BootInit => BootInv
<1> SUFFICES ASSUME BootInit PROVE BootInv
  OBVIOUS
<1>1. /\ stage = "uart_init" /\ k = 1 /\ io = [r \in Register |-> -1]
      /\ time = 0 /\ begun = 0 /\ age = 0 /\ Idle /\ ScreenInit("wallpaper")
  BY DEF BootInit
<1>2. StoresInv
  BY <1>1 DEF StoresInv, UartStored, IrqStored, Steps, Silent, Later, Speaks, Loading
<1>3. TextInv
  <2>1. Given = 0 /\ ~ InCall
    BY <1>1 DEF Given, Silent, InCall, Speaks
  <2>2. todo = <<>> /\ tx = <<>> /\ line = <<>>
    BY <1>1 DEF Idle, Printing
  <2>3. Part(0, 0) = <<>>
    BY SMTT(30), PartShape
  <2>4. Spread(0)
    BY <2>2, <2>3 DEF Spread
  <2> QED
    BY <2>1, <2>2, <2>4 DEF TextInv, Calling
<1>4. TimeInv
  BY <1>1, BootAssumption DEF TimeInv
<1>5. ScreenInv
  BY <1>1, ScreenInitially, BootAssumption
<1> QED
  BY <1>1, <1>2, <1>3, <1>4, <1>5 DEF BootInv

LEMMA BootStutters == BootInv /\ UNCHANGED bootVars => BootInv'
<1> SUFFICES ASSUME BootInv, UNCHANGED bootVars PROVE BootInv'
  OBVIOUS
<1>1. UNCHANGED <<stage, k, io, time, begun, age, consoleVars, screenVars>>
  BY DEF bootVars, deviceVars, own, clock
<1>2. UNCHANGED <<text, args, at, taken, doing, todo, tx, line, picture, filled, row, white>>
  BY <1>1 DEF consoleVars, callVars, cpuVars, screenVars
<1>3. StoresInv'
  BY <1>1 DEF BootInv, StoresInv, UartStored, IrqStored
<1>4. TextInv'
  BY <1>1, <1>2 DEF BootInv, TextInv, Calling, InCall, Spread, Given
<1>5. TimeInv'
  BY <1>1, <1>2 DEF BootInv, TimeInv, Elapsed
<1> QED
  BY <1>1, <1>2, <1>3, <1>4, <1>5, QuietScreen DEF BootInv, Drawn, ROWS

LEMMA BootStep == BootInv /\ [BootNext]_bootVars => BootInv'
<1> SUFFICES ASSUME BootInv, [BootNext]_bootVars PROVE BootInv'
  OBVIOUS
<1>1. CASE UNCHANGED bootVars
  BY <1>1, BootStutters
<1>2. CASE Load("kernel", "ramfs") \/ Load("ramfs", "payload")
  BY <1>2, LoadStep
<1> QED
  BY <1>1, <1>2, UartInitStep, InitIrqchipsStep, InitFbStep, DrawStep, InitPmcStep, SayStep,
     InPrintStep, StartDelayStep, RebootStep, TransmitStep, TickStep DEF BootNext, Firmware

-----------------------------------------------------------------------------
(* What the properties need of it.                                          *)
LEMMA FrameRead ==
  ASSUME UartStored(7)
  PROVE  UartReady
<1>1. divisor = 13
  BY SMT DEF divisor, SYS_CLK_FREQ, UART_BAUDRATE
<1>2. io[Latch(UART_DLL)] = 13 /\ io[Latch(UART_DLM)] = 0
  <2>1. 13 % 256 = 13 /\ (13 \div 256) % 256 = 0
    OBVIOUS
  <2> QED
    BY <1>1, <2>1 DEF UartStored
<1>3. 16 * (13 + 256 * 0) * UART_BAUDRATE = 95846400 /\ SYS_CLK_FREQ = 100000000
  BY SMT DEF UART_BAUDRATE, SYS_CLK_FREQ
<1>4. FrameReadable
  BY SMT, <1>2, <1>3 DEF FrameReadable
<1> QED
  BY <1>4 DEF UartReady, UartStored

(* From the invariant to the properties.                                    *)
LEMMA GivesDevices == BootInv => DevicesReady
<1> SUFFICES ASSUME BootInv PROVE DevicesReady
  OBVIOUS
<1>1. ASSUME tx # <<>> PROVE UartReady
  <2>1. stage \notin Silent
    <3>1. ASSUME stage \in Silent PROVE FALSE
      <4>1. Spread(0)
        BY <3>1 DEF BootInv, TextInv, Given
      <4>2. PICK n \in 0 .. 16, m \in 0 .. 16 : n <= m /\ m <= 0 /\ tx = Part(n, m)
        BY <4>1 DEF Spread
      <4>3. n = m
        BY <4>2
      <4> QED
        BY <1>1, <4>2, <4>3, PartShape
    <3> QED
      BY <3>1
  <2>2. UartStored(7)
    BY <2>1 DEF BootInv, StoresInv, Silent
  <2> QED
    BY <2>2, FrameRead
<1>2. ASSUME stage \in Loading
      PROVE  IrqStored(35) /\ io[TFT_AR] = FB_BASE_ADDR /\ io[PMC_CONTROL] = 0
  BY <1>2 DEF BootInv, StoresInv, Loading, Later
<1> QED
  BY <1>1, <1>2 DEF DevicesReady, IrqStored, Loading

LEMMA GivesPicture == BootInv => PictureDrawn
<1>1. FB_BASE_ADDR + FB_SIZE <= DDR2_SIZE
  BY SMT DEF FB_BASE_ADDR, FB_SIZE, DDR2_SIZE
<1> QED
  BY <1>1 DEF PictureDrawn, BootInv, ScreenInv

LEMMA GivesMessage == BootInv => PanicIsHeard
<1> SUFFICES ASSUME BootInv, stage = "rebooting" PROVE PanicIsHeard
  BY DEF PanicIsHeard
<1>1. io[PMC_CONTROL] = PMC_REBOOT /\ tx = <<>> /\ todo = <<>>
  BY DEF BootInv, StoresInv, TimeInv, TextInv, InCall, Speaks
<1>2. Spread(16)
  <2>1. Given = 16
    BY DEF Given, Silent, Loading, Speaks
  <2> QED
    BY <2>1 DEF BootInv, TextInv
<1>3. PICK n \in 0 .. 16, m \in 0 .. 16 :
        n <= m /\ m <= 16 /\ line = Part(0, n) /\ tx = Part(n, m) /\ todo = Part(m, 16)
  BY <1>2 DEF Spread
<1>4. n = m /\ m = 16
  <2>1. 16 \in 0 .. 16 /\ n <= m /\ m <= 16
    BY <1>3
  <2>2. Part(n, m) = <<>> <=> n = m
    BY Zenon, <2>1, PartShape
  <2>3. Part(m, 16) = <<>> <=> m = 16
    BY Zenon, <2>1, PartShape
  <2> QED
    BY <1>1, <1>3, <2>2, <2>3
<1> QED
  BY <1>1, <1>3, <1>4, Whole DEF PanicIsHeard

-----------------------------------------------------------------------------
(* Induction on the natural numbers, from the least element of a set.       *)
LEMMA Least ==
  ASSUME NEW T, T \subseteq Nat, T # {}
  PROVE  \E x \in T : \A y \in T : x <= y
<1> DEFINE R == {ss \in Nat \X Nat : ss[1] < ss[2]}
<1>1. IsWellFoundedOn(R, Nat)
  BY NatLessThanWellFounded DEF OpToRel
<1>2. PICK x \in T : \A y \in T : <<y, x>> \notin R
  <2> HIDE DEF R
  <2> QED
    BY <1>1, WFMin
<1>3. ASSUME NEW y \in T PROVE x <= y
  <2>1. <<y, x>> \notin R
    BY <1>2
  <2>2. <<y, x>> \in Nat \X Nat /\ <<y, x>>[1] = y /\ <<y, x>>[2] = x
    OBVIOUS
  <2> QED
    BY <2>1, <2>2
<1> QED
  BY <1>3

LEMMA Induction ==
  ASSUME NEW S, 0 \in S, \A n \in Nat : n \in S => n + 1 \in S
  PROVE  \A n \in Nat : n \in S
<1> SUFFICES ASSUME Nat \ S # {} PROVE FALSE
  OBVIOUS
<1> DEFINE T == Nat \ S
<1>1. T \subseteq Nat /\ T # {}
  OBVIOUS
<1>2. PICK x \in T : \A y \in T : x <= y
  <2> HIDE DEF T
  <2> QED
    BY <1>1, Least
<1>3. x # 0 /\ x - 1 \in Nat /\ x - 1 < x
  BY <1>2
<1>4. x - 1 \in S
  BY <1>2, <1>3
<1>5. (x - 1) + 1 \in S
  BY <1>3, <1>4
<1> QED
  BY <1>2, <1>3, <1>5

-----------------------------------------------------------------------------
(* crc32.c: the register of zlib is what its defining equation says, and    *)
(* one byte moves the firmware's register as it moves zlib's.               *)
(* The register of zlib after each byte.                                    *)
ZlibRun(bytes, e) ==
  e = [n \in 0 .. Len(bytes) |-> IF n = 0 THEN 0 .. 31 ELSE ByteSteps(e[n - 1], bytes[n])]

LEMMA RegisterSteps ==
  ASSUME NEW bytes, NEW e, ZlibRun(bytes, e)
  PROVE  \A n \in 0 .. Len(bytes) : e[n] = IF n = 0 THEN 0 .. 31 ELSE ByteSteps(e[n - 1], bytes[n])
BY DEF ZlibRun

LEMMA OneRegister ==
  ASSUME NEW bytes, Len(bytes) \in Nat, NEW e, ZlibRun(bytes, e)
  PROVE  Zlib(bytes) = Xor(e[Len(bytes)], 0 .. 31)
<1> DEFINE N == Len(bytes)
           r == CHOOSE f : ZlibRun(bytes, f)
<1>1. Zlib(bytes) = Xor(r[N], 0 .. 31)
  BY DEF Zlib, ZlibRun
<1>2. ZlibRun(bytes, r)
  OBVIOUS
<1> DEFINE S == {n \in Nat : n <= N => r[n] = e[n]}
<1> HIDE DEF r
<1>3. \A n \in 0 .. N : r[n] = IF n = 0 THEN 0 .. 31 ELSE ByteSteps(r[n - 1], bytes[n])
  BY <1>2, RegisterSteps
<1>4. \A n \in 0 .. N : e[n] = IF n = 0 THEN 0 .. 31 ELSE ByteSteps(e[n - 1], bytes[n])
  BY RegisterSteps
<1>5. N \in Nat
  OBVIOUS
<1> HIDE DEF N
<1>6. 0 \in S
  BY <1>3, <1>4, <1>5
<1>7. ASSUME NEW n \in Nat, n \in S PROVE n + 1 \in S
  <2> SUFFICES ASSUME n + 1 <= N PROVE r[n + 1] = e[n + 1]
    BY <1>5
  <2>1. r[n] = e[n] /\ (n + 1) - 1 = n /\ n + 1 \in 0 .. N /\ n + 1 # 0
    BY <1>5, <1>7
  <2> QED
    BY <1>3, <1>4, <2>1
<1>8. \A n \in Nat : n \in S
  <2> HIDE DEF S
  <2> QED
    BY <1>6, <1>7, Induction
<1>9. r[N] = e[N]
  BY <1>5, <1>8
<1> QED
  BY <1>1, <1>9 DEF N

(* The bits of a word, each at its place.                                   *)
LEMMA WordBits ==
  ASSUME NEW high \in Nat, NEW low \in Nat
  PROVE  /\ Word(high, low) \subseteq 0 .. 31
         /\ 0 \in Word(high, low) <=> (low \div 1) % 2 = 1
         /\ 1 \in Word(high, low) <=> (low \div 2) % 2 = 1
         /\ 2 \in Word(high, low) <=> (low \div 4) % 2 = 1
         /\ 3 \in Word(high, low) <=> (low \div 8) % 2 = 1
         /\ 4 \in Word(high, low) <=> (low \div 16) % 2 = 1
         /\ 5 \in Word(high, low) <=> (low \div 32) % 2 = 1
         /\ 6 \in Word(high, low) <=> (low \div 64) % 2 = 1
         /\ 7 \in Word(high, low) <=> (low \div 128) % 2 = 1
         /\ 8 \in Word(high, low) <=> (low \div 256) % 2 = 1
         /\ 9 \in Word(high, low) <=> (low \div 512) % 2 = 1
         /\ 10 \in Word(high, low) <=> (low \div 1024) % 2 = 1
         /\ 11 \in Word(high, low) <=> (low \div 2048) % 2 = 1
         /\ 12 \in Word(high, low) <=> (low \div 4096) % 2 = 1
         /\ 13 \in Word(high, low) <=> (low \div 8192) % 2 = 1
         /\ 14 \in Word(high, low) <=> (low \div 16384) % 2 = 1
         /\ 15 \in Word(high, low) <=> (low \div 32768) % 2 = 1
         /\ 16 \in Word(high, low) <=> (high \div 1) % 2 = 1
         /\ 17 \in Word(high, low) <=> (high \div 2) % 2 = 1
         /\ 18 \in Word(high, low) <=> (high \div 4) % 2 = 1
         /\ 19 \in Word(high, low) <=> (high \div 8) % 2 = 1
         /\ 20 \in Word(high, low) <=> (high \div 16) % 2 = 1
         /\ 21 \in Word(high, low) <=> (high \div 32) % 2 = 1
         /\ 22 \in Word(high, low) <=> (high \div 64) % 2 = 1
         /\ 23 \in Word(high, low) <=> (high \div 128) % 2 = 1
         /\ 24 \in Word(high, low) <=> (high \div 256) % 2 = 1
         /\ 25 \in Word(high, low) <=> (high \div 512) % 2 = 1
         /\ 26 \in Word(high, low) <=> (high \div 1024) % 2 = 1
         /\ 27 \in Word(high, low) <=> (high \div 2048) % 2 = 1
         /\ 28 \in Word(high, low) <=> (high \div 4096) % 2 = 1
         /\ 29 \in Word(high, low) <=> (high \div 8192) % 2 = 1
         /\ 30 \in Word(high, low) <=> (high \div 16384) % 2 = 1
         /\ 31 \in Word(high, low) <=> (high \div 32768) % 2 = 1
BY DEF Word

(* The words of the table.                                                  *)
LEMMA TableWords ==
  /\ tab[1] = {}
  /\ tab[2] = {2, 5, 6, 12, 16, 17, 18, 20, 21, 23, 24, 26, 27, 28}
  /\ tab[3] = {3, 6, 7, 13, 17, 18, 19, 21, 22, 24, 25, 27, 28, 29}
  /\ tab[4] = {2, 3, 5, 7, 12, 13, 16, 19, 20, 22, 23, 25, 26, 29}
  /\ tab[5] = {4, 7, 8, 14, 18, 19, 20, 22, 23, 25, 26, 28, 29, 30}
  /\ tab[6] = {2, 4, 5, 6, 7, 8, 12, 14, 16, 17, 19, 21, 22, 24, 25, 27, 29, 30}
  /\ tab[7] = {3, 4, 6, 8, 13, 14, 17, 20, 21, 23, 24, 26, 27, 30}
  /\ tab[8] = {2, 3, 4, 5, 8, 12, 13, 14, 16, 18, 28, 30}
  /\ tab[9] = {5, 8, 9, 15, 19, 20, 21, 23, 24, 26, 27, 29, 30, 31}
  /\ tab[10] = {2, 6, 8, 9, 12, 15, 16, 17, 18, 19, 28, 29, 30, 31}
  /\ tab[11] = {3, 5, 6, 7, 8, 9, 13, 15, 17, 18, 20, 22, 23, 25, 26, 28, 30, 31}
  /\ tab[12] = {2, 3, 7, 8, 9, 12, 13, 15, 16, 21, 22, 24, 25, 27, 30, 31}
  /\ tab[13] = {4, 5, 7, 9, 14, 15, 18, 21, 22, 24, 25, 27, 28, 31}
  /\ tab[14] = {2, 4, 6, 7, 9, 12, 14, 15, 16, 17, 20, 22, 23, 25, 26, 31}
  /\ tab[15] = {3, 4, 5, 6, 9, 13, 14, 15, 17, 19, 29, 31}
  /\ tab[16] = {2, 3, 4, 9, 12, 13, 14, 15, 16, 18, 19, 20, 21, 23, 24, 26, 27, 28, 29, 31}
<1>1. Word(\h0000, \h0000) = {}
  BY WordBits
<1>2. Word(\h1DB7, \h1064) = {2, 5, 6, 12, 16, 17, 18, 20, 21, 23, 24, 26, 27, 28}
  BY WordBits
<1>3. Word(\h3B6E, \h20C8) = {3, 6, 7, 13, 17, 18, 19, 21, 22, 24, 25, 27, 28, 29}
  BY WordBits
<1>4. Word(\h26D9, \h30AC) = {2, 3, 5, 7, 12, 13, 16, 19, 20, 22, 23, 25, 26, 29}
  BY WordBits
<1>5. Word(\h76DC, \h4190) = {4, 7, 8, 14, 18, 19, 20, 22, 23, 25, 26, 28, 29, 30}
  BY WordBits
<1>6. Word(\h6B6B, \h51F4) = {2, 4, 5, 6, 7, 8, 12, 14, 16, 17, 19, 21, 22, 24, 25, 27, 29, 30}
  BY WordBits
<1>7. Word(\h4DB2, \h6158) = {3, 4, 6, 8, 13, 14, 17, 20, 21, 23, 24, 26, 27, 30}
  BY WordBits
<1>8. Word(\h5005, \h713C) = {2, 3, 4, 5, 8, 12, 13, 14, 16, 18, 28, 30}
  BY WordBits
<1>9. Word(\hEDB8, \h8320) = {5, 8, 9, 15, 19, 20, 21, 23, 24, 26, 27, 29, 30, 31}
  BY WordBits
<1>10. Word(\hF00F, \h9344) = {2, 6, 8, 9, 12, 15, 16, 17, 18, 19, 28, 29, 30, 31}
  BY WordBits
<1>11. Word(\hD6D6, \hA3E8) = {3, 5, 6, 7, 8, 9, 13, 15, 17, 18, 20, 22, 23, 25, 26, 28, 30, 31}
  BY WordBits
<1>12. Word(\hCB61, \hB38C) = {2, 3, 7, 8, 9, 12, 13, 15, 16, 21, 22, 24, 25, 27, 30, 31}
  BY WordBits
<1>13. Word(\h9B64, \hC2B0) = {4, 5, 7, 9, 14, 15, 18, 21, 22, 24, 25, 27, 28, 31}
  BY WordBits
<1>14. Word(\h86D3, \hD2D4) = {2, 4, 6, 7, 9, 12, 14, 15, 16, 17, 20, 22, 23, 25, 26, 31}
  BY WordBits
<1>15. Word(\hA00A, \hE278) = {3, 4, 5, 6, 9, 13, 14, 15, 17, 19, 29, 31}
  BY WordBits
<1>16. Word(\hBDBD, \hF21C) = {2, 3, 4, 9, 12, 13, 14, 15, 16, 18, 19, 20, 21, 23, 24, 26, 27, 28, 29, 31}
  BY WordBits
<1> HIDE DEF Word
<1> QED
  BY <1>1, <1>2, <1>3, <1>4, <1>5, <1>6, <1>7, <1>8, <1>9, <1>10, <1>11, <1>12, <1>13, <1>14, <1>15, <1>16 DEF tab

LEMMA PolynomialBits ==
  Polynomial = {5, 8, 9, 15, 19, 20, 21, 23, 24, 26, 27, 29, 30, 31}
BY WordBits DEF Polynomial

(* A nibble is the word of one number below 16.                             *)
LEMMA NibbleBits ==
  ASSUME NEW v \in 0 .. 15
  PROVE  /\ Word(0, v) \subseteq 0 .. 3
         /\ 0 \in Word(0, v) <=> v % 2 = 1
         /\ 1 \in Word(0, v) <=> (v \div 2) % 2 = 1
         /\ 2 \in Word(0, v) <=> (v \div 4) % 2 = 1
         /\ 3 \in Word(0, v) <=> v \div 8 = 1
<1>1. \A b \in 0 .. 31 : b \in Word(0, v) => b \in 0 .. 3
  BY WordBits
<1> QED
  BY <1>1, WordBits

LEMMA EntryOf ==
  ASSUME NEW y, NEW v \in 0 .. 15, Word(0, v) = y \cap 0 .. 3
  PROVE  Entry(y) = tab[1 + v]
<1> DEFINE j == CHOOSE u \in 0 .. 15 : Word(0, u) = y \cap 0 .. 3
<1>1. j \in 0 .. 15 /\ Word(0, j) = Word(0, v)
  OBVIOUS
<1>2. Entry(y) = tab[1 + j]
  BY DEF Entry
<1> HIDE DEF j
<1>3. j = v
  BY <1>1, NibbleBits
<1> QED
  BY <1>2, <1>3

(* The entry holds the remainders of the four bits that are shifted out.    *)
LEMMA EntryBits ==
  ASSUME NEW y
  PROVE  /\ Entry(y) \in SUBSET Nat
         /\ \A b \in Nat :
              b \in Entry(y) <=>
                (((0 \in y /\ b + 3 \in Polynomial) # (1 \in y /\ b + 2 \in Polynomial))
                  # (2 \in y /\ b + 1 \in Polynomial)) # (3 \in y /\ b \in Polynomial)
<1> DEFINE v == (IF 0 \in y THEN 1 ELSE 0) + (IF 1 \in y THEN 2 ELSE 0)
                  + (IF 2 \in y THEN 4 ELSE 0) + (IF 3 \in y THEN 8 ELSE 0)
<1>1. v \in 0 .. 15
  OBVIOUS
<1>2. Word(0, v) = y \cap 0 .. 3
  <2>1. /\ 0 \in y <=> v % 2 = 1
        /\ 1 \in y <=> (v \div 2) % 2 = 1
        /\ 2 \in y <=> (v \div 4) % 2 = 1
        /\ 3 \in y <=> v \div 8 = 1
    OBVIOUS
  <2> HIDE DEF v
  <2> QED
    BY <1>1, <2>1, NibbleBits
<1>3. Entry(y) = tab[1 + v]
  <2> HIDE DEF v
  <2> QED
    BY <1>1, <1>2, EntryOf
<1>4. tab[1 + v] \in SUBSET Nat
  <2> HIDE DEF v
  <2> QED
    BY <1>1, TableWords
<1> QED
  BY <1>3, <1>4, TableWords, PolynomialBits

LEMMA ShiftedBits ==
  ASSUME NEW x \in SUBSET Nat, NEW n \in Nat
  PROVE  Shifted(x, n) \subseteq Nat /\ \A b \in Nat : b \in Shifted(x, n) <=> b + n \in x
<1>1. ASSUME NEW b \in Nat, b + n \in x PROVE b \in Shifted(x, n)
  <2>1. b + n >= n /\ b = (b + n) - n
    OBVIOUS
  <2> QED
    BY <1>1, <2>1 DEF Shifted
<1> QED
  BY <1>1 DEF Shifted

LEMMA BitStepBits ==
  ASSUME NEW x \in SUBSET Nat
  PROVE  /\ BitStep(x) \in SUBSET Nat
         /\ \A b \in Nat :
              b \in BitStep(x) <=> ((b + 1 \in x) # (0 \in x /\ b \in Polynomial))
<1>1. \A b \in Polynomial : b \in Nat
  BY PolynomialBits
<1>2. Shifted(x, 1) \subseteq Nat /\ \A b \in Nat : b \in Shifted(x, 1) <=> b + 1 \in x
  BY ShiftedBits
<1>3. CASE 0 \in x
  BY <1>1, <1>2, <1>3 DEF BitStep, Xor
<1>4. CASE 0 \notin x
  BY <1>2, <1>4 DEF BitStep
<1> QED
  BY <1>3, <1>4

(* Half a byte at once: four bits are shifted out and leave their entry.    *)
LEMMA FourBits ==
  ASSUME NEW y \in SUBSET Nat
  PROVE  FourSteps(y) = Xor(Shifted(y, 4), Entry(y)) /\ FourSteps(y) \in SUBSET Nat
<1> DEFINE y1 == BitStep(y)
           y2 == BitStep(y1)
           y3 == BitStep(y2)
           y4 == BitStep(y3)
<1>1. /\ y1 \in SUBSET Nat
      /\ \A b \in Nat : b \in y1 <=> ((b + 1 \in y) # (0 \in y /\ b \in Polynomial))
  BY BitStepBits
<1>2. /\ y2 \in SUBSET Nat
      /\ \A b \in Nat : b \in y2 <=> ((b + 1 \in y1) # (0 \in y1 /\ b \in Polynomial))
  <2> HIDE DEF y1
  <2> QED
    BY <1>1, BitStepBits
<1>3. /\ y3 \in SUBSET Nat
      /\ \A b \in Nat : b \in y3 <=> ((b + 1 \in y2) # (0 \in y2 /\ b \in Polynomial))
  <2> HIDE DEF y2
  <2> QED
    BY <1>2, BitStepBits
<1>4. /\ y4 \in SUBSET Nat
      /\ \A b \in Nat : b \in y4 <=> ((b + 1 \in y3) # (0 \in y3 /\ b \in Polynomial))
  <2> HIDE DEF y3
  <2> QED
    BY <1>3, BitStepBits
<1>5. FourSteps(y) = y4
  BY DEF FourSteps
<1> HIDE DEF y1, y2, y3, y4
<1>6. \A b \in 0 .. 4 : b \notin Polynomial
  BY PolynomialBits
<1>7. 0 \in y1 <=> 1 \in y
  BY <1>1, <1>6
<1>8. 1 \in y1 <=> 2 \in y
  BY <1>1, <1>6
<1>9. 2 \in y1 <=> 3 \in y
  BY <1>1, <1>6
<1>10. 0 \in y2 <=> 2 \in y
  BY <1>2, <1>6, <1>8
<1>11. 1 \in y2 <=> 3 \in y
  BY <1>2, <1>6, <1>9
<1>12. 0 \in y3 <=> 3 \in y
  BY <1>3, <1>6, <1>11
<1>13. ASSUME NEW b \in Nat
       PROVE  b \in y4 <=> ((b + 4 \in y) # (b \in Entry(y)))
  <2>1. b + 3 \in y1 <=> ((b + 4 \in y) # (0 \in y /\ b + 3 \in Polynomial))
    BY <1>1
  <2>2. b + 2 \in y2 <=> ((b + 3 \in y1) # (1 \in y /\ b + 2 \in Polynomial))
    BY <1>2, <1>7
  <2>3. b + 1 \in y3 <=> ((b + 2 \in y2) # (2 \in y /\ b + 1 \in Polynomial))
    BY <1>3, <1>10
  <2>4. b \in y4 <=> ((b + 1 \in y3) # (3 \in y /\ b \in Polynomial))
    BY <1>4, <1>12
  <2> QED
    BY <2>1, <2>2, <2>3, <2>4, EntryBits
<1>14. Entry(y) \in SUBSET Nat
  BY EntryBits
<1>15. \A b : b \in y4 <=> b \in Xor(Shifted(y, 4), Entry(y))
  <2>1. /\ Shifted(y, 4) \subseteq Nat
        /\ \A b \in Nat : b \in Shifted(y, 4) <=> b + 4 \in y
    BY ShiftedBits
  <2>2. \A b : b \in Xor(Shifted(y, 4), Entry(y)) <=> (b \in Shifted(y, 4)) # (b \in Entry(y))
    BY DEF Xor
  <2>3. ASSUME NEW b \in Nat PROVE b \in y4 <=> b \in Xor(Shifted(y, 4), Entry(y))
    <3>1. b \in Shifted(y, 4) <=> b + 4 \in y
      BY <2>1
    <3> QED
      BY <1>13, <2>2, <3>1
  <2>4. ASSUME NEW b, b \notin Nat PROVE b \notin y4 /\ b \notin Xor(Shifted(y, 4), Entry(y))
    <3>1. b \notin y4 /\ b \notin Shifted(y, 4) /\ b \notin Entry(y)
      BY ONLY <1>4, <1>14, <2>1, <2>4
    <3> QED
      BY ONLY <2>2, <3>1
  <2> QED
    BY <2>3, <2>4
<1> QED
  BY <1>4, <1>5, <1>15

LEMMA ShiftedXor ==
  ASSUME NEW x \in SUBSET Nat, NEW y \in SUBSET Nat, NEW n \in Nat
  PROVE  Shifted(Xor(x, y), n) = Xor(Shifted(x, n), Shifted(y, n))
<1>1. Xor(x, y) \in SUBSET Nat
  BY DEF Xor
<1>2. \A b \in Nat : b \in Xor(x, y) <=> (b \in x) # (b \in y)
  BY DEF Xor
<1>3. \A b \in Nat :
        b \in Shifted(Xor(x, y), n) <=> b \in Xor(Shifted(x, n), Shifted(y, n))
  <2>1. \A b \in Nat : b \in Shifted(Xor(x, y), n) <=> (b + n \in x) # (b + n \in y)
    BY <1>1, <1>2, ShiftedBits
  <2> QED
    BY ZenonT(60), <2>1, ShiftedBits DEF Xor
<1>4. Shifted(Xor(x, y), n) \subseteq Nat /\ Xor(Shifted(x, n), Shifted(y, n)) \subseteq Nat
  BY <1>1, ShiftedBits DEF Xor
<1> QED
  BY <1>3, <1>4

(* Two look-ups do what zlib does bit by bit.                               *)
LEMMA UpdateIsSteps ==
  ASSUME NEW x \in SUBSET Nat, NEW byte \in SUBSET (0 .. 7)
  PROVE  crc32_update(x, byte) = ByteSteps(x, byte) /\ ByteSteps(x, byte) \in SUBSET Nat
<1> DEFINE high == Shifted(byte, 4)
           half == HalfStep(x, byte)
           z == Xor(x, byte)
           w == FourSteps(z)
<1>1. byte \in SUBSET Nat /\ z \in SUBSET Nat /\ Shifted(x, 4) \in SUBSET Nat
  <2>1. byte \in SUBSET Nat
    OBVIOUS
  <2>2. z \in SUBSET Nat
    BY <2>1 DEF Xor
  <2>3. Shifted(x, 4) \subseteq Nat
    BY ShiftedBits
  <2> QED
    BY <2>1, <2>2, <2>3
<1>2. high \in SUBSET Nat /\ Shifted(high, 4) = {}
  BY DEF Shifted
<1>3. w = Xor(Shifted(z, 4), Entry(z)) /\ w \in SUBSET Nat
  BY <1>1, FourBits
<1>4. Shifted(z, 4) = Xor(Shifted(x, 4), high)
  BY <1>1, ShiftedXor
<1>5. half = Xor(Shifted(x, 4), Entry(z)) /\ half \in SUBSET Nat
  BY <1>1, EntryBits DEF HalfStep, Xor
<1>6. w = Xor(half, high)
  BY <1>3, <1>4, <1>5 DEF Xor
<1>7. FourSteps(w) = Xor(Shifted(w, 4), Entry(w)) /\ FourSteps(w) \in SUBSET Nat
  BY <1>3, FourBits
<1>8. Shifted(w, 4) = Xor(Shifted(half, 4), Shifted(high, 4))
  BY <1>2, <1>5, <1>6, ShiftedXor
<1>9. Shifted(w, 4) = Shifted(half, 4)
  BY <1>2, <1>8 DEF Xor
<1>10. HalfStep(half, high) = Xor(Shifted(half, 4), Entry(w))
  BY <1>6 DEF HalfStep
<1> QED
  BY <1>7, <1>9, <1>10 DEF crc32_update, ByteSteps

(* What CrcNext keeps: the register is zlib's after the message so far.     *)
CrcInv ==
  /\ message \in Seq(Sent)
  /\ crc \in SUBSET Nat
  /\ \E e : ZlibRun(message, e) /\ e[Len(message)] = crc

LEMMA CrcInitially == CrcInit => CrcInv
<1> SUFFICES ASSUME CrcInit PROVE CrcInv
  OBVIOUS
<1> DEFINE e == [n \in 0 .. 0 |-> 0 .. 31]
<1>1. message = <<>> /\ crc = 0 .. 31 /\ Len(message) = 0
  BY DEF CrcInit, crc32_init
<1>2. ZlibRun(message, e)
  BY <1>1 DEF ZlibRun
<1>3. e[Len(message)] = crc
  BY <1>1
<1> QED
  BY <1>1, <1>2, <1>3 DEF CrcInv

LEMMA CrcStep == CrcInv /\ [CrcNext]_crcVars => CrcInv'
<1> SUFFICES ASSUME CrcInv, [CrcNext]_crcVars PROVE CrcInv'
  OBVIOUS
<1>1. CASE UNCHANGED crcVars
  BY <1>1 DEF crcVars, CrcInv, ZlibRun
<1>2. CASE CrcNext
  <2> DEFINE N == Len(message)
  <2>1. PICK byte \in Sent : message' = Append(message, byte) /\ crc' = crc32_update(crc, byte)
    BY <1>2 DEF CrcNext
  <2>2. PICK e : ZlibRun(message, e) /\ e[N] = crc
    BY DEF CrcInv
  <2>3. byte \in SUBSET (0 .. 7)
    BY CrcAssumption
  <2>4. crc' = ByteSteps(crc, byte) /\ crc' \in SUBSET Nat
    BY <2>1, <2>3, UpdateIsSteps DEF CrcInv
  <2>5. /\ message' \in Seq(Sent) /\ N \in Nat /\ Len(message') = N + 1
        /\ message'[N + 1] = byte /\ \A n \in 1 .. N : message'[n] = message[n]
    BY <2>1 DEF CrcInv
  <2> DEFINE f == [n \in 0 .. N + 1 |-> IF n = N + 1 THEN crc' ELSE e[n]]
  <2>6. \A n \in 0 .. N : e[n] = IF n = 0 THEN 0 .. 31 ELSE ByteSteps(e[n - 1], message[n])
    BY <2>2, RegisterSteps
  <2> HIDE DEF N
  <2>7. f = [n \in 0 .. N + 1 |->
               IF n = 0 THEN 0 .. 31 ELSE ByteSteps(f[n - 1], message'[n])]
    <3>1. ASSUME NEW n \in 0 .. N + 1
          PROVE  f[n] = IF n = 0 THEN 0 .. 31 ELSE ByteSteps(f[n - 1], message'[n])
      <4>1. CASE n = N + 1
        BY <4>1, <2>2, <2>4, <2>5
      <4>2. CASE n \in 0 .. N
        BY <4>2, <2>5, <2>6
      <4> QED
        BY <4>1, <4>2, <2>5
    <3> QED
      BY <3>1
  <2>8. ZlibRun(message', f)
    BY <2>5, <2>7 DEF ZlibRun
  <2>9. f[Len(message')] = crc'
    BY <2>5
  <2> QED
    BY <2>4, <2>5, <2>8, <2>9 DEF CrcInv
<1> QED
  BY <1>1, <1>2

LEMMA GivesChecksum == CrcInv => ChecksumAsZlib
<1> SUFFICES ASSUME CrcInv PROVE ChecksumAsZlib
  OBVIOUS
<1>1. Len(message) \in Nat
  BY DEF CrcInv
<1>2. PICK e : ZlibRun(message, e) /\ e[Len(message)] = crc
  BY DEF CrcInv
<1> QED
  BY <1>1, <1>2, OneRegister DEF ChecksumAsZlib, crc32_final

-----------------------------------------------------------------------------
(* print.c: the definitions by recursion that say what it should write.     *)

(* The powers of ten up to that of n.                                       *)
Powers(n, p) == p = [j \in 0 .. n |-> IF j = 0 THEN 1 ELSE 10 * p[j - 1]]

LEMMA SomePowers ==
  ASSUME NEW n \in Nat
  PROVE  \E p : Powers(n, p)
<1> DEFINE S == {m \in Nat : \E p : Powers(m, p)}
<1>1. 0 \in S
  <2>1. Powers(0, [j \in 0 .. 0 |-> 1])
    BY DEF Powers
  <2> QED
    BY <2>1
<1>2. ASSUME NEW m \in Nat, m \in S PROVE m + 1 \in S
  <2>1. PICK p : Powers(m, p)
    BY <1>2
  <2> DEFINE q == [j \in 0 .. m + 1 |-> IF j = m + 1 THEN 10 * p[m] ELSE p[j]]
  <2>2. \A j \in 0 .. m : p[j] = IF j = 0 THEN 1 ELSE 10 * p[j - 1]
    BY <2>1 DEF Powers
  <2>3. q = [j \in 0 .. m + 1 |-> IF j = 0 THEN 1 ELSE 10 * q[j - 1]]
    BY <2>2
  <2>4. Powers(m + 1, q)
    BY <2>3 DEF Powers
  <2> QED
    BY <2>4
<1> HIDE DEF S
<1>3. n \in S
  BY <1>1, <1>2, Induction
<1> QED
  BY <1>3 DEF S

LEMMA PowersAgree ==
  ASSUME NEW n \in Nat, NEW m \in Nat, n <= m, NEW p, NEW q, Powers(n, p), Powers(m, q)
  PROVE  \A j \in 0 .. n : p[j] = q[j] /\ p[j] \in Nat
<1> DEFINE S == {j \in Nat : j <= n => p[j] = q[j] /\ p[j] \in Nat}
<1>1. \A j \in 0 .. n : p[j] = IF j = 0 THEN 1 ELSE 10 * p[j - 1]
  BY DEF Powers
<1>2. \A j \in 0 .. n : q[j] = IF j = 0 THEN 1 ELSE 10 * q[j - 1]
  BY DEF Powers
<1>3. 0 \in S
  BY <1>1, <1>2
<1>4. ASSUME NEW j \in Nat, j \in S PROVE j + 1 \in S
  BY <1>1, <1>2, <1>4
<1>5. \A j \in Nat : j \in S
  <2> HIDE DEF S
  <2> QED
    BY <1>3, <1>4, Induction
<1> QED
  BY <1>5

LEMMA PowerSteps ==
  ASSUME NEW n \in Nat
  PROVE  /\ PowerOfTen(0) = 1 /\ PowerOfTen(n) \in Nat
         /\ PowerOfTen(n + 1) = 10 * PowerOfTen(n)
<1> DEFINE table(m) == CHOOSE p : Powers(m, p)
<1>1. \A m \in Nat : PowerOfTen(m) = table(m)[m]
  BY DEF PowerOfTen, Powers
<1>2. \A m \in Nat : Powers(m, table(m))
  BY SomePowers
<1> HIDE DEF table
<1>3. table(0)[0] = 1
  <2>1. Powers(0, table(0))
    BY <1>2
  <2> QED
    BY <2>1 DEF Powers
<1>4. table(n + 1)[n + 1] = 10 * table(n + 1)[n]
  <2>1. Powers(n + 1, table(n + 1))
    BY <1>2
  <2>2. \A j \in 0 .. n + 1 : table(n + 1)[j] = IF j = 0 THEN 1 ELSE 10 * table(n + 1)[j - 1]
    BY <2>1 DEF Powers
  <2> QED
    BY <2>2
<1>5. table(n)[n] = table(n + 1)[n] /\ table(n)[n] \in Nat
  <2>1. n + 1 \in Nat /\ n <= n + 1 /\ n \in 0 .. n
    OBVIOUS
  <2>2. Powers(n, table(n)) /\ Powers(n + 1, table(n + 1))
    BY <1>2, <2>1
  <2> QED
    BY <2>1, <2>2, PowersAgree
<1>6. PowerOfTen(0) = table(0)[0] /\ PowerOfTen(n) = table(n)[n]
        /\ PowerOfTen(n + 1) = table(n + 1)[n + 1]
  BY <1>1
<1> QED
  BY <1>3, <1>4, <1>5, <1>6

(* The numerals of the numbers up to v.                                     *)
Numerals(v, b, t) ==
  t = [n \in 0 .. v |-> IF n < b THEN <<digits_str[n + 1]>>
                        ELSE Append(t[n \div b], digits_str[1 + (n % b)])]

Bases == {10, 16}

LEMMA NumeralsAt ==
  ASSUME NEW v \in Nat, NEW b \in Bases, NEW t, Numerals(v, b, t)
  PROVE  \A n \in 0 .. v : t[n] = IF n < b THEN <<digits_str[n + 1]>>
                                  ELSE Append(t[n \div b], digits_str[1 + (n % b)])
BY DEF Numerals

LEMMA Quotient ==
  ASSUME NEW n \in Nat, NEW b \in Bases, n >= b
  PROVE  n \div b \in 0 .. n - 1 /\ n \div b > 0
BY DEF Bases

LEMMA SomeNumerals ==
  ASSUME NEW v \in Nat, NEW b \in Bases
  PROVE  \E t : Numerals(v, b, t)
<1> DEFINE S == {m \in Nat : \E t : Numerals(m, b, t)}
<1>0. b \in Nat /\ b > 1
  BY DEF Bases
<1>1. 0 \in S
  <2> DEFINE t == [n \in 0 .. 0 |-> <<digits_str[n + 1]>>]
  <2>1. Numerals(0, b, t)
    BY <1>0 DEF Numerals
  <2> QED
    BY <2>1
<1>2. ASSUME NEW m \in Nat, m \in S PROVE m + 1 \in S
  <2>1. PICK t : Numerals(m, b, t)
    BY <1>2
  <2> DEFINE value(g, n) == IF n < b THEN <<digits_str[n + 1]>>
                            ELSE Append(g[n \div b], digits_str[1 + (n % b)])
             u == [n \in 0 .. m + 1 |-> IF n = m + 1 THEN value(t, m + 1) ELSE t[n]]
  <2>2. \A n \in 0 .. m : t[n] = value(t, n)
    BY <2>1, NumeralsAt
  <2>3. ASSUME NEW n \in 0 .. m + 1 PROVE value(u, n) = value(t, n)
    <3>1. CASE n < b
      BY <3>1
    <3>2. CASE n >= b
      <4>1. n \div b \in 0 .. m
        BY <1>0, <3>2, Quotient
      <4>2. u[n \div b] = t[n \div b]
        BY <4>1
      <4> QED
        BY <3>2, <4>2, <1>0
    <3> QED
      BY <3>1, <3>2, <1>0
  <2> HIDE DEF value
  <2>4. u = [n \in 0 .. m + 1 |-> value(u, n)]
    BY <2>2, <2>3
  <2>5. Numerals(m + 1, b, u)
    BY <2>4 DEF Numerals, value
  <2> QED
    BY <2>5
<1> HIDE DEF S
<1>3. v \in S
  BY <1>1, <1>2, Induction
<1> QED
  BY <1>3 DEF S

Digit == {digits_str[n] : n \in 1 .. 16}

LEMMA NumeralsAgree ==
  ASSUME NEW v \in Nat, NEW w \in Nat, v <= w, NEW b \in Bases,
         NEW t, NEW u, Numerals(v, b, t), Numerals(w, b, u)
  PROVE  \A n \in 0 .. v : t[n] = u[n] /\ t[n] \in Seq(Digit)
<1> DEFINE Same(n) == t[n] = u[n] /\ t[n] \in Seq(Digit)
           S == {n \in Nat : \A m \in 0 .. n : m <= v => Same(m)}
<1>0. b \in Nat /\ b > 1 /\ b <= 16
  BY DEF Bases
<1>1. \A n \in 0 .. v : t[n] = IF n < b THEN <<digits_str[n + 1]>>
                               ELSE Append(t[n \div b], digits_str[1 + (n % b)])
  BY NumeralsAt
<1>2. \A n \in 0 .. v : u[n] = IF n < b THEN <<digits_str[n + 1]>>
                               ELSE Append(u[n \div b], digits_str[1 + (n % b)])
  BY NumeralsAt
<1>3. ASSUME NEW n \in 0 .. v, n < b PROVE Same(n)
  <2>1. t[n] = <<digits_str[n + 1]>> /\ u[n] = <<digits_str[n + 1]>>
    BY <1>1, <1>2, <1>3
  <2>2. n + 1 \in 1 .. 16
    BY <1>0, <1>3
  <2>3. digits_str[n + 1] \in Digit
    BY <2>2 DEF Digit
  <2> HIDE DEF digits_str
  <2> QED
    BY <2>1, <2>3
<1>4. ASSUME NEW n \in 0 .. v, n >= b, Same(n \div b) PROVE Same(n)
  <2>1. /\ t[n] = Append(t[n \div b], digits_str[1 + (n % b)])
        /\ u[n] = Append(u[n \div b], digits_str[1 + (n % b)])
    <3>1. ~ (n < b)
      BY <1>0, <1>4
    <3> QED
      BY ONLY <1>1, <1>2, <3>1, n \in 0 .. v
  <2>2. 1 + (n % b) \in 1 .. 16
    BY <1>4 DEF Bases
  <2>3. digits_str[1 + (n % b)] \in Digit
    BY <2>2 DEF Digit
  <2> QED
    BY <1>4, <2>1, <2>3
<1> HIDE DEF Same
<1>5. 0 \in S
  BY <1>0, <1>3
<1>6. ASSUME NEW n \in Nat, n \in S PROVE n + 1 \in S
  <2> SUFFICES ASSUME n + 1 <= v PROVE Same(n + 1)
    BY <1>6
  <2>1. CASE n + 1 < b
    BY <1>3, <2>1
  <2>2. CASE n + 1 >= b
    <3>1. (n + 1) \div b \in 0 .. n
      BY <2>2, Quotient
    <3>2. Same((n + 1) \div b)
      <4> DEFINE d == (n + 1) \div b
      <4> HIDE DEF d
      <4>1. d \in 0 .. n
        BY <3>1 DEF d
      <4>2. Same(d)
        BY <1>6, <4>1
      <4> QED
        BY <4>2 DEF d
    <3> QED
      BY <1>4, <2>2, <3>2
  <2> QED
    BY <1>0, <2>1, <2>2
<1>7. \A n \in Nat : n \in S
  <2> HIDE DEF S
  <2> QED
    BY <1>5, <1>6, Induction
<1> QED
  BY <1>7 DEF Same

LEMMA NumeralSteps ==
  ASSUME NEW v \in Nat, NEW b \in Bases
  PROVE  /\ Numeral(v, b) \in Seq(Digit)
         /\ v < b => Numeral(v, b) = <<digits_str[v + 1]>>
         /\ v >= b => Numeral(v, b) = Append(Numeral(v \div b, b), digits_str[1 + (v % b)])
<1> DEFINE table(n) == CHOOSE t : Numerals(n, b, t)
<1>1. \A n \in Nat : Numeral(n, b) = table(n)[n]
  BY DEF Numeral, Numerals
<1>2. \A n \in Nat : Numerals(n, b, table(n))
  BY SomeNumerals
<1> HIDE DEF table
<1>3. table(v)[v] \in Seq(Digit)
  BY <1>2, NumeralsAgree
<1>4. v < b => table(v)[v] = <<digits_str[v + 1]>>
  <2>1. v \in 0 .. v /\ Numerals(v, b, table(v))
    BY <1>2
  <2> QED
    BY <2>1, NumeralsAt
<1>5. ASSUME v >= b
      PROVE  table(v)[v] = Append(table(v \div b)[v \div b], digits_str[1 + (v % b)])
  <2> DEFINE d == v \div b
  <2>0. d \in Nat /\ d <= v
    BY <1>5, Quotient
  <2>1. table(v)[v] = Append(table(v)[d], digits_str[1 + (v % b)])
    <3>1. v \in 0 .. v /\ Numerals(v, b, table(v)) /\ ~ (v < b)
      BY <1>2, <1>5 DEF Bases
    <3>2. \A n \in 0 .. v : table(v)[n] = IF n < b THEN <<digits_str[n + 1]>>
                              ELSE Append(table(v)[n \div b], digits_str[1 + (n % b)])
      BY <3>1, NumeralsAt
    <3> QED
      BY ONLY <3>1, <3>2
  <2> HIDE DEF d
  <2>2. table(d)[d] = table(v)[d]
    BY <1>2, <2>0, NumeralsAgree
  <2> QED
    BY <2>1, <2>2 DEF d
<1>6. v >= b => v \div b \in Nat
  BY Quotient
<1> QED
  BY <1>1, <1>3, <1>4, <1>5, <1>6

(* Sequences of anything: IsString, with no set of elements given.          *)
LEMMA StringOf ==
  ASSUME NEW C, NEW s \in Seq(C)
  PROVE  IsString(s)
BY DEF IsString, Range

LEMMA StringIn ==
  ASSUME NEW s, IsString(s), NEW C, Range(s) \subseteq C
  PROVE  s \in Seq(C)
BY SeqMonotonic DEF IsString

LEMMA StringConcat ==
  ASSUME NEW s, NEW t, IsString(s), IsString(t)
  PROVE  IsString(s \o t)
<1> DEFINE C == Range(s) \cup Range(t)
<1>1. s \in Seq(C) /\ t \in Seq(C)
  BY StringIn
<1> HIDE DEF C
<1> QED
  BY <1>1, ConcatProperties, StringOf

LEMMA StringAssociative ==
  ASSUME NEW s, NEW t, NEW u, IsString(s), IsString(t), IsString(u)
  PROVE  (s \o t) \o u = s \o (t \o u)
<1> DEFINE C == Range(s) \cup Range(t) \cup Range(u)
<1>1. s \in Seq(C) /\ t \in Seq(C) /\ u \in Seq(C)
  BY StringIn
<1> HIDE DEF C
<1> QED
  BY <1>1, ConcatAssociative

LEMMA StringEmpty ==
  /\ IsString(<<>>)
  /\ \A s : IsString(s) => s \o <<>> = s /\ <<>> \o s = s
<1>1. IsString(<<>>)
  <2>1. <<>> \in Seq({})
    OBVIOUS
  <2> QED
    BY <2>1, StringOf
<1>2. ASSUME NEW s, IsString(s) PROVE s \o <<>> = s /\ <<>> \o s = s
  BY <1>2, ConcatEmptySeq DEF IsString
<1> QED
  BY <1>1, <1>2

LEMMA StringOne ==
  ASSUME NEW x
  PROVE  IsString(<<x>>)
<1>1. <<x>> \in Seq({x})
  OBVIOUS
<1> QED
  BY <1>1, StringOf

LEMMA StringAppend ==
  ASSUME NEW s, NEW x, IsString(s)
  PROVE  IsString(Append(s, x)) /\ Append(s, x) = s \o <<x>>
<1> DEFINE C == Range(s) \cup {x}
<1>1. s \in Seq(C) /\ x \in C
  BY StringIn
<1> HIDE DEF C
<1> QED
  BY <1>1, AppendProperties, AppendIsConcat, StringOf

LEMMA StringTail ==
  ASSUME NEW s, IsString(s), s # <<>>
  PROVE  IsString(Tail(s)) /\ s = <<Head(s)>> \o Tail(s)
<1> DEFINE C == Range(s)
<1>1. s \in Seq(C)
  BY DEF IsString
<1> HIDE DEF C
<1>2. Head(s) \in C /\ Tail(s) \in Seq(C)
  BY <1>1, HeadTailProperties
<1>3. <<Head(s)>> \o Tail(s) \in Seq(C)
  BY <1>2
<1>4. /\ Len(<<Head(s)>> \o Tail(s)) = Len(s)
      /\ \A n \in 1 .. Len(s) : (<<Head(s)>> \o Tail(s))[n] = s[n]
  BY <1>1, <1>2
<1>5. s = <<Head(s)>> \o Tail(s)
  BY <1>1, <1>3, <1>4, SeqEqual
<1> QED
  BY <1>2, <1>5, StringOf

(* Strings one after the other.                                             *)
Flat(s, n, t) == t = [j \in 1 .. n |-> IF j = 1 THEN s[j] ELSE t[j - 1] \o s[j]]

LEMMA FlatAt ==
  ASSUME NEW s, NEW n \in Nat, NEW t, Flat(s, n, t)
  PROVE  \A j \in 1 .. n : t[j] = IF j = 1 THEN s[j] ELSE t[j - 1] \o s[j]
BY DEF Flat

LEMMA SomeFlat ==
  ASSUME NEW s, NEW n \in Nat
  PROVE  \E t : Flat(s, n, t)
<1> DEFINE S == {m \in Nat : \E t : Flat(s, m, t)}
<1>1. 0 \in S
  <2>1. Flat(s, 0, [j \in 1 .. 0 |-> s[j]])
    BY DEF Flat
  <2> QED
    BY <2>1
<1>2. ASSUME NEW m \in Nat, m \in S PROVE m + 1 \in S
  <2>1. PICK t : Flat(s, m, t)
    BY <1>2
  <2> DEFINE value(g, j) == IF j = 1 THEN s[j] ELSE g[j - 1] \o s[j]
             u == [j \in 1 .. m + 1 |-> IF j = m + 1 THEN value(t, m + 1) ELSE t[j]]
  <2>2. \A j \in 1 .. m : t[j] = value(t, j)
    BY <2>1, FlatAt
  <2>3. ASSUME NEW j \in 1 .. m + 1 PROVE value(u, j) = value(t, j)
    <3>1. CASE j = 1
      BY <3>1
    <3>2. CASE j # 1
      <4>1. j - 1 \in 1 .. m
        BY <3>2
      <4>2. u[j - 1] = t[j - 1]
        BY <4>1
      <4> HIDE DEF u
      <4> QED
        BY <3>2, <4>2
    <3> QED
      BY <3>1, <3>2
  <2> HIDE DEF value
  <2>4. u = [j \in 1 .. m + 1 |-> value(u, j)]
    BY <2>2, <2>3
  <2>5. Flat(s, m + 1, u)
    BY <2>4 DEF Flat, value
  <2> QED
    BY <2>5
<1> HIDE DEF S
<1>3. n \in S
  BY <1>1, <1>2, Induction
<1> QED
  BY <1>3 DEF S

LEMMA FlatAgree ==
  ASSUME NEW r, NEW s, NEW n \in Nat, NEW m \in Nat, n <= m,
         \A j \in 1 .. n : r[j] = s[j] /\ IsString(r[j]),
         NEW t, NEW u, Flat(r, n, t), Flat(s, m, u)
  PROVE  \A j \in 1 .. n : t[j] = u[j] /\ IsString(t[j])
<1> DEFINE Same(j) == t[j] = u[j] /\ IsString(t[j])
           S == {j \in Nat : j + 1 <= n => Same(j + 1)}
<1>1. \A j \in 1 .. n : t[j] = IF j = 1 THEN r[j] ELSE t[j - 1] \o r[j]
  BY FlatAt
<1>2. \A j \in 1 .. n : u[j] = IF j = 1 THEN s[j] ELSE u[j - 1] \o s[j]
  BY FlatAt
<1>3. 0 \in S
  BY <1>1, <1>2
<1>4. ASSUME NEW j \in Nat, j \in S PROVE j + 1 \in S
  <2> SUFFICES ASSUME j + 2 <= n PROVE Same(j + 2)
    OBVIOUS
  <2>1. Same(j + 1) /\ j + 2 \in 1 .. n /\ j + 2 # 1 /\ (j + 2) - 1 = j + 1
    BY <1>4
  <2>2. t[j + 2] = t[j + 1] \o r[j + 2] /\ u[j + 2] = u[j + 1] \o s[j + 2]
    BY <1>1, <1>2, <2>1
  <2>3. r[j + 2] = s[j + 2] /\ IsString(r[j + 2])
    BY <2>1
  <2> QED
    BY <2>1, <2>2, <2>3, StringConcat
<1>5. \A j \in Nat : j \in S
  <2> HIDE DEF S
  <2> QED
    BY <1>3, <1>4, Induction
<1> HIDE DEF Same
<1>6. ASSUME NEW j \in 1 .. n PROVE Same(j)
  <2>1. j - 1 \in S /\ (j - 1) + 1 = j
    BY <1>5
  <2> QED
    BY <2>1
<1> QED
  BY <1>6 DEF Same

LEMMA FlattenIsFlat ==
  ASSUME NEW s, Len(s) \in Nat \ {0}
  PROVE  \E t : Flat(s, Len(s), t) /\ FlattenSeq(s) = t[Len(s)]
<1> DEFINE t == CHOOSE u : Flat(s, Len(s), u)
<1>1. FlattenSeq(s) = t[Len(s)]
  BY DEF FlattenSeq, Flat
<1>2. Flat(s, Len(s), t)
  BY SomeFlat
<1> QED
  BY <1>1, <1>2

Strings(s) == Len(s) \in Nat /\ \A j \in 1 .. Len(s) : IsString(s[j])

LEMMA FlattenString ==
  ASSUME NEW s, Strings(s), Len(s) > 0
  PROVE  IsString(FlattenSeq(s))
<1> DEFINE n == Len(s)
<1>1. n \in Nat \ {0}
  BY DEF Strings
<1>2. PICK t : Flat(s, n, t) /\ FlattenSeq(s) = t[n]
  BY <1>1, FlattenIsFlat
<1>3. \A j \in 1 .. n : s[j] = s[j] /\ IsString(s[j])
  BY DEF Strings
<1> HIDE DEF n
<1>4. \A j \in 1 .. n : IsString(t[j])
  BY <1>1, <1>2, <1>3, FlatAgree
<1> QED
  BY <1>1, <1>2, <1>4

(* The strings of s, and then one more.                                     *)
LEMMA FlattenMore ==
  ASSUME NEW r, NEW s, Strings(s), Len(r) \in Nat \ {0}, Len(s) = Len(r) + 1,
         \A j \in 1 .. Len(r) : r[j] = s[j]
  PROVE  FlattenSeq(s) = FlattenSeq(r) \o s[Len(s)]
<1> DEFINE n == Len(r)
<1>1. n \in Nat /\ n > 0 /\ Len(s) = n + 1
  OBVIOUS
<1>2. PICK t : Flat(r, n, t) /\ FlattenSeq(r) = t[n]
  BY <1>1, FlattenIsFlat
<1>3. PICK u : Flat(s, n + 1, u) /\ FlattenSeq(s) = u[n + 1]
  BY <1>1, FlattenIsFlat
<1>4. \A j \in 1 .. n : r[j] = s[j] /\ IsString(r[j])
  BY DEF Strings
<1> HIDE DEF n
<1>5. n \in 1 .. n /\ n <= n + 1 /\ n + 1 \in Nat
  BY <1>1
<1>6. t[n] = u[n]
  <2>1. \A j \in 1 .. n : t[j] = u[j]
    BY SMTT(30), <1>1, <1>2, <1>3, <1>4, <1>5, FlatAgree
  <2> QED
    BY <1>5, <2>1
<1>7. u[n + 1] = u[n] \o s[n + 1]
  <2>1. n + 1 \in 1 .. n + 1 /\ n + 1 # 1 /\ (n + 1) - 1 = n
    BY <1>1
  <2>2. \A j \in 1 .. n + 1 : u[j] = IF j = 1 THEN s[j] ELSE u[j - 1] \o s[j]
    BY <1>3, <1>5, FlatAt
  <2> QED
    BY <2>1, <2>2
<1> QED
  BY <1>1, <1>2, <1>3, <1>6, <1>7

LEMMA FlattenOne ==
  ASSUME NEW s, Len(s) = 1
  PROVE  FlattenSeq(s) = s[1]
<1>0. Len(s) \in Nat \ {0}
  OBVIOUS
<1>1. PICK t : Flat(s, Len(s), t) /\ FlattenSeq(s) = t[Len(s)]
  BY Zenon, <1>0, FlattenIsFlat
<1>2. \A j \in 1 .. 1 : t[j] = IF j = 1 THEN s[j] ELSE t[j - 1] \o s[j]
  BY <1>1, FlatAt
<1> QED
  BY <1>1, <1>2

LEMMA CharsString ==
  ASSUME NEW c
  PROVE  IsString(Chars(c))
<1>1. <<"CR", "NL">> \in Seq({"CR", "NL"})
  OBVIOUS
<1> QED
  BY <1>1, StringOf, StringOne DEF Chars

LEMMA AllCharsString ==
  ASSUME NEW s, IsString(s)
  PROVE  IsString(AllChars(s))
<1> DEFINE t == [j \in DOMAIN s |-> Chars(s[j])]
<1>1. Len(s) \in Nat /\ DOMAIN s = 1 .. Len(s)
  BY DEF IsString
<1>2. t \in Seq({Chars(s[j]) : j \in DOMAIN s}) /\ Len(t) = Len(s)
  <2>1. t \in [1 .. Len(s) -> {Chars(s[j]) : j \in DOMAIN s}]
    BY <1>1
  <2> HIDE DEF t
  <2> QED
    BY <1>1, <2>1
<1>3. \A j \in 1 .. Len(t) : IsString(t[j])
  BY <1>1, <1>2, CharsString
<1>4. AllChars(s) = FlattenSeq(t)
  BY DEF AllChars
<1> HIDE DEF t
<1>5. CASE Len(t) = 0
  <2>1. t = <<>>
    BY <1>2, <1>5
  <2>2. FlattenSeq(t) = t
    BY <1>5 DEF FlattenSeq
  <2> QED
    BY <1>4, <2>1, <2>2, StringEmpty
<1>6. CASE Len(t) > 0
  BY <1>1, <1>2, <1>3, <1>4, <1>6, FlattenString DEF Strings
<1> QED
  BY <1>1, <1>2, <1>5, <1>6

(* Which characters of a format are conversion letters.                     *)
Letters(f, n, c) ==
  c = [j \in 0 .. n |-> j > 1 /\ f[j - 1] = "%" /\ ~c[j - 1]]

LEMMA SomeLetters ==
  ASSUME NEW f, NEW n \in Nat
  PROVE  \E c : Letters(f, n, c)
<1> DEFINE S == {m \in Nat : \E c : Letters(f, m, c)}
<1>1. 0 \in S
  <2> DEFINE c == [j \in 0 .. 0 |-> FALSE]
             value(j) == j > 1 /\ f[j - 1] = "%" /\ ~c[j - 1]
  <2>0. \A j \in 0 .. 0 : value(j) = FALSE
    OBVIOUS
  <2>1. Letters(f, 0, c)
    <3>1. c = [j \in 0 .. 0 |-> value(j)]
      <4> HIDE DEF value
      <4> QED
        BY <2>0
    <3> QED
      BY <3>1 DEF Letters
  <2> QED
    BY <2>1
<1>2. ASSUME NEW m \in Nat, m \in S PROVE m + 1 \in S
  <2>1. PICK c : Letters(f, m, c)
    BY <1>2
  <2> DEFINE value(g, j) == j > 1 /\ f[j - 1] = "%" /\ ~g[j - 1]
             d == [j \in 0 .. m + 1 |-> IF j = m + 1 THEN value(c, m + 1) ELSE c[j]]
  <2>2. \A j \in 0 .. m : c[j] = value(c, j)
    BY <2>1 DEF Letters
  <2>3. ASSUME NEW j \in 0 .. m + 1 PROVE value(d, j) = value(c, j)
    <3>1. CASE j = 0
      BY <3>1
    <3>2. CASE j # 0
      <4>1. j - 1 \in 0 .. m
        BY <3>2
      <4>2. d[j - 1] = c[j - 1]
        BY <4>1
      <4> HIDE DEF d
      <4> QED
        BY <3>2, <4>2
    <3> QED
      BY <3>1, <3>2
  <2> HIDE DEF value
  <2>4. d = [j \in 0 .. m + 1 |-> value(d, j)]
    BY <2>2, <2>3
  <2>5. Letters(f, m + 1, d)
    BY <2>4 DEF Letters, value
  <2> QED
    BY <2>5
<1> HIDE DEF S
<1>3. n \in S
  BY <1>1, <1>2, Induction
<1> QED
  BY <1>3 DEF S

LEMMA LetterSteps ==
  ASSUME NEW f, Len(f) \in Nat
  PROVE  \A j \in 0 .. Len(f) :
           Converts(f)[j] = (j > 1 /\ f[j - 1] = "%" /\ ~Converts(f)[j - 1])
<1> DEFINE n == Len(f)
           c == CHOOSE d : Letters(f, n, d)
<1>1. Converts(f) = c
  BY DEF Converts, Letters
<1>2. Letters(f, n, c)
  BY SomeLetters
<1> HIDE DEF n, c
<1>3. \A j \in 0 .. n : c[j] = (j > 1 /\ f[j - 1] = "%" /\ ~c[j - 1])
  BY <1>2 DEF Letters
<1> QED
  BY <1>1, <1>3 DEF n

(* How many arguments are used before and at a character.                   *)
LEMMA ArgCount ==
  ASSUME NEW f, NEW n \in Nat
  PROVE  /\ ArgNumber(f, 0) = 0 /\ ArgNumber(f, n) \in Nat
         /\ TakesArg(f, n + 1) => ArgNumber(f, n + 1) = ArgNumber(f, n) + 1
         /\ ~TakesArg(f, n + 1) => ArgNumber(f, n + 1) = ArgNumber(f, n)
<1> DEFINE T(m) == {j \in 1 .. m : TakesArg(f, j)}
<1>1. \A m : ArgNumber(f, m) = Cardinality(T(m))
  BY DEF ArgNumber
<1>2. T(0) = {}
  OBVIOUS
<1>3. IsFiniteSet(T(n))
  <2>1. IsFiniteSet(1 .. n)
    BY FS_Interval
  <2>2. T(n) \subseteq 1 .. n
    OBVIOUS
  <2> HIDE DEF T
  <2> QED
    BY <2>1, <2>2, FS_Subset
<1>4. n + 1 \notin T(n)
  OBVIOUS
<1>5. TakesArg(f, n + 1) => T(n + 1) = T(n) \cup {n + 1}
  OBVIOUS
<1>6. ~TakesArg(f, n + 1) => T(n + 1) = T(n)
  <2>1. ASSUME ~TakesArg(f, n + 1), NEW j \in T(n + 1) PROVE j \in T(n)
    <3>1. j # n + 1
      BY <2>1
    <3> QED
      BY <3>1
  <2>2. T(n) \subseteq T(n + 1)
    OBVIOUS
  <2> QED
    BY <2>1, <2>2
<1> HIDE DEF T
<1>7. Cardinality({}) = 0
  BY FS_EmptySet
<1>8. Cardinality(T(n)) \in Nat
  BY <1>3, FS_CardinalityType
<1>9. Cardinality(T(n) \cup {n + 1}) = Cardinality(T(n)) + 1
  BY <1>3, <1>4, FS_AddElement
<1> QED
  BY <1>1, <1>2, <1>5, <1>6, <1>7, <1>8, <1>9

(* What is expected of a call is a string, character by character.          *)
LEMMA ConvertedString ==
  ASSUME NEW letter, NEW arg,
         letter \in {"c", "s", "d", "u", "x", "p"} =>
           arg.value \in Int /\ IsString(arg.str) /\ Fits(letter, arg)
  PROVE  IsString(Converted(letter, arg))
<1>1. \A c : IsString(Chars(c)) /\ IsString(<<c>>)
  BY CharsString, StringOne
<1>2. \A v \in Nat, b \in Bases : IsString(Numeral(v, b))
  BY NumeralSteps, StringOf
<1>3. 10 \in Bases /\ 16 \in Bases
  BY DEF Bases
<1>4. CASE letter = "c"
  BY <1>1, <1>4 DEF Converted
<1>5. CASE letter = "s"
  <2>1. IsString(arg.str)
    BY <1>5
  <2> QED
    BY <1>1, <1>5, <2>1, AllCharsString DEF Converted
<1>6. CASE letter = "d"
  <2>1. CASE arg.value < 0
    <3>1. -arg.value \in Nat
      BY <1>6, <2>1
    <3>2. IsString(<<"-">> \o Numeral(-arg.value, 10))
      BY <1>1, <1>2, <1>3, <3>1, StringConcat
    <3> QED
      BY <1>6, <2>1, <3>2 DEF Converted
  <2>2. CASE ~(arg.value < 0)
    <3>1. arg.value \in Nat
      BY <1>6, <2>2
    <3>2. IsString(Numeral(arg.value, 10))
      BY <1>2, <1>3, <3>1
    <3> QED
      BY <1>6, <2>2, <3>2 DEF Converted
  <2> QED
    BY <2>1, <2>2
<1>7. CASE letter \in {"u", "x", "p"}
  <2>1. arg.value \in Nat
    <3>1. Fits(letter, arg) /\ arg.value \in Int
      BY <1>7
    <3>2. arg.value \in 0 .. IntMod - 1 \/ arg.value \in 0 .. LongMod - 1
      BY <1>7, <3>1 DEF Fits
    <3> QED
      BY <3>2, <3>1, ConsoleAssumption
  <2>2. IsString(Numeral(arg.value, 10)) /\ IsString(Numeral(arg.value, 16))
    BY <1>2, <1>3, <2>1
  <2>3. <<"0", "x">> \in Seq({"0", "x"})
    OBVIOUS
  <2>4. IsString(<<"0", "x">> \o Numeral(arg.value, 16))
    BY <2>2, <2>3, StringOf, StringConcat
  <2> QED
    BY <1>7, <2>2, <2>4 DEF Converted
<1>8. CASE letter = "%"
  BY <1>1, <1>8 DEF Converted
<1>9. CASE letter \notin {"c", "s", "d", "u", "x", "p", "%"}
  <2>1. IsString(<<"%">> \o Chars(letter))
    BY <1>1, StringConcat
  <2> QED
    BY <1>9, <2>1 DEF Converted
<1> QED
  BY <1>4, <1>5, <1>6, <1>7, <1>8, <1>9

LEMMA ExpectedString ==
  ASSUME NEW f, NEW a, LegalCall(f, a), NEW n \in 1 .. Len(f)
  PROVE  IsString(Expected(f, a, n))
<1> DEFINE arg == a[ArgNumber(f, n)]
<1>1. f \in Seq(Range(f)) /\ DOMAIN f = 1 .. Len(f)
  BY DEF LegalCall, IsString
<1>2. CASE Converts(f)[n]
  <2>1. f[n] \in {"c", "s", "d", "u", "x", "p"} =>
          arg.value \in Int /\ IsString(arg.str) /\ Fits(f[n], arg)
    BY <1>1, <1>2 DEF LegalCall, TakesArg
  <2>2. IsString(Converted(f[n], arg))
    <3> HIDE DEF arg
    <3> QED
      BY <2>1, ConvertedString
  <2> QED
    BY <1>2, <2>2 DEF Expected
<1>3. CASE ~Converts(f)[n]
  BY <1>3, StringEmpty, CharsString DEF Expected
<1> QED
  BY <1>2, <1>3

LEMMA UptoSteps ==
  ASSUME NEW f, NEW a, LegalCall(f, a)
  PROVE  /\ Upto(f, a, 0) = <<>>
         /\ \A n \in 0 .. Len(f) : IsString(Upto(f, a, n))
         /\ \A n \in 0 .. Len(f) - 1 :
              Upto(f, a, n + 1) = Upto(f, a, n) \o Expected(f, a, n + 1)
<1> DEFINE s(n) == [j \in 1 .. n |-> Expected(f, a, j)]
           N == Len(f)
<1>0. N \in Nat
  BY DEF LegalCall, IsString
<1>1. \A n : Upto(f, a, n) = FlattenSeq(s(n))
  BY DEF Upto
<1>2. \A j \in 1 .. N : IsString(Expected(f, a, j))
  BY ExpectedString
<1>3. ASSUME NEW n \in 0 .. N
      PROVE  Len(s(n)) = n /\ Strings(s(n)) /\ \A j \in 1 .. n : s(n)[j] = Expected(f, a, j)
  <2>1. s(n) \in Seq({Expected(f, a, j) : j \in 1 .. n}) /\ Len(s(n)) = n
    <3>1. s(n) \in [1 .. n -> {Expected(f, a, j) : j \in 1 .. n}] /\ n \in Nat
      OBVIOUS
    <3> DEFINE C == {Expected(f, a, j) : j \in 1 .. n}
               r == s(n)
    <3>2. r \in [1 .. n -> C] /\ n \in Nat
      BY <3>1
    <3> HIDE DEF C, r
    <3>3. r \in Seq(C) /\ Len(r) = n
      BY <3>2
    <3> QED
      BY <3>3 DEF r, C
  <2>2. \A j \in 1 .. n : s(n)[j] = Expected(f, a, j)
    OBVIOUS
  <2> HIDE DEF s
  <2>3. \A j \in 1 .. n : IsString(s(n)[j])
    BY <1>0, <1>2, <2>2
  <2> QED
    BY <2>1, <2>2, <2>3 DEF Strings
<1>4. s(0) = <<>>
  OBVIOUS
<1> HIDE DEF s, N
<1>5. FlattenSeq(s(0)) = <<>>
  <2>1. Len(<<>>) = 0
    OBVIOUS
  <2> QED
    BY <1>4, <2>1 DEF FlattenSeq
<1>6. ASSUME NEW n \in 0 .. N PROVE IsString(FlattenSeq(s(n)))
  <2>1. CASE n = 0
    BY <2>1, <1>5, StringEmpty
  <2>2. CASE n > 0
    <3>1. Strings(s(n)) /\ Len(s(n)) > 0
      BY <1>3, <2>2
    <3> QED
      BY <3>1, FlattenString
  <2> QED
    BY <2>1, <2>2
<1>7. ASSUME NEW n \in 0 .. N - 1
      PROVE  FlattenSeq(s(n + 1)) = FlattenSeq(s(n)) \o Expected(f, a, n + 1)
  <2>0. n \in 0 .. N /\ n + 1 \in 0 .. N
    BY <1>0
  <2>1. Len(s(n)) = n /\ Len(s(n + 1)) = n + 1 /\ Strings(s(n + 1))
    BY <1>3, <2>0
  <2>2. s(n + 1)[n + 1] = Expected(f, a, n + 1)
    BY <1>3, <2>0
  <2>3. CASE n = 0
    <3>0. n + 1 = 1
      BY <2>3
    <3>1. FlattenSeq(s(n + 1)) = s(n + 1)[n + 1]
      BY <2>1, <3>0, FlattenOne
    <3>2. IsString(Expected(f, a, n + 1))
      BY <1>2, <2>0, <2>3
    <3>3. FlattenSeq(s(n)) = <<>>
      BY <1>5, <2>3
    <3> QED
      BY <2>2, <3>1, <3>2, <3>3, StringEmpty
  <2>4. CASE n > 0
    <3>1. \A j \in 1 .. n : s(n)[j] = s(n + 1)[j]
      BY <1>3, <2>0
    <3>2. FlattenSeq(s(n + 1)) = FlattenSeq(s(n)) \o s(n + 1)[Len(s(n + 1))]
      <4> DEFINE r == s(n)
                 q == s(n + 1)
      <4>1. Strings(q) /\ Len(r) \in Nat \ {0} /\ Len(q) = Len(r) + 1
              /\ \A j \in 1 .. Len(r) : r[j] = q[j]
        BY <2>1, <2>4, <3>1
      <4> HIDE DEF r, q
      <4>2. FlattenSeq(q) = FlattenSeq(r) \o q[Len(q)]
        BY <4>1, FlattenMore
      <4> QED
        BY <4>2 DEF r, q
    <3> QED
      BY <2>1, <2>2, <3>2
  <2> QED
    BY <2>3, <2>4
<1> QED
  BY <1>1, <1>5, <1>6, <1>7 DEF N

(* The digits, which are found from the last to the first.                  *)
LEMMA ReverseMore ==
  ASSUME NEW s, IsString(s), NEW x
  PROVE  /\ IsString(Reverse(s)) /\ Reverse(<<>>) = <<>>
         /\ Reverse(Append(s, x)) = <<x>> \o Reverse(s)
<1> DEFINE C == Range(s) \cup {x}
           N == Len(s)
           r == Reverse(s)
           q == Reverse(Append(s, x))
<1>1. s \in Seq(C) /\ N \in Nat /\ Append(s, x) \in Seq(C) /\ Len(Append(s, x)) = N + 1
  <2>1. s \in Seq(C) /\ x \in C
    BY StringIn
  <2> HIDE DEF C
  <2> QED
    BY <2>1
<1>2. /\ \A n \in 1 .. N : s[n] \in C /\ Append(s, x)[n] = s[n]
      /\ Append(s, x)[N + 1] = x
  <2> HIDE DEF C
  <2> QED
    BY <1>1
<1>3. r = [n \in 1 .. N |-> s[(N - n) + 1]]
  BY DEF Reverse
<1>4. q = [n \in 1 .. N + 1 |-> Append(s, x)[((N + 1) - n) + 1]]
  BY <1>1 DEF Reverse
<1> HIDE DEF C, N, r, q
<1>5. r \in Seq(C) /\ Len(r) = N
  <2>1. \A n \in 1 .. N : (N - n) + 1 \in 1 .. N
    BY <1>1
  <2>2. r \in [1 .. N -> C]
    BY <1>2, <1>3, <2>1
  <2> QED
    BY <1>1, <2>2
<1>6. x \in C
  BY DEF C
<1>7. <<x>> \o r \in Seq(C) /\ Len(<<x>> \o r) = N + 1
  BY <1>1, <1>5, <1>6
<1>8. ASSUME NEW n \in 1 .. N + 1 PROVE q[n] = (<<x>> \o r)[n]
  <2>1. CASE n = 1
    BY <2>1, <1>1, <1>2, <1>4, <1>5, <1>6
  <2>2. CASE n # 1
    <3>1. n - 1 \in 1 .. N /\ (<<x>> \o r)[n] = r[n - 1]
      BY <2>2, <1>1, <1>5, <1>6
    <3>2. ((N + 1) - n) + 1 = (N - (n - 1)) + 1 /\ ((N + 1) - n) + 1 \in 1 .. N
      BY <1>1, <2>2
    <3> QED
      BY <1>2, <1>3, <1>4, <3>1, <3>2
  <2> QED
    BY <2>1, <2>2
<1>9. q \in [1 .. N + 1 -> C]
  <2>1. \A n \in 1 .. N + 1 : (<<x>> \o r)[n] \in C
    BY <1>1, <1>7
  <2> QED
    BY <1>4, <1>8, <2>1
<1>10. q \in Seq(C) /\ Len(q) = N + 1
  BY <1>1, <1>9
<1>11. q = <<x>> \o r
  BY <1>1, <1>7, <1>8, <1>10, SeqEqual
<1>12. Reverse(<<>>) = <<>>
  BY DEF Reverse
<1> QED
  BY <1>5, <1>11, <1>12, StringOf DEF q, r

LEMMA LastDigit ==
  ASSUME NEW s, IsString(s), s # <<>>
  PROVE  LET t == SubSeq(s, 1, Len(s) - 1)
         IN  IsString(t) /\ Len(t) = Len(s) - 1 /\ Reverse(s) = <<s[Len(s)]>> \o Reverse(t)
<1> DEFINE t == SubSeq(s, 1, Len(s) - 1)
           C == Range(s)
<1>1. s \in Seq(C)
  BY DEF IsString
<1> HIDE DEF C
<1>2. t \in Seq(C) /\ Len(t) = Len(s) - 1 /\ s = Append(t, s[Len(s)])
  <2>1. Len(s) \in Nat \ {0} /\ s[Len(s)] \in C
    BY <1>1
  <2>2. t \in Seq(C) /\ Len(t) = Len(s) - 1 /\ \A n \in 1 .. Len(s) - 1 : t[n] = s[n]
    BY SMTT(30), <1>1, <2>1, SubSeqProperties
  <2> HIDE DEF t
  <2>3. /\ Append(t, s[Len(s)]) \in Seq(C) /\ Len(Append(t, s[Len(s)])) = Len(s)
        /\ \A n \in 1 .. Len(s) : Append(t, s[Len(s)])[n] = s[n]
    BY <1>1, <2>1, <2>2
  <2> QED
    BY <1>1, <2>2, <2>3, SeqEqual
<1>3. IsString(t)
  BY <1>2, StringOf
<1> HIDE DEF t
<1>4. Reverse(s) = <<s[Len(s)]>> \o Reverse(t)
  BY <1>2, <1>3, ReverseMore
<1> QED
  BY <1>2, <1>3, <1>4 DEF t

(* print as it goes: what has been put, is on its way and is still in       *)
(* putnumber is what the characters read so far ask for.                    *)
Pending ==
  IF doing = "text" THEN <<>>
  ELSE IF doing = "divide" THEN Numeral(num, base) \o Reverse(buf)
  ELSE Reverse(buf)

CallInv ==
  /\ LegalCall(text, args)
  /\ at \in 1 .. Len(text) /\ ~Converts(text)[at] /\ taken = ArgNumber(text, at - 1)

NumberInv ==
  /\ doing \in {"text", "divide", "emit"} /\ base \in Bases /\ num \in Nat
  /\ IsString(buf) /\ Len(buf) <= BUF
  /\ doing = "divide" => num > 0 /\ num < PowerOfTen(BUF - Len(buf))
  /\ doing = "emit" => buf # <<>>

OutputInv ==
  /\ IsString(before) /\ IsString(line) /\ IsString(tx) /\ IsString(todo)
  /\ (line \o tx) \o (todo \o Pending) = before \o Upto(text, args, at - 1)

PrintInv == CallInv /\ NumberInv /\ OutputInv

LEMMA PendingString ==
  ASSUME NumberInv
  PROVE  IsString(Pending)
<1>1. IsString(Reverse(buf))
  BY ReverseMore DEF NumberInv
<1>2. IsString(Numeral(num, base))
  BY NumeralSteps, StringOf DEF NumberInv
<1> QED
  BY <1>1, <1>2, StringConcat, StringEmpty DEF Pending

(* putnumber, before its loops: the sign, and the number that is left.      *)
Negative(n, sign) == sign /\ n >= LongMod \div 2
Magnitude(n, sign) == IF Negative(n, sign) THEN ModLong(-n) ELSE n
Minus(n, sign) == IF Negative(n, sign) THEN <<"-">> ELSE <<>>

LEMMA NumberBegins ==
  ASSUME NEW prefix, IsString(prefix), NEW n \in 0 .. LongMod - 1, NEW b \in Bases,
         NEW sign \in BOOLEAN, putnumber(prefix, n, b, sign)
  PROVE  /\ NumberInv' /\ IsString(todo')
         /\ todo' \o Pending' = prefix \o (Minus(n, sign) \o Numeral(Magnitude(n, sign), b))
<1> DEFINE m == Magnitude(n, sign)
           d == Minus(n, sign)
           numeral == Numeral(m, b)
<1>0. LongMod \in Nat /\ LongMod >= 2 /\ BUF \in Nat /\ LongMod <= PowerOfTen(BUF)
  BY ConsoleAssumption
<1>1. m \in Nat /\ m < LongMod
  <2>1. CASE Negative(n, sign)
    <3>1. n > 0
      BY <1>0, <2>1 DEF Negative
    <3>2. -n \in Int /\ - LongMod < -n /\ -n < LongMod /\ -n < 0
      BY <1>0, <3>1
    <3>3. (-n) % LongMod = -n + LongMod
      <4> DEFINE z == -n
      <4>1. z \in Int /\ - LongMod < z /\ z < LongMod /\ ~ (z >= 0)
        BY <1>0, <3>2
      <4> HIDE DEF z
      <4>2. z % LongMod = z + LongMod
        BY <1>0, <4>1, Remainder
      <4> QED
        BY <4>2 DEF z
    <3> QED
      BY <1>0, <2>1, <3>1, <3>3 DEF Magnitude, ModLong
  <2>2. CASE ~Negative(n, sign)
    BY <1>0, <2>2 DEF Magnitude
  <2> QED
    BY <2>1, <2>2
<1>2. /\ todo' = prefix \o d \o (IF m = 0 THEN <<"0">> ELSE <<>>)
      /\ doing' = IF m = 0 THEN "text" ELSE "divide"
      /\ num' = m /\ base' = b /\ buf' = <<>>
  BY DEF putnumber, Magnitude, Minus, Negative
<1>3. IsString(d)
  BY StringEmpty, StringOne DEF Minus
<1>4. IsString(numeral) /\ (m = 0 => numeral = <<"0">>)
  <2>1. IsString(numeral)
    BY <1>1, NumeralSteps, StringOf
  <2>2. m = 0 => numeral = <<digits_str[1]>>
    <3>1. Numeral(0, b) = <<digits_str[0 + 1]>>
      <4>1. 0 \in Nat /\ 0 < b
        BY DEF Bases
      <4> QED
        BY Zenon, <4>1, NumeralSteps
    <3> QED
      BY <3>1
  <2>3. digits_str[1] = "0"
    BY DEF digits_str
  <2> QED
    BY <2>1, <2>2, <2>3
<1>5. IsString(<<>>) /\ IsString(<<"0">>) /\ Len(<<>>) = 0 /\ Reverse(<<>>) = <<>>
  BY StringEmpty, StringOne, ReverseMore
<1> HIDE DEF m, d, numeral
<1>6. NumberInv'
  <2>1. IsString(buf') /\ Len(buf') = 0
    BY <1>2, <1>5
  <2>2. doing' = "divide" => num' > 0 /\ num' < PowerOfTen(BUF - Len(buf'))
    BY SMTT(30), <1>0, <1>1, <1>2, <2>1, PowerSteps
  <2> QED
    BY <1>0, <1>1, <1>2, <2>1, <2>2 DEF NumberInv
<1>7. IsString(prefix \o d)
  BY <1>3, StringConcat
<1>8. IsString(todo')
  BY <1>2, <1>5, <1>7, StringConcat
<1>9. todo' \o Pending' = (prefix \o d) \o numeral
  <2>1. CASE m = 0
    <3>1. todo' = (prefix \o d) \o numeral /\ Pending' = <<>>
      BY <1>2, <1>4, <2>1 DEF Pending
    <3> QED
      BY <1>8, <3>1, StringEmpty
  <2>2. CASE m # 0
    <3>1. Pending' = numeral \o <<>>
      BY <1>2, <1>5, <2>2 DEF Pending, numeral
    <3>2. todo' = (prefix \o d) \o <<>>
      BY <1>2, <2>2
    <3> QED
      BY <1>4, <1>7, <3>1, <3>2, StringEmpty
  <2> QED
    BY <2>1, <2>2
<1>10. (prefix \o d) \o numeral = prefix \o (d \o numeral)
  BY <1>3, <1>4, StringAssociative
<1> QED
  BY <1>6, <1>8, <1>9, <1>10 DEF m, d, numeral

(* The int of %d is widened and keeps its sign.                             *)
LEMMA WidenedInt ==
  ASSUME NEW v \in Int, -(IntMod \div 2) <= v, v < IntMod \div 2
  PROVE  /\ ModLong(v) \in 0 .. LongMod - 1
         /\ Negative(ModLong(v), TRUE) <=> v < 0
         /\ Magnitude(ModLong(v), TRUE) = IF v < 0 THEN -v ELSE v
<1>1. LongMod \in Nat /\ LongMod > 0 /\ IntMod \in Nat /\ IntMod <= LongMod
  BY ConsoleAssumption
<1>2. - LongMod < v /\ v < LongMod
  BY <1>1
<1>3. ModLong(v) = IF v < 0 THEN v + LongMod ELSE v
  BY <1>1, <1>2, Remainder DEF ModLong
<1>4. CASE v < 0
  <2>1. ModLong(v) = v + LongMod /\ v + LongMod >= LongMod \div 2
    BY <1>1, <1>3, <1>4
  <2>2. /\ -(v + LongMod) \in Int /\ - LongMod < -(v + LongMod)
        /\ -(v + LongMod) < LongMod /\ -(v + LongMod) < 0
    BY <1>1, <1>2, <1>4
  <2>3. (-(v + LongMod)) % LongMod = -(v + LongMod) + LongMod
    BY <1>1, <2>2, Remainder
  <2>4. ModLong(-(v + LongMod)) = -v
    BY <1>1, <2>3 DEF ModLong
  <2>5. ModLong(v) \in 0 .. LongMod - 1
    BY <1>1, <1>2, <1>4, <2>1
  <2> QED
    BY <1>4, <2>1, <2>4, <2>5 DEF Magnitude, Negative
<1>5. CASE ~(v < 0)
  <2>1. ModLong(v) = v /\ v < LongMod \div 2
    BY <1>1, <1>3, <1>5
  <2> QED
    BY <1>1, <1>2, <1>5, <2>1 DEF Magnitude, Negative
<1> QED
  BY <1>4, <1>5

(* What is put and what is asked for grow by the same.                      *)
LEMMA OutputGrows ==
  ASSUME CallInv, OutputInv, NumberInv, doing = "text", todo = <<>>,
         NEW n \in at .. Len(text), NEW e, IsString(e),
         Upto(text, args, n) = Upto(text, args, at - 1) \o e,
         UNCHANGED <<callVars, tx, line>>, at' = n + 1,
         IsString(todo'), todo' \o Pending' = e
  PROVE  OutputInv'
<1> DEFINE l == line \o tx
           u == Upto(text, args, at - 1)
<1>1. l = before \o u
  <2>1. todo \o Pending = <<>>
    BY StringEmpty DEF Pending
  <2>2. IsString(l)
    BY StringConcat DEF OutputInv
  <2>3. l \o <<>> = l
    BY <2>2, StringEmpty
  <2> QED
    BY <2>1, <2>3 DEF OutputInv
<1>2. IsString(u) /\ IsString(before)
  <2>1. at - 1 \in 0 .. Len(text)
    BY DEF CallInv
  <2> QED
    BY <2>1, UptoSteps DEF CallInv, OutputInv
<1>3. l \o e = before \o (u \o e)
  BY SMTT(30), <1>1, <1>2, StringAssociative
<1>4. (line \o tx)' = l /\ before' = before
  BY DEF callVars
<1>5. Upto(text', args', at' - 1) = u \o e
  <2>1. at' - 1 = n /\ text' = text /\ args' = args
    BY DEF callVars, CallInv
  <2> QED
    BY <2>1
<1> HIDE DEF l, u
<1>6. (line \o tx)' \o (todo' \o Pending') = before' \o Upto(text', args', at' - 1)
  BY <1>3, <1>4, <1>5
<1>7. IsString(before') /\ IsString(line') /\ IsString(tx')
  BY DEF OutputInv, callVars
<1> QED
  BY <1>6, <1>7 DEF OutputInv

(* The characters of the format: where print stands, and what it reads.     *)
LEMMA AtLetter ==
  ASSUME CallInv, doing = "text"
  PROVE  /\ Len(text) \in Nat /\ DOMAIN text = 1 .. Len(text)
         /\ text[at] # "NUL" => at + 1 \in 1 .. Len(text)
         /\ text[at] \notin {"%", "NUL"} =>
              ~Converts(text)[at + 1] /\ Expected(text, args, at) = Chars(text[at])
         /\ text[at] = "%" =>
              /\ at + 2 \in 1 .. Len(text)
              /\ Converts(text)[at + 1] /\ ~Converts(text)[at + 2]
              /\ Expected(text, args, at) = <<>>
              /\ Expected(text, args, at + 1)
                   = Converted(text[at + 1], args[ArgNumber(text, at + 1)])
<1>1. Len(text) \in Nat /\ DOMAIN text = 1 .. Len(text)
  BY DEF CallInv, LegalCall, IsString
<1>2. /\ at \in 1 .. Len(text) /\ ~Converts(text)[at] /\ ~Converts(text)[Len(text)]
      /\ text[at] = "NUL" <=> at = Len(text)
  BY <1>1 DEF CallInv, LegalCall
<1>3. \A j \in 0 .. Len(text) :
        Converts(text)[j] = (j > 1 /\ text[j - 1] = "%" /\ ~Converts(text)[j - 1])
  BY <1>1, LetterSteps
<1>4. text[at] # "NUL" => at + 1 \in 1 .. Len(text)
  <2>1. text[at] # "NUL" => at # Len(text)
    BY <1>2
  <2>2. at \in 1 .. Len(text)
    BY <1>2
  <2>3. ASSUME at # Len(text) PROVE at + 1 \in 1 .. Len(text)
    <3> DEFINE N == Len(text)
    <3>1. N \in Nat /\ at \in 1 .. N /\ at # N
      BY <1>1, <2>2, <2>3
    <3> HIDE DEF N
    <3>2. at + 1 \in 1 .. N
      BY ONLY <3>1
    <3> QED
      BY <3>2 DEF N
  <2> QED
    BY <2>1, <2>3
<1>5. text[at] \notin {"%", "NUL"} =>
        ~Converts(text)[at + 1] /\ Expected(text, args, at) = Chars(text[at])
  <2> SUFFICES ASSUME text[at] \notin {"%", "NUL"}
               PROVE  ~Converts(text)[at + 1] /\ Expected(text, args, at) = Chars(text[at])
    OBVIOUS
  <2>1. at + 1 \in 0 .. Len(text) /\ (at + 1) - 1 = at
    BY <1>2, <1>4
  <2>2. ~Converts(text)[at + 1]
    BY <1>3, <2>1
  <2> QED
    BY <1>2, <2>2 DEF Expected
<1>6. ASSUME text[at] = "%"
      PROVE  /\ at + 2 \in 1 .. Len(text)
             /\ Converts(text)[at + 1] /\ ~Converts(text)[at + 2]
             /\ Expected(text, args, at) = <<>>
             /\ Expected(text, args, at + 1)
                  = Converted(text[at + 1], args[ArgNumber(text, at + 1)])
  <2>1. at + 1 \in 0 .. Len(text) /\ (at + 1) - 1 = at /\ at + 1 > 1
    BY <1>2, <1>4, <1>6
  <2>2. Converts(text)[at + 1]
    BY <1>2, <1>3, <1>6, <2>1
  <2>3. at + 1 # Len(text)
    BY <1>2, <2>2
  <2>4. at + 2 \in 1 .. Len(text) /\ at + 2 \in 0 .. Len(text) /\ (at + 2) - 1 = at + 1
    BY <1>1, <2>1, <2>3
  <2>5. ~Converts(text)[at + 2]
    BY <1>3, <2>2, <2>4
  <2>6. Expected(text, args, at) = <<>>
    BY <1>2, <1>6 DEF Expected
  <2>7. Expected(text, args, at + 1)
          = Converted(text[at + 1], args[ArgNumber(text, at + 1)])
    BY <2>2 DEF Expected
  <2> QED
    BY <2>2, <2>4, <2>5, <2>6, <2>7
<1> QED
  BY <1>1, <1>4, <1>5, <1>6

LEMMA PlainKeeps ==
  ASSUME PrintInv, Plain, UNCHANGED <<callVars, tx, line>>
  PROVE  PrintInv'
<1>1. /\ doing = "text" /\ todo = <<>> /\ text[at] \notin {"%", "NUL"}
      /\ todo' = Chars(text[at]) /\ at' = at + 1
      /\ UNCHANGED <<taken, doing, num, base, buf>>
  BY DEF Plain, Runs
<1>2. CallInv /\ OutputInv /\ NumberInv
  BY DEF PrintInv
<1>3. /\ at + 1 \in 1 .. Len(text) /\ ~Converts(text)[at + 1]
      /\ Expected(text, args, at) = Chars(text[at]) /\ Len(text) \in Nat
  BY <1>1, <1>2, AtLetter
<1>4. CallInv'
  <2>1. ~TakesArg(text, (at - 1) + 1) /\ at - 1 \in Nat
    <3>1. (at - 1) + 1 = at /\ at - 1 \in Nat
      BY <1>2 DEF CallInv
    <3> QED
      BY <1>2, <3>1 DEF CallInv, TakesArg
  <2>2. ArgNumber(text, (at - 1) + 1) = ArgNumber(text, at - 1)
    BY <2>1, ArgCount
  <2>3. (at - 1) + 1 = at' - 1 /\ text' = text /\ args' = args
    BY <1>1, <1>2 DEF CallInv, callVars
  <2>4. taken' = ArgNumber(text', at' - 1)
    BY <1>1, <1>2, <2>2, <2>3 DEF CallInv
  <2>5. LegalCall(text', args') /\ at' \in 1 .. Len(text') /\ ~Converts(text')[at']
    BY <1>1, <1>2, <1>3, <2>3 DEF CallInv
  <2> QED
    BY <2>4, <2>5 DEF CallInv
<1>5. NumberInv'
  BY <1>1, <1>2 DEF NumberInv
<1>6. OutputInv'
  <2> DEFINE e == Chars(text[at])
  <2>1. Upto(text, args, at) = Upto(text, args, at - 1) \o e
    <3>1. at - 1 \in 0 .. Len(text) - 1 /\ (at - 1) + 1 = at
      BY <1>2, <1>3 DEF CallInv
    <3> QED
      BY <1>2, <1>3, <3>1, UptoSteps DEF CallInv
  <2>2. IsString(e) /\ IsString(todo')
    BY <1>1, CharsString
  <2>3. todo' \o Pending' = e
    <3>1. Pending' = <<>>
      BY <1>1 DEF Pending
    <3> QED
      BY <1>1, <2>2, <3>1, StringEmpty
  <2>4. at \in at .. Len(text)
    BY <1>2, <1>3 DEF CallInv
  <2> HIDE DEF e
  <2> QED
    BY <1>1, <1>2, <2>1, <2>2, <2>3, <2>4, OutputGrows
<1> QED
  BY <1>4, <1>5, <1>6 DEF PrintInv

(* A conversion puts, or leaves to putnumber's loops, what is asked for.    *)
LEMMA ConvertPuts ==
  ASSUME PrintInv, Convert, NEW e,
         e = Converted(text[at + 1], args[ArgNumber(text, at + 1)])
  PROVE  NumberInv' /\ IsString(todo') /\ todo' \o Pending' = e /\ IsString(e)
<1> DEFINE letter == text[at + 1]
           arg == args[taken + 1]
           Taking == {"c", "s", "d", "u", "x", "p"}
<1>1. CallInv /\ NumberInv
  BY DEF PrintInv
<1>2. doing = "text" /\ todo = <<>> /\ text[at] = "%"
  BY DEF Convert, Runs
<1>3. /\ at + 1 \in 1 .. Len(text) /\ Converts(text)[at + 1] /\ ~Converts(text)[at]
      /\ DOMAIN text = 1 .. Len(text) /\ at \in Nat /\ at > 0
  BY <1>1, <1>2, AtLetter DEF CallInv
<1>4. letter \in Taking => ArgNumber(text, at + 1) = taken + 1
  <2>1. at - 1 \in Nat /\ (at - 1) + 1 = at
    BY <1>3
  <2>2. ~TakesArg(text, at)
    BY <1>3 DEF TakesArg
  <2>3. ArgNumber(text, at) = taken
    BY <1>1, <2>1, <2>2, ArgCount DEF CallInv
  <2>4. letter \in Taking => TakesArg(text, at + 1)
    BY <1>3 DEF TakesArg
  <2> QED
    BY <1>3, <2>3, <2>4, ArgCount
<1>5. letter \in Taking => arg.value \in Int /\ IsString(arg.str) /\ Fits(letter, arg)
  <2> SUFFICES ASSUME letter \in Taking
               PROVE  arg.value \in Int /\ IsString(arg.str) /\ Fits(letter, arg)
    OBVIOUS
  <2>1. TakesArg(text, at + 1)
    BY <1>3 DEF TakesArg
  <2>2. taken + 1 \in DOMAIN args /\ Fits(letter, arg)
    BY <1>1, <1>3, <1>4, <2>1 DEF CallInv, LegalCall
  <2> QED
    BY <1>1, <2>2 DEF CallInv, LegalCall
<1>6. e = Converted(letter, arg)
  <2>1. CASE letter \in Taking
    BY <1>4, <2>1
  <2>2. CASE letter \notin Taking
    BY <2>2 DEF Converted
  <2> QED
    BY <2>1, <2>2
<1>7. IsString(e)
  <2> HIDE DEF letter, arg
  <2> QED
    BY <1>5, <1>6, ConvertedString
<1>8. ASSUME Puts(e) PROVE NumberInv' /\ IsString(todo') /\ todo' \o Pending' = e
  <2>1. todo' = e /\ UNCHANGED <<doing, num, base, buf>>
    BY <1>8 DEF Puts
  <2>2. Pending' = <<>>
    BY <1>2, <2>1 DEF Pending
  <2>3. NumberInv'
    BY <1>1, <2>1 DEF NumberInv
  <2> QED
    BY <1>7, <2>1, <2>2, <2>3, StringEmpty
<1>9. ASSUME NEW prefix, IsString(prefix), NEW n \in 0 .. LongMod - 1, NEW b \in Bases,
             NEW sign \in BOOLEAN, putnumber(prefix, n, b, sign),
             e = prefix \o (Minus(n, sign) \o Numeral(Magnitude(n, sign), b))
      PROVE  NumberInv' /\ IsString(todo') /\ todo' \o Pending' = e
  BY <1>9, NumberBegins
<1>10. 10 \in Bases /\ 16 \in Bases /\ IsString(<<>>)
  BY StringEmpty DEF Bases
<1>11. \A n, b : /\ Minus(n, FALSE) = <<>> /\ Magnitude(n, FALSE) = n
  BY DEF Minus, Magnitude, Negative
<1>12. \A n \in Nat, b \in Bases : /\ IsString(Numeral(n, b))
                                   /\ <<>> \o Numeral(n, b) = Numeral(n, b)
  BY NumeralSteps, StringOf, StringEmpty
<1>13. CASE letter = "c"
  <2>1. Puts(Chars(Head(arg.str)))
    BY <1>13 DEF Convert
  <2>2. Head(arg.str) = arg.str[1]
    <3>1. IsString(arg.str) /\ arg.str # <<>>
      BY <1>5, <1>13 DEF Fits
    <3> QED
      BY <3>1 DEF IsString
  <2>3. e = Chars(arg.str[1])
    BY <1>6, <1>13 DEF Converted
  <2> QED
    BY <1>7, <1>8, <2>1, <2>2, <2>3
<1>14. CASE letter = "s"
  <2>1. Puts(IF arg.null THEN <<"(null)">> ELSE AllChars(arg.str))
    BY <1>14 DEF Convert
  <2>2. e = IF arg.null THEN <<"(null)">> ELSE AllChars(arg.str)
    BY <1>6, <1>14 DEF Converted
  <2> QED
    BY <1>7, <1>8, <2>1, <2>2
<1>15. CASE letter = "d"
  <2> DEFINE v == arg.value
             n == ModLong(v)
  <2>1. putnumber(<<>>, n, 10, TRUE)
    BY <1>15 DEF Convert
  <2>2. v \in Int /\ -(IntMod \div 2) <= v /\ v < IntMod \div 2
    BY <1>5, <1>15 DEF Fits
  <2>3. e = IF v < 0 THEN <<"-">> \o Numeral(-v, 10) ELSE Numeral(v, 10)
    BY <1>6, <1>15 DEF Converted
  <2> HIDE DEF v
  <2>4. /\ n \in 0 .. LongMod - 1
        /\ Negative(n, TRUE) <=> v < 0
        /\ Magnitude(n, TRUE) = IF v < 0 THEN -v ELSE v
    BY <2>2, WidenedInt
  <2> HIDE DEF n
  <2>5. e = Minus(n, TRUE) \o Numeral(Magnitude(n, TRUE), 10)
    <3>1. CASE v < 0
      BY <2>3, <2>4, <3>1 DEF Minus
    <3>2. CASE ~(v < 0)
      <4>1. v \in Nat
        BY <2>2, <3>2
      <4>2. Minus(n, TRUE) = <<>> /\ Magnitude(n, TRUE) = v
        BY <2>4, <3>2 DEF Minus
      <4> QED
        BY <1>10, <1>12, <2>3, <3>2, <4>1, <4>2
    <3> QED
      BY <3>1, <3>2
  <2>6. e = <<>> \o (Minus(n, TRUE) \o Numeral(Magnitude(n, TRUE), 10))
    BY <1>7, <2>5, StringEmpty
  <2> QED
    BY <1>7, <1>9, <1>10, <2>1, <2>4, <2>6
<1>16. ASSUME NEW prefix, IsString(prefix), NEW b \in Bases, arg.value \in 0 .. LongMod - 1,
              putnumber(prefix, arg.value, b, FALSE), e = prefix \o Numeral(arg.value, b)
       PROVE  NumberInv' /\ IsString(todo') /\ todo' \o Pending' = e
  <2> DEFINE v == arg.value
  <2>1. v \in Nat
    BY <1>16
  <2> HIDE DEF v
  <2>2. Minus(v, FALSE) \o Numeral(Magnitude(v, FALSE), b) = Numeral(v, b)
    BY <1>11, <1>12, <2>1
  <2>3. e = prefix \o (Minus(v, FALSE) \o Numeral(Magnitude(v, FALSE), b))
    BY <1>16, <2>2 DEF v
  <2> QED
    BY <1>9, <1>16, <2>3 DEF v
<1>17. CASE letter \in {"u", "x"}
  <2> DEFINE b == IF letter = "u" THEN 10 ELSE 16
  <2>1. putnumber(<<>>, arg.value, b, FALSE)
    BY <1>17 DEF Convert
  <2>2. arg.value \in 0 .. LongMod - 1
    <3>1. arg.value \in 0 .. IntMod - 1
      BY <1>5, <1>17 DEF Fits
    <3> QED
      BY <3>1, ConsoleAssumption
  <2>3. e = Numeral(arg.value, b)
    BY <1>6, <1>17 DEF Converted
  <2>4. b \in Bases
    BY <1>10
  <2> HIDE DEF b
  <2>5. e = <<>> \o Numeral(arg.value, b)
    BY <1>7, <2>3, StringEmpty
  <2> QED
    BY <1>7, <1>10, <1>16, <2>1, <2>2, <2>4, <2>5
<1>18. CASE letter = "p"
  <2>1. putnumber(<<"0", "x">>, arg.value, 16, FALSE)
    BY <1>18 DEF Convert
  <2>2. arg.value \in 0 .. LongMod - 1
    BY <1>5, <1>18 DEF Fits
  <2>3. e = <<"0", "x">> \o Numeral(arg.value, 16)
    BY <1>6, <1>18 DEF Converted
  <2>4. IsString(<<"0", "x">>)
    <3>1. <<"0", "x">> \in Seq({"0", "x"})
      OBVIOUS
    <3> QED
      BY <3>1, StringOf
  <2> QED
    BY <1>7, <1>10, <1>16, <2>1, <2>2, <2>3, <2>4
<1>19. CASE letter \notin Taking
  <2>1. Puts(IF letter = "%" THEN <<"%">> ELSE <<"%">> \o Chars(letter))
    BY <1>19 DEF Convert
  <2>2. e = IF letter = "%" THEN <<"%">> ELSE <<"%">> \o Chars(letter)
    BY <1>6, <1>19 DEF Converted
  <2> QED
    BY <1>7, <1>8, <2>1, <2>2
<1> QED
  BY <1>7, <1>13, <1>14, <1>15, <1>17, <1>18, <1>19

LEMMA ConvertKeeps ==
  ASSUME PrintInv, Convert, UNCHANGED <<callVars, tx, line>>
  PROVE  PrintInv'
<1> DEFINE e == Converted(text[at + 1], args[ArgNumber(text, at + 1)])
           taking == text[at + 1] \in {"c", "s", "d", "u", "x", "p"}
<1>1. CallInv /\ OutputInv /\ NumberInv
  BY DEF PrintInv
<1>2. /\ doing = "text" /\ todo = <<>> /\ text[at] = "%" /\ at' = at + 2
      /\ taken' = IF taking THEN taken + 1 ELSE taken
  BY DEF Convert, Runs
<1>3. /\ at + 1 \in 1 .. Len(text) /\ at + 2 \in 1 .. Len(text)
      /\ Converts(text)[at + 1] /\ ~Converts(text)[at + 2]
      /\ Expected(text, args, at) = <<>> /\ Expected(text, args, at + 1) = e
      /\ Len(text) \in Nat /\ at \in Nat /\ at > 0 /\ ~Converts(text)[at]
  BY <1>1, <1>2, AtLetter DEF CallInv
<1>4. NumberInv' /\ IsString(todo') /\ todo' \o Pending' = e /\ IsString(e)
  BY ConvertPuts
<1>5. CallInv'
  <2>1. at - 1 \in Nat /\ (at - 1) + 1 = at
    BY <1>3
  <2>2. ~TakesArg(text, at) /\ (TakesArg(text, at + 1) <=> taking)
    BY <1>3 DEF TakesArg
  <2>3. ArgNumber(text, at) = taken
    BY <1>1, <2>1, <2>2, ArgCount DEF CallInv
  <2>4. ArgNumber(text, at + 1) = taken'
    BY <1>2, <1>3, <2>2, <2>3, ArgCount
  <2>5. text' = text /\ args' = args /\ at' - 1 = at + 1
    BY <1>2, <1>3 DEF callVars
  <2> QED
    BY <1>1, <1>2, <1>3, <2>4, <2>5 DEF CallInv
<1>6. Upto(text, args, at + 1) = Upto(text, args, at - 1) \o e
  <2>1. /\ at - 1 \in 0 .. Len(text) - 1 /\ (at - 1) + 1 = at /\ at \in 0 .. Len(text) - 1
        /\ at - 1 \in 0 .. Len(text)
    BY <1>3
  <2>2. LegalCall(text, args)
    BY <1>1 DEF CallInv
  <2>3. Upto(text, args, at) = Upto(text, args, at - 1) \o <<>>
    BY <1>3, <2>1, <2>2, UptoSteps
  <2>4. Upto(text, args, at + 1) = Upto(text, args, at) \o e
    BY <1>3, <2>1, <2>2, UptoSteps
  <2>5. IsString(Upto(text, args, at - 1))
    BY <2>1, <2>2, UptoSteps
  <2> QED
    BY <2>3, <2>4, <2>5, StringEmpty
<1>7. OutputInv'
  <2>1. at + 1 \in at .. Len(text) /\ at' = (at + 1) + 1
    BY <1>2, <1>3
  <2> HIDE DEF e
  <2> QED
    BY <1>1, <1>2, <1>4, <1>6, <2>1, OutputGrows
<1> QED
  BY <1>4, <1>5, <1>7 DEF PrintInv

LEMMA DivideKeeps ==
  ASSUME PrintInv, Divide, UNCHANGED <<callVars, tx, line>>
  PROVE  PrintInv'
<1> DEFINE digit == digits_str[1 + (num % base)]
<1>1. CallInv /\ OutputInv /\ NumberInv
  BY DEF PrintInv
<1>2. /\ doing = "divide" /\ todo = <<>>
      /\ buf' = Append(buf, digit) /\ num' = num \div base
      /\ doing' = IF num' = 0 THEN "emit" ELSE "divide"
      /\ UNCHANGED <<at, taken, base, todo>>
  BY DEF Divide, Runs
<1>3. /\ num \in Nat /\ num > 0 /\ base \in Bases /\ IsString(buf) /\ Len(buf) \in Nat
      /\ Len(buf) <= BUF /\ num < PowerOfTen(BUF - Len(buf)) /\ BUF \in Nat
  BY <1>1, <1>2, ConsoleAssumption DEF NumberInv, IsString
<1> HIDE DEF digit
<1>4. /\ IsString(buf') /\ Len(buf') = Len(buf) + 1
      /\ Reverse(buf') = <<digit>> \o Reverse(buf)
  <2>1. Len(Append(buf, digit)) = Len(buf) + 1
    BY <1>3 DEF IsString
  <2> QED
    BY <1>2, <1>3, <2>1, StringAppend, ReverseMore
<1>5. Len(buf) < BUF
  <2>1. ASSUME Len(buf) = BUF PROVE FALSE
    <3>1. BUF - Len(buf) = 0
      BY <1>3, <2>1
    <3>2. 0 \in Nat
      OBVIOUS
    <3>3. PowerOfTen(0) = 1
      BY Zenon, <3>2, PowerSteps
    <3> QED
      BY <1>3, <3>1, <3>3
  <2> QED
    BY <1>3, <2>1
<1>6. CallInv'
  BY <1>1, <1>2 DEF CallInv, callVars
<1>7. NumberInv'
  <2>1. num' \in Nat
    BY <1>2, <1>3 DEF Bases
  <2>2. num' < PowerOfTen(BUF - Len(buf'))
    <3> DEFINE r == BUF - Len(buf')
               p == PowerOfTen(r)
    <3>1. r \in Nat /\ BUF - Len(buf) = r + 1
      BY <1>3, <1>4, <1>5
    <3> HIDE DEF r
    <3>2. p \in Nat /\ PowerOfTen(r + 1) = 10 * p
      BY <3>1, PowerSteps
    <3>3. num < 10 * p
      BY <1>3, <3>1, <3>2
    <3> HIDE DEF p
    <3>4. num \div base < p
      BY <1>3, <3>2, <3>3 DEF Bases
    <3> QED
      BY <1>2, <3>4 DEF p, r
  <2>3. buf' # <<>>
    <3>1. Len(buf') # 0
      BY <1>3, <1>4
    <3> QED
      BY <3>1
  <2>4. doing' = "divide" => num' > 0
    BY <1>2, <2>1
  <2> QED
    BY <1>2, <1>3, <1>4, <1>5, <2>1, <2>2, <2>3, <2>4 DEF NumberInv
<1>8. Pending' = Pending
  <2>1. Pending = Numeral(num, base) \o Reverse(buf)
    BY <1>2 DEF Pending
  <2>2. IsString(Reverse(buf)) /\ IsString(<<digit>>)
    BY <1>3, ReverseMore, StringOne
  <2>3. CASE num < base
    <3>1. num' = 0 /\ num % base = num
      BY <1>2, <1>3, <2>3 DEF Bases
    <3>2. Pending' = Reverse(buf')
      BY <1>2, <3>1 DEF Pending
    <3>3. Numeral(num, base) = <<digits_str[num + 1]>>
      BY <1>3, <2>3, NumeralSteps
    <3>4. 1 + (num % base) = num + 1
      BY <1>3, <3>1
    <3>5. digits_str[num + 1] = digit
      BY <3>4 DEF digit
    <3> QED
      BY <1>4, <2>1, <3>2, <3>3, <3>5
  <2>4. CASE num >= base
    <3>1. num' \in Nat /\ num' > 0
      BY <1>2, <1>3, <2>4, Quotient
    <3>2. Pending' = Numeral(num', base) \o Reverse(buf')
      BY <1>2, <3>1 DEF Pending
    <3>3. Numeral(num, base) = Append(Numeral(num', base), digit)
      BY <1>2, <1>3, <2>4, NumeralSteps DEF digit
    <3>4. IsString(Numeral(num', base))
      BY <1>3, <3>1, NumeralSteps, StringOf
    <3>5. Append(Numeral(num', base), digit) = Numeral(num', base) \o <<digit>>
      BY <3>4, StringAppend
    <3>6. (Numeral(num', base) \o <<digit>>) \o Reverse(buf)
            = Numeral(num', base) \o (<<digit>> \o Reverse(buf))
      <4> DEFINE m == Numeral(num', base)
                 h == <<digit>>
                 r == Reverse(buf)
      <4>1. IsString(m) /\ IsString(h) /\ IsString(r)
        BY <2>2, <3>4
      <4> HIDE DEF m, h, r
      <4>2. (m \o h) \o r = m \o (h \o r)
        BY <4>1, StringAssociative
      <4> QED
        BY <4>2 DEF m, h, r
    <3> QED
      BY <1>4, <2>1, <3>2, <3>3, <3>5, <3>6
  <2> QED
    BY <1>3, <2>3, <2>4 DEF Bases
<1>9. OutputInv'
  BY <1>1, <1>2, <1>8 DEF OutputInv, callVars
<1> QED
  BY <1>6, <1>7, <1>9 DEF PrintInv

LEMMA EmitKeeps ==
  ASSUME PrintInv, Emit, UNCHANGED <<callVars, tx, line>>
  PROVE  PrintInv'
<1>1. CallInv /\ OutputInv /\ NumberInv
  BY DEF PrintInv
<1>2. /\ doing = "emit" /\ todo = <<>>
      /\ todo' = <<buf[Len(buf)]>> /\ buf' = SubSeq(buf, 1, Len(buf) - 1)
      /\ doing' = IF buf' = <<>> THEN "text" ELSE "emit"
      /\ UNCHANGED <<at, taken, num, base>>
  BY DEF Emit, Runs
<1>3. IsString(buf) /\ buf # <<>> /\ Len(buf) \in Nat /\ Len(buf) <= BUF
  BY <1>1, <1>2 DEF NumberInv, IsString
<1>4. IsString(buf') /\ Len(buf') = Len(buf) - 1 /\ Reverse(buf) = todo' \o Reverse(buf')
  BY <1>2, <1>3, LastDigit
<1>5. CallInv'
  BY <1>1, <1>2 DEF CallInv, callVars
<1>6. NumberInv'
  BY <1>1, <1>2, <1>3, <1>4, ConsoleAssumption DEF NumberInv
<1>7. IsString(todo')
  BY <1>2, StringOne
<1>8. todo' \o Pending' = todo \o Pending
  <2>1. Pending = Reverse(buf) /\ IsString(Reverse(buf))
    BY <1>2, <1>3, ReverseMore DEF Pending
  <2>2. Pending' = Reverse(buf')
    <3>1. CASE buf' = <<>>
      <4>1. Reverse(buf') = <<>>
        BY <3>1, <1>4, ReverseMore
      <4> QED
        BY <1>2, <3>1, <4>1 DEF Pending
    <3>2. CASE buf' # <<>>
      BY <1>2, <3>2 DEF Pending
    <3> QED
      BY <3>1, <3>2
  <2> QED
    BY <1>2, <1>4, <2>1, <2>2, StringEmpty
<1>9. OutputInv'
  BY <1>1, <1>2, <1>7, <1>8 DEF OutputInv, callVars
<1> QED
  BY <1>5, <1>6, <1>9 DEF PrintInv

(* A character to the UART, and from it to the line.                        *)
LEMMA PutcKeeps ==
  ASSUME PrintInv, uart_putc
  PROVE  PrintInv'
<1>1. CallInv /\ OutputInv /\ NumberInv
  BY DEF PrintInv
<1>2. /\ todo # <<>> /\ tx = <<>> /\ tx' = <<Head(todo)>> /\ todo' = Tail(todo)
      /\ UNCHANGED <<callVars, cpuVars, line>>
  BY DEF uart_putc
<1>3. CallInv' /\ NumberInv' /\ Pending' = Pending
  BY <1>1, <1>2 DEF CallInv, NumberInv, Pending, callVars, cpuVars
<1>4. IsString(todo) /\ IsString(line) /\ IsString(Pending)
  BY <1>1, PendingString DEF OutputInv
<1>5. IsString(todo') /\ IsString(tx') /\ todo = tx' \o todo'
  BY <1>2, <1>4, StringTail, StringOne
<1>6. (line \o tx) \o (todo \o Pending) = (line' \o tx') \o (todo' \o Pending')
  <2> DEFINE h == tx'
             t == todo'
             p == Pending
             l == line
  <2>1. line \o tx = l
    BY <1>2, <1>4, StringEmpty
  <2>2. todo \o Pending = h \o (t \o p)
    BY <1>4, <1>5, StringAssociative
  <2>3. IsString(t \o p)
    BY <1>4, <1>5, StringConcat
  <2>4. l \o (h \o (t \o p)) = (l \o h) \o (t \o p)
    <3> DEFINE q == t \o p
    <3> HIDE DEF q, l, h
    <3>1. IsString(l) /\ IsString(h) /\ IsString(q)
      BY <1>4, <1>5, <2>3 DEF q, l, h
    <3> QED
      BY SMTT(30), <3>1, StringAssociative DEF q
  <2>5. line' = line
    BY <1>2
  <2> QED
    BY <1>3, <2>1, <2>2, <2>4, <2>5
<1>7. OutputInv'
  BY <1>1, <1>2, <1>5, <1>6 DEF OutputInv, callVars, cpuVars
<1> QED
  BY <1>3, <1>7 DEF PrintInv

LEMMA ShiftKeeps ==
  ASSUME PrintInv, TxShift
  PROVE  PrintInv'
<1>1. CallInv /\ OutputInv /\ NumberInv
  BY DEF PrintInv
<1>2. /\ tx # <<>> /\ line' = Append(line, Head(tx)) /\ tx' = Tail(tx)
      /\ UNCHANGED <<callVars, cpuVars, todo>>
  BY DEF TxShift
<1>3. CallInv' /\ NumberInv' /\ Pending' = Pending
  BY <1>1, <1>2 DEF CallInv, NumberInv, Pending, callVars, cpuVars
<1>4. IsString(tx) /\ IsString(line) /\ IsString(<<Head(tx)>>)
  BY <1>1, StringOne DEF OutputInv
<1>5. IsString(tx') /\ tx = <<Head(tx)>> \o tx'
  BY <1>2, <1>4, StringTail
<1>6. IsString(line') /\ line' = line \o <<Head(tx)>>
  BY <1>2, <1>4, StringAppend
<1>7. line' \o tx' = line \o tx
  <2>1. (line \o <<Head(tx)>>) \o tx' = line \o (<<Head(tx)>> \o tx')
    <3> DEFINE l == line
               h == <<Head(tx)>>
               t == tx'
    <3>1. IsString(l) /\ IsString(h) /\ IsString(t)
      BY <1>4, <1>5
    <3> HIDE DEF l, h, t
    <3>2. (l \o h) \o t = l \o (h \o t)
      BY <3>1, StringAssociative
    <3> QED
      BY <3>2 DEF l, h, t
  <2> QED
    BY <1>5, <1>6, <2>1
<1>8. OutputInv'
  BY <1>1, <1>2, <1>3, <1>5, <1>6, <1>7 DEF OutputInv, callVars, cpuVars
<1> QED
  BY <1>3, <1>8 DEF PrintInv

LEMMA PrintStep ==
  ASSUME PrintInv, [ConsoleStep \/ TxShift]_consoleVars
  PROVE  PrintInv'
<1>1. CASE Plain /\ UNCHANGED <<callVars, tx, line>>
  BY <1>1, PlainKeeps
<1>2. CASE Convert /\ UNCHANGED <<callVars, tx, line>>
  BY <1>2, ConvertKeeps
<1>3. CASE Divide /\ UNCHANGED <<callVars, tx, line>>
  BY <1>3, DivideKeeps
<1>4. CASE Emit /\ UNCHANGED <<callVars, tx, line>>
  BY <1>4, EmitKeeps
<1>5. CASE uart_putc
  BY <1>5, PutcKeeps
<1>6. CASE TxShift
  BY <1>6, ShiftKeeps
<1>7. CASE UNCHANGED consoleVars
  BY <1>7 DEF consoleVars, callVars, cpuVars, PrintInv, CallInv, NumberInv, OutputInv, Pending
<1> QED
  BY <1>1, <1>2, <1>3, <1>4, <1>5, <1>6, <1>7 DEF ConsoleStep, print

(* A call begins, when the one before has put all of its characters.        *)
LEMMA CallBegins ==
  ASSUME NEW f, NEW a, LegalCall(f, a)
  PROVE  ~Converts(f)[1] /\ 1 \in 1 .. Len(f) /\ ArgNumber(f, 0) = 0 /\ Upto(f, a, 0) = <<>>
<1>1. Len(f) \in Nat /\ f # <<>> /\ f \in Seq(Range(f))
  BY DEF LegalCall, IsString
<1>2. Len(f) > 0
  BY <1>1
<1>3. 1 \in 0 .. Len(f)
  BY <1>1, <1>2
<1>4. \A j \in 0 .. Len(f) :
        Converts(f)[j] = (j > 1 /\ f[j - 1] = "%" /\ ~Converts(f)[j - 1])
  BY <1>1, LetterSteps
<1>5. ~Converts(f)[1]
  <2>1. Converts(f)[1] = (1 > 1 /\ f[1 - 1] = "%" /\ ~Converts(f)[1 - 1])
    BY Zenon, <1>3, <1>4
  <2>2. ~(1 > 1)
    OBVIOUS
  <2> QED
    BY Zenon, <2>1, <2>2
<1>6. 0 \in Nat
  OBVIOUS
<1> QED
  BY <1>1, <1>2, <1>5, <1>6, ArgCount, UptoSteps

LEMMA StartKeeps ==
  ASSUME PrintInv, todo = <<>>, NEW f, NEW a, LegalCall(f, a), StartPrint(f, a),
         UNCHANGED <<todo, tx, line>>
  PROVE  PrintInv'
<1>1. /\ text' = f /\ args' = a /\ before' = line \o tx
      /\ at' = 1 /\ taken' = 0 /\ doing' = "text" /\ num' = 0 /\ base' = 10 /\ buf' = <<>>
  BY DEF StartPrint
<1>2. ~Converts(f)[1] /\ 1 \in 1 .. Len(f) /\ ArgNumber(f, 0) = 0 /\ Upto(f, a, 0) = <<>>
  BY CallBegins
<1>3. CallInv'
  BY <1>1, <1>2 DEF CallInv
<1>4. IsString(<<>>) /\ Len(<<>>) = 0 /\ BUF \in Nat /\ 10 \in Bases
  BY StringEmpty, ConsoleAssumption DEF Bases
<1>5. NumberInv'
  BY <1>1, <1>4 DEF NumberInv
<1>6. IsString(line) /\ IsString(tx) /\ IsString(line \o tx)
  BY StringConcat DEF PrintInv, OutputInv
<1>7. (line' \o tx') \o (todo' \o Pending') = before' \o Upto(text', args', at' - 1)
  <2>1. todo' \o Pending' = <<>>
    BY <1>1, <1>4, StringEmpty DEF Pending
  <2>2. Upto(text', args', at' - 1) = <<>>
    BY <1>1, <1>2
  <2> QED
    BY <1>1, <2>1, <2>2
<1>8. OutputInv'
  BY <1>1, <1>4, <1>6, <1>7 DEF OutputInv
<1> QED
  BY <1>3, <1>5, <1>8 DEF PrintInv

LEMMA PrintBegins ==
  ASSUME NEW f, NEW a, LegalCall(f, a), Printing(f, a)
  PROVE  PrintInv
<1>1. /\ text = f /\ args = a /\ before = <<>> /\ at = 1 /\ taken = 0 /\ doing = "text"
      /\ num = 0 /\ base = 10 /\ buf = <<>> /\ todo = <<>> /\ tx = <<>> /\ line = <<>>
  BY DEF Printing
<1>2. ~Converts(f)[1] /\ 1 \in 1 .. Len(f) /\ ArgNumber(f, 0) = 0 /\ Upto(f, a, 0) = <<>>
  BY CallBegins
<1>3. CallInv
  BY <1>1, <1>2 DEF CallInv
<1>4. IsString(<<>>) /\ <<>> \o <<>> = <<>> /\ Len(<<>>) = 0 /\ BUF \in Nat /\ 10 \in Bases
  BY StringEmpty, ConsoleAssumption DEF Bases
<1>5. NumberInv
  BY <1>1, <1>4 DEF NumberInv
<1>6. Pending = <<>> /\ Upto(text, args, at - 1) = <<>>
  BY <1>1, <1>2 DEF Pending
<1>7. OutputInv
  BY <1>1, <1>4, <1>6 DEF OutputInv
<1> QED
  BY <1>3, <1>5, <1>7 DEF PrintInv

(* At the end nothing is pending, and the final NUL adds nothing.           *)
LEMMA GivesWritten == PrintInv => PrintsAsWritten
<1> SUFFICES ASSUME PrintInv PROVE PrintsAsWritten
  OBVIOUS
<1>1. CallInv /\ OutputInv /\ NumberInv
  BY DEF PrintInv
<1>2. Len(buf) <= BUF
  BY <1>1 DEF NumberInv
<1>3. ASSUME Returned, tx = <<>> PROVE line = before \o Message(text, args)
  <2>1. doing = "text" /\ todo = <<>> /\ text[at] = "NUL"
    BY <1>3 DEF Returned
  <2>2. Len(text) \in Nat /\ DOMAIN text = 1 .. Len(text) /\ at = Len(text)
          /\ ~Converts(text)[at] /\ at \in 1 .. Len(text)
    BY <1>1, <2>1, AtLetter DEF CallInv, LegalCall
  <2>3. Expected(text, args, at) = <<>>
    BY <2>1, <2>2 DEF Expected
  <2>4. at - 1 \in 0 .. Len(text) - 1 /\ (at - 1) + 1 = at /\ at - 1 \in 0 .. Len(text)
    BY <2>2
  <2>5. Upto(text, args, at) = Upto(text, args, at - 1) \o <<>>
    BY <1>1, <2>3, <2>4, UptoSteps DEF CallInv
  <2>6. Upto(text, args, at) = Upto(text, args, at - 1)
    BY <1>1, <2>4, <2>5, UptoSteps, StringEmpty DEF CallInv
  <2>7. line = before \o Upto(text, args, at - 1)
    <3>1. IsString(line)
      BY <1>1 DEF OutputInv
    <3>2. (line \o <<>>) \o (<<>> \o <<>>) = line
      BY <3>1, StringEmpty
    <3>3. Pending = <<>>
      BY <2>1 DEF Pending
    <3> QED
      BY <1>1, <1>3, <2>1, <3>2, <3>3 DEF OutputInv
  <2> QED
    BY <2>2, <2>6, <2>7 DEF Message
<1> QED
  BY <1>2, <1>3 DEF PrintsAsWritten

(* The calls that the firmware itself makes can be made.                    *)
LEMMA PlainLegal ==
  ASSUME NEW C, NEW f \in Seq(C), f # <<>>,
         \A j \in 1 .. Len(f) : f[j] # "%" /\ (f[j] = "NUL" <=> j = Len(f))
  PROVE  LegalCall(f, <<>>)
<1>1. Len(f) \in Nat /\ Len(f) > 0 /\ DOMAIN f = 1 .. Len(f) /\ IsString(f) /\ IsString(<<>>)
  BY StringOf, StringEmpty
<1>2. \A j \in 0 .. Len(f) :
        Converts(f)[j] = (j > 1 /\ f[j - 1] = "%" /\ ~Converts(f)[j - 1])
  BY <1>1, LetterSteps
<1> DEFINE N == Len(f)
<1>0. /\ N \in 1 .. N
      /\ \A j \in 1 .. N : j \in 0 .. N /\ (j > 1 => j - 1 \in 1 .. N)
  <2>1. N \in Nat /\ N > 0
    BY <1>1
  <2> HIDE DEF N
  <2> QED
    BY ONLY <2>1
<1>3. \A j \in 1 .. Len(f) : ~Converts(f)[j]
  <2> SUFFICES ASSUME NEW j \in 1 .. Len(f) PROVE ~Converts(f)[j]
    OBVIOUS
  <2>1. j > 1 => j - 1 \in 1 .. Len(f)
    BY <1>0
  <2>2. ~(j > 1 /\ f[j - 1] = "%")
    BY <2>1
  <2>3. j \in 0 .. Len(f)
    BY <1>0
  <2> QED
    BY <1>2, <2>2, <2>3
<1>4. DOMAIN <<>> = {}
  OBVIOUS
<1>5. \A j \in 1 .. Len(f) : ~TakesArg(f, j)
  BY <1>3 DEF TakesArg
<1>6. ~Converts(f)[Len(f)]
  BY <1>0, <1>3
<1>7. \A j \in DOMAIN f : f[j] = "NUL" <=> j = Len(f)
  BY <1>1
<1> QED
  BY <1>1, <1>4, <1>5, <1>6, <1>7 DEF LegalCall

LEMMA ReasonLegal == LegalCall(<<"%", "s", "NUL">>, <<String(Reason)>>)
<1> DEFINE f == <<"%", "s", "NUL">>
           a == <<String(Reason)>>
<1>1. /\ f \in Seq({"%", "s", "NUL"}) /\ Len(f) = 3 /\ DOMAIN f = {1, 2, 3}
      /\ f[1] = "%" /\ f[2] = "s" /\ f[3] = "NUL"
  OBVIOUS
<1>2. DOMAIN a = {1} /\ a[1] = String(Reason)
  OBVIOUS
<1>3. IsString(a) /\ IsString(Reason)
  <2>1. Reason \in Seq({"Kernel or ramfs loading failed.", "NL"})
    BY DEF Reason
  <2> QED
    BY <2>1, StringOf, StringOne
<1>4. String(Reason).value = 0 /\ String(Reason).str = Reason
  BY DEF String
<1> HIDE DEF f, a
<1>5. \A j \in 0 .. 3 : Converts(f)[j] = (j > 1 /\ f[j - 1] = "%" /\ ~Converts(f)[j - 1])
  <2>1. Len(f) \in Nat
    BY <1>1
  <2>2. \A j \in 0 .. Len(f) :
          Converts(f)[j] = (j > 1 /\ f[j - 1] = "%" /\ ~Converts(f)[j - 1])
    BY Zenon, <2>1, LetterSteps
  <2> QED
    BY Zenon, <1>1, <2>2
<1>6. ~Converts(f)[1] /\ Converts(f)[2] /\ ~Converts(f)[3]
  <2>1. Converts(f)[1] = (1 > 1 /\ f[1 - 1] = "%" /\ ~Converts(f)[1 - 1])
    <3>1. 1 \in 0 .. 3
      OBVIOUS
    <3> QED
      BY Zenon, <1>5, <3>1
  <2>2. Converts(f)[2] = (2 > 1 /\ f[2 - 1] = "%" /\ ~Converts(f)[2 - 1])
    <3>1. 2 \in 0 .. 3
      OBVIOUS
    <3> QED
      BY Zenon, <1>5, <3>1
  <2>3. Converts(f)[3] = (3 > 1 /\ f[3 - 1] = "%" /\ ~Converts(f)[3 - 1])
    <3>1. 3 \in 0 .. 3
      OBVIOUS
    <3> QED
      BY Zenon, <1>5, <3>1
  <2>4. ~(1 > 1) /\ 2 - 1 = 1 /\ 2 > 1 /\ 3 - 1 = 2 /\ "s" # "%"
    OBVIOUS
  <2>5. ~Converts(f)[1]
    BY Zenon, <2>1, <2>4
  <2>6. Converts(f)[2]
    BY Zenon, <1>1, <2>2, <2>4, <2>5
  <2>7. ~Converts(f)[3]
    BY Zenon, <1>1, <2>3, <2>4
  <2> QED
    BY <2>5, <2>6, <2>7
<1>7. ~TakesArg(f, 1) /\ TakesArg(f, 2) /\ ~TakesArg(f, 3)
  BY <1>1, <1>6 DEF TakesArg
<1>8. ArgNumber(f, 2) = 1
  <2>1. 0 \in Nat /\ 0 + 1 = 1 /\ 1 \in Nat /\ 1 + 1 = 2
    OBVIOUS
  <2>2. ArgNumber(f, 0) = 0
    BY Zenon, <2>1, ArgCount
  <2>3. ArgNumber(f, 1) = 0
    <3>1. ~TakesArg(f, 0 + 1) => ArgNumber(f, 0 + 1) = ArgNumber(f, 0)
      BY ArgCount
    <3> QED
      BY <1>7, <2>1, <2>2, <3>1
  <2>4. TakesArg(f, 1 + 1) => ArgNumber(f, 1 + 1) = ArgNumber(f, 1) + 1
    BY ArgCount
  <2> QED
    BY <1>7, <2>1, <2>3, <2>4
<1>9. Fits("s", String(Reason))
  BY DEF Fits
<1>10. IsString(f) /\ f # <<>>
  BY <1>1, StringOf
<1>11. \A j \in DOMAIN f : f[j] = "NUL" <=> j = Len(f)
  BY <1>1
<1>12. \A j \in DOMAIN f : TakesArg(f, j) =>
         ArgNumber(f, j) \in DOMAIN a /\ Fits(f[j], a[ArgNumber(f, j)])
  BY <1>1, <1>2, <1>7, <1>8, <1>9
<1>13. \A j \in DOMAIN a : a[j].value \in Int /\ IsString(a[j].str)
  BY <1>2, <1>3, <1>4
<1>14. ~Converts(f)[Len(f)]
  BY <1>1, <1>6
<1>15. LegalCall(f, a)
  BY <1>3, <1>10, <1>11, <1>12, <1>13, <1>14 DEF LegalCall
<1> QED
  BY <1>15 DEF f, a

LEMMA IdleLegal == LegalCall(<<"NUL">>, <<>>)
<1>1. <<"NUL">> \in Seq({"NUL"}) /\ Len(<<"NUL">>) = 1 /\ <<"NUL">>[1] = "NUL"
        /\ <<"NUL">> # <<>>
  OBVIOUS
<1>2. \A j \in 1 .. 1 : <<"NUL">>[j] # "%" /\ (<<"NUL">>[j] = "NUL" <=> j = 1)
  BY <1>1
<1> QED
  BY <1>1, <1>2, PlainLegal

LEMMA SpeaksLegal ==
  ASSUME NEW s \in Speaks
  PROVE  LegalCall(Format(s), IF s = "reason" THEN <<String(Reason)>> ELSE <<>>)
<1>1. CASE s = "reason"
  BY <1>1, ReasonLegal DEF Format
<1>2. CASE s = "hello"
  <2>1. /\ Hello \in Seq({"len-fpga is booting...", "NL", "NUL"}) /\ Len(Hello) = 4
        /\ Hello # <<>>
        /\ \A j \in 1 .. 4 : Hello[j] # "%" /\ (Hello[j] = "NUL" <=> j = 4)
    BY DEF Hello
  <2>2. LegalCall(Hello, <<>>)
    BY <2>1, PlainLegal
  <2> QED
    BY <1>2, <2>2 DEF Format
<1>3. CASE s = "banner"
  <2>1. /\ Banner \in Seq({"[PANIC]", "NL", "NUL"}) /\ Len(Banner) = 3
        /\ Banner # <<>>
        /\ \A j \in 1 .. 3 : Banner[j] # "%" /\ (Banner[j] = "NUL" <=> j = 3)
    BY DEF Banner
  <2>2. LegalCall(Banner, <<>>)
    BY <2>1, PlainLegal
  <2> QED
    BY <1>3, <2>2 DEF Format
<1>4. CASE s = "farewell"
  <2>1. /\ Farewell \in Seq({"Rebooting...", "NL", "NUL"}) /\ Len(Farewell) = 4
        /\ Farewell # <<>>
        /\ \A j \in 1 .. 4 : Farewell[j] # "%" /\ (Farewell[j] = "NUL" <=> j = 4)
    BY DEF Farewell
  <2>2. LegalCall(Farewell, <<>>)
    BY <2>1, PlainLegal
  <2> QED
    BY <1>4, <2>2 DEF Format
<1> QED
  BY <1>1, <1>2, <1>3, <1>4 DEF Speaks

LEMMA SaysPrints ==
  ASSUME BootInv, PrintInv, NEW s \in Speaks, NEW next, Says(s, next)
  PROVE  PrintInv'
<1>1. CASE UNCHANGED consoleVars
  BY <1>1, PrintStep
<1>2. CASE ~ UNCHANGED consoleVars
  <2> DEFINE a == IF s = "reason" THEN <<String(Reason)>> ELSE <<>>
  <2>1. k = 1 /\ StartPrint(Format(s), a) /\ UNCHANGED <<todo, tx, line>>
    BY <1>2 DEF Says
  <2>2. todo = <<>>
    BY <2>1 DEF BootInv, TextInv, InCall
  <2>3. LegalCall(Format(s), a)
    BY SpeaksLegal
  <2> HIDE DEF a
  <2> QED
    BY <2>1, <2>2, <2>3, StartKeeps
<1> QED
  BY <1>1, <1>2

LEMMA BootPrints ==
  ASSUME BootInv, PrintInv, Firmware \/ Transmit \/ Tick
  PROVE  PrintInv'
<1>1. CASE Say
  <2>1. {"hello", "banner", "reason", "farewell"} = Speaks
    BY DEF Speaks
  <2> QED
    BY <1>1, <2>1, SaysPrints DEF Say
<1>2. CASE InPrint
  BY <1>2, PrintStep DEF InPrint
<1>3. CASE Transmit
  BY <1>3, PrintStep DEF Transmit
<1>4. CASE UNCHANGED consoleVars
  BY <1>4, PrintStep
<1>5. CASE UartInit \/ InitIrqchips \/ InitFb \/ Draw \/ InitPmc
  BY <1>4, <1>5 DEF UartInit, InitIrqchips, InitFb, Draw, InitPmc, Stores
<1>6. CASE Load("kernel", "ramfs") \/ Load("ramfs", "payload") \/ StartDelay \/ Reboot \/ Tick
  BY <1>4, <1>6 DEF Load, StartDelay, Reboot, Tick
<1> QED
  BY <1>1, <1>2, <1>3, <1>5, <1>6 DEF Firmware

-----------------------------------------------------------------------------
(* The firmware's C code as a whole: what the task of a behaviour does not  *)
(* use stays as it was.                                                     *)
FirmInv ==
  /\ ScreenInv
  /\ CrcInv
  /\ PrintInv
  /\ task = "string" => StringInv
  /\ task # "string" => mem = start /\ ~ done
  /\ task = "boot" => BootInv
  /\ task # "boot" => stage = "none"

(* Init, and each of Program and Outside.                                   *)
LEMMA FirmInitially == Init => FirmInv
<1> SUFFICES ASSUME Init PROVE FirmInv
  OBVIOUS
<1>0. CrcInv /\ PrintInv
  <2>1. CrcInv
    BY CrcInitially DEF Init
  <2>2. CASE Idle
    <3> DEFINE f == <<"NUL">>
               a == <<>>
    <3>1. LegalCall(f, a) /\ Printing(f, a)
      BY <2>2, IdleLegal DEF Idle
    <3> HIDE DEF f, a
    <3> QED
      BY <2>1, <3>1, PrintBegins
  <2>3. ASSUME NEW c \in Calls, Printing(c.f, c.a) PROVE PrintInv
    BY <2>3, CallsAssumption, PrintBegins
  <2> QED
    BY <2>1, <2>2, <2>3 DEF Init, BootInit
<1>1. CASE task = "string" /\ LibInit /\ NoBoot /\ NoScreen
  BY <1>0, <1>1, StringInitially, ScreenInitially, PicturesAssumption DEF FirmInv, NoBoot, NoScreen
<1>2. CASE task \in {"crc", "print", "screen"} /\ NoLibrary /\ NoBoot /\ NoScreen
  BY <1>0, <1>2, ScreenInitially, PicturesAssumption DEF FirmInv, NoBoot, NoScreen, NoLibrary
<1>3. CASE task = "boot" /\ NoLibrary /\ BootInit
  BY <1>0, <1>3, BootInitially DEF FirmInv, BootInv, NoLibrary
<1> QED
  BY <1>1, <1>2, <1>3 DEF Init

LEMMA LibraryRests ==
  ASSUME FirmInv, task # "string", UNCHANGED <<task, libraryVars>>
  PROVE  mem' = start' /\ ~ done' /\ task' = task
BY DEF FirmInv, libraryVars, libVars

LEMMA FirmStep == FirmInv /\ [Next]_vars => FirmInv'
<1> SUFFICES ASSUME FirmInv, [Next]_vars PROVE FirmInv'
  OBVIOUS
<1>0. CrcInv' /\ PrintInv'
  <2>1. [CrcNext]_crcVars
    BY DEF Next, Program, Outside, Alone, vars, libraryVars
  <2>2. CrcInv'
    BY <2>1, CrcStep DEF FirmInv
  <2>3. CASE [ConsoleStep \/ TxShift]_consoleVars
    BY <2>2, <2>3, PrintStep DEF FirmInv
  <2>4. CASE Alone("boot", libraryVars) /\ (Firmware \/ Transmit \/ Tick)
    BY <2>2, <2>4, BootPrints DEF FirmInv, Alone
  <2>5. \/ [ConsoleStep \/ TxShift]_consoleVars
        \/ Alone("boot", libraryVars) /\ (Firmware \/ Transmit \/ Tick)
    BY DEF Next, Program, Outside, Alone, vars, libraryVars, bootVars
  <2> QED
    BY <2>3, <2>4, <2>5
<1>1. CASE UNCHANGED vars
  <2>1. UNCHANGED <<task, libVars, bootVars, stage, mem, start, done>>
    BY <1>1 DEF vars, libraryVars, bootVars, deviceVars, own, libVars
  <2>2. ScreenInv'
    BY <2>1, QuietScreen DEF FirmInv, bootVars
  <2>3. task = "string" => StringInv'
    BY <2>1, StringStep DEF FirmInv
  <2>4. task = "boot" => BootInv'
    BY <2>1, BootStep DEF FirmInv
  <2> QED
    BY <1>0, <2>1, <2>2, <2>3, <2>4 DEF FirmInv
<1>2. CASE Alone("string", <<crcVars, bootVars>>) /\ LibNext
  <2>1. task = "string" /\ task' = task /\ stage' = stage /\ UNCHANGED screenVars
    BY <1>2 DEF Alone, bootVars, deviceVars, own
  <2>2. StringInv'
    BY <1>2, <2>1, StringStep DEF FirmInv
  <2> QED
    BY <1>0, <2>1, <2>2, QuietScreen DEF FirmInv
<1>3. CASE Alone("crc", <<libVars, bootVars>>) /\ CrcNext
  <2>1. /\ task = "crc" /\ task' = task /\ stage' = stage /\ UNCHANGED screenVars
        /\ mem' = mem /\ start' = start /\ done' = done
    BY <1>3 DEF Alone, bootVars, deviceVars, own, libVars
  <2> QED
    BY <1>0, <2>1, QuietScreen DEF FirmInv
<1>4. CASE Alone("print", <<libraryVars, deviceVars, screenVars>>) /\ (ConsoleStep \/ TxShift)
  <2>1. task = "print" /\ stage' = stage /\ UNCHANGED <<task, libraryVars, screenVars>>
    BY <1>4 DEF Alone, deviceVars, own
  <2> QED
    BY <1>0, <2>1, QuietScreen, LibraryRests DEF FirmInv
<1>5. CASE Alone("screen", <<libraryVars, deviceVars, consoleVars>>) /\ ScreenNext
  <2>1. task = "screen" /\ stage' = stage /\ UNCHANGED <<task, libraryVars>>
    BY <1>5 DEF Alone, deviceVars, own
  <2>2. ScreenInv'
    BY <1>5, ScreenStep DEF FirmInv
  <2> QED
    BY <1>0, <2>1, <2>2, LibraryRests DEF FirmInv
<1>6. CASE Alone("boot", libraryVars) /\ (Firmware \/ Transmit \/ Tick)
  <2>1. task = "boot" /\ UNCHANGED <<task, libraryVars>>
    BY <1>6 DEF Alone
  <2>2. BootInv'
    BY <1>6, <2>1, BootStep DEF FirmInv, BootNext
  <2> QED
    BY <1>0, <2>1, <2>2, LibraryRests DEF FirmInv, BootInv
<1> QED
  BY <1>1, <1>2, <1>3, <1>4, <1>5, <1>6 DEF Next, Program, Outside

(* The invariant of the firmware's C code.                                  *)
THEOREM FirmwareInvariant == Spec => []FirmInv
BY FirmInitially, FirmStep, PTL DEF Spec

(* Every call of a function of string.c, whatever the memory and the        *)
(* ranges, does what ISO C says and returns what it promises.               *)
THEOREM LibraryKeepsC == Spec => []StringsAsInC
<1>1. FirmInv => StringsAsInC
  <2>1. StringInv => StringsAsInC
    BY InvGivesStrings
  <2>2. mem = start /\ ~ done => StringsAsInC
    BY DEF StringsAsInC, MemoryAsInC
  <2> QED
    BY <2>1, <2>2 DEF FirmInv
<1> QED
  BY <1>1, FirmwareInvariant, PTL

(* The checksum of a message is the one that zlib defines bit by bit, for   *)
(* messages of any bytes and any length: the table and the order of the two *)
(* look-ups of a byte are right (crc32_update).                             *)
THEOREM ChecksumRight == Spec => []ChecksumAsZlib
<1>1. FirmInv => ChecksumAsZlib
  BY GivesChecksum DEF FirmInv
<1> QED
  BY <1>1, FirmwareInvariant, PTL

(* print writes what its format and its arguments say, whatever they are,   *)
(* and putnumber never leaves its buffer: for any set of calls that C       *)
(* allows, and any width of int and pointer that the buffer is made for.    *)
THEOREM PrintsRight == Spec => []PrintsAsWritten
<1>1. FirmInv => PrintsAsWritten
  BY GivesWritten DEF FirmInv
<1> QED
  BY <1>1, FirmwareInvariant, PTL

(* The picture is drawn right, small or the one of wallpaper.h, and the     *)
(* frame buffer ends before the memory does (init_fb).                      *)
THEOREM PicturesShown == Spec => []ScreenShowsPicture
<1>1. FirmInv => ScreenShowsPicture
  BY GivesPicture DEF FirmInv, ScreenInv, ScreenShowsPicture
<1> QED
  BY <1>1, FirmwareInvariant, PTL

(* No character is sent before the line is set up to be read, and nothing   *)
(* can interrupt the payload, whatever the device registers held before     *)
(* uart_init and dev_init.                                                  *)
THEOREM DevicesSetUp == Spec => []DevicesReady
<1>1. FirmInv => DevicesReady
  <2>1. stage = "none" => DevicesReady
    BY DEF DevicesReady
  <2> QED
    BY <2>1, GivesDevices DEF FirmInv
<1> QED
  BY <1>1, FirmwareInvariant, PTL

(* panic's reboot reaches the PMC as its command and comes after the whole  *)
(* message, for any counter that does not come round within a second, at    *)
(* whatever time it starts.                                                 *)
THEOREM PanicHeard == Spec => []PanicIsHeard
<1>1. FirmInv => PanicIsHeard
  <2>1. stage = "none" => PanicIsHeard
    BY DEF PanicIsHeard
  <2> QED
    BY <2>1, GivesMessage DEF FirmInv
<1> QED
  BY <1>1, FirmwareInvariant, PTL
=============================================================================
