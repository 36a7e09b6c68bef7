------------------------------ MODULE StringLib ------------------------------
(***************************************************************************)
(* The functions of firmware/string.c, one loop iteration per step, over   *)
(* a memory of bytes.  A call is a record of the function and its          *)
(* arguments: addresses a and b, a length n and an int c.                  *)
(***************************************************************************)
EXTENDS Integers

CONSTANTS Cells,  \* the memory is 1 .. Cells, so that NULL points nowhere
          Byte,   \* the byte values in use
          Ints    \* the int arguments in use

ASSUME StringAssumption ==
  /\ Cells \in Nat
  /\ 0 \in Byte /\ Byte \subseteq 0 .. 255
  /\ Ints \subseteq Int /\ \A c \in Ints : c % 256 \in Byte

NULL == 0
Address == 1 .. Cells

Writers == {"memset", "memcpy", "memmove"}

(* The calls; an argument that the function does not have is 1 or 0.        *)
Call == [fn : {"strcmp"}, a : Address, b : Address, n : {0}, c : {0}]
   \cup [fn : {"strlen"}, a : Address, b : {1}, n : {0}, c : {0}]
   \cup [fn : {"strrchr"}, a : Address, b : {1}, n : {0}, c : Ints]
   \cup [fn : {"strnlen"}, a : Address, b : {1}, n : 0 .. Cells, c : {0}]
   \cup [fn : {"memset", "memchr"}, a : Address, b : {1}, n : 0 .. Cells, c : Ints]
   \cup [fn : {"strncmp", "memcmp", "memcpy", "memmove"},
         a : Address, b : Address, n : 0 .. Cells, c : {0}]

VARIABLES mem,    \* address |-> byte
          start,  \* the memory at the call
          call,
          i,      \* the loop counter, or the distance a pointer has moved
          last,   \* of strrchr
          done,   \* has it returned?
          ret     \* the value returned

libVars == <<mem, start, call, i, last, done, ret>>

-----------------------------------------------------------------------------
(* What a caller owes the functions: strings end, ranges lie in memory, and *)
(* memcpy's do not overlap.                                                 *)
Terminated(s) == \E k \in s .. Cells : mem[k] = 0
InMemory(p) == p + call.n - 1 <= Cells

(* A bounded string ends in memory or is cut off by its bound.              *)
Bounded(s) == Terminated(s) \/ InMemory(s)
Apart == call.a + call.n <= call.b \/ call.b + call.n <= call.a

Legal ==
  CASE call.fn = "strcmp" -> Terminated(call.a) /\ Terminated(call.b)
    [] call.fn = "strncmp" -> Bounded(call.a) /\ Bounded(call.b)
    [] call.fn = "strnlen" -> Bounded(call.a)
    [] call.fn \in {"strlen", "strrchr"} -> Terminated(call.a)
    [] call.fn \in {"memset", "memchr"} -> InMemory(call.a)
    [] call.fn \in {"memcmp", "memmove"} -> InMemory(call.a) /\ InMemory(call.b)
    [] call.fn = "memcpy" -> InMemory(call.a) /\ InMemory(call.b) /\ Apart

-----------------------------------------------------------------------------
(* The bytes the loops look at, and what an iteration does.                 *)
uint8_t(v) == v % 256
ch == uint8_t(call.c)
AtA == mem[call.a + i]
AtB == mem[call.b + i]

Goes(fn) == ~done /\ call.fn = fn

More == i' = i + 1 /\ UNCHANGED <<mem, last, done, ret>>
Return(v) == done' = TRUE /\ ret' = v /\ UNCHANGED <<mem, i, last>>
Put(k, byte) ==
  mem' = [mem EXCEPT ![call.a + k] = byte] /\ UNCHANGED <<last, done, ret>>

strcmp ==
  /\ Goes("strcmp")
  /\ IF AtA # 0 /\ AtA = AtB THEN More ELSE Return(AtA - AtB)

strncmp ==
  /\ Goes("strncmp")
  /\ IF i = call.n THEN Return(0)
     ELSE IF AtA # AtB \/ AtA = 0 THEN Return(AtA - AtB) ELSE More

strlen == Goes("strlen") /\ IF AtA # 0 THEN More ELSE Return(i)

strnlen ==
  /\ Goes("strnlen")
  /\ IF i < call.n /\ AtA # 0 THEN More ELSE Return(i)

strrchr ==
  /\ Goes("strrchr")
  /\ \/ /\ AtA # 0
        /\ last' = IF AtA = ch THEN call.a + i ELSE last
        /\ i' = i + 1
        /\ UNCHANGED <<mem, done, ret>>
     \/ /\ AtA = 0
        /\ Return(IF ch = 0 THEN call.a + i ELSE last)

memset ==
  /\ Goes("memset")
  /\ IF i < call.n THEN Put(i, ch) /\ i' = i + 1 ELSE Return(call.a)

memcpy ==
  /\ Goes("memcpy")
  /\ IF i < call.n THEN Put(i, AtB) /\ i' = i + 1 ELSE Return(call.a)

memcmp ==
  /\ Goes("memcmp")
  /\ IF i = call.n THEN Return(0)
     ELSE IF AtA # AtB THEN Return(AtA - AtB) ELSE More

memchr ==
  /\ Goes("memchr")
  /\ IF i = call.n THEN Return(NULL)
     ELSE IF AtA = ch THEN Return(call.a + i) ELSE More

(* Wrong: always from the first byte up.                                    *)
memmove_Up ==
  /\ Goes("memmove")
  /\ LET k == call.n - i
     IN IF call.a = call.b \/ (call.a < call.b /\ i = call.n) \/ (call.a > call.b /\ i = 0)
        THEN Return(call.a)
        ELSE IF call.a < call.b THEN Put(i, AtB) /\ i' = i + 1
        ELSE Put(k, mem[call.b + k]) /\ i' = i - 1

(* Up when the destination lies below the source, down from n when it lies  *)
(* above: in both cases a source byte is read before it is overwritten.     *)
memmove ==
  /\ Goes("memmove")
  /\ \/ call.a < call.b /\ i < call.n /\ Put(i, AtB) /\ i' = i + 1
     \/ call.a > call.b /\ i > 0 /\ Put(i - 1, mem[call.b + i - 1]) /\ i' = i - 1
     \/ /\ call.a = call.b \/ (call.a < call.b /\ i = call.n) \/ (call.a > call.b /\ i = 0)
        /\ Return(call.a)

-----------------------------------------------------------------------------
LibInit ==
  /\ mem \in [Address -> Byte] /\ start = mem
  /\ call \in Call /\ Legal
  /\ i = IF call.fn = "memmove" /\ call.a > call.b THEN call.n ELSE 0
  /\ last = NULL /\ done = FALSE /\ ret = 0

LibNext ==
  /\ \/ strcmp \/ strncmp \/ strlen \/ strnlen \/ strrchr
     \/ memset \/ memcpy \/ memcmp \/ memchr \/ memmove
  /\ UNCHANGED <<start, call>>

LibSpec == LibInit /\ [][LibNext]_libVars

-----------------------------------------------------------------------------
(* What ISO C promises, on the memory the function was called with.         *)
StrEnd(s) == CHOOSE k \in s .. Cells : /\ start[k] = 0
                                       /\ \A j \in s .. k - 1 : start[j] # 0
SmallestOr(S, default) ==
  IF S = {} THEN default ELSE CHOOSE k \in S : \A j \in S : k <= j
LargestOr(S, default) ==
  IF S = {} THEN default ELSE CHOOSE k \in S : \A j \in S : k >= j

Sign(v) == IF v < 0 THEN -1 ELSE IF v = 0 THEN 0 ELSE 1

(* Compares at the first of the positions that tells the ranges apart.      *)
Compare(Telling) ==
  IF Telling = {} THEN 0
  ELSE LET k == SmallestOr(Telling, 0)
       IN Sign(start[call.a + k] - start[call.b + k])

Reach == {k \in 0 .. Cells - 1 : call.a + k \in Address /\ call.b + k \in Address}
Differs(k) == start[call.a + k] # start[call.b + k]
Ends(k) == start[call.a + k] = 0
Below == 0 .. call.n - 1

Promised ==
  CASE call.fn = "strcmp" -> Compare({k \in Reach : Differs(k) \/ Ends(k)})
    [] call.fn = "strncmp" -> Compare({k \in Reach \cap Below : Differs(k) \/ Ends(k)})
    [] call.fn = "memcmp" -> Compare({k \in Below : Differs(k)})
    [] call.fn = "strlen" -> StrEnd(call.a) - call.a
    [] call.fn = "strnlen" ->
         SmallestOr({k \in Below : call.a + k \in Address /\ Ends(k)}, call.n)
    [] call.fn = "strrchr" ->
         LargestOr({k \in call.a .. StrEnd(call.a) : start[k] = ch}, NULL)
    [] call.fn = "memchr" ->
         SmallestOr({k \in call.a .. call.a + call.n - 1 : start[k] = ch}, NULL)
    [] OTHER -> call.a

Result == IF call.fn \in {"strcmp", "strncmp", "memcmp"} THEN Sign(ret) ELSE ret

Destination ==
  IF call.fn \in Writers THEN call.a .. call.a + call.n - 1 ELSE {}
Value(k) == IF call.fn = "memset" THEN ch ELSE start[call.b + k - call.a]

(* Nothing but the destination is ever written, and when the function       *)
(* returns the destination holds what ISO C says, overlapping or not.       *)
MemoryAsInC ==
  /\ \A k \in Address \ Destination : mem[k] = start[k]
  /\ done => \A k \in Destination : mem[k] = Value(k)

(* Every function of string.c does what the C standard says of its name.    *)
StringsAsInC == MemoryAsInC /\ (done => Result = Promised)
=============================================================================
