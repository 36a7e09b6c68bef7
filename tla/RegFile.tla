------------------------------- MODULE RegFile -------------------------------
(***************************************************************************)
(* What a memory-mapped register block promises the program that uses it:  *)
(* one access at a time, a write takes effect between its request and its  *)
(* response, and a read returns the value the registers hold at some       *)
(* moment in between.  AxiLiteSlave implements this over AXI4-Lite.        *)
(***************************************************************************)
CONSTANTS Reg,       \* the decoded register addresses
          Other,     \* the addresses of the window that select no register
          Lane,      \* the byte lanes of a word
          Byte,      \* the values of one byte lane
          ZeroByte   \* the value of a lane after reset

VARIABLES mem,   \* the register values
          call,  \* the access in progress, or NoOp
          rsp    \* the word the last read returned

vars == <<mem, call, rsp>>

Word == [Lane -> Byte]
ZeroWord == [l \in Lane |-> ZeroByte]

WriteOp == [kind : {"write"}, addr : Reg \cup Other,
            data : Word, strb : SUBSET Lane]
ReadOp == [kind : {"read"}, addr : Reg \cup Other]
NoOp == [kind |-> "none"]

(* The word old after a write of data under the byte strobes strb. *)
Merge(old, data, strb) ==
  [l \in Lane |-> IF l \in strb THEN data[l] ELSE old[l]]

Content(a) == IF a \in Reg THEN mem[a] ELSE ZeroWord

Init ==
  /\ mem = [r \in Reg |-> ZeroWord]
  /\ call = NoOp
  /\ rsp = ZeroWord

Request ==
  /\ call = NoOp
  /\ call' \in WriteOp \cup ReadOp
  /\ UNCHANGED <<mem, rsp>>

(* The write in progress reaches its register, and no other. *)
Apply ==
  /\ call.kind = "write"
  /\ call.addr \in Reg
  /\ mem' = [mem EXCEPT ![call.addr] = Merge(@, call.data, call.strb)]
  /\ UNCHANGED <<call, rsp>>

(* The response of a write comes only after the write has taken effect. *)
WriteResponse ==
  /\ call.kind = "write"
  /\ call.addr \in Reg =>
       mem[call.addr] = Merge(mem[call.addr], call.data, call.strb)
  /\ call' = NoOp
  /\ UNCHANGED <<mem, rsp>>

ReadResponse ==
  /\ call.kind = "read"
  /\ rsp' = Content(call.addr)
  /\ call' = NoOp
  /\ UNCHANGED mem

Next == Request \/ Apply \/ WriteResponse \/ ReadResponse

Spec == Init /\ [][Next]_vars
==============================================================================
