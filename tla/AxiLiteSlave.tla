---------------------------- MODULE AxiLiteSlave ----------------------------
(***************************************************************************)
(* The AXI4-Lite register slave that rtl/clint.v, rtl/pmc.v and            *)
(* rtl/audio_pwm.v each contain, with the CPU's uncached load/store bridge *)
(* as its master.  One step is one rising edge of the bus clock: every     *)
(* always block of the slave and the master move together, from the values *)
(* the signals had before the edge.                                        *)
(*                                                                         *)
(* The master holds one access at a time (the bridge's tracker).  Its      *)
(* address and data beats are offered together but travel through the      *)
(* interconnect on separate channels, so each is held back for any number  *)
(* of cycles before the slave sees it.  WLeads says whether the            *)
(* interconnect may show the slave the data beat before the address beat.  *)
(***************************************************************************)
CONSTANTS Reg,       \* the register addresses the decoder's case lists
          Other,     \* the addresses of the window that it does not list
          Lane,      \* the byte lanes of a word, each with a write strobe
          Byte,      \* the values of one byte lane
          ZeroByte,  \* the reset value of a byte lane
          WLeads     \* may a data beat reach the slave before its address?

ASSUME AxiLiteAssumption ==
  /\ Reg \cap Other = {}
  /\ ZeroByte \in Byte
  /\ WLeads \in BOOLEAN

VARIABLES
  state_write, axi_awready, axi_wready, axi_bvalid, axi_awaddr,
  state_read, axi_arready, axi_rvalid, axi_araddr,
  regs,          \* the device control registers
  op,            \* the access the CPU bridge is waiting for, or NoOp
  aw, w, ar,     \* how far the interconnect has carried each of its beats
  rsp            \* the word the last read returned to the CPU

writeVars == <<state_write, axi_awready, axi_wready, axi_bvalid, axi_awaddr>>
readVars == <<state_read, axi_arready, axi_rvalid, axi_araddr>>
masterVars == <<op, aw, w, ar, rsp>>
vars == <<writeVars, readVars, regs, masterVars>>

-----------------------------------------------------------------------------
Addr == Reg \cup Other
Word == [Lane -> Byte]
ZeroWord == [l \in Lane |-> ZeroByte]

WriteOp == [kind : {"write"}, addr : Addr, data : Word, strb : SUBSET Lane]
ReadOp == [kind : {"read"}, addr : Addr]
NoOp == [kind |-> "none"]

(* A beat is not part of the access, held in the interconnect, offered to  *)
(* the slave, or accepted by it.                                           *)
Beat == {"idle", "held", "valid", "done"}

AWVALID == aw = "valid"
WVALID == w = "valid"
ARVALID == ar = "valid"

(* A wrong write block, that forgets the lanes it does not write.           *)
Merge_Slip(old, data, strb) == [l \in strb |-> data[l]]

Merge(old, data, strb) ==
  [l \in Lane |-> IF l \in strb THEN data[l] ELSE old[l]]

(* The read multiplexer: view gives the value behind every decoded address, *)
(* and every other address reads as zero.                                   *)
RDATA(view) ==
  IF axi_araddr \in DOMAIN view THEN view[axi_araddr] ELSE ZeroWord

-----------------------------------------------------------------------------
(* The registers as the synchronous reset leaves them.  axi_araddr is not   *)
(* reset: it holds whatever it held before.                                 *)
Init ==
  /\ state_write = "Idle" /\ state_read = "Idle"
  /\ axi_awready = FALSE /\ axi_wready = FALSE /\ axi_bvalid = FALSE
  /\ axi_awaddr \in Addr
  /\ axi_arready = FALSE /\ axi_rvalid = FALSE
  /\ axi_araddr \in Addr
  /\ regs = [r \in Reg |-> ZeroWord]
  /\ op = NoOp
  /\ aw = "idle" /\ w = "idle" /\ ar = "idle"
  /\ rsp = ZeroWord

-----------------------------------------------------------------------------
(* The write state machine.                                                 *)
WriteIdle ==
  /\ state_write = "Idle"
  /\ axi_awready' = TRUE
  /\ axi_wready' = TRUE
  /\ state_write' = "Waddr"
  /\ UNCHANGED <<axi_bvalid, axi_awaddr>>

(* A response is withdrawn once it is taken. *)
Acknowledge(BREADY) == axi_bvalid' = IF BREADY THEN FALSE ELSE axi_bvalid

(* Address and data arrive in the same cycle. *)
WaddrWithData ==
  /\ state_write = "Waddr"
  /\ AWVALID /\ axi_awready
  /\ WVALID
  /\ axi_awaddr' = op.addr
  /\ axi_awready' = TRUE
  /\ axi_bvalid' = TRUE
  /\ UNCHANGED <<state_write, axi_wready>>

(* A wrong response, sent for the address before the data has come.         *)
WaddrAlone_Slip(BREADY) ==
  /\ state_write = "Waddr"
  /\ AWVALID /\ axi_awready
  /\ ~WVALID
  /\ axi_awaddr' = op.addr
  /\ axi_awready' = FALSE
  /\ state_write' = "Wdata"
  /\ axi_bvalid' = TRUE
  /\ UNCHANGED axi_wready

(* The address arrives alone: the slave stops taking addresses until the    *)
(* data has come.                                                           *)
WaddrAlone(BREADY) ==
  /\ state_write = "Waddr"
  /\ AWVALID /\ axi_awready
  /\ ~WVALID
  /\ axi_awaddr' = op.addr
  /\ axi_awready' = FALSE
  /\ state_write' = "Wdata"
  /\ Acknowledge(BREADY)
  /\ UNCHANGED axi_wready

WaddrWait(BREADY) ==
  /\ state_write = "Waddr"
  /\ ~(AWVALID /\ axi_awready)
  /\ Acknowledge(BREADY)
  /\ UNCHANGED <<state_write, axi_awready, axi_wready, axi_awaddr>>

(* A wrong end of a write, that takes no further address.                   *)
WdataBeat_Slip ==
  /\ state_write = "Wdata"
  /\ WVALID
  /\ state_write' = "Waddr"
  /\ axi_bvalid' = TRUE
  /\ UNCHANGED <<axi_wready, axi_awready, axi_awaddr>>

WdataBeat ==
  /\ state_write = "Wdata"
  /\ WVALID
  /\ state_write' = "Waddr"
  /\ axi_bvalid' = TRUE
  /\ axi_awready' = TRUE
  /\ UNCHANGED <<axi_wready, axi_awaddr>>

WdataWait(BREADY) ==
  /\ state_write = "Wdata"
  /\ ~WVALID
  /\ Acknowledge(BREADY)
  /\ UNCHANGED <<state_write, axi_awready, axi_wready, axi_awaddr>>

WriteFsm(BREADY) ==
  \/ WriteIdle
  \/ WaddrWithData
  \/ WaddrAlone(BREADY)
  \/ WaddrWait(BREADY)
  \/ WdataBeat
  \/ WdataWait(BREADY)

(* The register write block looks at WVALID only, never at the state        *)
(* machine: it takes the address on the bus when there is one, else the     *)
(* latched one.                                                             *)
WriteAddr == IF AWVALID THEN op.addr ELSE axi_awaddr

RegisterWrite ==
  regs' = IF WVALID /\ WriteAddr \in Reg
            THEN [regs EXCEPT ![WriteAddr] = Merge(@, op.data, op.strb)]
            ELSE regs

-----------------------------------------------------------------------------
(* The read state machine.                                                  *)
ReadIdle ==
  /\ state_read = "Idle"
  /\ state_read' = "Raddr"
  /\ axi_arready' = TRUE
  /\ UNCHANGED <<axi_rvalid, axi_araddr>>

(* A wrong address beat, that stays ready for another address.              *)
RaddrBeat_Slip ==
  /\ state_read = "Raddr"
  /\ ARVALID /\ axi_arready
  /\ state_read' = "Rdata"
  /\ axi_araddr' = op.addr
  /\ axi_rvalid' = TRUE
  /\ UNCHANGED axi_arready

RaddrBeat ==
  /\ state_read = "Raddr"
  /\ ARVALID /\ axi_arready
  /\ state_read' = "Rdata"
  /\ axi_araddr' = op.addr
  /\ axi_rvalid' = TRUE
  /\ axi_arready' = FALSE

RaddrWait ==
  /\ state_read = "Raddr"
  /\ ~(ARVALID /\ axi_arready)
  /\ UNCHANGED readVars

RdataBeat(RREADY) ==
  /\ state_read = "Rdata"
  /\ axi_rvalid /\ RREADY
  /\ axi_rvalid' = FALSE
  /\ axi_arready' = TRUE
  /\ state_read' = "Raddr"
  /\ UNCHANGED axi_araddr

RdataWait(RREADY) ==
  /\ state_read = "Rdata"
  /\ ~(axi_rvalid /\ RREADY)
  /\ UNCHANGED readVars

ReadFsm(RREADY) ==
  \/ ReadIdle
  \/ RaddrBeat
  \/ RaddrWait
  \/ RdataBeat(RREADY)
  \/ RdataWait(RREADY)

-----------------------------------------------------------------------------
(* The CPU bridge and the interconnect behind it.                           *)

(* One beat moves at most one stage per cycle; an offered beat stays        *)
(* offered until the slave is ready.                                        *)
Carry(b, bNext, ready, mayOffer) ==
  \/ b \in {"idle", "done"} /\ bNext = b
  \/ b = "held" /\ bNext = "held"
  \/ b = "held" /\ mayOffer /\ bNext = "valid"
  \/ b = "valid" /\ bNext = IF ready THEN "done" ELSE "valid"

MayOfferW == WLeads \/ aw' \in {"valid", "done"}

MasterIdle ==
  /\ op = NoOp
  /\ UNCHANGED masterVars

IssueWrite ==
  /\ op = NoOp
  /\ op' \in WriteOp
  /\ aw' = "held" /\ w' = "held"
  /\ UNCHANGED <<ar, rsp>>

IssueRead ==
  /\ op = NoOp
  /\ op' \in ReadOp
  /\ ar' = "held"
  /\ UNCHANGED <<aw, w, rsp>>

Answered(BREADY, RREADY) ==
  \/ op.kind = "write" /\ axi_bvalid /\ BREADY
  \/ op.kind = "read" /\ axi_rvalid /\ RREADY

MasterWait(BREADY, RREADY) ==
  /\ op # NoOp
  /\ ~Answered(BREADY, RREADY)
  /\ Carry(aw, aw', axi_awready, TRUE)
  /\ Carry(w, w', axi_wready, MayOfferW)
  /\ Carry(ar, ar', axi_arready, TRUE)
  /\ UNCHANGED <<op, rsp>>

MasterAnswered(BREADY, RREADY, view) ==
  /\ op # NoOp
  /\ Answered(BREADY, RREADY)
  /\ op' = NoOp
  /\ aw' = "idle" /\ w' = "idle" /\ ar' = "idle"
  /\ rsp' = IF op.kind = "read" THEN RDATA(view) ELSE rsp

Master(BREADY, RREADY, view) ==
  \/ MasterIdle
  \/ IssueWrite
  \/ IssueRead
  \/ MasterWait(BREADY, RREADY)
  \/ MasterAnswered(BREADY, RREADY, view)

-----------------------------------------------------------------------------
(* One clock edge, with the interconnect ready to take a response or not.   *)
Slave(BREADY, RREADY) ==
  WriteFsm(BREADY) /\ RegisterWrite /\ ReadFsm(RREADY)

BusCycle(BREADY, RREADY, view) ==
  Slave(BREADY, RREADY) /\ Master(BREADY, RREADY, view)

Cycle(BREADY, RREADY) == BusCycle(BREADY, RREADY, regs)

Next == \E BREADY, RREADY \in BOOLEAN : Cycle(BREADY, RREADY)

(* While an access is open the clock runs, the interconnect delivers every  *)
(* beat it holds, and it takes every response it is offered.  Nothing is    *)
(* assumed of when the CPU issues an access.                                *)
ClockRuns == op # NoOp /\ Next
DeliverAw == aw = "held" /\ aw' = "valid" /\ Next
DeliverW == w = "held" /\ w' = "valid" /\ Next
DeliverAr == ar = "held" /\ ar' = "valid" /\ Next
TakeB == axi_bvalid /\ \E RREADY \in BOOLEAN : Cycle(TRUE, RREADY)
TakeR == axi_rvalid /\ \E BREADY \in BOOLEAN : Cycle(BREADY, TRUE)

Fairness ==
  /\ WF_vars(ClockRuns)
  /\ WF_vars(DeliverAw) /\ WF_vars(DeliverW) /\ WF_vars(DeliverAr)
  /\ WF_vars(TakeB) /\ WF_vars(TakeR)

Spec == Init /\ [][Next]_vars
FairSpec == Spec /\ Fairness

-----------------------------------------------------------------------------
TypeOK ==
  /\ state_write \in {"Idle", "Waddr", "Wdata"}
  /\ axi_awready \in BOOLEAN /\ axi_wready \in BOOLEAN /\ axi_bvalid \in BOOLEAN
  /\ axi_arready \in BOOLEAN /\ axi_rvalid \in BOOLEAN
  /\ state_read \in {"Idle", "Raddr", "Rdata"}
  /\ axi_awaddr \in Addr /\ axi_araddr \in Addr
  /\ regs \in [Reg -> Word]
  /\ op \in {NoOp} \cup WriteOp \cup ReadOp
  /\ aw \in Beat /\ w \in Beat /\ ar \in Beat
  /\ rsp \in Word

(* Where the write state machine stands against the access it serves: it   *)
(* waits for data exactly when it has the address and not the data, it has *)
(* that access's address then, and it owes a response exactly when both    *)
(* beats are in and the response has not been taken.                       *)
WriteTracksAccess ==
  /\ axi_wready <=> state_write # "Idle"
  /\ axi_awready <=> state_write = "Waddr"
  /\ state_write = "Idle" => aw # "done" /\ w # "done"
  /\ state_write = "Wdata" <=> aw = "done" /\ w # "done"
  /\ aw = "done" => axi_awaddr = op.addr
  /\ axi_bvalid <=> aw = "done" /\ w = "done"

(* Which beats are under way is decided by the access.                     *)
BeatsBelongToAccess ==
  /\ op.kind = "write" => aw # "idle" /\ w # "idle"
  /\ op.kind # "write" => aw = "idle" /\ w = "idle"
  /\ op.kind = "read" <=> ar # "idle"
  /\ w = "valid" => aw \in {"valid", "done"}
  /\ w = "done" => aw = "done"

(* The same for the read side.                                             *)
ReadTracksAccess ==
  /\ axi_rvalid <=> ar = "done"
  /\ state_read = "Rdata" <=> ar = "done"
  /\ axi_arready <=> state_read = "Raddr"
  /\ ar = "done" => axi_araddr = op.addr

(* Once the slave has taken the data beat, and so before it can answer, the *)
(* named register holds the strobed bytes of the data.                      *)
WrittenBeforeAnswer ==
  w = "done" /\ op.addr \in Reg =>
    regs[op.addr] = Merge(regs[op.addr], op.data, op.strb)

(* Both state machines and the beats stand where the open access has come   *)
(* to: no response is owed twice, dropped, owed to another access, or given *)
(* before the register holds what was written.                              *)
SlaveTracksAccess ==
  /\ WriteTracksAccess
  /\ ReadTracksAccess
  /\ BeatsBelongToAccess
  /\ WrittenBeforeAnswer

Inv ==
  /\ TypeOK
  /\ WriteTracksAccess
  /\ ReadTracksAccess
  /\ BeatsBelongToAccess

-----------------------------------------------------------------------------
RF == INSTANCE RegFile WITH mem <- regs, call <- op

(* Seen from the program, the slave is a register file: a write changes the *)
(* register it names and no other, under its byte strobes, before the write *)
(* response, and a read returns the register it names (register write block *)
(* and read multiplexer of clint.v, which look at bus signals of any age).  *)
ImplementsRegFile == RF!Spec

(* Every access the CPU issues is answered: no response is dropped or owed  *)
(* for ever.                                                                *)
AccessCompletes == (op # NoOp) ~> (op = NoOp)
=============================================================================
