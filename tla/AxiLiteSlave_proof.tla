------------------------- MODULE AxiLiteSlave_proof -------------------------
(***************************************************************************)
(* Proofs about AxiLiteSlave, for any registers, lanes and byte values, of *)
(* an interconnect that never shows the slave a data beat ahead of its     *)
(* address beat.                                                           *)
(***************************************************************************)
EXTENDS AxiLiteSlave, TLAPS

(* The assumption about the interconnect that the theorems below need: with *)
(* the data beat in front, the register write block would use the address   *)
(* of an earlier access.                                                    *)
AddressLeads == WLeads = FALSE

(* A word written under byte strobes is a word.                             *)
LEMMA MergeType ==
  ASSUME NEW old \in Word, NEW data \in Word, NEW strb
  PROVE  Merge(old, data, strb) \in Word
BY DEF Word, Merge

(* The reset value is a word.                                               *)
LEMMA ZeroType == ZeroWord \in Word
BY AxiLiteAssumption DEF Word, ZeroWord

(* No access in progress is not taken for a write or a read.                *)
LEMMA NoOpKind == /\ NoOp.kind = "none"
                  /\ NoOp \notin WriteOp
                  /\ NoOp \notin ReadOp
BY DEF NoOp, WriteOp, ReadOp

(* The registers, latches and beats have their types and follow the access  *)
(* in progress, in the state after reset.                                   *)
LEMMA InitInv == Init => Inv
<1> SUFFICES ASSUME Init PROVE Inv
  OBVIOUS
<1>1. TypeOK
  BY ZeroType, AxiLiteAssumption DEF Init, TypeOK, Beat
<1>2. WriteTracksAccess /\ ReadTracksAccess /\ BeatsBelongToAccess
  BY NoOpKind DEF Init, WriteTracksAccess, ReadTracksAccess, BeatsBelongToAccess
<1> QED
  BY <1>1, <1>2 DEF Inv

(* The write block leaves every register a word. *)
LEMMA RegisterWriteType ==
  ASSUME TypeOK, BeatsBelongToAccess, RegisterWrite
  PROVE  regs' \in [Reg -> Word]
<1>1. CASE WVALID /\ WriteAddr \in Reg
  <2>1. op \in WriteOp
    BY <1>1, NoOpKind DEF TypeOK, BeatsBelongToAccess, WVALID, WriteOp,
       ReadOp, NoOp, Beat
  <2>2. op.data \in Word
    BY <2>1 DEF WriteOp
  <2>3. Merge(regs[WriteAddr], op.data, op.strb) \in Word
    BY <1>1, <2>2, MergeType DEF TypeOK
  <2> QED
    BY <1>1, <2>3 DEF RegisterWrite, TypeOK
<1>2. CASE ~(WVALID /\ WriteAddr \in Reg)
  BY <1>2 DEF RegisterWrite, TypeOK
<1> QED
  BY <1>1, <1>2

(* The write latches and the read latches keep their types, whatever the    *)
(* master does.                                                             *)
LEMMA LatchTypes ==
  ASSUME Inv, NEW BREADY \in BOOLEAN, NEW RREADY \in BOOLEAN,
         WriteFsm(BREADY), ReadFsm(RREADY)
  PROVE  /\ state_write' \in {"Idle", "Waddr", "Wdata"}
         /\ axi_awready' \in BOOLEAN /\ axi_wready' \in BOOLEAN
         /\ axi_bvalid' \in BOOLEAN
         /\ axi_awaddr' \in Addr
         /\ state_read' \in {"Idle", "Raddr", "Rdata"}
         /\ axi_arready' \in BOOLEAN /\ axi_rvalid' \in BOOLEAN
         /\ axi_araddr' \in Addr
<1>1. AWVALID => op.addr \in Addr
  BY NoOpKind DEF Inv, TypeOK, BeatsBelongToAccess, AWVALID, WriteOp, ReadOp
<1>2. ARVALID => op.addr \in Addr
  BY NoOpKind DEF Inv, TypeOK, BeatsBelongToAccess, ARVALID, WriteOp, ReadOp
<1>3. /\ state_write' \in {"Idle", "Waddr", "Wdata"}
      /\ axi_awready' \in BOOLEAN /\ axi_wready' \in BOOLEAN
      /\ axi_bvalid' \in BOOLEAN
      /\ axi_awaddr' \in Addr
  BY <1>1 DEF Inv, TypeOK, WriteFsm, WriteIdle, WaddrWithData, WaddrAlone,
         WaddrWait, WdataBeat, WdataWait, Acknowledge
<1>4. /\ state_read' \in {"Idle", "Raddr", "Rdata"}
      /\ axi_arready' \in BOOLEAN /\ axi_rvalid' \in BOOLEAN
      /\ axi_araddr' \in Addr
  BY <1>2 DEF Inv, TypeOK, ReadFsm, ReadIdle, RaddrBeat, RaddrWait,
         RdataBeat, RdataWait, readVars
<1> QED
  BY <1>3, <1>4

(* What a read multiplexer may show: words.                                 *)
ShowsWords(view) == \A a \in DOMAIN view : view[a] \in Word

(* The master's part of the type invariant, whatever words reads return. *)
LEMMA MasterTypes ==
  ASSUME Inv, NEW view, ShowsWords(view),
         NEW BREADY \in BOOLEAN, NEW RREADY \in BOOLEAN,
         Master(BREADY, RREADY, view)
  PROVE  /\ op' \in {NoOp} \cup WriteOp \cup ReadOp
         /\ aw' \in Beat /\ w' \in Beat /\ ar' \in Beat
         /\ rsp' \in Word
<1>1. RDATA(view) \in Word
  BY ZeroType DEF ShowsWords, RDATA
<1> QED
  BY <1>1 DEF Inv, TypeOK, Beat, Master, MasterIdle, IssueWrite, IssueRead,
         MasterWait, MasterAnswered, Carry, masterVars

(* One clock edge keeps every type.                                         *)
LEMMA CycleTypeOK ==
  ASSUME Inv, NEW view, ShowsWords(view),
         NEW BREADY \in BOOLEAN, NEW RREADY \in BOOLEAN,
         BusCycle(BREADY, RREADY, view)
  PROVE  TypeOK'
<1>1. /\ WriteFsm(BREADY) /\ RegisterWrite /\ ReadFsm(RREADY)
      /\ Master(BREADY, RREADY, view)
  BY DEF BusCycle, Slave
<1>2. regs' \in [Reg -> Word]
  BY <1>1, RegisterWriteType DEF Inv
<1> QED
  BY <1>1, <1>2, LatchTypes, MasterTypes DEF TypeOK

(* A beat is in after this edge if it was, or if it is accepted on it.      *)
AwIn == aw = "done" \/ (aw = "valid" /\ axi_awready)
WIn == w = "done" \/ (w = "valid" /\ axi_wready)
ArIn == ar = "done" \/ (ar = "valid" /\ axi_arready)

(* What one edge of the write state machine does to the write latches.      *)
LEMMA WriteFsmTracks ==
  ASSUME Inv, NEW BREADY \in BOOLEAN, WriteFsm(BREADY)
  PROVE  /\ axi_wready'
         /\ state_write' # "Idle"
         /\ axi_awready' <=> state_write' = "Waddr"
         /\ state_write' = "Wdata" <=> AwIn /\ ~WIn
         /\ axi_bvalid' <=> AwIn /\ WIn /\ ~(axi_bvalid /\ BREADY)
         /\ AwIn => axi_awaddr' = op.addr
<1> USE DEF Inv, TypeOK, Beat, WriteTracksAccess, BeatsBelongToAccess, AwIn, WIn,
            AWVALID, WVALID
<1>1. CASE WriteIdle
  BY <1>1 DEF WriteIdle
<1>2. CASE WaddrWithData
  BY <1>2 DEF WaddrWithData
<1>3. CASE WaddrAlone(BREADY)
  BY <1>3 DEF WaddrAlone, Acknowledge
<1>4. CASE WaddrWait(BREADY)
  BY <1>4 DEF WaddrWait, Acknowledge
<1>5. CASE WdataBeat
  BY <1>5 DEF WdataBeat
<1>6. CASE WdataWait(BREADY)
  BY <1>6 DEF WdataWait, Acknowledge
<1> QED
  BY <1>1, <1>2, <1>3, <1>4, <1>5, <1>6 DEF WriteFsm

(* What one edge of the read state machine does to the read latches.        *)
LEMMA ReadFsmTracks ==
  ASSUME Inv, NEW RREADY \in BOOLEAN, ReadFsm(RREADY)
  PROVE  /\ axi_arready' <=> state_read' = "Raddr"
         /\ state_read' = "Rdata" <=> axi_rvalid'
         /\ axi_rvalid' <=> ArIn /\ ~(axi_rvalid /\ RREADY)
         /\ axi_rvalid' => axi_araddr' = op.addr
<1> USE DEF Inv, TypeOK, Beat, ReadTracksAccess, ArIn, ARVALID, readVars
<1>1. CASE ReadIdle
  BY <1>1 DEF ReadIdle
<1>2. CASE RaddrBeat
  BY <1>2 DEF RaddrBeat
<1>3. CASE RaddrWait
  BY <1>3 DEF RaddrWait
<1>4. CASE RdataBeat(RREADY)
  BY <1>4 DEF RdataBeat
<1>5. CASE RdataWait(RREADY)
  BY <1>5 DEF RdataWait
<1> QED
  BY <1>1, <1>2, <1>3, <1>4, <1>5 DEF ReadFsm

(* Every cycle keeps the invariant: one step per move of the master.        *)
LEMMA BusCycleInv ==
  ASSUME AddressLeads, Inv, NEW view, ShowsWords(view),
         NEW BREADY \in BOOLEAN, NEW RREADY \in BOOLEAN,
         BusCycle(BREADY, RREADY, view)
  PROVE  Inv'
<1>1. WriteFsm(BREADY) /\ ReadFsm(RREADY) /\ Master(BREADY, RREADY, view)
  BY DEF BusCycle, Slave
<1>2. TypeOK'
  BY CycleTypeOK
<1> USE <1>1, WriteFsmTracks, ReadFsmTracks, NoOpKind
    DEF AwIn, WIn, ArIn, Beat, BeatsBelongToAccess
<1>3. CASE MasterIdle
  <2>1. WriteTracksAccess'
    BY <1>3 DEF Inv, TypeOK, WriteTracksAccess, ReadTracksAccess, MasterIdle,
       masterVars
  <2>2. ReadTracksAccess'
    BY <1>3 DEF Inv, TypeOK, WriteTracksAccess, ReadTracksAccess, MasterIdle,
       masterVars
  <2>3. BeatsBelongToAccess'
    BY <1>3 DEF Inv, TypeOK, MasterIdle, masterVars
  <2> QED
    BY <1>2, <2>1, <2>2, <2>3 DEF Inv
<1>4. CASE IssueWrite
  <2>1. WriteTracksAccess'
    BY <1>4 DEF Inv, TypeOK, WriteTracksAccess, ReadTracksAccess, IssueWrite,
       WriteOp
  <2>2. ReadTracksAccess'
    BY <1>4 DEF Inv, TypeOK, WriteTracksAccess, ReadTracksAccess, IssueWrite,
       WriteOp
  <2>3. BeatsBelongToAccess'
    BY <1>4 DEF Inv, TypeOK, IssueWrite, WriteOp
  <2> QED
    BY <1>2, <2>1, <2>2, <2>3 DEF Inv
<1>5. CASE IssueRead
  <2>1. WriteTracksAccess'
    BY <1>5 DEF Inv, TypeOK, WriteTracksAccess, ReadTracksAccess, IssueRead,
       ReadOp
  <2>2. ReadTracksAccess'
    BY <1>5 DEF Inv, TypeOK, WriteTracksAccess, ReadTracksAccess, IssueRead,
       ReadOp
  <2>3. BeatsBelongToAccess'
    BY <1>5 DEF Inv, TypeOK, IssueRead, ReadOp
  <2> QED
    BY <1>2, <2>1, <2>2, <2>3 DEF Inv
<1>6. CASE MasterWait(BREADY, RREADY)
  <2>1. WriteTracksAccess'
    BY <1>6 DEF Inv, TypeOK, WriteTracksAccess, ReadTracksAccess, MasterWait,
       Carry, MayOfferW, Answered, AddressLeads, WriteOp, ReadOp
  <2>2. ReadTracksAccess'
    BY <1>6 DEF Inv, TypeOK, WriteTracksAccess, ReadTracksAccess, MasterWait,
       Carry, MayOfferW, Answered, AddressLeads, WriteOp, ReadOp
  <2>3. BeatsBelongToAccess'
    BY <1>6 DEF Inv, TypeOK, WriteTracksAccess, MasterWait, Carry, MayOfferW,
       Answered, AddressLeads, WriteOp, ReadOp
  <2> QED
    BY <1>2, <2>1, <2>2, <2>3 DEF Inv
<1>7. CASE MasterAnswered(BREADY, RREADY, view)
  <2>1. WriteTracksAccess'
    BY <1>7 DEF Inv, TypeOK, WriteTracksAccess, ReadTracksAccess,
       MasterAnswered, Answered
  <2>2. ReadTracksAccess'
    BY <1>7 DEF Inv, TypeOK, WriteTracksAccess, ReadTracksAccess,
       MasterAnswered, Answered
  <2>3. BeatsBelongToAccess'
    BY <1>7 DEF Inv, TypeOK, MasterAnswered, Answered
  <2> QED
    BY <1>2, <2>1, <2>2, <2>3 DEF Inv
<1> QED
  BY <1>3, <1>4, <1>5, <1>6, <1>7 DEF Master

(* So does a cycle of the slave that shows its registers.                   *)
LEMMA CycleInv ==
  ASSUME AddressLeads, Inv, NEW BREADY \in BOOLEAN, NEW RREADY \in BOOLEAN,
         Cycle(BREADY, RREADY)
  PROVE  Inv'
BY BusCycleInv DEF Cycle, ShowsWords, Inv, TypeOK

(* The access in progress always finds the slave in step with it: no        *)
(* address is stale, no response is early, late or owed twice (clint.v,     *)
(* write and read state machines).                                          *)
THEOREM Invariance ==
  ASSUME AddressLeads PROVE Spec => []Inv
<1>1. Init => Inv
  BY InitInv
<1>2. Inv /\ [Next]_vars => Inv'
  <2> SUFFICES ASSUME Inv, [Next]_vars PROVE Inv'
    OBVIOUS
  <2>1. CASE Next
    BY <2>1, CycleInv DEF Next
  <2>2. CASE UNCHANGED vars
    BY <2>2 DEF vars, writeVars, readVars, masterVars, Inv, TypeOK,
         WriteTracksAccess, ReadTracksAccess, BeatsBelongToAccess
  <2> QED
    BY <2>1, <2>2
<1> QED
  BY <1>1, <1>2, PTL DEF Spec

-----------------------------------------------------------------------------
(* A data beat on the bus is written to the register its own access names.  *)
LEMMA WriteLands ==
  ASSUME Inv, RegisterWrite
  PROVE  \/ UNCHANGED regs
         \/ /\ op.kind = "write"
            /\ op.addr \in Reg
            /\ regs' = [regs EXCEPT ![op.addr] = Merge(@, op.data, op.strb)]
<1>1. WVALID => op.kind = "write" /\ WriteAddr = op.addr
  BY NoOpKind DEF Inv, TypeOK, WriteTracksAccess, BeatsBelongToAccess, WVALID,
         AWVALID, WriteAddr, Beat
<1> QED
  BY <1>1 DEF RegisterWrite

(* Writing the same strobed bytes twice changes nothing the second time.    *)
LEMMA MergeTwice ==
  ASSUME NEW old \in Word, NEW data \in Word, NEW strb
  PROVE  Merge(Merge(old, data, strb), data, strb) = Merge(old, data, strb)
BY DEF Word, Merge

(* One clock edge leaves no write answered before it is in its register.    *)
LEMMA CycleWritten ==
  ASSUME Inv, WrittenBeforeAnswer, AddressLeads, NEW view,
         NEW BREADY \in BOOLEAN, NEW RREADY \in BOOLEAN,
         BusCycle(BREADY, RREADY, view)
  PROVE  WrittenBeforeAnswer'
<1>1. RegisterWrite /\ Master(BREADY, RREADY, view)
  BY DEF BusCycle, Slave
<1>2. SUFFICES ASSUME w' = "done", op'.addr \in Reg
               PROVE  regs'[op'.addr] = Merge(regs'[op'.addr], op'.data, op'.strb)
  BY DEF WrittenBeforeAnswer
<1>3. /\ op' = op
      /\ w = "done" \/ w = "valid"
  BY <1>1, <1>2, NoOpKind
  DEF Master, MasterIdle, IssueWrite, IssueRead, MasterWait, MasterAnswered,
      Carry, masterVars, Inv, TypeOK, BeatsBelongToAccess, Beat, NoOp
<1>4. op \in WriteOp
  BY <1>3, NoOpKind DEF Inv, TypeOK, BeatsBelongToAccess, Beat, ReadOp, NoOp
<1>5. op.data \in Word /\ regs[op.addr] \in Word
  BY <1>2, <1>3, <1>4 DEF WriteOp, Inv, TypeOK
<1>6. CASE WVALID
  <2>1. WriteAddr = op.addr
    BY <1>6 DEF Inv, WriteTracksAccess, BeatsBelongToAccess, WVALID, AWVALID,
           WriteAddr
  <2>2. regs' = [regs EXCEPT ![op.addr] = Merge(@, op.data, op.strb)]
    BY <1>1, <1>2, <1>3, <1>6, <2>1 DEF RegisterWrite
  <2>3. regs'[op.addr] = Merge(regs[op.addr], op.data, op.strb)
    BY <1>2, <1>3, <2>2 DEF Inv, TypeOK
  <2> QED
    BY <1>3, <1>5, <2>3, MergeTwice
<1>7. CASE ~WVALID
  BY <1>1, <1>2, <1>3, <1>7 DEF RegisterWrite, WVALID, WrittenBeforeAnswer
<1> QED
  BY <1>6, <1>7

(* A write is visible in its register before the slave can answer it.       *)
THEOREM WrittenInvariance ==
  ASSUME AddressLeads PROVE Spec => []WrittenBeforeAnswer
<1>1. Init => WrittenBeforeAnswer
  BY DEF Init, WrittenBeforeAnswer
<1>2. Inv /\ WrittenBeforeAnswer /\ [Next]_vars => WrittenBeforeAnswer'
  BY CycleWritten
  DEF Next, Cycle, vars, masterVars, WrittenBeforeAnswer
<1> QED
  BY <1>1, <1>2, Invariance, PTL DEF Spec

(* State machines, beats and registers have their types.                    *)
THEOREM TypeCorrect ==
  ASSUME AddressLeads PROVE Spec => []TypeOK
<1>1. Inv => TypeOK
  BY DEF Inv
<1> QED
  BY <1>1, Invariance, PTL

(* State machines, beats and registers stand where the open access is.      *)
THEOREM Tracking ==
  ASSUME AddressLeads PROVE Spec => []SlaveTracksAccess
<1>1. Inv /\ WrittenBeforeAnswer => SlaveTracksAccess
  BY DEF Inv, SlaveTracksAccess
<1> QED
  BY <1>1, Invariance, WrittenInvariance, PTL

-----------------------------------------------------------------------------
(* Every clock edge is one step of the register file, or none.              *)
LEMMA CycleRefines ==
  ASSUME Inv, WrittenBeforeAnswer,
         NEW BREADY \in BOOLEAN, NEW RREADY \in BOOLEAN, Cycle(BREADY, RREADY)
  PROVE  [RF!Next]_(RF!vars)
<1> USE DEF RF!Next, RF!vars, RF!NoOp, NoOp
<1>1. RegisterWrite /\ Master(BREADY, RREADY, regs)
  BY DEF Cycle, BusCycle, Slave
<1>2. ~WVALID => UNCHANGED regs
  BY <1>1 DEF RegisterWrite
<1>3. CASE MasterIdle \/ IssueWrite \/ IssueRead
  <2>1. UNCHANGED <<regs, rsp>>
    BY <1>2, <1>3, NoOpKind
    DEF MasterIdle, IssueWrite, IssueRead, masterVars, WVALID, Inv,
        BeatsBelongToAccess
  <2> QED
    BY <1>3, <2>1
    DEF MasterIdle, IssueWrite, IssueRead, masterVars, RF!Request, RF!WriteOp,
        RF!ReadOp, RF!Word, WriteOp, ReadOp, Word, Addr
<1>4. CASE MasterWait(BREADY, RREADY)
  <2>1. UNCHANGED <<op, rsp>>
    BY <1>4 DEF MasterWait
  <2> QED
    BY <1>1, <2>1, WriteLands DEF RF!Apply, RF!Merge, Merge
<1>5. CASE MasterAnswered(BREADY, RREADY, regs)
  <2>1. ~WVALID
    BY <1>5, NoOpKind
    DEF MasterAnswered, Answered, WVALID, Inv, TypeOK, WriteTracksAccess,
        BeatsBelongToAccess
  <2>2. CASE op.kind = "write"
    <3>1. w = "done"
      BY <1>5, <2>2 DEF MasterAnswered, Answered, Inv, WriteTracksAccess
    <3> QED
      BY <1>2, <1>5, <2>1, <2>2, <3>1
      DEF MasterAnswered, RF!WriteResponse, WrittenBeforeAnswer, RF!Merge, Merge
  <2>3. CASE op.kind = "read"
    <3>1. axi_araddr = op.addr
      BY <1>5, <2>3
      DEF MasterAnswered, Answered, Inv, ReadTracksAccess
    <3>2. RDATA(regs) = RF!Content(op.addr)
      BY <3>1 DEF RDATA, RF!Content, Inv, TypeOK, RF!ZeroWord, ZeroWord
    <3> QED
      BY <1>2, <1>5, <2>1, <2>3, <3>2 DEF MasterAnswered, RF!ReadResponse
  <2> QED
    BY <1>5, <2>2, <2>3 DEF MasterAnswered, Answered
<1> QED
  BY <1>1, <1>3, <1>4, <1>5 DEF Master

(* The slave implements the register file its programs believe in.          *)
THEOREM Refinement ==
  ASSUME AddressLeads PROVE Spec => ImplementsRegFile
<1>1. Init => RF!Init
  BY DEF Init, RF!Init, RF!ZeroWord, ZeroWord, RF!NoOp, NoOp
<1>2. Inv /\ WrittenBeforeAnswer /\ [Next]_vars => [RF!Next]_(RF!vars)
  BY CycleRefines DEF Next, vars, masterVars, RF!vars
<1> QED
  BY <1>1, <1>2, Invariance, WrittenInvariance, PTL
  DEF Spec, ImplementsRegFile, RF!Spec
=============================================================================
