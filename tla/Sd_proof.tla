------------------------------- MODULE Sd_proof -------------------------------
(***************************************************************************)
(* The SD controller, for any commands, timeouts and lengths, and any      *)
(* ratio of the two clocks from two up.                                    *)
(*                                                                         *)
(* The command path.  A command goes through stages: it is issued, its     *)
(* start crosses to the card clock, it is executed, its status crosses     *)
(* back, and its clear crosses to the card clock.  What makes this safe is *)
(* that the pulses are slow: every stage begins only when software has     *)
(* seen the end of the one before, and a crossing takes longer than        *)
(* anything that the card's side still has to do - except the serial       *)
(* host's reset, which bounds INIT_DELAY.                                  *)
(*                                                                         *)
(* The data path.  The pointers of a FIFO are counts of words modulo twice *)
(* its depth, and each side knows an old count of the other.  Behind them  *)
(* stand counts that only grow: taken <= known <= given <= taken + DEPTH,  *)
(* and word n lies in cell n from when it is given until it is taken.  To  *)
(* the card a word is taken before its last bits are sent: the bus has to  *)
(* be slow enough to leave it in its cell that long.  From the card the    *)
(* filler needs time for every word: the bus has to be fast enough to take *)
(* the last one before the FIFO is switched off.                           *)
(***************************************************************************)
EXTENDS MCSd, Integers, TLAPS

(* What the registers of the two clocks can hold (the type invariant).      *)
AnyCommand == [tag : Tag, kind : {"silent", "busy", "read", "write"}, timeout : Nat]
Answer == Tag \cup {"none", "bad"}
Report == [status : SUBSET Flag, response : Answer]
HostState == {"INIT", "IDLE", "SETUP_CRC", "WRITE", "READ_WAIT", "READ",
              "FINISH_WO", "FINISH_WR"}

WbTypeOK ==
  /\ phase \in {"ready", "waiting", "answered", "clearing"}
  /\ bus \in {"none", "argument", "cmd_isr"}
  /\ seen \in Report
  /\ wb \in [cmd : AnyCommand, ack : BOOLEAN, start : BOOLEAN, clear : BOOLEAN,
             startSig : BOOLEAN \X BOOLEAN, clearSig : BOOLEAN \X BOOLEAN,
             startLevel : BOOLEAN, clearLevel : BOOLEAN]
  /\ wbStatus \in Report \X Report

CrossTypeOK ==
  /\ cmdSync \in AnyCommand \X AnyCommand
  /\ startSync \in BOOLEAN \X BOOLEAN \X BOOLEAN
  /\ clearSync \in BOOLEAN \X BOOLEAN \X BOOLEAN
  /\ since \in 0 .. 2

CardTypeOK ==
  /\ master \in [state : {"IDLE", "EXECUTE", "BUSY_CHECK"}, status : SUBSET Flag,
                 cmd : AnyCommand, watchdog : Nat, go_idle : BOOLEAN,
                 start_xfr : BOOLEAN, response : Answer]
  /\ host \in [state : HostState, counter : Nat, finish : BOOLEAN, cmd : AnyCommand,
               response : Answer, answer : {"none", "good", "bad crc", "bad index"}]
  /\ trig \in [state : {"IDLE", "WAIT_FOR_CMD_INT", "TRIGGER_XFER"},
               r_w : BOOLEAN, start_tx : BOOLEAN, start_rx : BOOLEAN]
  /\ transfers \in Nat

SdTypeOK == WbTypeOK /\ CrossTypeOK /\ CardTypeOK

(* Types after an edge of the bus clock.                                    *)
LEMMA WbTypes ==
  ASSUME SdTypeOK, WbEdge
  PROVE  WbTypeOK' /\ since' \in 0 .. 2
<1> USE DEF SdTypeOK, WbTypeOK, CrossTypeOK, CardTypeOK
<1>1. phase' \in {"ready", "waiting", "answered", "clearing"}
      /\ bus' \in {"none", "argument", "cmd_isr"} /\ seen' \in Report
  BY DEF WbEdge, Software, Issue, Finish, Poll, Clear, Cleared, Rest, software
<1>2. since' \in 0 .. 2
  <2>1. since' = IF since < 2 THEN since + 1 ELSE 2
    BY DEF WbEdge
  <2> HIDE DEF WbTypeOK, CardTypeOK
  <2> QED BY <2>1
<1>3. ASSUME NEW c \in AnyCommand
      PROVE wbNext(c) \in [cmd : AnyCommand, ack : BOOLEAN, start : BOOLEAN, clear : BOOLEAN,
           startSig : BOOLEAN \X BOOLEAN, clearSig : BOOLEAN \X BOOLEAN,
           startLevel : BOOLEAN, clearLevel : BOOLEAN]
  BY DEF wbNext, Writes
<1>4. wb' \in [cmd : AnyCommand, ack : BOOLEAN, start : BOOLEAN, clear : BOOLEAN,
           startSig : BOOLEAN \X BOOLEAN, clearSig : BOOLEAN \X BOOLEAN,
           startLevel : BOOLEAN, clearLevel : BOOLEAN]
  <2>1. PICK c \in NextCommand \cup {wb.cmd} : wb' = wbNext(c)
    BY DEF WbEdge
  <2>2. c \in AnyCommand
    BY <2>1, SdAssumption DEF NextCommand, Command, AnyCommand
  <2> QED
    BY <1>3, <2>1, <2>2
<1>5. wbStatus' \in Report \X Report
  BY DEF WbEdge, Report, int_status_o
<1> QED
  BY <1>1, <1>2, <1>4, <1>5

(* Types of sd_cmd_master's registers after an edge of the card clock.      *)
LEMMA MasterType ==
  ASSUME SdTypeOK
  PROVE  masterNext \in [state : {"IDLE", "EXECUTE", "BUSY_CHECK"}, status : SUBSET Flag,
                 cmd : AnyCommand, watchdog : Nat, go_idle : BOOLEAN,
                 start_xfr : BOOLEAN, response : Answer]
<1> USE DEF SdTypeOK, WbTypeOK, CrossTypeOK, CardTypeOK
<1> DEFINE M == [state : {"IDLE", "EXECUTE", "BUSY_CHECK"}, status : SUBSET Flag,
               cmd : AnyCommand, watchdog : Nat, go_idle : BOOLEAN,
               start_xfr : BOOLEAN, response : Answer]
<1>1. masterIdle \in M
  BY DEF masterIdle, command_i
<1>2. masterExecute \in M
  <2>1. Count \in Nat
    <3>1. master.watchdog \in Nat OBVIOUS
    <3> HIDE DEF SdTypeOK
    <3> QED BY <3>1 DEF Count
  <2>2. AnswerStatus \in SUBSET Flag /\ {"CTE", "EI"} \in SUBSET Flag
     BY DEF AnswerStatus, Flag
  <2>3. host.response \in Answer /\ TimedOut \in BOOLEAN
     BY DEF TimedOut
  <2>4. master \in M OBVIOUS
  <2>5. /\ master.status \cup {"CTE", "EI"} \in SUBSET Flag
        /\ master.status \cup AnswerStatus \in SUBSET Flag
    BY <2>2, <2>4
  <2> HIDE DEF SdTypeOK, CardTypeOK
  <2> QED BY <2>1, <2>3, <2>4, <2>5 DEF masterExecute
<1>3. masterBusy \in M
  BY DEF masterBusy
<1> QED
  <2>1. master.state \in {"IDLE", "EXECUTE", "BUSY_CHECK"} OBVIOUS
  <2> HIDE DEF SdTypeOK, WbTypeOK, CrossTypeOK
  <2> QED BY <2>1, <1>1, <1>2, <1>3 DEF masterNext

(* Counters stay natural numbers.                                           *)
LEMMA Successor == \A i \in Nat : i + 1 \in Nat
OBVIOUS

(* Types of sd_cmd_serial_host's registers after an edge of the card clock. *)
LEMMA HostType ==
  ASSUME SdTypeOK, NEW low \in BOOLEAN, NEW quality \in {"good", "bad crc", "bad index"}
  PROVE  hostNext(low, quality) \in [state : HostState, counter : Nat, finish : BOOLEAN, cmd : AnyCommand,
               response : Answer, answer : {"none", "good", "bad crc", "bad index"}]
<1> USE DEF SdTypeOK, CardTypeOK
<1> DEFINE H == [state : HostState, counter : Nat, finish : BOOLEAN, cmd : AnyCommand,
             response : Answer, answer : {"none", "good", "bad crc", "bad index"}]
<1>1. hostStep(low, quality) \in H
  <2>1. host \in H /\ host.counter + 1 \in Nat
    <3>1. host \in H /\ host.counter \in Nat
      OBVIOUS
    <3> QED
      BY <3>1, Successor
  <2>2. host.cmd.tag \in Answer /\ {"none", "bad"} \subseteq Answer
    BY DEF Answer, AnyCommand
  <2> HIDE DEF SdTypeOK
  <2>3. host.state \in HostState BY <2>1
  <2>4. CASE host.state = "INIT" BY <2>1, <2>4 DEF hostStep, HostState
  <2>5. CASE host.state = "IDLE" BY <2>1, <2>2, <2>5 DEF hostStep, HostState
  <2>6. CASE host.state \in {"SETUP_CRC", "WRITE"} BY <2>1, <2>6 DEF hostStep, HostState
  <2>7. CASE host.state \in {"READ_WAIT", "READ"} BY <2>1, <2>7 DEF hostStep, HostState
  <2>8. CASE host.state = "FINISH_WO" BY <2>1, <2>8 DEF hostStep, HostState
  <2>9. CASE host.state = "FINISH_WR" BY <2>1, <2>2, <2>9 DEF hostStep, HostState
  <2> QED BY <2>3, <2>4, <2>5, <2>6, <2>7, <2>8, <2>9 DEF HostState
<1>2. hostReset \in H
  BY DEF hostReset, HostState, Answer, AnyCommand, Tag
<1> QED
  BY <1>1, <1>2 DEF hostNext

(* Types where only the card moves.                                         *)
LEMMA SameTypes ==
  ASSUME SdTypeOK,
         UNCHANGED <<phase, seen, bus, wb, wbStatus, since, cmdSync, startSync,
                     clearSync, master, host, trig, transfers>>
  PROVE  SdTypeOK'
<1>1. WbTypeOK'
  BY DEF SdTypeOK, WbTypeOK
<1>2. CrossTypeOK'
  BY DEF SdTypeOK, CrossTypeOK
<1>3. CardTypeOK'
  BY DEF SdTypeOK, CardTypeOK
<1> QED
  BY <1>1, <1>2, <1>3 DEF SdTypeOK

(* The type invariant is inductive.                                         *)
LEMMA Types == SdTypeOK /\ [Next]_vars => SdTypeOK'
<1> SUFFICES ASSUME SdTypeOK, [Next]_vars PROVE SdTypeOK'
  OBVIOUS
<1>1. CASE WbEdge
  <2>1. UNCHANGED <<cmdSync, startSync, clearSync, master, host, trig, transfers>>
    BY <1>1 DEF WbEdge, sd
  <2>2. CrossTypeOK'
    BY <2>1, <1>1, WbTypes DEF SdTypeOK, CrossTypeOK
  <2>3. CardTypeOK'
    BY <2>1 DEF SdTypeOK, CardTypeOK
  <2> QED
    BY <2>2, <2>3, <1>1, WbTypes DEF SdTypeOK
<1>2. CASE SdEdge
  <2>1. WbTypeOK'
    BY <1>2 DEF SdEdge, software, WbTypeOK, SdTypeOK
  <2>2. CrossTypeOK'
    <3> USE DEF SdTypeOK, WbTypeOK, CrossTypeOK
    <3>1. cmdSync' \in AnyCommand \X AnyCommand
      BY <1>2 DEF SdEdge
    <3>2. startSync' \in BOOLEAN \X BOOLEAN \X BOOLEAN
      BY <1>2 DEF SdEdge
    <3>3. clearSync' \in BOOLEAN \X BOOLEAN \X BOOLEAN
      BY <1>2 DEF SdEdge
    <3>4. since' \in 0 .. 2
      <4>1. since' = 0 BY <1>2 DEF SdEdge
      <4> HIDE DEF SdTypeOK
      <4> QED BY <4>1
    <3> QED
      BY <3>1, <3>2, <3>3, <3>4
  <2>3. CardTypeOK'
    <3>1. PICK low \in BOOLEAN, quality \in {"good", "bad crc", "bad index"} :
            host' = hostNext(low, quality)
      BY <1>2 DEF SdEdge
    <3>2. master' = masterNext /\ trig' = trigNext
      BY <1>2 DEF SdEdge
    <3>3. trigNext \in [state : {"IDLE", "WAIT_FOR_CMD_INT", "TRIGGER_XFER"},
             r_w : BOOLEAN, start_tx : BOOLEAN, start_rx : BOOLEAN]
      BY DEF SdTypeOK, CardTypeOK, trigNext, trigIdle, trigWait, trigXfer
    <3>4. transfers' \in Nat
      <4>1. transfers' = IF start_i THEN 0
                ELSE IF trig.state = "TRIGGER_XFER" THEN transfers + 1
                ELSE transfers
        BY <1>2 DEF SdEdge
      <4>2. transfers \in Nat
        BY DEF SdTypeOK, CardTypeOK
      <4> QED BY <4>1, <4>2, Successor
    <3> QED
      BY <3>1, <3>2, <3>3, <3>4, MasterType, HostType DEF CardTypeOK
  <2> QED
    BY <2>1, <2>2, <2>3 DEF SdTypeOK
<1>3. CASE CardReady
  <2>1. UNCHANGED <<phase, seen, bus, wb, wbStatus, since, cmdSync, startSync,
                    clearSync, master, host, trig, transfers>>
    BY <1>3 DEF CardReady, software
  <2> QED
    BY <2>1, SameTypes
<1>4. CASE UNCHANGED vars
  <2>1. UNCHANGED <<phase, seen, bus, wb, wbStatus, since, cmdSync, startSync,
                    clearSync, master, host, trig, transfers>>
    BY <1>4 DEF vars, software, sd
  <2> QED
    BY <2>1, SameTypes
<1> QED
  BY <1>1, <1>2, <1>3, <1>4 DEF Next
-----------------------------------------------------------------------------
(* A write of register reg, n bus edges after its strobe went up: the strobe*)
(* for two edges, the pulse for two, and one behind the other the two       *)
(* flip-flops of the edge detector. At n = 3 the level has just changed.    *)
Writing(n, reg, on, sig) ==
  /\ bus = IF n <= 1 THEN reg ELSE "none"
  /\ wb.ack <=> n = 1
  /\ on <=> n \in {1, 2}
  /\ sig[1] <=> n \in {2, 3}
  /\ sig[2] <=> n \in {3, 4}

(* The level has come through k of the three flip-flops of the crossing.    *)
Reached(k, level, sync) ==
  /\ (sync[1] <=> level) <=> k >= 1
  /\ (sync[2] <=> level) <=> k >= 2
  /\ (sync[3] <=> level) <=> k >= 3

(* How far the write and the crossing can be from each other: the level     *)
(* changes between n = 2 and n = 3, a card edge takes it one flip-flop on,  *)
(* and two bus edges lie between two card edges.                            *)
Crossing(n, k) ==
  /\ n <= 2 => k = 3
  /\ n >= 3 => k <= 2
  /\ k = 1 => n >= 3 + since
  /\ k = 2 => n = 5

(* No start and no clear is on its way.                                     *)
StartQuiet == /\ ~wb.start /\ ~wb.startSig[1] /\ ~wb.startSig[2]
              /\ Reached(3, wb.startLevel, startSync)
ClearQuiet == /\ ~wb.clear /\ ~wb.clearSig[1] /\ ~wb.clearSig[2]
              /\ Reached(3, wb.clearLevel, clearSync)
BusQuiet == bus = "none" /\ ~wb.ack /\ StartQuiet /\ ClearQuiet

(* What the two status stages bring to the bus; what they would bring.      *)
NothingShown == wbStatus[1].status = {} /\ wbStatus[2].status = {}
Shown == [status |-> master.status, response |-> master.response]

(* The card's side rests. If the serial host is in its reset, it has counted*)
(* to c at least.                                                           *)
SdQuiet(c) ==
  /\ master.state = "IDLE" /\ master.status = {}
  /\ ~master.go_idle /\ ~master.start_xfr
  /\ host.state \in {"INIT", "IDLE"} /\ ~host.finish
  /\ host.state = "INIT" => host.counter >= c
  /\ trig.state = "IDLE" /\ ~trig.start_tx

(* The data transfers that a command with this status has started, when all *)
(* is done.                                                                 *)
TransfersFinal(s) ==
  transfers = IF wb.cmd.kind = "read" THEN 1
              ELSE IF wb.cmd.kind = "write" /\ "CC" \in s THEN 1 ELSE 0

(* What software must be able to rely on in a status that is not empty      *)
(* (AnswerMatchesCommand, on the master's registers).                       *)
Final(s) ==
  /\ ("CC" \in s) # ("CTE" \in s)
  /\ "CTE" \in s => wb.cmd.timeout > 0
  /\ "CC" \in s \/ "EI" \in s
  /\ "CC" \in s /\ ExpectsResponse(wb.cmd) =>
       \/ master.response = wb.cmd.tag
       \/ master.response = "bad" /\ (Checked(wb.cmd) => "EI" \in s)

(* Software may issue a command: nothing is left of the one before.         *)
Ready ==
  /\ phase = "ready" /\ BusQuiet /\ NothingShown /\ SdQuiet(2)
  /\ TransfersFinal(seen.status)

(* The argument register is being written, or its pulse is crossing. The    *)
(* command has passed its own crossing before the pulse has passed the third*)
(* flip-flop, and by then the serial host has counted for four card cycles. *)
Issuing(n, k) ==
  /\ phase = "waiting" /\ NothingShown /\ ClearQuiet
  /\ Writing(n, "argument", wb.start, wb.startSig)
  /\ Reached(k, wb.startLevel, startSync)
  /\ Crossing(n, k)
  /\ SdQuiet(IF n <= 2 THEN 2 ELSE 2 + k)
  /\ n >= 3 /\ k >= 1 => cmdSync[1] = wb.cmd
  /\ k = 2 => cmdSync[2] = wb.cmd

(* The command is in the master, and software polls.                        *)
InHand ==
  /\ cmdSync[1] = wb.cmd /\ cmdSync[2] = wb.cmd /\ master.cmd = wb.cmd
  /\ phase = "waiting" /\ BusQuiet /\ NothingShown
  /\ ~trig.start_tx

(* The trigger, while the command has not ended.                            *)
TrigExecuting ==
  CASE wb.cmd.kind = "read" -> IF master.start_xfr
                      THEN trig.state = "TRIGGER_XFER" /\ trig.r_w /\ transfers = 0
                      ELSE trig.state = "IDLE" /\ transfers = 1
    [] wb.cmd.kind = "write" -> trig.state = "WAIT_FOR_CMD_INT" /\ ~trig.r_w /\ transfers = 0
    [] OTHER -> trig.state = "IDLE" /\ transfers = 0

(* The three parts of EXECUTE: the master has just started; the watchdog has*)
(* expired and the serial host is back in its reset; the serial host is at  *)
(* work or has just finished.                                               *)
Started ==
  /\ master.start_xfr /\ ~master.go_idle /\ master.watchdog = 0 /\ master.status = {}
  /\ host.state = "IDLE" /\ ~host.finish
Expired ==
  /\ ~master.start_xfr /\ master.go_idle /\ TimedOut
  /\ master.status = {"CTE", "EI"}
  /\ host.state = "INIT" /\ ~host.finish
Served ==
  /\ ~master.start_xfr /\ ~master.go_idle /\ master.status = {}
  /\ host.cmd = master.cmd
  /\ host.state \in HostState \ {"INIT"}
  /\ host.finish <=> host.state = "IDLE"
  /\ host.state = "FINISH_WO" => ~ExpectsResponse(wb.cmd)
  /\ host.finish /\ ExpectsResponse(wb.cmd) =>
       \/ host.answer = "good" /\ host.response = wb.cmd.tag
       \/ host.answer \in {"bad crc", "bad index"} /\ host.response = "bad"

(* The command is being carried out.                                        *)
Executing ==
  /\ InHand /\ master.state = "EXECUTE" /\ TrigExecuting
  /\ Started \/ Expired \/ Served

(* The master has a final status and the serial host is at rest or in its   *)
(* reset.                                                                   *)
Ended ==
  /\ ~master.start_xfr /\ Final(master.status)
  /\ host.state \in {"INIT", "IDLE"} /\ ~host.finish

(* The master waits for DAT0, which only a busy command does.               *)
Busy ==
  /\ InHand /\ master.state = "BUSY_CHECK" /\ wb.cmd.kind = "busy"
  /\ Ended
  /\ trig.state = "IDLE" /\ transfers = 0

(* The trigger may be three card edges behind the master: it sees the status*)
(* of a write, starts the transfer, and rests.                              *)
TrigEnded ==
  LET cc == "CC" \in master.status
  IN \/ /\ TransfersFinal(master.status) /\ trig.state = "IDLE"
        /\ trig.start_tx => cc
     \/ /\ wb.cmd.kind = "write" /\ transfers = 0 /\ ~trig.start_tx /\ ~trig.r_w
        /\ trig.state = "WAIT_FOR_CMD_INT" \/ (trig.state = "TRIGGER_XFER" /\ cc)

(* The master is idle with its final status, which it shows.                *)
Delivered == Ended /\ TrigEnded /\ master.state = "IDLE"

(* The bus has seen the status as it is.                                    *)
BothShown == wbStatus[1] = Shown /\ wbStatus[2] = Shown /\ seen = Shown

(* The status is on its way to software, or software has read it.           *)
Done ==
  /\ Delivered /\ BusQuiet
  /\ \/ /\ phase = "waiting"
        /\ wbStatus[1] = Shown \/ wbStatus[1].status = {}
        /\ (wbStatus[2] = Shown /\ wbStatus[1] = Shown) \/ wbStatus[2].status = {}
     \/ phase = "answered" /\ BothShown

(* The status register is being cleared, or the pulse is crossing. No clear *)
(* arrives in the one cycle in which the watchdog's reset is still up, nor  *)
(* while the trigger waits for the status.                                  *)
Clearing(n, k) ==
  /\ phase = "clearing" /\ StartQuiet /\ BothShown /\ Delivered
  /\ Writing(n, "cmd_isr", wb.clear, wb.clearSig)
  /\ Reached(k, wb.clearLevel, clearSync)
  /\ Crossing(n, k)
  /\ n >= 3 /\ k >= 1 => ~master.go_idle /\ trig.state # "WAIT_FOR_CMD_INT"
  /\ k = 2 => (host.state = "INIT" => host.counter >= 1) /\ trig.state = "IDLE"

(* The master has cleared its status; the bus has still to see that.        *)
Drained ==
  /\ phase = "clearing" /\ BusQuiet /\ SdQuiet(2)
  /\ wbStatus[2].status = {} => wbStatus[1].status = {}
  /\ TransfersFinal(seen.status)

-----------------------------------------------------------------------------
(* What an edge of the bus clock does to each register (sd_controller_wb.v, *)
(* edge_detect.v, monostable_domain_cross.v, bistable_domain_cross.v).      *)
LEMMA BusWires ==
  ASSUME SdTypeOK, WbEdge
  PROVE  /\ Software
         /\ wb'.ack <=> bus # "none" /\ ~wb.ack
         /\ wb'.start <=> bus = "argument"
         /\ wb'.clear <=> bus = "cmd_isr"
         /\ wb'.startSig[1] <=> wb.start
         /\ wb'.startSig[2] <=> wb.startSig[1]
         /\ wb'.clearSig[1] <=> wb.clear
         /\ wb'.clearSig[2] <=> wb.clearSig[1]
         /\ wb'.startLevel <=> ~ (wb.startLevel <=> (wb.startSig[1] /\ ~wb.startSig[2]))
         /\ wb'.clearLevel <=> ~ (wb.clearLevel <=> (wb.clearSig[1] /\ ~wb.clearSig[2]))
         /\ bus # "argument" \/ wb.ack => wb'.cmd = wb.cmd
         /\ wbStatus'[1] = [status |-> int_status_o(master), response |-> master.response]
         /\ wbStatus'[2] = wbStatus[1]
         /\ since' = IF since < 2 THEN since + 1 ELSE 2
         /\ UNCHANGED <<cmdSync, startSync, clearSync, master, host, trig, transfers>>
<1>1. PICK c : wb' = wbNext(c) /\ (bus # "argument" \/ wb.ack => c = wb.cmd)
  BY DEF WbEdge, Writes
<1>2. /\ wb.startLevel \in BOOLEAN /\ wb.clearLevel \in BOOLEAN
      /\ wb.startSig[1] \in BOOLEAN /\ wb.startSig[2] \in BOOLEAN
      /\ wb.clearSig[1] \in BOOLEAN /\ wb.clearSig[2] \in BOOLEAN
  BY DEF SdTypeOK, WbTypeOK
<1>3. /\ wb'.startLevel <=> ~ (wb.startLevel <=> (wb.startSig[1] /\ ~wb.startSig[2]))
      /\ wb'.clearLevel <=> ~ (wb.clearLevel <=> (wb.clearSig[1] /\ ~wb.clearSig[2]))
  BY <1>1, <1>2 DEF wbNext, Rise
<1>4. /\ wb'.ack <=> bus # "none" /\ ~wb.ack
      /\ wb'.start <=> bus = "argument"
      /\ wb'.clear <=> bus = "cmd_isr"
      /\ wb'.startSig[1] <=> wb.start
      /\ wb'.startSig[2] <=> wb.startSig[1]
      /\ wb'.clearSig[1] <=> wb.clear
      /\ wb'.clearSig[2] <=> wb.clearSig[1]
      /\ bus # "argument" \/ wb.ack => wb'.cmd = wb.cmd
  BY <1>1 DEF wbNext, Writes
<1>5. /\ wbStatus'[1] = [status |-> int_status_o(master), response |-> master.response]
      /\ wbStatus'[2] = wbStatus[1]
      /\ since' = IF since < 2 THEN since + 1 ELSE 2
      /\ Software
      /\ UNCHANGED <<cmdSync, startSync, clearSync, master, host, trig, transfers>>
  BY DEF WbEdge, sd
<1> QED
  BY <1>3, <1>4, <1>5

(* What an edge of the card clock does to the crossings, and when the two   *)
(* pulses reach the master.                                                 *)
LEMMA CardWires ==
  ASSUME SdTypeOK, SdEdge
  PROVE  /\ since = 2 /\ since' = 0
         /\ cmdSync'[1] = wb.cmd /\ cmdSync'[2] = cmdSync[1]
         /\ startSync'[1] = wb.startLevel
         /\ startSync'[2] = startSync[1]
         /\ startSync'[3] = startSync[2]
         /\ clearSync'[1] = wb.clearLevel
         /\ clearSync'[2] = clearSync[1]
         /\ clearSync'[3] = clearSync[2]
         /\ start_i <=> ~ (startSync[3] <=> startSync[2])
         /\ int_status_rst_i <=> ~ (clearSync[3] <=> clearSync[2])
         /\ UNCHANGED <<phase, seen, bus, wb, wbStatus>>
<1>1. /\ start_i <=> ~ (startSync[3] <=> startSync[2])
      /\ int_status_rst_i <=> ~ (clearSync[3] <=> clearSync[2])
  BY DEF SdTypeOK, CrossTypeOK, start_i, int_status_rst_i
<1> QED
  BY <1>1 DEF SdEdge, software

(* sd_cmd_master in IDLE.                                                   *)
LEMMA MasterAtIdle ==
  ASSUME SdTypeOK, SdEdge, master.state = "IDLE"
  PROVE  /\ master'.state = IF start_i THEN "EXECUTE" ELSE "IDLE"
         /\ ~master'.go_idle
         /\ master'.cmd = cmdSync[2]
         /\ master'.watchdog = 0
         /\ master'.start_xfr <=> start_i \/ master.start_xfr
         /\ master'.status = IF start_i \/ int_status_rst_i THEN {} ELSE master.status
         /\ master'.response = master.response
<1>1. master' = IF int_status_rst_i THEN [masterIdle EXCEPT !.status = {}] ELSE masterIdle
  BY DEF SdEdge, masterNext
<1> QED
  BY <1>1 DEF masterIdle, command_i, SdTypeOK, CardTypeOK

(* sd_cmd_serial_host in INIT or IDLE, when it is not being reset.          *)
LEMMA HostAtRest ==
  ASSUME SdTypeOK, SdEdge, host.state \in {"INIT", "IDLE"}, ~master.go_idle, ~master'.go_idle
  PROVE  /\ host'.state = IF host.state = "INIT"
                          THEN IF host.counter >= INIT_DELAY THEN "IDLE" ELSE "INIT"
                          ELSE IF master.start_xfr THEN "SETUP_CRC" ELSE "IDLE"
         /\ host.state = "INIT" => host'.counter = host.counter + 1
         /\ host'.finish => host.state = "INIT" /\ host.finish
         /\ host'.cmd = IF master.start_xfr THEN master.cmd ELSE host.cmd
<1>1. PICK low, quality : host' = hostNext(low, quality)
  BY DEF SdEdge
<1>2. ~masterNext.go_idle
  BY DEF SdEdge
<1>3. host' = [hostStep(low, quality) EXCEPT !.cmd = IF master.start_xfr THEN master.cmd ELSE @]
  BY <1>1, <1>2 DEF hostNext
<1>4. CASE host.state = "INIT"
  BY <1>3, <1>4 DEF hostStep, SdTypeOK, CardTypeOK, InitDone
<1>5. CASE host.state = "IDLE"
  BY <1>3, <1>5 DEF hostStep, SdTypeOK, CardTypeOK
<1> QED
  BY <1>4, <1>5

(* go_idle_o resets the serial host at once, in the cycle in which it rises *)
(* and in the next.                                                         *)
LEMMA HostReset ==
  ASSUME SdTypeOK, SdEdge, master.go_idle \/ master'.go_idle
  PROVE  host'.state = "INIT" /\ host'.counter = 0 /\ ~host'.finish
<1>1. PICK low, quality : host' = hostNext(low, quality)
  BY DEF SdEdge
<1>2. master' = masterNext
  BY DEF SdEdge
<1> QED
  BY <1>1, <1>2 DEF hostNext, hostReset

(* sd_data_xfer_trig in IDLE.                                               *)
LEMMA TrigAtIdle ==
  ASSUME SdTypeOK, SdEdge, trig.state = "IDLE"
  PROVE  /\ trig'.state = IF start_i /\ cmdSync[2].kind = "read" THEN "TRIGGER_XFER"
             ELSE IF start_i /\ cmdSync[2].kind = "write" THEN "WAIT_FOR_CMD_INT"
             ELSE "IDLE"
         /\ trig'.r_w <=> cmdSync[2].kind = "read"
         /\ ~trig'.start_tx
         /\ transfers' = IF start_i THEN 0 ELSE transfers
BY DEF SdEdge, trigNext, trigIdle, command_i

(* While the card's side rests it goes on resting, and its reset goes on    *)
(* counting.                                                                *)
LEMMA QuietStep ==
  ASSUME SdTypeOK, SdEdge, NEW c \in Nat, SdQuiet(c), ~start_i
  PROVE  SdQuiet(c + 1)' /\ transfers' = transfers
<1>1. /\ master'.state = "IDLE" /\ ~master'.go_idle /\ ~master'.start_xfr
      /\ master'.status = {}
  BY MasterAtIdle DEF SdQuiet
<1>2. /\ host'.state \in {"INIT", "IDLE"} /\ ~host'.finish
      /\ host'.state = "INIT" => host'.counter >= c + 1
  <2>1. host.counter \in Nat
    BY DEF SdTypeOK, CardTypeOK
  <2> QED
    BY <1>1, <2>1, HostAtRest DEF SdQuiet
<1>3. trig'.state = "IDLE" /\ ~trig'.start_tx /\ transfers' = transfers
  BY TrigAtIdle DEF SdQuiet
<1> QED
  BY <1>1, <1>2, <1>3 DEF SdQuiet

(* A start that finds the card's side at rest for four card cycles starts   *)
(* the master, and finds the serial host ready for it.                      *)
LEMMA StartStep ==
  ASSUME SdTypeOK, SdEdge, INIT_DELAY <= 4, SdQuiet(4), start_i, ~int_status_rst_i,
         cmdSync[2] = wb.cmd
  PROVE  /\ master'.state = "EXECUTE" /\ master'.cmd = wb.cmd /\ Started'
         /\ TrigExecuting' /\ ~trig'.start_tx
<1>1. /\ master'.state = "EXECUTE" /\ ~master'.go_idle /\ master'.start_xfr
      /\ master'.cmd = wb.cmd /\ master'.watchdog = 0 /\ master'.status = {}
  BY MasterAtIdle DEF SdQuiet
<1>2. host'.state = "IDLE" /\ ~host'.finish
  <2>1. host.counter \in Nat /\ INIT_DELAY \in Nat
    BY SdAssumption DEF SdTypeOK, CardTypeOK
  <2> QED
    BY <1>1, <2>1, HostAtRest DEF SdQuiet
<1>3. /\ trig'.state = IF wb.cmd.kind = "read" THEN "TRIGGER_XFER"
           ELSE IF wb.cmd.kind = "write" THEN "WAIT_FOR_CMD_INT"
           ELSE "IDLE"
      /\ trig'.r_w <=> wb.cmd.kind = "read"
      /\ ~trig'.start_tx
      /\ transfers' = 0
  BY TrigAtIdle DEF SdQuiet
<1>4. wb' = wb
  BY CardWires
<1> QED
  BY <1>1, <1>2, <1>3, <1>4 DEF Started, TrigExecuting

(* sd_cmd_master in EXECUTE.                                                *)
LEMMA MasterAtExecute ==
  ASSUME SdTypeOK, SdEdge, master.state = "EXECUTE", ~int_status_rst_i
  PROVE  /\ master'.state = IF master.go_idle THEN "IDLE"
                  ELSE IF ~host.finish THEN "EXECUTE"
                  ELSE IF master.cmd.kind = "busy" THEN "BUSY_CHECK" ELSE "IDLE"
         /\ ~master'.start_xfr
         /\ master'.cmd = master.cmd
         /\ master'.watchdog = Count
         /\ master'.go_idle <=> master.go_idle \/ TimedOut
         /\ master'.status = IF TimedOut THEN master.status \cup {"CTE", "EI"}
                   ELSE IF host.finish THEN master.status \cup AnswerStatus ELSE master.status
         /\ master'.response = IF ~TimedOut /\ host.finish /\ ExpectsResponse(master.cmd)
                     THEN host.response ELSE master.response
<1>1. master' = masterExecute
  BY DEF SdEdge, masterNext
<1> QED
  BY <1>1 DEF masterExecute, SdTypeOK, CardTypeOK

(* The serial host between its start and its end: an answer comes with a    *)
(* command that expects one, and what it says of the answer is what arrived.*)
LEMMA HostAtWork ==
  ASSUME SdTypeOK, SdEdge, ~master.go_idle, ~master'.go_idle, ~master.start_xfr,
         host.state \in HostState \ {"INIT", "IDLE"},
         host.state = "FINISH_WO" => ~ExpectsResponse(host.cmd),
         ~host.finish
  PROVE  /\ host'.cmd = host.cmd
         /\ host'.state \in HostState \ {"INIT"}
         /\ host'.state = "IDLE" <=> host'.finish
         /\ host'.state = "FINISH_WO" => ~ExpectsResponse(host.cmd)
         /\ host'.finish /\ ExpectsResponse(host.cmd) =>
              \/ host'.answer = "good" /\ host'.response = host.cmd.tag
              \/ host'.answer \in {"bad crc", "bad index"} /\ host'.response = "bad"
<1>1. PICK low \in BOOLEAN, quality \in {"good", "bad crc", "bad index"} :
        host' = hostNext(low, quality)
  BY DEF SdEdge
<1>2. ~masterNext.go_idle
  BY DEF SdEdge
<1>3. host' = [hostStep(low, quality) EXCEPT
                 !.cmd = IF master.start_xfr THEN master.cmd ELSE @]
  BY <1>1, <1>2 DEF hostNext
<1>4. CASE host.state \in {"SETUP_CRC", "FINISH_WO"}
  BY <1>3, <1>4 DEF hostStep, SdTypeOK, CardTypeOK, HostState
<1>5. CASE host.state = "READ_WAIT"
  BY <1>3, <1>5 DEF hostStep, SdTypeOK, CardTypeOK, HostState
<1>6. CASE host.state = "READ"
  BY <1>3, <1>6 DEF hostStep, SdTypeOK, CardTypeOK, HostState
<1>7. CASE host.state = "WRITE"
  BY <1>3, <1>7 DEF hostStep, SdTypeOK, CardTypeOK, HostState
<1>8. CASE host.state = "FINISH_WR"
  BY <1>3, <1>8 DEF hostStep, SdTypeOK, CardTypeOK, HostState
<1> QED
  BY <1>4, <1>5, <1>6, <1>7, <1>8 DEF HostState

(* sd_data_xfer_trig in its other states, and where it stays.               *)
LEMMA TrigAtWork ==
  ASSUME SdTypeOK, SdEdge, ~start_i
  PROVE  /\ trig.state = "TRIGGER_XFER" =>
              /\ trig'.state = "IDLE" /\ (trig'.start_tx <=> ~trig.r_w)
              /\ transfers' = transfers + 1
         /\ trig.state = "WAIT_FOR_CMD_INT" =>
              /\ trig'.state = IF "CC" \in int_status_o(master) THEN "TRIGGER_XFER"
                         ELSE IF "EI" \in int_status_o(master) THEN "IDLE"
                         ELSE "WAIT_FOR_CMD_INT"
              /\ ~trig'.start_tx /\ trig'.r_w = trig.r_w
              /\ transfers' = transfers
         /\ trig.state = "IDLE" =>
              /\ trig'.state = "IDLE" /\ ~trig'.start_tx
              /\ transfers' = transfers
<1>1. trig' = trigNext /\ transfers' = IF start_i THEN 0
                ELSE IF trig.state = "TRIGGER_XFER" THEN transfers + 1
                ELSE transfers
  BY DEF SdEdge
<1>2. CASE trig.state = "TRIGGER_XFER"
  BY <1>1, <1>2 DEF trigNext, trigXfer, SdTypeOK, CardTypeOK
<1>3. CASE trig.state = "WAIT_FOR_CMD_INT"
  BY <1>1, <1>3 DEF trigNext, trigWait, SdTypeOK, CardTypeOK
<1>4. CASE trig.state = "IDLE"
  BY <1>1, <1>4 DEF trigNext, trigIdle, SdTypeOK, CardTypeOK
<1> QED
  BY <1>2, <1>3, <1>4

(* While the master executes it shows no status, so the trigger of a write  *)
(* waits.                                                                   *)
LEMMA TrigAtExecute ==
  ASSUME SdTypeOK, SdEdge, ~start_i, wb' = wb, master.state = "EXECUTE", TrigExecuting,
         ~trig.start_tx, ~master'.start_xfr
  PROVE  TrigExecuting' /\ ~trig'.start_tx
<1>1. wb.cmd.kind \in {"silent", "busy", "read", "write"} /\ int_status_o(master) = {}
  BY DEF SdTypeOK, WbTypeOK, AnyCommand, int_status_o
<1>2. CASE wb.cmd.kind = "read"
  <2>1. CASE trig.state = "TRIGGER_XFER"
    BY <1>2, <2>1, TrigAtWork DEF TrigExecuting
  <2>2. CASE trig.state = "IDLE"
    BY <1>2, <2>2, TrigAtWork DEF TrigExecuting
  <2> QED
    BY <1>2, <2>1, <2>2 DEF TrigExecuting
<1>3. CASE wb.cmd.kind = "write"
  BY <1>1, <1>3, TrigAtWork DEF TrigExecuting
<1>4. CASE wb.cmd.kind \in {"silent", "busy"}
  BY <1>4, TrigAtWork DEF TrigExecuting
<1> QED
  BY <1>1, <1>2, <1>3, <1>4

(* The cycle after the master's start: the serial host takes the command and*)
(* the watchdog cannot have expired yet.                                    *)
LEMMA StartedStep ==
  ASSUME SdTypeOK, SdEdge, InHand, master.state = "EXECUTE", TrigExecuting, Started
  PROVE  /\ master'.state = "EXECUTE" /\ master'.cmd = wb.cmd /\ TrigExecuting'
         /\ (~trig'.start_tx) /\ Served'
<1>1. ~start_i /\ ~int_status_rst_i /\ wb' = wb
  BY CardWires DEF InHand, BusQuiet, StartQuiet, ClearQuiet, Reached
<1>2. ~TimedOut
  <2>1. master.cmd.timeout \in Nat
    BY DEF SdTypeOK, CardTypeOK, AnyCommand
  <2>2. master.watchdog = 0
    BY DEF Started
  <2> QED
    BY ONLY <2>1, <2>2 DEF TimedOut
<1>3. /\ master'.state = "EXECUTE" /\ ~master'.start_xfr /\ ~master'.go_idle
      /\ master'.status = {} /\ master'.cmd = wb.cmd
  BY <1>1, <1>2, MasterAtExecute DEF Started, InHand
<1>4. host'.state = "SETUP_CRC" /\ ~host'.finish /\ host'.cmd = master.cmd
  BY <1>3, HostAtRest DEF Started
<1>5. TrigExecuting' /\ ~trig'.start_tx
  BY <1>1, <1>3, TrigAtExecute DEF InHand
<1> QED
  BY <1>1, <1>3, <1>4, <1>5 DEF Served, InHand, HostState

(* A cycle in which the serial host is at work, the watchdog expires, or the*)
(* answer is there - or the last two at once.                               *)
LEMMA ServedStep ==
  ASSUME SdTypeOK, SdEdge, InHand, master.state = "EXECUTE", TrigExecuting, Served
  PROVE  /\ TrigExecuting' /\ ~trig'.start_tx /\ master'.cmd = wb.cmd /\ ~master'.start_xfr
         /\ \/ master'.state = "EXECUTE" /\ (Served' \/ Expired')
            \/ /\ Ended'
               /\ \/ master'.state = "BUSY_CHECK" /\ wb.cmd.kind = "busy"
                  \/ master'.state = "IDLE"
<1>1. ~start_i /\ ~int_status_rst_i /\ wb' = wb
  BY CardWires DEF InHand, BusQuiet, StartQuiet, ClearQuiet, Reached
<1>2. ~master'.start_xfr /\ master'.cmd = wb.cmd
  BY <1>1, MasterAtExecute DEF InHand
<1>3. TrigExecuting' /\ ~trig'.start_tx
  BY <1>1, <1>2, TrigAtExecute DEF InHand
<1>4. CASE ~host.finish /\ ~TimedOut
  <2>1. /\ master'.state = "EXECUTE" /\ ~master'.go_idle /\ master'.status = {}
    BY <1>1, <1>4, MasterAtExecute DEF Served
  <2>2. Served'
    BY <1>1, <1>2, <1>4, <2>1, HostAtWork DEF Served, InHand
  <2> QED
    BY <1>2, <1>3, <2>1, <2>2
<1>5. CASE ~host.finish /\ TimedOut
  <2>1. /\ master'.state = "EXECUTE" /\ master'.go_idle /\ master'.status = {"CTE", "EI"}
        /\ master'.watchdog = master.watchdog /\ master'.cmd = master.cmd
    BY <1>1, <1>5, MasterAtExecute DEF Served, Count
  <2>2. Expired'
    BY <1>2, <1>5, <2>1, HostReset DEF Expired, TimedOut
  <2> QED
    BY <1>2, <1>3, <2>1, <2>2
<1>6. CASE host.finish
  <2>1. /\ host'.state \in {"INIT", "IDLE"} /\ ~host'.finish
    <3>1. host.state = "IDLE"
      BY <1>6 DEF Served
    <3>2. CASE master'.go_idle
      BY <3>2, HostReset
    <3>3. CASE ~master'.go_idle
      BY <3>1, <3>3, HostAtRest DEF Served
    <3> QED
      BY <3>2, <3>3
  <2>2. Final(master.status)'
    <3>1. CASE TimedOut
      <4>1. master'.status = {"CTE", "EI"}
        BY <1>1, <3>1, MasterAtExecute DEF Served
      <4>2. wb.cmd.timeout > 0
        BY <3>1 DEF TimedOut, InHand
      <4> QED
        BY <1>1, <4>1, <4>2 DEF Final
    <3>2. CASE ~TimedOut
      <4>1. /\ master'.status = AnswerStatus
            /\ ExpectsResponse(wb.cmd) => master'.response = host.response
        BY <1>1, <1>6, <3>2, MasterAtExecute DEF Served, InHand
      <4>2. /\ "CC" \in AnswerStatus /\ "CTE" \notin AnswerStatus
            /\ Checked(wb.cmd) /\ host.answer \in {"bad crc", "bad index"} =>
                 "EI" \in AnswerStatus
        BY DEF AnswerStatus, InHand
      <4>3. ExpectsResponse(wb.cmd) =>
              \/ host.answer = "good" /\ host.response = wb.cmd.tag
              \/ host.answer \in {"bad crc", "bad index"} /\ host.response = "bad"
        BY <1>6 DEF Served
      <4> QED
        BY <1>1, <4>1, <4>2, <4>3 DEF Final
    <3> QED
      BY <3>1, <3>2
  <2>3. \/ master'.state = "BUSY_CHECK" /\ wb.cmd.kind = "busy"
        \/ master'.state = "IDLE"
    BY <1>1, <1>6, MasterAtExecute DEF Served, InHand
  <2> QED
    BY <1>2, <1>3, <2>1, <2>2, <2>3 DEF Ended
<1> QED
  BY <1>4, <1>5, <1>6

(* The cycle after the watchdog's: the master is idle again.                *)
LEMMA ExpiredStep ==
  ASSUME SdTypeOK, SdEdge, InHand, master.state = "EXECUTE", TrigExecuting, Expired
  PROVE  /\ TrigExecuting' /\ ~trig'.start_tx /\ master'.cmd = wb.cmd /\ ~master'.start_xfr
         /\ Ended' /\ master'.state = "IDLE"
<1>1. ~start_i /\ ~int_status_rst_i /\ wb' = wb
  BY CardWires DEF InHand, BusQuiet, StartQuiet, ClearQuiet, Reached
<1>2. /\ ~master'.start_xfr /\ master'.cmd = wb.cmd /\ master'.state = "IDLE"
      /\ master'.status = {"CTE", "EI"}
  BY <1>1, MasterAtExecute DEF InHand, Expired
<1>3. TrigExecuting' /\ ~trig'.start_tx
  BY <1>1, <1>2, TrigAtExecute DEF InHand
<1>4. host'.state = "INIT" /\ ~host'.finish
  BY HostReset DEF Expired
<1>5. wb.cmd.timeout > 0
  BY DEF Expired, TimedOut, InHand
<1>6. Final(master.status)'
  BY <1>1, <1>2, <1>5 DEF Final
<1> QED
  BY <1>2, <1>3, <1>4, <1>6 DEF Ended

(* A cycle in which the master waits for DAT0.                              *)
LEMMA BusyStep ==
  ASSUME SdTypeOK, SdEdge, Busy
  PROVE  /\ Ended' /\ master'.cmd = wb.cmd
         /\ trig'.state = "IDLE" /\ transfers' = 0 /\ ~trig'.start_tx
         /\ master'.state \in {"BUSY_CHECK", "IDLE"}
<1>1. ~start_i /\ ~int_status_rst_i /\ wb' = wb
  BY CardWires DEF Busy, InHand, BusQuiet, StartQuiet, ClearQuiet, Reached
<1>2. master' = masterBusy
  BY <1>1 DEF SdEdge, masterNext, Busy
<1>3. /\ master'.state \in {"BUSY_CHECK", "IDLE"} /\ ~master'.start_xfr
      /\ ~master'.go_idle /\ master'.cmd = wb.cmd /\ master'.status = master.status
      /\ master'.response = master.response
  BY <1>2 DEF masterBusy, SdTypeOK, CardTypeOK, Busy, InHand
<1>4. host'.state \in {"INIT", "IDLE"} /\ ~host'.finish
  <2>1. CASE master.go_idle
    BY <2>1, HostReset
  <2>2. CASE ~master.go_idle
    BY <1>3, <2>2, HostAtRest DEF Busy, Ended
  <2> QED
    BY <2>1, <2>2
<1>5. trig'.state = "IDLE" /\ ~trig'.start_tx /\ transfers' = 0
  BY <1>1, TrigAtWork DEF Busy
<1> QED
  BY <1>1, <1>3, <1>4, <1>5 DEF Busy, Ended, Final

(* With a final status the master keeps still until a clear arrives.        *)
LEMMA DeliveredCore ==
  ASSUME SdTypeOK, SdEdge, Delivered, ~start_i
  PROVE  /\ wb' = wb /\ master'.state = "IDLE" /\ ~master'.go_idle /\ ~master'.start_xfr
         /\ master'.response = master.response
         /\ master'.status = IF int_status_rst_i THEN {} ELSE master.status
         /\ host'.state \in {"INIT", "IDLE"} /\ ~host'.finish
         /\ ~master.go_idle /\ host'.state = "INIT" =>
              /\ host.state = "INIT"
              /\ host'.counter = host.counter + 1
<1>1. wb' = wb
  BY CardWires
<1>2. /\ master'.state = "IDLE" /\ ~master'.go_idle /\ ~master'.start_xfr
      /\ master'.response = master.response
      /\ master'.status = IF int_status_rst_i THEN {} ELSE master.status
  BY MasterAtIdle DEF Delivered, Ended
<1>3. CASE master.go_idle
  BY <1>1, <1>2, <1>3, HostReset
<1>4. CASE ~master.go_idle
  BY <1>1, <1>2, <1>4, HostAtRest DEF Delivered, Ended
<1> QED
  BY <1>3, <1>4

(* A cycle without a clear: the trigger catches up.                         *)
LEMMA DeliveredStep ==
  ASSUME SdTypeOK, SdEdge, Delivered, ~start_i, ~int_status_rst_i
  PROVE  /\ Delivered' /\ Shown' = Shown /\ ~master'.go_idle
         /\ trig'.state # "WAIT_FOR_CMD_INT"
         /\ trig.state # "WAIT_FOR_CMD_INT" => trig'.state = "IDLE"
         /\ ~master.go_idle => (host'.state = "INIT" => host'.counter >= 1)
<1>1. /\ wb' = wb /\ master'.state = "IDLE" /\ ~master'.go_idle /\ ~master'.start_xfr
      /\ master'.response = master.response
      /\ master'.status = master.status
      /\ host'.state \in {"INIT", "IDLE"} /\ ~host'.finish
  BY DeliveredCore
<1>2. Ended' /\ Shown' = Shown
  BY <1>1 DEF Delivered, Ended, Final, Shown
<1>3. ~master.go_idle => (host'.state = "INIT" => host'.counter >= 1)
  <2>1. host.counter \in Nat
    BY DEF SdTypeOK, CardTypeOK
  <2> QED
    BY <2>1, DeliveredCore
<1>4. int_status_o(master) = master.status
  BY DEF int_status_o, Delivered
<1>5. CASE trig.state = "IDLE"
  <2>1. TransfersFinal(master.status)
    BY <1>5 DEF Delivered, TrigEnded
  <2>2. trig'.state = "IDLE" /\ ~trig'.start_tx /\ transfers' = transfers
    BY <1>5, TrigAtWork
  <2> QED
    BY <1>1, <1>2, <1>3, <2>1, <2>2 DEF Delivered, TrigEnded, TransfersFinal
<1>6. CASE trig.state = "WAIT_FOR_CMD_INT"
  <2>1. wb.cmd.kind = "write" /\ transfers = 0 /\ ~trig.r_w
    BY <1>6 DEF Delivered, TrigEnded
  <2>2. "CC" \in master.status \/ "EI" \in master.status
    BY DEF Delivered, Ended, Final
  <2>3. /\ trig'.state = IF "CC" \in master.status THEN "TRIGGER_XFER" ELSE "IDLE"
        /\ ~trig'.start_tx /\ ~trig'.r_w /\ transfers' = 0
    BY <1>4, <1>6, <2>1, <2>2, TrigAtWork
  <2> QED
    BY <1>1, <1>2, <1>3, <1>6, <2>1, <2>3 DEF Delivered, TrigEnded, TransfersFinal
<1>7. CASE trig.state = "TRIGGER_XFER"
  <2>1. wb.cmd.kind = "write" /\ transfers = 0 /\ ~trig.r_w /\ "CC" \in master.status
    BY <1>7 DEF Delivered, TrigEnded
  <2>2. trig'.state = "IDLE" /\ transfers' = 1
    BY <1>7, <2>1, TrigAtWork
  <2> QED
    BY <1>1, <1>2, <1>3, <1>7, <2>1, <2>2 DEF Delivered, TrigEnded, TransfersFinal
<1> QED
  BY <1>5, <1>6, <1>7 DEF SdTypeOK, CardTypeOK

(* A clear that finds the trigger and the serial host's reset done with the *)
(* command leaves the card's side at rest.                                  *)
LEMMA ClearStep ==
  ASSUME SdTypeOK, SdEdge, Delivered, ~start_i, int_status_rst_i, ~master.go_idle,
         host.state = "INIT" => host.counter >= 1, trig.state = "IDLE"
  PROVE  SdQuiet(2)' /\ UNCHANGED <<wb, transfers>>
<1>1. /\ wb' = wb /\ master'.state = "IDLE" /\ ~master'.go_idle /\ ~master'.start_xfr
      /\ master'.status = {}
      /\ host'.state \in {"INIT", "IDLE"} /\ ~host'.finish
  BY DeliveredCore
<1>2. host'.state = "INIT" => host'.counter >= 2
  <2>1. host.counter \in Nat
    BY DEF SdTypeOK, CardTypeOK
  <2> QED
    BY <2>1, DeliveredCore
<1>3. trig'.state = "IDLE" /\ ~trig'.start_tx /\ transfers' = transfers
  BY TrigAtWork
<1> QED
  BY <1>1, <1>2, <1>3 DEF SdQuiet

(* No pulse starts on the bus without a write of its register.              *)
LEMMA QuietPulses ==
  ASSUME SdTypeOK, WbEdge
  PROVE  /\ StartQuiet /\ bus # "argument" => StartQuiet'
         /\ ClearQuiet /\ bus # "cmd_isr" => ClearQuiet'
         /\ BusQuiet => ~wb'.ack /\ StartQuiet' /\ ClearQuiet' /\ wb'.cmd = wb.cmd
<1>1. StartQuiet /\ bus # "argument" => StartQuiet'
  BY BusWires DEF StartQuiet, Reached
<1>2. ClearQuiet /\ bus # "cmd_isr" => ClearQuiet'
  BY BusWires DEF ClearQuiet, Reached
<1> QED
  BY <1>1, <1>2, BusWires DEF BusQuiet

(* No pulse arrives that was not sent.                                      *)
LEMMA SettledPulses ==
  ASSUME SdTypeOK, SdEdge
  PROVE  /\ StartQuiet => ~start_i /\ StartQuiet'
         /\ ClearQuiet => ~int_status_rst_i /\ ClearQuiet'
         /\ BusQuiet => BusQuiet'
<1>1. StartQuiet => ~start_i /\ StartQuiet'
  BY CardWires DEF StartQuiet, Reached
<1>2. ClearQuiet => ~int_status_rst_i /\ ClearQuiet'
  BY CardWires DEF ClearQuiet, Reached
<1> QED
  BY <1>1, <1>2, CardWires DEF BusQuiet

(* The next of the bus edges that Writing counts.                           *)
After(n) == IF n < 5 THEN n + 1 ELSE 5

(* A bus edge in the write of the argument register and the crossing of its *)
(* pulse.                                                                   *)
LEMMA StartOnBus ==
  ASSUME SdTypeOK, WbEdge, NEW n \in 0 .. 5, NEW k \in 0 .. 3,
         Writing(n, "argument", wb.start, wb.startSig),
         Reached(k, wb.startLevel, startSync), Crossing(n, k),
         bus' = IF n = 1 THEN "none" ELSE bus
  PROVE  /\ Writing(After(n), "argument", wb.start, wb.startSig)'
         /\ Reached(IF n = 2 THEN 0 ELSE k, wb.startLevel, startSync)'
         /\ Crossing(After(n), IF n = 2 THEN 0 ELSE k)'
<1>1. Writing(After(n), "argument", wb.start, wb.startSig)'
  BY BusWires DEF Writing, After
<1>2. Reached(IF n = 2 THEN 0 ELSE k, wb.startLevel, startSync)'
  <2>1. wb'.startLevel <=> (wb.startLevel <=> n # 2)
    BY BusWires DEF Writing
  <2>2. startSync' = startSync
    BY BusWires
  <2>3. n = 2 => k = 3
    BY DEF Crossing
  <2> QED
    BY <2>1, <2>2, <2>3 DEF Reached
<1>3. Crossing(After(n), IF n = 2 THEN 0 ELSE k)'
  <2>1. since' = (IF since < 2 THEN since + 1 ELSE 2) /\ since \in 0 .. 2
    BY BusWires DEF SdTypeOK, CrossTypeOK
  <2> QED
    BY ONLY <2>1, n \in 0 .. 5, k \in 0 .. 3, Crossing(n, k) DEF Crossing, After
<1> QED
  BY <1>1, <1>2, <1>3

(* A bus edge in the write of the status register and the crossing of its   *)
(* pulse.                                                                   *)
LEMMA ClearOnBus ==
  ASSUME SdTypeOK, WbEdge, NEW n \in 0 .. 5, NEW k \in 0 .. 3,
         Writing(n, "cmd_isr", wb.clear, wb.clearSig),
         Reached(k, wb.clearLevel, clearSync), Crossing(n, k),
         bus' = IF n = 1 THEN "none" ELSE bus
  PROVE  /\ Writing(After(n), "cmd_isr", wb.clear, wb.clearSig)'
         /\ Reached(IF n = 2 THEN 0 ELSE k, wb.clearLevel, clearSync)'
         /\ Crossing(After(n), IF n = 2 THEN 0 ELSE k)'
<1>1. Writing(After(n), "cmd_isr", wb.clear, wb.clearSig)'
  BY BusWires DEF Writing, After
<1>2. Reached(IF n = 2 THEN 0 ELSE k, wb.clearLevel, clearSync)'
  <2>1. wb'.clearLevel <=> (wb.clearLevel <=> n # 2)
    BY BusWires DEF Writing
  <2>2. clearSync' = clearSync
    BY BusWires
  <2>3. n = 2 => k = 3
    BY DEF Crossing
  <2> QED
    BY <2>1, <2>2, <2>3 DEF Reached
<1>3. Crossing(After(n), IF n = 2 THEN 0 ELSE k)'
  <2>1. since' = (IF since < 2 THEN since + 1 ELSE 2) /\ since \in 0 .. 2
    BY BusWires DEF SdTypeOK, CrossTypeOK
  <2> QED
    BY ONLY <2>1, n \in 0 .. 5, k \in 0 .. 3, Crossing(n, k) DEF Crossing, After
<1> QED
  BY <1>1, <1>2, <1>3

(* A card edge in the crossing of the start: the master sees it when it has *)
(* reached the second flip-flop and not the third.                          *)
LEMMA StartCrosses ==
  ASSUME SdTypeOK, SdEdge, NEW n \in 0 .. 5, NEW k \in 0 .. 3,
         Writing(n, "argument", wb.start, wb.startSig),
         Reached(k, wb.startLevel, startSync), Crossing(n, k)
  PROVE  /\ start_i <=> k = 2
         /\ Writing(n, "argument", wb.start, wb.startSig)'
         /\ Reached(IF k = 3 THEN 3 ELSE k + 1, wb.startLevel, startSync)'
         /\ k # 2 => Crossing(n, IF k = 3 THEN 3 ELSE k + 1)'
         /\ k = 2 => bus' = "none" /\ ~wb'.ack /\ StartQuiet'
<1>1. start_i <=> k = 2
  BY CardWires DEF Reached
<1>2. Writing(n, "argument", wb.start, wb.startSig)'
  BY CardWires DEF Writing
<1>3. Reached(IF k = 3 THEN 3 ELSE k + 1, wb.startLevel, startSync)'
  BY CardWires DEF Reached
<1>4. k # 2 => Crossing(n, IF k = 3 THEN 3 ELSE k + 1)'
  BY CardWires DEF Crossing
<1>5. k = 2 => bus' = "none" /\ ~wb'.ack /\ StartQuiet'
  BY <1>2, <1>3 DEF Crossing, Writing, StartQuiet
<1> QED
  BY <1>1, <1>2, <1>3, <1>4, <1>5

(* A card edge in the crossing of the clear.                                *)
LEMMA ClearCrosses ==
  ASSUME SdTypeOK, SdEdge, NEW n \in 0 .. 5, NEW k \in 0 .. 3,
         Writing(n, "cmd_isr", wb.clear, wb.clearSig),
         Reached(k, wb.clearLevel, clearSync), Crossing(n, k)
  PROVE  /\ int_status_rst_i <=> k = 2
         /\ Writing(n, "cmd_isr", wb.clear, wb.clearSig)'
         /\ Reached(IF k = 3 THEN 3 ELSE k + 1, wb.clearLevel, clearSync)'
         /\ k # 2 => Crossing(n, IF k = 3 THEN 3 ELSE k + 1)'
         /\ k = 2 => bus' = "none" /\ ~wb'.ack /\ ClearQuiet'
<1>1. int_status_rst_i <=> k = 2
  BY CardWires DEF Reached
<1>2. Writing(n, "cmd_isr", wb.clear, wb.clearSig)'
  BY CardWires DEF Writing
<1>3. Reached(IF k = 3 THEN 3 ELSE k + 1, wb.clearLevel, clearSync)'
  BY CardWires DEF Reached
<1>4. k # 2 => Crossing(n, IF k = 3 THEN 3 ELSE k + 1)'
  BY CardWires DEF Crossing
<1>5. k = 2 => bus' = "none" /\ ~wb'.ack /\ ClearQuiet'
  BY <1>2, <1>3 DEF Crossing, Writing, ClearQuiet
<1> QED
  BY <1>1, <1>2, <1>3, <1>4, <1>5

-----------------------------------------------------------------------------
(* The stages that a command goes through. Two of them, Issuing and         *)
(* Clearing, are a race between the two clocks.                             *)
Stage ==
  \/ Ready \/ Executing \/ Busy \/ Done \/ Drained
  \/ \E n \in 0 .. 5, k \in 0 .. 3 : Issuing(n, k) \/ Clearing(n, k)

(* An empty status stays empty on its way to the bus.                       *)
LEMMA ShownNothing ==
  ASSUME SdTypeOK, WbEdge, NothingShown, int_status_o(master) = {}
  PROVE  NothingShown'
BY BusWires DEF NothingShown

(* Each stage at a bus edge, and at a card edge.                            *)
LEMMA ReadyOnBus ==
  ASSUME SdTypeOK, WbEdge, Ready
  PROVE  Stage'
<1>1. /\ phase = "ready" /\ bus = "none" /\ BusQuiet /\ NothingShown /\ SdQuiet(2)
      /\ TransfersFinal(seen.status)
  BY DEF Ready, BusQuiet
<1>2. \/ phase' = "waiting" /\ bus' = "argument"
      \/ UNCHANGED software
  BY <1>1, BusWires DEF Software, Issue, Finish, Poll, Clear, Cleared, Rest
<1>3. NothingShown'
  BY <1>1, ShownNothing DEF SdQuiet, int_status_o
<1>4. SdQuiet(2)'
  BY <1>1, BusWires DEF SdQuiet
<1>5. ~wb'.ack /\ StartQuiet' /\ ClearQuiet' /\ wb'.cmd = wb.cmd
  BY <1>1, QuietPulses
<1>6. CASE phase' = "waiting" /\ bus' = "argument"
  <2>1. Issuing(0, 3)'
    BY <1>3, <1>4, <1>5, <1>6 DEF Issuing, Writing, Crossing, StartQuiet
  <2> QED
    BY <2>1 DEF Stage
<1>7. CASE UNCHANGED software
  <2>1. Ready'
    BY <1>1, <1>3, <1>4, <1>5, <1>7, BusWires DEF Ready, BusQuiet, software, TransfersFinal
  <2> QED
    BY <2>1 DEF Stage
<1> QED
  BY <1>2, <1>6, <1>7

LEMMA ReadyOnCard ==
  ASSUME SdTypeOK, SdEdge, Ready
  PROVE  Stage'
<1>1. /\ BusQuiet /\ NothingShown /\ SdQuiet(2)
      /\ TransfersFinal(seen.status) /\ ~start_i
  BY SettledPulses DEF Ready, BusQuiet
<1>2. SdQuiet(2 + 1)' /\ transfers' = transfers
  BY <1>1, QuietStep
<1>3. SdQuiet(2)'
  <2>1. host'.counter \in Nat
    BY Types DEF Next, SdTypeOK, CardTypeOK
  <2> QED
    BY <1>2, <2>1 DEF SdQuiet
<1>4. Ready'
  BY <1>1, <1>2, <1>3, SettledPulses, CardWires DEF Ready, NothingShown, TransfersFinal
<1> QED
  BY <1>4 DEF Stage

LEMMA IssuingOnBus ==
  ASSUME SdTypeOK, WbEdge, NEW n \in 0 .. 5, NEW k \in 0 .. 3, Issuing(n, k)
  PROVE  Stage'
<1>1. /\ phase = "waiting" /\ NothingShown /\ ClearQuiet
      /\ Writing(n, "argument", wb.start, wb.startSig)
      /\ Reached(k, wb.startLevel, startSync)
      /\ Crossing(n, k)
      /\ SdQuiet(IF n <= 2 THEN 2 ELSE 2 + k)
      /\ n >= 3 /\ k >= 1 => cmdSync[1] = wb.cmd
      /\ k = 2 => cmdSync[2] = wb.cmd
  BY DEF Issuing
<1>2. /\ bus = IF n <= 1 THEN "argument" ELSE "none"
      /\ wb.ack <=> n = 1
  BY <1>1 DEF Writing
<1>3. phase' = "waiting" /\ bus' = IF n = 1 THEN "none" ELSE bus
  BY <1>1, <1>2, BusWires
     DEF Software, Issue, Finish, Poll, Clear, Cleared, Rest, software, NothingShown, Status
<1>4. /\ Writing(After(n), "argument", wb.start, wb.startSig)'
      /\ Reached(IF n = 2 THEN 0 ELSE k, wb.startLevel, startSync)'
      /\ Crossing(After(n), IF n = 2 THEN 0 ELSE k)'
  BY <1>1, <1>3, StartOnBus
<1>5. NothingShown'
  BY <1>1, ShownNothing DEF SdQuiet, int_status_o
<1>6. ClearQuiet'
  BY <1>1, <1>2, QuietPulses
<1>7. SdQuiet(IF After(n) <= 2 THEN 2 ELSE 2 + (IF n = 2 THEN 0 ELSE k))'
  BY <1>1, BusWires DEF SdQuiet, After
<1>8. n >= 1 => wb'.cmd = wb.cmd
  BY <1>2, BusWires
<1>9. Issuing(After(n), IF n = 2 THEN 0 ELSE k)'
  BY <1>1, <1>3, <1>4, <1>5, <1>6, <1>7, <1>8, BusWires DEF Issuing, After, Crossing
<1> QED
  BY <1>9 DEF Stage, After

LEMMA IssuingOnCard ==
  ASSUME SdTypeOK, SdEdge, INIT_DELAY <= 4,
         NEW n \in 0 .. 5, NEW k \in 0 .. 3, Issuing(n, k)
  PROVE  Stage'
<1>1. /\ phase = "waiting" /\ NothingShown /\ ClearQuiet
      /\ Writing(n, "argument", wb.start, wb.startSig)
      /\ Reached(k, wb.startLevel, startSync)
      /\ Crossing(n, k)
      /\ SdQuiet(IF n <= 2 THEN 2 ELSE 2 + k)
      /\ n >= 3 /\ k >= 1 => cmdSync[1] = wb.cmd
      /\ k = 2 => cmdSync[2] = wb.cmd
  BY DEF Issuing
<1>2. /\ start_i <=> k = 2
      /\ Writing(n, "argument", wb.start, wb.startSig)'
      /\ Reached(IF k = 3 THEN 3 ELSE k + 1, wb.startLevel, startSync)'
      /\ k # 2 => Crossing(n, IF k = 3 THEN 3 ELSE k + 1)'
      /\ k = 2 => bus' = "none" /\ ~wb'.ack /\ StartQuiet'
  BY <1>1, StartCrosses
<1>3. ClearQuiet' /\ ~int_status_rst_i
  BY <1>1, SettledPulses
<1>4. /\ phase' = "waiting" /\ NothingShown' /\ wb'.cmd = wb.cmd
      /\ cmdSync'[1] = wb.cmd /\ cmdSync'[2] = cmdSync[1]
  BY <1>1, CardWires DEF NothingShown
<1>5. CASE k = 2
  <2>1. SdQuiet(4) /\ cmdSync[2] = wb.cmd /\ cmdSync[1] = wb.cmd
    BY <1>1, <1>5 DEF Crossing
  <2>2. /\ master'.state = "EXECUTE" /\ master'.cmd = wb.cmd /\ Started'
        /\ TrigExecuting' /\ ~trig'.start_tx
    BY <1>2, <1>3, <1>5, <2>1, StartStep
  <2>3. Executing'
    BY <1>2, <1>3, <1>4, <1>5, <2>1, <2>2 DEF Executing, InHand, BusQuiet
  <2> QED
    BY <2>3 DEF Stage
<1>6. CASE k # 2
  <2>1. SdQuiet((IF n <= 2 THEN 2 ELSE 2 + k) + 1)'
    BY <1>1, <1>2, <1>6, QuietStep
  <2>2. SdQuiet(IF n <= 2 THEN 2 ELSE 2 + (IF k = 3 THEN 3 ELSE k + 1))'
    <3>1. host'.counter \in Nat
      BY Types DEF Next, SdTypeOK, CardTypeOK
    <3> QED
      BY <1>1, <2>1, <3>1 DEF SdQuiet, Crossing
  <2>3. Issuing(n, IF k = 3 THEN 3 ELSE k + 1)'
    BY <1>1, <1>2, <1>3, <1>4, <1>6, <2>2 DEF Issuing, Crossing
  <2> QED
    BY <2>3 DEF Stage
<1> QED
  BY <1>5, <1>6

LEMMA InHandOnBus ==
  ASSUME SdTypeOK, WbEdge, InHand, master.state # "IDLE"
  PROVE  InHand' /\ UNCHANGED <<master, host, trig, transfers>> /\ wb'.cmd = wb.cmd
<1>1. UNCHANGED software
  BY BusWires DEF Software, Issue, Finish, Poll, Clear, Cleared, Rest,
                  InHand, BusQuiet, NothingShown, Status
<1>2. NothingShown'
  BY ShownNothing DEF InHand, int_status_o
<1> QED
  BY <1>1, <1>2, QuietPulses, BusWires DEF InHand, BusQuiet, software

LEMMA ExecutingOnBus ==
  ASSUME SdTypeOK, WbEdge, Executing
  PROVE  Stage'
<1>1. InHand' /\ UNCHANGED <<master, host, trig, transfers>> /\ wb'.cmd = wb.cmd
  BY InHandOnBus DEF Executing
<1>2. TrigExecuting'
  BY <1>1 DEF Executing, TrigExecuting
<1>3. Started' \/ Expired' \/ Served'
  BY <1>1 DEF Executing, Started, Expired, Served, TimedOut
<1>4. Executing'
  BY <1>1, <1>2, <1>3 DEF Executing
<1> QED
  BY <1>4 DEF Stage

LEMMA ExecutingOnCard ==
  ASSUME SdTypeOK, SdEdge, Executing
  PROVE  Stage'
<1>1. InHand /\ master.state = "EXECUTE" /\ TrigExecuting
  BY DEF Executing
<1>2. BusQuiet' /\ NothingShown' /\ phase' = "waiting" /\ wb' = wb
  BY <1>1, SettledPulses, CardWires DEF InHand, NothingShown
<1>3. master'.cmd = wb.cmd /\ ~trig'.start_tx => InHand'
  BY <1>1, <1>2, CardWires DEF InHand
<1>4. CASE Started
  <2>1. Executing'
    BY <1>1, <1>3, <1>4, StartedStep DEF Executing
  <2> QED
    BY <2>1 DEF Stage
<1>5. TrigExecuting' /\ ~master'.start_xfr /\ ~trig'.start_tx =>
        /\ TrigEnded'
        /\ wb.cmd.kind = "busy" => trig'.state = "IDLE" /\ transfers' = 0
  <2>1. wb'.cmd.kind \in {"silent", "busy", "read", "write"}
    BY <1>2 DEF SdTypeOK, WbTypeOK, AnyCommand
  <2> QED
    BY <1>2, <2>1 DEF TrigExecuting, TrigEnded, TransfersFinal
<1>6. CASE Served
  <2>1. /\ TrigExecuting' /\ ~trig'.start_tx /\ master'.cmd = wb.cmd /\ ~master'.start_xfr
        /\ \/ master'.state = "EXECUTE" /\ (Served' \/ Expired')
           \/ /\ Ended'
              /\ \/ master'.state = "BUSY_CHECK" /\ wb.cmd.kind = "busy"
                 \/ master'.state = "IDLE"
    BY <1>1, <1>6, ServedStep
  <2>2. InHand'
    BY <1>3, <2>1
  <2>3. CASE master'.state = "EXECUTE" /\ (Served' \/ Expired')
    BY <2>1, <2>2, <2>3 DEF Stage, Executing
  <2>4. CASE Ended' /\ master'.state = "BUSY_CHECK" /\ wb.cmd.kind = "busy"
    BY <1>2, <1>5, <2>1, <2>2, <2>4 DEF Stage, Busy
  <2>5. CASE Ended' /\ master'.state = "IDLE"
    BY <1>2, <1>5, <2>1, <2>5 DEF Stage, Done, Delivered, NothingShown
  <2> QED
    BY <2>1, <2>3, <2>4, <2>5
<1>7. CASE Expired
  <2>1. /\ TrigExecuting' /\ ~trig'.start_tx /\ master'.cmd = wb.cmd /\ ~master'.start_xfr
        /\ Ended' /\ master'.state = "IDLE"
    BY <1>1, <1>7, ExpiredStep
  <2> QED
    BY <1>2, <1>5, <2>1 DEF Stage, Done, Delivered, NothingShown
<1> QED
  BY <1>4, <1>6, <1>7 DEF Executing

LEMMA BusyOnBus ==
  ASSUME SdTypeOK, WbEdge, Busy
  PROVE  Stage'
<1>1. InHand' /\ UNCHANGED <<master, host, trig, transfers>> /\ wb'.cmd = wb.cmd
  BY InHandOnBus DEF Busy
<1>2. Busy'
  BY <1>1 DEF Busy, Ended, Final
<1> QED
  BY <1>2 DEF Stage

LEMMA BusyOnCard ==
  ASSUME SdTypeOK, SdEdge, Busy
  PROVE  Stage'
<1>1. /\ Ended' /\ master'.cmd = wb.cmd
      /\ trig'.state = "IDLE" /\ transfers' = 0 /\ ~trig'.start_tx
      /\ master'.state \in {"BUSY_CHECK", "IDLE"}
  BY BusyStep
<1>2. BusQuiet' /\ NothingShown' /\ phase' = "waiting" /\ wb' = wb
  BY SettledPulses, CardWires DEF Busy, InHand, NothingShown
<1>3. InHand' /\ wb'.cmd.kind = "busy"
  BY <1>1, <1>2, CardWires DEF Busy, InHand
<1>4. CASE master'.state = "BUSY_CHECK"
  BY <1>1, <1>3, <1>4 DEF Stage, Busy
<1>5. CASE master'.state = "IDLE"
  <2>1. TrigEnded'
    BY <1>1, <1>3 DEF TrigEnded, TransfersFinal
  <2> QED
    BY <1>1, <1>2, <1>5, <2>1 DEF Stage, Done, Delivered, NothingShown
<1> QED
  BY <1>1, <1>4, <1>5

LEMMA DeliveredOnBus ==
  ASSUME SdTypeOK, WbEdge, Delivered, wb'.cmd = wb.cmd
  PROVE  Delivered' /\ Shown' = Shown /\ wbStatus'[1] = Shown /\ wbStatus'[2] = wbStatus[1]
<1>1. UNCHANGED <<master, host, trig, transfers>>
  BY BusWires
<1>2. Delivered' /\ Shown' = Shown
  BY <1>1 DEF Delivered, Ended, Final, TrigEnded, TransfersFinal, Shown
<1> QED
  BY <1>2, BusWires DEF Delivered, int_status_o, Shown

(* A final status is never taken for none.                                  *)
LEMMA FinalNotEmpty ==
  ASSUME Delivered
  PROVE  Shown.status # {}
BY DEF Delivered, Ended, Final, Shown

LEMMA DoneOnBus ==
  ASSUME SdTypeOK, WbEdge, Done
  PROVE  Stage'
<1>1. Delivered /\ BusQuiet /\ bus = "none" /\ phase \in {"waiting", "answered"}
  BY DEF Done, BusQuiet
<1>2. ~wb'.ack /\ StartQuiet' /\ ClearQuiet' /\ wb'.cmd = wb.cmd
  BY <1>1, QuietPulses
<1>3. Delivered' /\ Shown' = Shown /\ wbStatus'[1] = Shown /\ wbStatus'[2] = wbStatus[1]
  BY <1>1, <1>2, DeliveredOnBus
<1>4. Shown.status # {}
  BY <1>1, FinalNotEmpty
<1>5. CASE phase = "waiting"
  <2>1. /\ wbStatus[1] = Shown \/ wbStatus[1].status = {}
        /\ (wbStatus[2] = Shown /\ wbStatus[1] = Shown) \/ wbStatus[2].status = {}
    BY <1>5 DEF Done
  <2>2. \/ /\ wbStatus[2].status # {} /\ phase' = "answered" /\ seen' = wbStatus[2]
           /\ bus' = bus
        \/ UNCHANGED software
    BY <1>1, <1>5, BusWires DEF Software, Issue, Finish, Poll, Clear, Cleared, Rest, Status
  <2>3. CASE wbStatus[2].status # {} /\ phase' = "answered" /\ seen' = wbStatus[2]
             /\ bus' = bus
    <3>1. BothShown'
      BY <1>3, <2>1, <2>3 DEF BothShown
    <3>2. Done'
      BY <1>1, <1>2, <1>3, <2>3, <3>1 DEF Done, BusQuiet
    <3> QED
      BY <3>2 DEF Stage
  <2>4. CASE UNCHANGED software
    <3>1. Done'
      BY <1>1, <1>2, <1>3, <1>5, <2>1, <2>4 DEF Done, BusQuiet, software
    <3> QED
      BY <3>1 DEF Stage
  <2> QED
    BY <2>2, <2>3, <2>4
<1>6. CASE phase = "answered"
  <2>1. BothShown
    BY <1>6 DEF Done
  <2>2. \/ phase' = "clearing" /\ bus' = "cmd_isr" /\ seen' = seen
        \/ UNCHANGED software
    BY <1>1, <1>6, BusWires DEF Software, Issue, Finish, Poll, Clear, Cleared, Rest
  <2>3. BothShown'
    BY <1>3, <2>1, <2>2 DEF BothShown, software
  <2>4. CASE phase' = "clearing" /\ bus' = "cmd_isr" /\ seen' = seen
    <3>1. Clearing(0, 3)'
      BY <1>2, <1>3, <2>3, <2>4 DEF Clearing, Writing, Crossing, ClearQuiet
    <3> QED
      BY <3>1 DEF Stage
  <2>5. CASE UNCHANGED software
    <3>1. Done'
      BY <1>1, <1>2, <1>3, <1>6, <2>3, <2>5 DEF Done, BusQuiet, software
    <3> QED
      BY <3>1 DEF Stage
  <2> QED
    BY <2>2, <2>4, <2>5
<1> QED
  BY <1>1, <1>5, <1>6

LEMMA DoneOnCard ==
  ASSUME SdTypeOK, SdEdge, Done
  PROVE  Stage'
<1>1. BusQuiet' /\ ~start_i /\ ~int_status_rst_i /\ UNCHANGED <<phase, seen, wbStatus>>
  BY SettledPulses, CardWires DEF Done, BusQuiet
<1>2. Delivered' /\ Shown' = Shown
  BY <1>1, DeliveredStep DEF Done
<1>3. Done'
  BY <1>1, <1>2 DEF Done, BothShown
<1> QED
  BY <1>3 DEF Stage

LEMMA ClearingOnBus ==
  ASSUME SdTypeOK, WbEdge, NEW n \in 0 .. 5, NEW k \in 0 .. 3, Clearing(n, k)
  PROVE  Stage'
<1>1. /\ phase = "clearing" /\ StartQuiet /\ BothShown /\ Delivered
      /\ Writing(n, "cmd_isr", wb.clear, wb.clearSig)
      /\ Reached(k, wb.clearLevel, clearSync)
      /\ Crossing(n, k)
  BY DEF Clearing
<1>2. /\ bus = IF n <= 1 THEN "cmd_isr" ELSE "none"
      /\ wb.ack <=> n = 1
  BY <1>1 DEF Writing
<1>3. wbStatus[2].status # {}
  BY <1>1, FinalNotEmpty DEF BothShown
<1>4. phase' = "clearing" /\ bus' = (IF n = 1 THEN "none" ELSE bus) /\ seen' = seen
  BY <1>1, <1>2, <1>3, BusWires
     DEF Software, Issue, Finish, Poll, Clear, Cleared, Rest, software, Status
<1>5. /\ Writing(After(n), "cmd_isr", wb.clear, wb.clearSig)'
      /\ Reached(IF n = 2 THEN 0 ELSE k, wb.clearLevel, clearSync)'
      /\ Crossing(After(n), IF n = 2 THEN 0 ELSE k)'
  BY <1>1, <1>4, ClearOnBus
<1>6. StartQuiet' /\ wb'.cmd = wb.cmd
  BY <1>1, <1>2, QuietPulses, BusWires
<1>7. Delivered' /\ BothShown'
  BY <1>1, <1>4, <1>6, DeliveredOnBus DEF BothShown
<1>8. Clearing(After(n), IF n = 2 THEN 0 ELSE k)'
  BY <1>4, <1>5, <1>6, <1>7, BusWires DEF Clearing, After, Crossing
<1> QED
  BY <1>8 DEF Stage, After

LEMMA ClearingOnCard ==
  ASSUME SdTypeOK, SdEdge, NEW n \in 0 .. 5, NEW k \in 0 .. 3, Clearing(n, k)
  PROVE  Stage'
<1>1. /\ phase = "clearing" /\ StartQuiet /\ BothShown /\ Delivered
      /\ Writing(n, "cmd_isr", wb.clear, wb.clearSig)
      /\ Reached(k, wb.clearLevel, clearSync)
      /\ Crossing(n, k)
      /\ n >= 3 /\ k >= 1 => ~master.go_idle /\ trig.state # "WAIT_FOR_CMD_INT"
      /\ k = 2 => (host.state = "INIT" => host.counter >= 1) /\ trig.state = "IDLE"
  BY DEF Clearing
<1>2. /\ int_status_rst_i <=> k = 2
      /\ Writing(n, "cmd_isr", wb.clear, wb.clearSig)'
      /\ Reached(IF k = 3 THEN 3 ELSE k + 1, wb.clearLevel, clearSync)'
      /\ k # 2 => Crossing(n, IF k = 3 THEN 3 ELSE k + 1)'
      /\ k = 2 => bus' = "none" /\ ~wb'.ack /\ ClearQuiet'
  BY <1>1, ClearCrosses
<1>3. StartQuiet' /\ ~start_i
  BY <1>1, SettledPulses
<1>4. phase' = "clearing" /\ UNCHANGED <<wbStatus, seen>>
  BY <1>1, CardWires
<1>5. CASE k = 2
  <2>1. SdQuiet(2)' /\ UNCHANGED <<wb, transfers>>
    BY <1>1, <1>2, <1>3, <1>5, ClearStep DEF Crossing
  <2>2. wbStatus'[2].status # {}
    BY <1>1, <1>4, FinalNotEmpty DEF BothShown
  <2>3. TransfersFinal(seen.status)'
    BY <1>1, <1>4, <1>5, <2>1 DEF Delivered, TrigEnded, TransfersFinal, BothShown, Shown
  <2>4. Drained'
    BY <1>2, <1>3, <1>4, <1>5, <2>1, <2>2, <2>3 DEF Drained, BusQuiet
  <2> QED
    BY <2>4 DEF Stage
<1>6. CASE k # 2
  <2>1. /\ Delivered' /\ Shown' = Shown /\ ~master'.go_idle
        /\ trig'.state # "WAIT_FOR_CMD_INT"
        /\ trig.state # "WAIT_FOR_CMD_INT" => trig'.state = "IDLE"
        /\ ~master.go_idle => (host'.state = "INIT" => host'.counter >= 1)
    BY <1>1, <1>2, <1>3, <1>6, DeliveredStep
  <2>2. BothShown'
    BY <1>1, <1>4, <2>1 DEF BothShown
  <2>3. Clearing(n, IF k = 3 THEN 3 ELSE k + 1)'
    BY <1>1, <1>2, <1>3, <1>4, <1>6, <2>1, <2>2 DEF Clearing, Crossing
  <2> QED
    BY <2>3 DEF Stage
<1> QED
  BY <1>5, <1>6

LEMMA DrainedOnBus ==
  ASSUME SdTypeOK, WbEdge, Drained
  PROVE  Stage'
<1>1. /\ phase = "clearing" /\ BusQuiet /\ bus = "none" /\ SdQuiet(2)
      /\ wbStatus[2].status = {} => wbStatus[1].status = {}
      /\ TransfersFinal(seen.status)
  BY DEF Drained, BusQuiet
<1>2. ~wb'.ack /\ StartQuiet' /\ ClearQuiet' /\ wb'.cmd = wb.cmd
  BY <1>1, QuietPulses
<1>3. bus' = "none" /\ seen' = seen
      /\ phase' = IF wbStatus[2].status = {} THEN "ready" ELSE "clearing"
  BY <1>1, BusWires DEF Software, Issue, Finish, Poll, Clear, Cleared, Rest, software, Status
<1>4. wbStatus'[1].status = {} /\ wbStatus'[2] = wbStatus[1]
  BY <1>1, BusWires DEF SdQuiet, int_status_o
<1>5. SdQuiet(2)' /\ TransfersFinal(seen.status)'
  BY <1>1, <1>2, <1>3, BusWires DEF SdQuiet, TransfersFinal
<1>6. CASE wbStatus[2].status = {}
  BY <1>1, <1>2, <1>3, <1>4, <1>5, <1>6 DEF Stage, Ready, BusQuiet, NothingShown
<1>7. CASE wbStatus[2].status # {}
  BY <1>1, <1>2, <1>3, <1>4, <1>5, <1>7 DEF Stage, Drained, BusQuiet
<1> QED
  BY <1>6, <1>7

LEMMA DrainedOnCard ==
  ASSUME SdTypeOK, SdEdge, Drained
  PROVE  Stage'
<1>1. /\ BusQuiet /\ SdQuiet(2) /\ TransfersFinal(seen.status) /\ ~start_i
  BY SettledPulses DEF Drained, BusQuiet
<1>2. SdQuiet(2 + 1)' /\ transfers' = transfers
  BY <1>1, QuietStep
<1>3. SdQuiet(2)'
  <2>1. host'.counter \in Nat
    BY Types DEF Next, SdTypeOK, CardTypeOK
  <2> QED
    BY <1>2, <2>1 DEF SdQuiet
<1>4. Drained'
  BY <1>1, <1>2, <1>3, SettledPulses, CardWires DEF Drained, TransfersFinal
<1> QED
  BY <1>4 DEF Stage

(* A stage does not depend on the card.                                     *)
LEMMA SameStage ==
  ASSUME Stage,
         UNCHANGED <<phase, seen, bus, wb, wbStatus, since, cmdSync, startSync,
                     clearSync, master, host, trig, transfers>>
  PROVE  Stage'
<1>1. BusQuiet => BusQuiet'
  BY DEF BusQuiet, StartQuiet, ClearQuiet, Reached
<1>2. \A c : SdQuiet(c) => SdQuiet(c)'
  BY DEF SdQuiet
<1>3. \A s : TransfersFinal(s) => TransfersFinal(s)'
  BY DEF TransfersFinal
<1>4. InHand => InHand'
  BY <1>1 DEF InHand, NothingShown
<1>5. Delivered => Delivered'
  BY DEF Delivered, Ended, Final, TrigEnded, TransfersFinal
<1>6. CASE Ready
  BY <1>1, <1>2, <1>3, <1>6 DEF Stage, Ready, NothingShown
<1>7. CASE Executing
  <2>1. TrigExecuting'
    BY <1>7 DEF Executing, TrigExecuting
  <2>2. Started' \/ Expired' \/ Served'
    BY <1>7 DEF Executing, Started, Expired, Served, TimedOut
  <2> QED
    BY <1>4, <1>7, <2>1, <2>2 DEF Stage, Executing
<1>8. CASE Busy
  BY <1>4, <1>8 DEF Stage, Busy, Ended, Final
<1>9. CASE Done
  BY <1>1, <1>5, <1>9 DEF Stage, Done, BothShown, Shown
<1>10. CASE Drained
  BY <1>1, <1>2, <1>3, <1>10 DEF Stage, Drained
<1>11. ASSUME NEW n \in 0 .. 5, NEW k \in 0 .. 3, Issuing(n, k)
       PROVE  Stage'
  <2>1. Issuing(n, k)'
    BY <1>2, <1>11 DEF Issuing, NothingShown, ClearQuiet, Writing, Reached, Crossing
  <2> QED
    BY <2>1 DEF Stage
<1>12. ASSUME NEW n \in 0 .. 5, NEW k \in 0 .. 3, Clearing(n, k)
       PROVE  Stage'
  <2>1. Clearing(n, k)'
    BY <1>5, <1>12 DEF Clearing, StartQuiet, BothShown, Shown, Writing, Reached, Crossing
  <2> QED
    BY <2>1 DEF Stage
<1> QED
  BY <1>6, <1>7, <1>8, <1>9, <1>10, <1>11, <1>12 DEF Stage

(* The inductive invariant of the command path.                             *)
SdInv == SdTypeOK /\ Stage

(* At the start nothing has been issued.                                    *)
LEMMA SdInvInit == Init => SdInv
<1> SUFFICES ASSUME Init PROVE SdInv
  OBVIOUS
<1>1. FirstCommand \in AnyCommand /\ NoStatus \in Report /\ hostReset.cmd = FirstCommand
  BY DEF FirstCommand, AnyCommand, NoStatus, Report, Tag, Answer, hostReset
<1>2. WbTypeOK
  BY <1>1 DEF Init, WbTypeOK
<1>3. CrossTypeOK
  <2>1. cmdSync \in AnyCommand \X AnyCommand /\ since = 0
    BY <1>1 DEF Init
  <2>2. startSync \in BOOLEAN \X BOOLEAN \X BOOLEAN
    BY DEF Init
  <2>3. clearSync \in BOOLEAN \X BOOLEAN \X BOOLEAN
    BY DEF Init
  <2>4. since \in 0 .. 2
    BY ONLY <2>1
  <2> QED
    BY <2>1, <2>2, <2>3, <2>4 DEF CrossTypeOK
<1>4. CardTypeOK
  BY <1>1 DEF Init, CardTypeOK, hostReset, Answer, HostState
<1>5. BusQuiet
  BY DEF Init, BusQuiet, StartQuiet, ClearQuiet, Reached
<1>6. Ready
  BY <1>5 DEF Init, Ready, NothingShown, NoStatus, SdQuiet, TransfersFinal, hostReset, FirstCommand
<1> QED
  BY <1>2, <1>3, <1>4, <1>6 DEF SdInv, SdTypeOK, Stage

(* Every edge of either clock leads from a stage to a stage.                *)
LEMMA SdInvNext ==
  ASSUME INIT_DELAY <= 4, SdInv, [Next]_vars
  PROVE  SdInv'
<1>1. SdTypeOK'
  BY Types DEF SdInv
<1>2. Stage'
  <2>1. SdTypeOK /\ Stage
    BY DEF SdInv
  <2>2. CASE WbEdge
    BY <2>1, <2>2, ReadyOnBus, ExecutingOnBus, BusyOnBus, DoneOnBus, DrainedOnBus,
       IssuingOnBus, ClearingOnBus DEF Stage
  <2>3. CASE SdEdge
    BY <2>1, <2>3, ReadyOnCard, ExecutingOnCard, BusyOnCard, DoneOnCard, DrainedOnCard,
       IssuingOnCard, ClearingOnCard DEF Stage
  <2>4. CASE CardReady
    BY <2>1, <2>4, SameStage DEF CardReady, software
  <2>5. CASE UNCHANGED vars
    BY <2>1, <2>5, SameStage DEF vars, software, sd
  <2> QED
    BY <2>2, <2>3, <2>4, <2>5 DEF Next
<1> QED
  BY <1>1, <1>2 DEF SdInv

(* What each stage says of the pulses, the answer and the transfers.        *)
LEMMA PulsesInStage ==
  ASSUME SdInv
  PROVE  PulsesFindIdle
<1> SUFFICES ASSUME SdTypeOK, Stage PROVE PulsesFindIdle
  BY DEF SdInv
<1>1. /\ start_i <=> ~ (startSync[3] <=> startSync[2])
      /\ int_status_rst_i <=> ~ (clearSync[3] <=> clearSync[2])
  BY DEF SdTypeOK, CrossTypeOK, start_i, int_status_rst_i
<1>2. StartQuiet => ~start_i
  BY <1>1 DEF StartQuiet, Reached
<1>3. ClearQuiet => ~int_status_rst_i
  BY <1>1 DEF ClearQuiet, Reached
<1>4. Delivered => master.state = "IDLE" /\ ~master.start_xfr
  BY DEF Delivered, Ended
<1>5. CASE Ready \/ Drained
  BY <1>2, <1>3, <1>5 DEF PulsesFindIdle, Ready, Drained, BusQuiet, SdQuiet
<1>6. CASE Executing \/ Busy
  BY <1>2, <1>3, <1>6 DEF PulsesFindIdle, Executing, Busy, InHand, BusQuiet, Started,
                          Expired, Served, Ended
<1>7. CASE Done
  BY <1>2, <1>3, <1>4, <1>7 DEF PulsesFindIdle, Done, BusQuiet
<1>8. ASSUME NEW n \in 0 .. 5, NEW k \in 0 .. 3, Issuing(n, k)
      PROVE  PulsesFindIdle
  BY <1>3, <1>8 DEF PulsesFindIdle, Issuing, SdQuiet
<1>9. ASSUME NEW n \in 0 .. 5, NEW k \in 0 .. 3, Clearing(n, k)
      PROVE  PulsesFindIdle
  BY <1>2, <1>4, <1>9 DEF PulsesFindIdle, Clearing
<1> QED
  BY <1>5, <1>6, <1>7, <1>8, <1>9 DEF Stage

LEMMA AnswerInStage ==
  ASSUME SdInv
  PROVE  AnswerMatchesCommand
<1> SUFFICES ASSUME Stage, phase = "answered" PROVE AnswerMatchesCommand
  BY DEF SdInv, AnswerMatchesCommand
<1>1. Done
  BY DEF Stage, Ready, Executing, Busy, InHand, Drained, Issuing, Clearing
<1>2. seen = Shown /\ Final(master.status)
  BY <1>1 DEF Done, BothShown, Delivered, Ended
<1> QED
  BY <1>2 DEF AnswerMatchesCommand, Final, Shown

LEMMA TransferInStage ==
  ASSUME SdInv
  PROVE  TransferPerCommand
<1> SUFFICES ASSUME Stage PROVE TransferPerCommand
  BY DEF SdInv
<1>1. trig.start_tx => "CC" \in master.status
  <2>1. Delivered => (trig.start_tx => "CC" \in master.status)
    BY DEF Delivered, TrigEnded
  <2> QED
    BY <2>1 DEF Stage, Ready, Executing, Busy, InHand, Done, Drained, Issuing, Clearing, SdQuiet
<1>2. phase = "ready" => Ready
  BY DEF Stage, Executing, Busy, InHand, Done, Drained, Issuing, Clearing
<1> QED
  BY <1>1, <1>2 DEF Ready, TransfersFinal, TransferPerCommand

-----------------------------------------------------------------------------
(* While the data path is exercised nothing of the command path moves.      *)
LEMMA OnPath == [SdNext]_sdVars => [Next]_vars
BY DEF SdNext, sdVars, OnCommandPath, OnDataPath, Next

(* Every command goes through the stages in order, whatever the two clocks, *)
(* the card and the timeout do.  The bound is what the pulses' crossings    *)
(* give the serial host to come out of its reset: sd_cmd_serial_host.v has  *)
(* INIT_DELAY = 4, and with 5 a start could be lost.                        *)
THEOREM StageInvariant ==
  ASSUME INIT_DELAY <= 4
  PROVE  SdSpec => []SdInv
<1>1. SdInit => SdInv
  BY SdInvInit DEF SdInit
<1>2. SdInv /\ [SdNext]_sdVars => SdInv'
  BY OnPath, SdInvNext
<1> QED
  BY <1>1, <1>2, PTL DEF SdSpec

(* Every start and every clear arrives where it is expected                 *)
(* (monostable_domain_cross.v, sd_cmd_serial_host.v, INIT).                 *)
THEOREM PulsesNotWasted ==
  ASSUME INIT_DELAY <= 4
  PROVE  SdSpec => []PulsesFindIdle
BY StageInvariant, PulsesInStage, PTL

(* The answer that software reads is its command's, for any kinds, timeouts *)
(* and lengths (sd_cmd_master.v, EXECUTE; bistable_domain_cross.v).         *)
THEOREM AnswerIsCommands ==
  ASSUME INIT_DELAY <= 4
  PROVE  SdSpec => []AnswerMatchesCommand
BY StageInvariant, AnswerInStage, PTL

(* Each command with data starts one transfer and no other command's        *)
(* (sd_data_xfer_trig.v).                                                   *)
THEOREM TransfersAreCommands ==
  ASSUME INIT_DELAY <= 4
  PROVE  SdSpec => []TransferPerCommand
BY StageInvariant, TransferInStage, PTL

LEMMA ModUnique ==
  ASSUME NEW m \in Nat \ {0}, NEW u \in Nat, NEW v \in 0 .. m - 1
  PROVE  (u * m + v) % m = v
OBVIOUS

LEMMA ModSplit ==
  ASSUME NEW m \in Nat \ {0}, NEW x \in Nat
  PROVE  \E u \in Nat : x = u * m + (x % m) /\ x % m \in 0 .. m - 1
<1>1. x % m \in 0 .. m - 1
  OBVIOUS
<1>2. x \div m \in Int /\ x = (x \div m) * m + (x % m)
  OBVIOUS
<1>4. x \div m \in Nat
  <2> DEFINE e == x \div m
  <2>1. ASSUME e < 0 PROVE FALSE
    <3>1. e <= -1 
      BY <1>2, <2>1
    <3> HIDE DEF e
    <3>2. e * m <= - m
      BY <1>2, <3>1 DEF e
    <3> QED
      BY <1>1, <1>2, <3>1, <3>2 DEF e
  <2> QED
    BY <1>2, <2>1
<1> QED
  BY <1>1, <1>2, <1>4

LEMMA ModNext ==
  ASSUME NEW m \in Nat \ {0}, NEW x \in Nat
  PROVE  /\ x % m \in 0 .. m - 1
         /\ x % m < m - 1 => (x + 1) % m = (x % m) + 1
         /\ x % m = m - 1 => (x + 1) % m = 0
         /\ ((x % m) + 1) % m = (x + 1) % m
<1>1. PICK u \in Nat : x = u * m + (x % m) /\ x % m \in 0 .. m - 1
  BY ModSplit
<1> DEFINE v == x % m
<1> HIDE DEF v
<1>2. v \in 0 .. m - 1 /\ x = u * m + v
  BY <1>1 DEF v
<1>3. CASE v < m - 1
  <2>1. v + 1 \in 0 .. m - 1 /\ x + 1 = u * m + (v + 1)
    BY <1>2, <1>3
  <2>2. (x + 1) % m = v + 1
    BY <2>1, ModUnique
  <2>3. 0 * m + (v + 1) = v + 1
    BY <1>2
  <2>4. (v + 1) % m = v + 1
    <3>1. (0 * m + (v + 1)) % m = v + 1
      BY <2>1, ModUnique
    <3> QED
      BY <2>3, <3>1
  <2> QED
    BY <1>2, <1>3, <2>2, <2>4 DEF v
<1>4. CASE v = m - 1
  <2>1. x + 1 = (u + 1) * m + 0 /\ 0 \in 0 .. m - 1 /\ u + 1 \in Nat /\ (u + 1) * m \in Nat
    BY <1>2, <1>4
  <2>2. (x + 1) % m = 0
    BY <2>1, ModUnique
  <2>3. (v + 1) % m = 0
    BY <1>2, <1>4
  <2> QED
    BY <1>2, <1>4, <2>2, <2>3 DEF v
<1> QED
  BY <1>2, <1>3, <1>4

LEMMA ModNear ==
  ASSUME NEW m \in Nat \ {0}, NEW x \in Nat, NEW y \in Nat, x <= y, y < x + m, x % m = y % m
  PROVE  x = y
<1>1. PICK u \in Nat : x = u * m + (x % m) /\ x % m \in 0 .. m - 1
  BY ModSplit
<1>2. PICK w \in Nat : y = w * m + (y % m) /\ y % m \in 0 .. m - 1
  BY ModSplit
<1>3. y - x = (w - u) * m
  BY <1>1, <1>2
<1>4. CASE w - u <= 0
  <2>1. (w - u) * m <= 0
    BY <1>4
  <2> QED
    BY <1>3, <2>1
<1>5. CASE w - u >= 1
  <2>1. (w - u) * m >= m
    BY <1>5
  <2> QED
    BY <1>3, <2>1
<1> QED
  BY <1>4, <1>5

LEMMA ModTwice ==
  ASSUME NEW d \in Nat \ {0}, NEW x \in Nat
  PROVE  (x % (2 * d)) % d = x % d
<1>1. PICK u \in Nat : x = u * (2 * d) + (x % (2 * d)) /\ x % (2 * d) \in 0 .. 2 * d - 1
  <2>1. 2 * d \in Nat \ {0}
    OBVIOUS
  <2> QED
    BY <2>1, ModSplit
<1> DEFINE v == x % (2 * d)
<1> HIDE DEF v
<1>0. v \in Nat
  BY <1>1 DEF v
<1>2. PICK w \in Nat : v = w * d + (v % d) /\ v % d \in 0 .. d - 1
  BY <1>0, ModSplit
<1>3. x = (2 * u + w) * d + (v % d) /\ 2 * u + w \in Nat
  BY <1>1, <1>2 DEF v
<1>4. ((2 * u + w) * d + (v % d)) % d = v % d
  BY <1>2, <1>3, ModUnique
<1> QED
  BY <1>3, <1>4 DEF v

LEMMA ModAdd ==
  ASSUME NEW d \in Nat \ {0}, NEW x \in Nat, NEW i \in Nat
  PROVE  ((x % (2 * d)) + i) % d = (x + i) % d
<1>1. PICK u \in Nat : x = u * (2 * d) + (x % (2 * d)) /\ x % (2 * d) \in 0 .. 2 * d - 1
  <2>1. 2 * d \in Nat \ {0}
    OBVIOUS
  <2> QED
    BY <2>1, ModSplit
<1>2. PICK a \in Nat : a = x % (2 * d)
  BY <1>1
<1>3. PICK v \in Nat : v = a + i
  OBVIOUS
<1>4. PICK w \in Nat : v = w * d + (v % d) /\ v % d \in 0 .. d - 1
  BY ModSplit
<1>5. PICK z \in 0 .. d - 1 : z = v % d
  BY <1>4
<1>6. x = u * (2 * d) + a /\ v = w * d + z
  BY <1>1, <1>2, <1>4, <1>5
<1>7. x + i = (2 * u + w) * d + z /\ 2 * u + w \in Nat
  BY <1>3, <1>6
<1>8. ((2 * u + w) * d + z) % d = z
  BY <1>7, ModUnique
<1> QED
  BY <1>2, <1>3, <1>5, <1>7, <1>8

LEMMA ModMinus ==
  ASSUME NEW m \in Nat \ {0}, NEW x \in Nat, NEW y \in Nat, x <= y, y < x + m
  PROVE  ((y % m) + m - (x % m)) % m = y - x
<1>1. PICK u \in Nat : x = u * m + (x % m) /\ x % m \in 0 .. m - 1
  BY ModSplit
<1>2. PICK w \in Nat : y = w * m + (y % m) /\ y % m \in 0 .. m - 1
  BY ModSplit
<1>3. PICK a \in Nat, b \in Nat : a = x % m /\ b = y % m
  BY <1>1, <1>2
<1>4. x = u * m + a /\ y = w * m + b /\ a < m /\ b < m
  BY <1>1, <1>2, <1>3
<1>5. w <= u + 1
  <2> SUFFICES ASSUME w - u >= 2 PROVE FALSE
    OBVIOUS
  <2>1. (w - u) * m >= 2 * m
    OBVIOUS
  <2>2. (w - u) * m = w * m - u * m /\ w * m \in Nat /\ u * m \in Nat
    OBVIOUS
  <2>3. w * m + b < u * m + a + m
    BY <1>4
  <2>4. w * m - u * m >= 2 * m
    BY <2>1, <2>2
  <2> QED
    BY ONLY <1>4, <2>2, <2>3, <2>4, a \in Nat, b \in Nat, m \in Nat
<1>6. u + 1 - w \in Nat /\ y - x \in 0 .. m - 1
  BY <1>5
<1>7. b + m - a = (u + 1 - w) * m + (y - x)
  BY <1>4
<1>8. ((u + 1 - w) * m + (y - x)) % m = y - x
  BY <1>6, ModUnique
<1> QED
  BY <1>3, <1>7, <1>8

LEMMA ModTimes ==
  ASSUME NEW m \in Nat \ {0}, NEW b \in Nat, NEW x \in Nat, x >= b * m, x < b * m + m
  PROVE  x % m = x - b * m
<1>1. b * m \in Nat /\ x - b * m \in 0 .. m - 1 /\ x = b * m + (x - b * m)
  OBVIOUS
<1> QED
  BY <1>1, ModUnique
-----------------------------------------------------------------------------
(* The registers of the data path.                                          *)
Pointer == 0 .. 2 * DEPTH - 1
Place == 0 .. DEPTH - 1
Fifo == [wp : Pointer, rp : Pointer, wp_s : Pointer, rp_s : Pointer,
         empty : BOOLEAN, full : BOOLEAN, wr_rst : BOOLEAN, wr_rst_r : BOOLEAN,
         rd_rst : BOOLEAN, rd_rst_r : BOOLEAN, ra : Place, cell : [Place -> Nat]]
DataMaster ==
  [state : {"IDLE", "START_RX_FIFO", "START_TX_FIFO", "DATA_TRANSFER"},
   en_rx : BOOLEAN, en_tx : BOOLEAN, write : BOOLEAN, read : BOOLEAN,
   trans_done : BOOLEAN, tx_cycle : BOOLEAN, watchdog : Nat,
   status : SUBSET {"CFE", "EI", "CTE", "CC", "CCRCE"}]
SerialHost ==
  [state : {"IDLE", "READ_WAIT", "READ_DAT", "WRITE_DAT", "WRITE_CRC", "WRITE_BUSY"},
   cnt : Nat, we : BOOLEAN, rd : BOOLEAN, crc_ok : BOOLEAN, crc_s : BOOLEAN,
   crc_status : 0 .. 3, busy_int : BOOLEAN, next_block : BOOLEAN, blkcnt : Nat,
   got : Nat, first : Nat]
Setup == [blocks : Nat \ {0}, timeout : Nat, period : Nat \ {0, 1}, dir : {"rx", "tx"}]

DataTypeOK ==
  /\ setup \in Setup
  /\ request \in {"none", "rx", "tx"}
  /\ dm \in DataMaster
  /\ line \in SerialHost
  /\ rx \in Fifo /\ tx \in Fifo
  /\ dma \in [adr : Nat, rd_reg : BOOLEAN, rd_ack : BOOLEAN]
  /\ bus_wait \in Nat /\ wbm_ack \in BOOLEAN /\ tick \in Nat
  /\ ram \in [0 .. BLOCK * setup.blocks - 1 -> Nat]
  /\ sent \in Seq(Nat)

LEMMA PointerFacts ==
  ASSUME NEW x \in Pointer
  PROVE  Up(x) \in Pointer /\ Slot(x) \in Place
<1>1. DEPTH \in Nat \ {0} /\ 2 * DEPTH \in Nat \ {0} /\ x \in Nat
  BY SdDataAssumption DEF Pointer
<1>2. (x + 1) % (2 * DEPTH) \in 0 .. 2 * DEPTH - 1 /\ x % DEPTH \in 0 .. DEPTH - 1
  BY <1>1
<1> QED
  BY <1>2 DEF Up, Slot, Pointer, Place

LEMMA Written ==
  ASSUME NEW f \in Fifo, NEW run \in BOOLEAN, NEW we \in BOOLEAN, NEW word \in Nat, NEW g,
         g = WriteEdge(f, run, we, word)
  PROVE  /\ g \in Fifo
         /\ g.wr_rst_r <=> run
         /\ g.wr_rst <=> run /\ (f.wr_rst \/ f.wr_rst_r)
         /\ g.wp = IF ~f.wr_rst THEN 0 ELSE IF we THEN Up(f.wp) ELSE f.wp
         /\ g.cell = IF we THEN [f.cell EXCEPT ![Slot(f.wp)] = word] ELSE f.cell
         /\ g.rp_s = f.rp
         /\ g.full <=> IsFull(f.wp, f.rp_s) \/ (we /\ IsFull(Up(f.wp), f.rp_s))
         /\ g.rp = f.rp /\ g.wp_s = f.wp_s /\ g.ra = f.ra /\ (g.empty <=> f.empty)
         /\ (g.rd_rst <=> f.rd_rst) /\ (g.rd_rst_r <=> f.rd_rst_r)
<1>1. f.wp \in Pointer /\ Up(f.wp) \in Pointer /\ Slot(f.wp) \in Place /\ 0 \in Pointer
  BY PointerFacts, SdDataAssumption DEF Fifo, Pointer
<1>2. (IsFull(f.wp, f.rp_s) \/ (we /\ IsFull(Up(f.wp), f.rp_s))) \in BOOLEAN
  BY DEF IsFull
<1>3. /\ g.wp \in Pointer /\ g.cell \in [Place -> Nat] /\ g.full \in BOOLEAN
      /\ g.rp \in Pointer /\ g.wp_s \in Pointer /\ g.rp_s \in Pointer /\ g.ra \in Place
  BY <1>1, <1>2 DEF WriteEdge, Fifo
<1>4. g \in Fifo
  <2> DEFINE b == IsFull(f.wp, f.rp_s) \/ (we /\ IsFull(Up(f.wp), f.rp_s))
             h == [f EXCEPT !.wr_rst_r = run, !.wr_rst = run /\ (f.wr_rst \/ f.wr_rst_r),
                            !.wp = IF ~f.wr_rst THEN 0 ELSE IF we THEN Up(f.wp) ELSE f.wp,
                            !.cell = IF we THEN [f.cell EXCEPT ![Slot(f.wp)] = word] ELSE f.cell,
                            !.rp_s = f.rp]
  <2>1. g = [h EXCEPT !.full = b]
    BY DEF WriteEdge
  <2>2. b \in BOOLEAN
    BY DEF IsFull
  <2>3. h \in Fifo
    BY <1>1 DEF Fifo
  <2> HIDE DEF b, h
  <2> QED
    BY <2>1, <2>2, <2>3 DEF Fifo
<1>5. (g.full = TRUE) <=> (IsFull(f.wp, f.rp_s) \/ (we /\ IsFull(Up(f.wp), f.rp_s)))
  <2>1. CASE IsFull(f.wp, f.rp_s) \/ (we /\ IsFull(Up(f.wp), f.rp_s))
    <3>1. (IsFull(f.wp, f.rp_s) \/ (we /\ IsFull(Up(f.wp), f.rp_s))) = TRUE
      BY <1>2, <2>1
    <3> QED
      BY <2>1, <3>1 DEF WriteEdge, Fifo
  <2>2. CASE ~ (IsFull(f.wp, f.rp_s) \/ (we /\ IsFull(Up(f.wp), f.rp_s)))
    BY <2>2 DEF WriteEdge, Fifo
  <2> QED
    BY <2>1, <2>2
<1>6. g.full <=> IsFull(f.wp, f.rp_s) \/ (we /\ IsFull(Up(f.wp), f.rp_s))
  BY <1>3, <1>5
<1>7. /\ (g.wr_rst_r <=> run)
      /\ g.wr_rst <=> run /\ (f.wr_rst \/ f.wr_rst_r)
      /\ g.wp = IF ~f.wr_rst THEN 0 ELSE IF we THEN Up(f.wp) ELSE f.wp
      /\ g.cell = IF we THEN [f.cell EXCEPT ![Slot(f.wp)] = word] ELSE f.cell
      /\ g.rp_s = f.rp
      /\ g.rp = f.rp /\ g.wp_s = f.wp_s /\ g.ra = f.ra
      /\ (g.empty <=> f.empty)
      /\ (g.rd_rst <=> f.rd_rst) /\ (g.rd_rst_r <=> f.rd_rst_r)
  BY DEF WriteEdge, Fifo
<1> QED
  BY <1>4, <1>6, <1>7

LEMMA Read ==
  ASSUME NEW f \in Fifo, NEW run \in BOOLEAN, NEW re \in BOOLEAN, NEW g,
         g = ReadEdge(f, run, re)
  PROVE  /\ g \in Fifo
         /\ g.rd_rst_r <=> run
         /\ g.rd_rst <=> run /\ (f.rd_rst \/ f.rd_rst_r)
         /\ g.rp = IF ~f.rd_rst THEN 0 ELSE IF re THEN Up(f.rp) ELSE f.rp
         /\ g.ra = Slot(f.rp)
         /\ g.wp_s = f.wp
         /\ g.empty <=> (f.wp_s = f.rp) \/ (re /\ f.wp_s = Up(f.rp))
         /\ g.wp = f.wp /\ g.rp_s = f.rp_s /\ g.cell = f.cell /\ (g.full <=> f.full)
         /\ (g.wr_rst <=> f.wr_rst) /\ (g.wr_rst_r <=> f.wr_rst_r)
<1>1. f.rp \in Pointer /\ Up(f.rp) \in Pointer /\ Slot(f.rp) \in Place /\ 0 \in Pointer
  BY PointerFacts, SdDataAssumption DEF Fifo, Pointer
<1> QED
  BY <1>1 DEF ReadEdge, Fifo

LEMMA HeldReset ==
  ASSUME NEW f \in Fifo, NEW g, g = Held(f)
  PROVE  /\ g \in Fifo
         /\ ~ g.wr_rst /\ ~ g.wr_rst_r /\ ~ g.rd_rst /\ ~ g.rd_rst_r
         /\ g.wp = f.wp /\ g.rp = f.rp /\ g.wp_s = f.wp_s /\ g.rp_s = f.rp_s
         /\ g.ra = f.ra /\ g.cell = f.cell /\ (g.full <=> f.full) /\ (g.empty <=> f.empty)
BY DEF Held, Fifo

-----------------------------------------------------------------------------
(* The n-th word's pointer and place in a FIFO, and the bit of a word that  *)
(* a count of card cycles has come to.                                      *)
Ptr(n) == n % (2 * DEPTH)
Cel(n) == n % DEPTH
Bit(c) == c % WORD

LEMMA PtrFacts ==
  ASSUME NEW n \in Nat
  PROVE  Ptr(n) \in Pointer /\ Cel(n) \in Place /\ Up(Ptr(n)) = Ptr(n + 1) /\ Slot(Ptr(n)) = Cel(n)
<1>1. DEPTH \in Nat \ {0} /\ 2 * DEPTH \in Nat \ {0}
  BY SdDataAssumption
<1>2. Ptr(n) \in Pointer /\ Up(Ptr(n)) = Ptr(n + 1)
  BY <1>1, ModNext DEF Ptr, Pointer, Up
<1>3. Cel(n) \in Place
  BY <1>1 DEF Cel, Place
<1>4. Slot(Ptr(n)) = Cel(n)
  BY <1>1, ModTwice DEF Slot, Ptr, Cel
<1> QED
  BY <1>2, <1>3, <1>4

LEMMA PtrZero == Ptr(0) = 0 /\ Cel(0) = 0 /\ Slot(0) = 0 /\ 0 \in Pointer /\ 0 \in Place
<1>1. DEPTH \in Nat \ {0} /\ 2 * DEPTH \in Nat \ {0} /\ 0 \in Nat
  BY SdDataAssumption
<1>2. \A m \in Nat \ {0} : 0 % m = 0
  <2> SUFFICES ASSUME NEW m \in Nat \ {0} PROVE 0 % m = 0
    OBVIOUS
  <2>1. 0 * m + 0 = 0 /\ 0 \in 0 .. m - 1
    OBVIOUS
  <2>2. (0 * m + 0) % m = 0
    BY <2>1, ModUnique
  <2> QED
    BY <2>1, <2>2
<1> QED
  BY <1>1, <1>2 DEF Ptr, Cel, Slot, Pointer, Place

LEMMA SamePtr ==
  ASSUME NEW q \in Nat, NEW x \in Nat, q <= x, x <= q + DEPTH
  PROVE  Ptr(x) = Ptr(q) <=> x = q
<1>1. 2 * DEPTH \in Nat \ {0} /\ x < q + 2 * DEPTH
  BY SdDataAssumption
<1> QED
  BY <1>1, ModNear DEF Ptr

LEMMA CellApart ==
  ASSUME NEW n \in Nat, NEW x \in Nat, n < x, x < n + DEPTH
  PROVE  Cel(x) # Cel(n)
<1> SUFFICES ASSUME Cel(x) = Cel(n) PROVE FALSE
  OBVIOUS
<1>1. DEPTH \in Nat \ {0} /\ n <= x
  BY SdDataAssumption
<1>2. n % DEPTH = x % DEPTH
  BY DEF Cel
<1>3. n = x
  BY <1>1, <1>2, ModNear
<1> QED
  BY <1>3

LEMMA CellAgain ==
  ASSUME NEW n \in Nat
  PROVE  Cel(n + DEPTH) = Cel(n)
<1>1. DEPTH \in Nat \ {0}
  BY SdDataAssumption
<1>2. PICK u \in Nat : n = u * DEPTH + Cel(n) /\ Cel(n) \in 0 .. DEPTH - 1
  BY <1>1, ModSplit DEF Cel
<1>3. n + DEPTH = (u + 1) * DEPTH + Cel(n) /\ u + 1 \in Nat
  BY <1>1, <1>2
<1>4. ((u + 1) * DEPTH + Cel(n)) % DEPTH = Cel(n)
  BY <1>1, <1>2, <1>3, ModUnique
<1>5. (n + DEPTH) % DEPTH = Cel(n)
  BY <1>3, <1>4
<1> QED
  BY <1>5 DEF Cel

LEMMA FullWhen ==
  ASSUME NEW q \in Nat, NEW x \in Nat, q <= x, x <= q + DEPTH
  PROVE  IsFull(Ptr(x), Ptr(q)) <=> x = q + DEPTH
<1>1. DEPTH \in Nat \ {0}
  BY SdDataAssumption
<1>2. Slot(Ptr(x)) = Cel(x) /\ Slot(Ptr(q)) = Cel(q)
  BY PtrFacts
<1>3. Ptr(x) = Ptr(q) <=> x = q
  BY SamePtr
<1>4. q < x /\ x < q + DEPTH => Cel(x) # Cel(q)
  BY CellApart
<1>5. x = q + DEPTH => Cel(x) = Cel(q)
  BY CellAgain
<1>6. x = q + DEPTH => x # q
  BY <1>1
<1>7. x = q \/ x = q + DEPTH \/ (q < x /\ x < q + DEPTH)
  BY <1>1
<1> QED
  BY <1>2, <1>3, <1>4, <1>5, <1>6, <1>7, Zenon DEF IsFull

LEMMA BitFacts ==
  ASSUME NEW c \in Nat
  PROVE  /\ Bit(c) \in Nat /\ Bit(c) < WORD
         /\ Bit(c) < WORD - 1 => Bit(c + 1) = Bit(c) + 1
         /\ Bit(c) = WORD - 1 => Bit(c + 1) = 0
         /\ c < WORD => Bit(c) = c
         /\ WORD \in Nat /\ WORD >= 4
         /\ data_cycles \in Nat /\ data_cycles >= WORD /\ Bit(data_cycles) = 0
         /\ AskAt % WORD = WORD - 2
<1>1. WORD \in Nat \ {0} /\ WORD >= 4 /\ BLOCK \in Nat \ {0}
  BY SdDataAssumption
<1>2. /\ Bit(c) \in 0 .. WORD - 1
      /\ Bit(c) < WORD - 1 => Bit(c + 1) = Bit(c) + 1
      /\ Bit(c) = WORD - 1 => Bit(c + 1) = 0
  BY <1>1, ModNext DEF Bit
<1>3. \A v \in 0 .. WORD - 1 : v % WORD = v
  <2> SUFFICES ASSUME NEW v \in 0 .. WORD - 1 PROVE v % WORD = v
    OBVIOUS
  <2>1. 0 * WORD + v = v
    BY <1>1
  <2>2. (0 * WORD + v) % WORD = v
    BY <1>1, ModUnique
  <2> QED
    BY <2>1, <2>2
<1>4. data_cycles \in Nat /\ data_cycles >= WORD
  <2> DEFINE d == BLOCK * WORD
  <2>1. d >= WORD /\ d \in Nat
    BY <1>1
  <2> QED
    BY <2>1 DEF data_cycles
<1>5. Bit(data_cycles) = 0
  <2>1. BLOCK * WORD \in Nat /\ BLOCK * WORD + 0 = BLOCK * WORD /\ 0 \in 0 .. WORD - 1
    BY <1>1
  <2>2. (BLOCK * WORD + 0) % WORD = 0
    BY <1>1, <2>1, ModUnique
  <2>3. (BLOCK * WORD) % WORD = 0
    BY <2>1, <2>2
  <2> QED
    BY <2>3 DEF Bit, data_cycles
<1>6. AskAt % WORD = WORD - 2
  BY <1>1, <1>3 DEF AskAt
<1>7. c < WORD => Bit(c) = c
  BY <1>3, <1>1 DEF Bit
<1> QED
  BY <1>1, <1>2, <1>4, <1>5, <1>6, <1>7

-----------------------------------------------------------------------------
(* sd_data_master, as the others see it.                                    *)
Starting == dm.state \in {"START_RX_FIFO", "START_TX_FIFO"}
Stopped == dm.read /\ dm.write

DataControl ==
  /\ request # "none" => request = setup.dir /\ dm.state = "IDLE" /\ ~ enabled
  /\ dm.en_rx => setup.dir = "rx"
  /\ dm.en_tx => setup.dir = "tx"
  /\ dm.state = "START_RX_FIFO" => setup.dir = "rx" /\ ~ dm.write /\ (dm.read => dm.en_rx)
  /\ dm.state = "START_TX_FIFO" => setup.dir = "tx" /\ ~ dm.read /\ (dm.write => dm.en_tx)
  /\ dm.state = "DATA_TRANSFER" => enabled /\ (dm.tx_cycle <=> setup.dir = "tx")
  /\ Starting => ~ dm.trans_done

LineControl ==
  /\ line.state # "IDLE" =>
       /\ dm.state # "IDLE"
       /\ setup.dir = "rx" => dm.en_rx /\ line.state \in {"READ_WAIT", "READ_DAT"}
       /\ setup.dir = "tx" => dm.en_tx /\ line.state \in {"WRITE_DAT", "WRITE_CRC", "WRITE_BUSY"}
  /\ dm.state = "START_RX_FIFO" => line.state \in {"IDLE", "READ_WAIT"}
  /\ dm.state = "START_TX_FIFO" =>
       line.state = "IDLE" \/ (line.state = "WRITE_DAT" /\ line.cnt = 0 /\ dm.write)
  /\ dm.trans_done /\ line.state # "IDLE" => Stopped
  /\ line.state = "IDLE" /\ ~ Starting => (dm.read <=> dm.write)

(* While no transfer is on, the FIFOs are held reset, and what the bus's    *)
(* side keeps follows with its next edges.                                  *)
Off ==
  ~ enabled =>
    /\ line.state = "IDLE" /\ ~ line.we /\ ~ line.rd /\ ~ dm.read /\ ~ dm.write
    /\ ~ rx.wr_rst /\ ~ rx.wr_rst_r /\ ~ rx.rd_rst /\ ~ rx.rd_rst_r
    /\ ~ tx.wr_rst /\ ~ tx.wr_rst_r /\ ~ tx.rd_rst /\ ~ tx.rd_rst_r
    /\ tick >= 1 =>
         /\ ~ wbm_ack /\ bus_wait = 0
         /\ dma.adr = 0 /\ ~ dma.rd_reg /\ dma.rd_ack
         /\ rx.rp = 0 /\ tx.wp = 0
    /\ Starting =>
         /\ rx.wp = 0 /\ rx.rp_s = 0 /\ tx.rp = 0 /\ tx.wp_s = 0
         /\ tick >= 1 => rx.wp_s = 0 /\ tx.rp_s = 0
         /\ tick >= 2 => rx.empty /\ ~ tx.full /\ rx.ra = 0

-----------------------------------------------------------------------------
(* The steps, register by register.                                         *)
LEMMA MasterFacts ==
  ASSUME DataTypeOK, NEW next, next = dmNext
  PROVE  /\ next \in DataMaster
         /\ dm.state = "IDLE" =>
              /\ next.state = IF request = "tx" THEN "START_TX_FIFO"
                              ELSE IF request = "rx" THEN "START_RX_FIFO" ELSE "IDLE"
              /\ ~ next.en_tx /\ ~ next.en_rx /\ ~ next.write /\ ~ next.read
              /\ ~ next.trans_done /\ ~ next.tx_cycle
         /\ dm.state = "START_RX_FIFO" =>
              /\ next.state = IF line.state # "IDLE" THEN "DATA_TRANSFER" ELSE "START_RX_FIFO"
              /\ next.en_rx /\ ~ next.en_tx /\ ~ next.tx_cycle /\ next.read
              /\ (next.write <=> dm.write) /\ (next.trans_done <=> dm.trans_done)
         /\ dm.state = "START_TX_FIFO" =>
              /\ next.state = IF tx.full /\ line.state # "IDLE" THEN "DATA_TRANSFER" ELSE "START_TX_FIFO"
              /\ ~ next.en_rx /\ next.en_tx /\ next.tx_cycle
              /\ (next.write <=> tx.full \/ dm.write)
              /\ (next.read <=> dm.read) /\ (next.trans_done <=> dm.trans_done)
         /\ dm.state = "DATA_TRANSFER" =>
              /\ next.state = IF dm.trans_done THEN "IDLE" ELSE "DATA_TRANSFER"
              /\ (next.en_rx <=> dm.en_rx) /\ (next.en_tx <=> dm.en_tx)
              /\ (next.tx_cycle <=> dm.tx_cycle)
              /\ (next.read <=> next.write)
              /\ dm.trans_done => next.trans_done
              /\ line.state # "IDLE" =>
                   /\ ((dm.tx_cycle /\ tx.empty) \/ (~ dm.tx_cycle /\ rx.full)) => next.write
                   /\ next.trans_done => next.write \/ dm.trans_done
<1> USE DEF DataMaster
<1>1. /\ dm \in DataMaster /\ request \in {"none", "rx", "tx"}
      /\ setup \in Setup /\ tx.full \in BOOLEAN /\ tx.empty \in BOOLEAN /\ rx.full \in BOOLEAN
      /\ line.crc_ok \in BOOLEAN
  BY DEF DataTypeOK, Fifo, SerialHost
<1>6. ASSUME DOMAIN next = DOMAIN dm, next = [f \in DOMAIN dm |-> next[f]],
        /\ next.state \in {"IDLE", "START_RX_FIFO", "START_TX_FIFO", "DATA_TRANSFER"}
        /\ next.en_rx \in BOOLEAN /\ next.en_tx \in BOOLEAN /\ next.write \in BOOLEAN
        /\ next.read \in BOOLEAN /\ next.trans_done \in BOOLEAN /\ next.tx_cycle \in BOOLEAN
        /\ next.watchdog \in Nat /\ next.status \in SUBSET {"CFE", "EI", "CTE", "CC", "CCRCE"}
      PROVE  next \in DataMaster
  BY <1>1, <1>6
<1>2. CASE dm.state = "IDLE"
  <2>1. next = dmIdle
    BY <1>2 DEF dmNext
  <2> DEFINE st == IF request = "tx" THEN "START_TX_FIFO"
                   ELSE IF request = "rx" THEN "START_RX_FIFO" ELSE "IDLE"
  <2>2. next = [dm EXCEPT !.state = st,
             !.en_tx = FALSE, !.en_rx = FALSE, !.write = FALSE, !.read = FALSE,
             !.trans_done = FALSE, !.tx_cycle = FALSE, !.watchdog = 0]
    BY <1>1, <2>1 DEF dmIdle
  <2>3. st \in {"IDLE", "START_RX_FIFO", "START_TX_FIFO"}
    OBVIOUS
  <2> HIDE DEF st
  <2>6. next \in DataMaster
    <3>1. DOMAIN next = DOMAIN dm /\ next = [f \in DOMAIN dm |-> next[f]]
      BY <1>1, <2>2, <2>3
    <3>2. /\ next.state \in {"IDLE", "START_RX_FIFO", "START_TX_FIFO", "DATA_TRANSFER"}
          /\ next.en_rx \in BOOLEAN /\ next.en_tx \in BOOLEAN /\ next.write \in BOOLEAN
          /\ next.read \in BOOLEAN /\ next.trans_done \in BOOLEAN /\ next.tx_cycle \in BOOLEAN
          /\ next.watchdog \in Nat /\ next.status \in SUBSET {"CFE", "EI", "CTE", "CC", "CCRCE"}
      BY <1>1, <2>2, <2>3
    <3> QED
      BY <1>6, <3>1, <3>2
  <2>4. next.state = st
    BY <1>1, <2>2
  <2>5. st = IF request = "tx" THEN "START_TX_FIFO"
             ELSE IF request = "rx" THEN "START_RX_FIFO" ELSE "IDLE"
    BY DEF st
  <2> QED
    BY <1>1, <1>2, <2>2, <2>4, <2>5, <2>6
<1>3. CASE dm.state = "START_RX_FIFO"
  <2>1. next = dmStartRx
    BY <1>3 DEF dmNext
  <2> QED
    BY <1>1, <1>3, <2>1 DEF dmStartRx, xfr_complete
<1>4. CASE dm.state = "START_TX_FIFO"
  <2>1. next = dmStartTx
    BY <1>4 DEF dmNext
  <2> QED
    BY <1>1, <1>4, <2>1 DEF dmStartTx, xfr_complete
<1>5. CASE dm.state = "DATA_TRANSFER"
  <2>1. next = dmTransfer
    BY <1>5 DEF dmNext
  <2> DEFINE short == IF dm.tx_cycle THEN tx.empty ELSE rx.full
             late == DataLate
             complete == xfr_complete /\ ~late
             stop == (short \/ late) /\ ~complete
             status == dm.status \cup
               (IF short /\ ~dm.trans_done THEN {"CFE", "EI"} ELSE {}) \cup
               (IF late THEN {"CTE", "EI"} ELSE {}) \cup
               (IF ~complete \/ dm.trans_done THEN {}
                ELSE IF line.crc_ok THEN {"CC"} ELSE {"CCRCE", "EI"})
  <2>2. short \in BOOLEAN /\ late \in BOOLEAN /\ complete \in BOOLEAN /\ stop \in BOOLEAN
    BY <1>1 DEF DataLate, xfr_complete
  <2>3. status \in SUBSET {"CFE", "EI", "CTE", "CC", "CCRCE"}
    BY <1>1
  <2>4. (IF setup.timeout = 0 \/ late THEN dm.watchdog ELSE dm.watchdog + 1) \in Nat
    BY <1>1
  <2>5. next = [dm EXCEPT
        !.state = IF dm.trans_done THEN "IDLE" ELSE @,
        !.watchdog = IF setup.timeout = 0 \/ late THEN @ ELSE @ + 1,
        !.trans_done = @ \/ short \/ late \/ complete,
        !.write = stop, !.read = stop,
        !.status = status]
    BY <2>1 DEF dmTransfer
  <2> DEFINE done == dm.trans_done \/ short \/ late \/ complete
  <2>6. done \in BOOLEAN /\ stop \in BOOLEAN
    BY <2>2
  <2>7. /\ line.state # "IDLE" => ~ complete /\ (stop <=> short \/ late)
        /\ ((dm.tx_cycle /\ tx.empty) \/ (~ dm.tx_cycle /\ rx.full)) => short
    BY <1>1 DEF xfr_complete
  <2>8. done <=> dm.trans_done \/ short \/ late \/ complete
    OBVIOUS
  <2>9. next = [dm EXCEPT
        !.state = IF dm.trans_done THEN "IDLE" ELSE @,
        !.watchdog = IF setup.timeout = 0 \/ late THEN @ ELSE @ + 1,
        !.trans_done = done,
        !.write = stop, !.read = stop,
        !.status = status]
    BY <2>5
  <2> HIDE DEF short, late, complete, stop, status, done
  <2>11. next \in DataMaster
    <3>1. DOMAIN next = DOMAIN dm /\ next = [f \in DOMAIN dm |-> next[f]]
      BY <1>1, <1>5, <2>2, <2>3, <2>4, <2>6, <2>9
    <3>2. /\ next.state \in {"IDLE", "START_RX_FIFO", "START_TX_FIFO", "DATA_TRANSFER"}
          /\ next.en_rx \in BOOLEAN /\ next.en_tx \in BOOLEAN /\ next.write \in BOOLEAN
          /\ next.read \in BOOLEAN /\ next.trans_done \in BOOLEAN /\ next.tx_cycle \in BOOLEAN
          /\ next.watchdog \in Nat /\ next.status \in SUBSET {"CFE", "EI", "CTE", "CC", "CCRCE"}
      BY <1>1, <1>5, <2>2, <2>3, <2>4, <2>6, <2>9
    <3> QED
      BY <1>6, <3>1, <3>2
  <2>10. /\ next.state = IF dm.trans_done THEN "IDLE" ELSE "DATA_TRANSFER"
         /\ (next.en_rx <=> dm.en_rx) /\ (next.en_tx <=> dm.en_tx)
         /\ (next.tx_cycle <=> dm.tx_cycle)
         /\ (next.write <=> stop) /\ (next.read <=> stop) /\ (next.trans_done <=> done)
    BY <1>1, <1>5, <2>2, <2>3, <2>4, <2>6, <2>9
  <2> QED
    BY <1>5, <2>2, <2>6, <2>7, <2>8, <2>10, <2>11
<1> QED
  BY <1>1, <1>2, <1>3, <1>4, <1>5

(* The registers of the serial host that the others depend on.              *)
LEMMA HostFacts ==
  ASSUME DataTypeOK, NEW bit \in BOOLEAN, NEW good \in BOOLEAN, NEW next, next = lineNext(bit, good)
  PROVE  /\ next \in SerialHost
         /\ Stopped => next.state = "IDLE"
         /\ line.state = "IDLE" =>
              /\ ~ Stopped => next.state = IF dm.write THEN "WRITE_DAT"
                                           ELSE IF dm.read THEN "READ_WAIT" ELSE "IDLE"
              /\ next.cnt = 0 /\ ~ next.we /\ ~ next.rd /\ next.got = 0
         /\ line.state = "READ_WAIT" =>
              /\ next.state \in {"READ_WAIT", "READ_DAT", "IDLE"}
              /\ ~ Stopped => next.state # "IDLE"
              /\ next.cnt = 0 /\ (next.we <=> line.we) /\ next.got = line.got
         /\ line.state = "READ_DAT" =>
              /\ line.cnt < data_cycles =>
                   /\ next.state \in {"READ_DAT", "IDLE"}
                   /\ next.cnt = line.cnt + 1
                   /\ next.we <=> Bit(line.cnt) = WORD - 1
                   /\ next.got = IF Bit(line.cnt) = WORD - 1 THEN line.got + 1 ELSE line.got
              /\ line.cnt >= data_cycles /\ line.cnt < data_cycles + CRC_CYCLES =>
                   /\ next.state \in {"READ_DAT", "IDLE"}
                   /\ next.cnt = line.cnt + 1 /\ ~ next.we /\ next.got = line.got
              /\ line.cnt >= data_cycles + CRC_CYCLES =>
                   /\ next.state \in {"READ_WAIT", "IDLE"}
                   /\ (next.we <=> line.we) /\ next.got = line.got
         /\ line.state = "WRITE_DAT" =>
              /\ next.state \in {"WRITE_DAT", "WRITE_CRC", "IDLE"}
              /\ ~ Stopped => next.state # "IDLE"
              /\ next.state = "WRITE_CRC" => line.cnt = data_cycles + CRC_CYCLES + 4
              /\ next.cnt = IF line.cnt = data_cycles + CRC_CYCLES + 4 THEN line.cnt ELSE line.cnt + 1
              /\ next.rd <=> line.cnt >= 2 /\ line.cnt <= data_cycles + 1 /\ Bit(line.cnt) = WORD - 2
              /\ next.first = IF Bit(line.cnt) = 1 /\ line.cnt < data_cycles THEN dout(tx) ELSE line.first
         /\ line.state = "WRITE_CRC" =>
              /\ next.state \in {"WRITE_CRC", "WRITE_BUSY", "IDLE"}
              /\ (next.rd <=> line.rd)
         /\ line.state = "WRITE_BUSY" =>
              /\ next.state \in {"WRITE_BUSY", "WRITE_DAT", "IDLE"}
              /\ (next.rd <=> line.rd) /\ next.cnt = 0
<1>1. /\ line \in SerialHost /\ dm.read \in BOOLEAN /\ dm.write \in BOOLEAN
      /\ setup.blocks - 1 \in Nat /\ dout(tx) \in Nat
  <2>1. setup.blocks - 1 \in Nat
    BY DEF DataTypeOK, Setup
  <2>2. dout(tx) \in Nat
    BY DEF DataTypeOK, Fifo, dout
  <2> QED
    BY <2>1, <2>2 DEF DataTypeOK, DataMaster
<1>2. data_cycles \in Nat /\ data_cycles + CRC_CYCLES \in Nat /\ data_cycles + CRC_CYCLES + 4 \in Nat /\ CRC_CYCLES >= 1
  BY BitFacts, SdDataAssumption
<1> DEFINE base == CASE line.state = "IDLE" -> lineIdle
                [] line.state = "READ_WAIT" -> readWait(bit)
                [] line.state = "READ_DAT" -> readDat(good)
                [] line.state = "WRITE_DAT" -> writeDat(bit)
                [] line.state = "WRITE_CRC" -> writeCrc(good)
                [] line.state = "WRITE_BUSY" -> writeBusy(bit)
<1>3. next = IF Stopped THEN [base EXCEPT !.state = "IDLE"] ELSE base
  <2>1. next = IF dm.write /\ dm.read THEN [base EXCEPT !.state = "IDLE"] ELSE base
    BY Zenon DEF lineNext
  <2> HIDE DEF base
  <2> QED
    BY <2>1 DEF Stopped
<1>4. line.state \in {"IDLE", "READ_WAIT", "READ_DAT", "WRITE_DAT", "WRITE_CRC", "WRITE_BUSY"}
  BY <1>1 DEF SerialHost
<1> HIDE DEF base
<1>5. ASSUME base \in SerialHost
      PROVE  /\ next \in SerialHost
             /\ Stopped => next.state = "IDLE"
             /\ ~ Stopped => next.state = base.state
             /\ next.state = "IDLE" \/ next.state = base.state
             /\ next.cnt = base.cnt /\ (next.we <=> base.we) /\ (next.rd <=> base.rd)
             /\ next.got = base.got /\ next.first = base.first
  BY <1>3, <1>5 DEF SerialHost
<1>12. ASSUME DOMAIN base = DOMAIN line, base = [f \in DOMAIN line |-> base[f]],
        /\ base.state \in {"IDLE", "READ_WAIT", "READ_DAT", "WRITE_DAT", "WRITE_CRC", "WRITE_BUSY"}
        /\ base.cnt \in Nat /\ base.we \in BOOLEAN /\ base.rd \in BOOLEAN
        /\ base.crc_ok \in BOOLEAN /\ base.crc_s \in BOOLEAN /\ base.crc_status \in 0 .. 3
        /\ base.busy_int \in BOOLEAN /\ base.next_block \in BOOLEAN /\ base.blkcnt \in Nat
        /\ base.got \in Nat /\ base.first \in Nat
      PROVE  base \in SerialHost
  BY <1>1, <1>12 DEF SerialHost
<1>6. CASE line.state = "IDLE"
  <2>1. base = lineIdle
    BY <1>6 DEF base
  <2>2. base \in SerialHost
    <3>1. DOMAIN base = DOMAIN line /\ base = [f \in DOMAIN line |-> base[f]]
      BY <1>1, <2>1 DEF lineIdle, SerialHost
    <3>2. /\ base.state \in {"IDLE", "READ_WAIT", "READ_DAT", "WRITE_DAT", "WRITE_CRC", "WRITE_BUSY"}
        /\ base.cnt \in Nat /\ base.we \in BOOLEAN /\ base.rd \in BOOLEAN
        /\ base.crc_ok \in BOOLEAN /\ base.crc_s \in BOOLEAN /\ base.crc_status \in 0 .. 3
        /\ base.busy_int \in BOOLEAN /\ base.next_block \in BOOLEAN /\ base.blkcnt \in Nat
        /\ base.got \in Nat /\ base.first \in Nat
      BY <1>1, <2>1 DEF lineIdle, SerialHost
    <3> QED
      BY <1>12, <3>1, <3>2
  <2>3. /\ base.state = IF dm.write THEN "WRITE_DAT" ELSE IF dm.read THEN "READ_WAIT" ELSE "IDLE"
        /\ base.cnt = 0 /\ ~ base.we /\ ~ base.rd /\ base.got = 0
    BY <1>1, <2>1 DEF lineIdle, SerialHost
  <2> QED
    BY <1>5, <1>6, <2>2, <2>3
<1>7. CASE line.state = "READ_WAIT"
  <2>1. base = readWait(bit)
    BY <1>7 DEF base
  <2>2. base \in SerialHost
    BY <1>1, <2>1 DEF readWait, SerialHost
  <2>3. /\ base.state \in {"READ_WAIT", "READ_DAT"}
        /\ base.cnt = 0 /\ (base.we <=> line.we) /\ base.got = line.got
    BY <1>1, <1>7, <2>1 DEF readWait, SerialHost
  <2> QED
    BY <1>5, <1>7, <2>2, <2>3
<1>8. CASE line.state = "READ_DAT"
  <2> DEFINE last == line.cnt % WORD = WORD - 1
             checked == line.cnt = data_cycles + CRC_CYCLES - 1
             more == MoreBlocks
  <2>1. base = IF line.cnt < data_cycles
     THEN [line EXCEPT !.cnt = @ + 1, !.we = last, !.crc_ok = TRUE,
                       !.got = IF last THEN @ + 1 ELSE @]
     ELSE IF line.cnt < data_cycles + CRC_CYCLES
     THEN [line EXCEPT !.cnt = @ + 1, !.we = FALSE,
                       !.crc_ok = IF checked THEN good ELSE @,
                       !.next_block = IF checked THEN more ELSE @,
                       !.blkcnt = IF checked /\ @ > 0 THEN @ - 1 ELSE @]
     ELSE [line EXCEPT !.state = IF line.next_block /\ line.crc_ok
                                 THEN "READ_WAIT" ELSE "IDLE"]
    BY <1>8 DEF base, readDat
  <2>2. last \in BOOLEAN /\ checked \in BOOLEAN /\ more \in BOOLEAN /\ (last <=> Bit(line.cnt) = WORD - 1)
    BY DEF MoreBlocks, Bit
  <2> HIDE DEF last, checked, more
  <2>3. CASE line.cnt < data_cycles
    <3>1. base = [line EXCEPT !.cnt = @ + 1, !.we = last, !.crc_ok = TRUE,
                       !.got = IF last THEN @ + 1 ELSE @]
      BY <2>1, <2>3
    <3>2. base \in SerialHost
      <4>1. DOMAIN base = DOMAIN line /\ base = [f \in DOMAIN line |-> base[f]]
        BY <1>1, <2>2, <3>1 DEF SerialHost
      <4>2. /\ base.state \in {"IDLE", "READ_WAIT", "READ_DAT", "WRITE_DAT", "WRITE_CRC", "WRITE_BUSY"}
          /\ base.cnt \in Nat /\ base.we \in BOOLEAN /\ base.rd \in BOOLEAN
          /\ base.crc_ok \in BOOLEAN /\ base.crc_s \in BOOLEAN /\ base.crc_status \in 0 .. 3
          /\ base.busy_int \in BOOLEAN /\ base.next_block \in BOOLEAN /\ base.blkcnt \in Nat
          /\ base.got \in Nat /\ base.first \in Nat
        BY <1>1, <2>2, <3>1 DEF SerialHost
      <4> QED
        BY <1>12, <4>1, <4>2
    <3>3. /\ base.state = "READ_DAT" /\ base.cnt = line.cnt + 1 /\ (base.we <=> last)
          /\ base.got = IF last THEN line.got + 1 ELSE line.got
      BY <1>1, <1>8, <2>2, <3>1 DEF SerialHost
    <3>4. line.cnt \in Nat
      BY <1>1 DEF SerialHost
    <3>5. /\ next.state \in {"READ_DAT", "IDLE"}
          /\ next.cnt = line.cnt + 1
          /\ next.we <=> last
          /\ next.got = IF last THEN line.got + 1 ELSE line.got
      BY <1>5, <3>2, <3>3
    <3>6. /\ next.we <=> Bit(line.cnt) = WORD - 1
          /\ next.got = IF Bit(line.cnt) = WORD - 1 THEN line.got + 1 ELSE line.got
      BY <2>2, <3>5
    <3>7. next \in SerialHost /\ (Stopped => next.state = "IDLE")
      BY <1>5, <3>2
    <3>8. ~ (line.cnt >= data_cycles)
      BY <1>2, <2>3, <3>4
    <3>9. ~ (line.cnt >= data_cycles + CRC_CYCLES)
      BY <1>2, <2>3, <3>4, SdDataAssumption
    <3> QED
      BY <1>8, <3>5, <3>6, <3>7, <3>8, <3>9
  <2>4. CASE line.cnt >= data_cycles /\ line.cnt < data_cycles + CRC_CYCLES
    <3>1. base = [line EXCEPT !.cnt = @ + 1, !.we = FALSE,
                       !.crc_ok = IF checked THEN good ELSE @,
                       !.next_block = IF checked THEN more ELSE @,
                       !.blkcnt = IF checked /\ @ > 0 THEN @ - 1 ELSE @]
      BY <1>1, <1>2, <2>1, <2>4 DEF SerialHost
    <3>2. base \in SerialHost
      <4>1. DOMAIN base = DOMAIN line /\ base = [f \in DOMAIN line |-> base[f]]
        BY <1>1, <2>2, <3>1 DEF SerialHost
      <4>2. /\ base.state \in {"IDLE", "READ_WAIT", "READ_DAT", "WRITE_DAT", "WRITE_CRC", "WRITE_BUSY"}
          /\ base.cnt \in Nat /\ base.we \in BOOLEAN /\ base.rd \in BOOLEAN
          /\ base.crc_ok \in BOOLEAN /\ base.crc_s \in BOOLEAN /\ base.crc_status \in 0 .. 3
          /\ base.busy_int \in BOOLEAN /\ base.next_block \in BOOLEAN /\ base.blkcnt \in Nat
          /\ base.got \in Nat /\ base.first \in Nat
        BY <1>1, <2>2, <3>1 DEF SerialHost
      <4> QED
        BY <1>12, <4>1, <4>2
    <3>3. base.state = "READ_DAT" /\ base.cnt = line.cnt + 1 /\ ~ base.we /\ base.got = line.got
      BY <1>1, <1>8, <3>1 DEF SerialHost
    <3>4. line.cnt \in Nat
      BY <1>1 DEF SerialHost
    <3> QED
      BY <1>2, <1>5, <1>8, <2>4, <3>2, <3>3, <3>4
  <2>5. CASE line.cnt >= data_cycles + CRC_CYCLES
    <3>1. base = [line EXCEPT !.state = IF line.next_block /\ line.crc_ok THEN "READ_WAIT" ELSE "IDLE"]
      BY <1>1, <1>2, <2>1, <2>5, SdDataAssumption DEF SerialHost
    <3>2. base \in SerialHost
      BY <1>1, <3>1 DEF SerialHost
    <3>3. base.state \in {"READ_WAIT", "IDLE"} /\ (base.we <=> line.we) /\ base.got = line.got
      BY <1>1, <3>1 DEF SerialHost
    <3>4. line.cnt \in Nat
      BY <1>1 DEF SerialHost
    <3> QED
      BY <1>2, <1>5, <1>8, <2>5, <3>2, <3>3, <3>4, SdDataAssumption
  <2> QED
    BY <1>1, <1>2, <2>3, <2>4, <2>5, SdDataAssumption DEF SerialHost
<1>9. CASE line.state = "WRITE_DAT"
  <2> DEFINE end == line.cnt = data_cycles + CRC_CYCLES + 4
             ask == line.cnt \in 2 .. data_cycles + 1 /\ line.cnt % WORD = AskAt % WORD
             new == line.cnt % WORD = 1 /\ line.cnt < data_cycles
  <2>1. base = [line EXCEPT !.state = IF end /\ bit THEN "WRITE_CRC" ELSE @,
               !.cnt = IF end THEN @ ELSE @ + 1,
               !.crc_ok = FALSE, !.next_block = FALSE,
               !.rd = ask,
               !.first = IF new THEN dout(tx) ELSE @]
    BY <1>9 DEF base, writeDat
  <2>2. end \in BOOLEAN /\ ask \in BOOLEAN /\ new \in BOOLEAN /\ (end <=> line.cnt = data_cycles + CRC_CYCLES + 4)
    OBVIOUS
  <2>3. /\ ask <=> line.cnt >= 2 /\ line.cnt <= data_cycles + 1 /\ Bit(line.cnt) = WORD - 2
        /\ new <=> Bit(line.cnt) = 1 /\ line.cnt < data_cycles
    <3>1. AskAt % WORD = WORD - 2
      BY BitFacts
    <3> QED
      BY <1>1, <1>2, <3>1 DEF SerialHost, Bit
  <2> HIDE DEF end, ask, new
  <2>4. base \in SerialHost
    <3>1. DOMAIN base = DOMAIN line /\ base = [f \in DOMAIN line |-> base[f]]
      BY <1>1, <2>1, <2>2 DEF SerialHost
    <3>2. /\ base.state \in {"IDLE", "READ_WAIT", "READ_DAT", "WRITE_DAT", "WRITE_CRC", "WRITE_BUSY"}
        /\ base.cnt \in Nat /\ base.we \in BOOLEAN /\ base.rd \in BOOLEAN
        /\ base.crc_ok \in BOOLEAN /\ base.crc_s \in BOOLEAN /\ base.crc_status \in 0 .. 3
        /\ base.busy_int \in BOOLEAN /\ base.next_block \in BOOLEAN /\ base.blkcnt \in Nat
        /\ base.got \in Nat /\ base.first \in Nat
      BY <1>1, <2>1, <2>2 DEF SerialHost
    <3> QED
      BY <1>12, <3>1, <3>2
  <2>5. /\ base.state = IF end /\ bit THEN "WRITE_CRC" ELSE "WRITE_DAT"
        /\ base.cnt = IF end THEN line.cnt ELSE line.cnt + 1
        /\ (base.rd <=> ask)
        /\ base.first = IF new THEN dout(tx) ELSE line.first
    BY <1>1, <1>9, <2>1, <2>2 DEF SerialHost
  <2> QED
    BY <1>5, <1>9, <2>2, <2>3, <2>4, <2>5
<1>10. CASE line.state = "WRITE_CRC"
  <2>1. base = writeCrc(good)
    BY <1>10 DEF base
  <2>2. (line.crc_status + 1) % 4 \in 0 .. 3
    BY <1>1 DEF SerialHost
  <2>3. base \in SerialHost
    BY <1>1, <2>1, <2>2 DEF writeCrc, SerialHost
  <2>4. base.state \in {"WRITE_CRC", "WRITE_BUSY"} /\ (base.rd <=> line.rd)
    BY <1>1, <1>10, <2>1 DEF writeCrc, SerialHost
  <2> QED
    BY <1>5, <1>10, <2>3, <2>4
<1>11. CASE line.state = "WRITE_BUSY"
  <2> DEFINE over == ~ line.busy_int
             more == MoreBlocks
  <2>1. base = [line EXCEPT !.state = IF over /\ line.next_block /\ line.crc_ok THEN "WRITE_DAT"
                            ELSE IF over THEN "IDLE" ELSE @,
                  !.crc_ok = line.crc_s,
                  !.busy_int = bit,
                  !.next_block = more,
                  !.blkcnt = IF over /\ @ > 0 THEN @ - 1 ELSE @,
                  !.crc_status = IF over THEN 0 ELSE @,
                  !.cnt = 0]
    BY <1>11 DEF base, writeBusy
  <2>2. over \in BOOLEAN /\ more \in BOOLEAN
    BY <1>1 DEF SerialHost, MoreBlocks
  <2> HIDE DEF over, more
  <2>3. base \in SerialHost
    <3>1. DOMAIN base = DOMAIN line /\ base = [f \in DOMAIN line |-> base[f]]
      BY <1>1, <2>1, <2>2 DEF SerialHost
    <3>2. /\ base.state \in {"IDLE", "READ_WAIT", "READ_DAT", "WRITE_DAT", "WRITE_CRC", "WRITE_BUSY"}
        /\ base.cnt \in Nat /\ base.we \in BOOLEAN /\ base.rd \in BOOLEAN
        /\ base.crc_ok \in BOOLEAN /\ base.crc_s \in BOOLEAN /\ base.crc_status \in 0 .. 3
        /\ base.busy_int \in BOOLEAN /\ base.next_block \in BOOLEAN /\ base.blkcnt \in Nat
        /\ base.got \in Nat /\ base.first \in Nat
      BY <1>1, <2>1, <2>2 DEF SerialHost
    <3> QED
      BY <1>12, <3>1, <3>2
  <2>4. base.state \in {"WRITE_BUSY", "WRITE_DAT", "IDLE"} /\ (base.rd <=> line.rd) /\ base.cnt = 0
    BY <1>1, <1>11, <2>1 DEF SerialHost
  <2> QED
    BY <1>5, <1>11, <2>3, <2>4
<1> QED
  BY <1>4, <1>6, <1>7, <1>8, <1>9, <1>10, <1>11


LEMMA EnabledFacts ==
  DataTypeOK => enabled \in BOOLEAN /\ Stopped \in BOOLEAN /\ dout(rx) \in Nat /\ dout(tx) \in Nat
<1>1. DataTypeOK => enabled \in BOOLEAN /\ Stopped \in BOOLEAN
  BY DEF DataTypeOK, DataMaster, enabled, Stopped
<1>2. DataTypeOK => dout(rx) \in Nat /\ dout(tx) \in Nat
  BY DEF DataTypeOK, Fifo, dout
<1> QED
  BY <1>1, <1>2

(* The edge of the card clock writes the FIFO to memory ...                 *)
LEMMA CardWrites ==
  ASSUME DataTypeOK, DataSdEdge
  PROVE  /\ rx' \in Fifo
         /\ rx'.wr_rst_r <=> enabled' /\ enabled
         /\ rx'.wr_rst <=> enabled' /\ enabled /\ (rx.wr_rst \/ rx.wr_rst_r)
         /\ (rx'.rd_rst <=> enabled' /\ rx.rd_rst) /\ (rx'.rd_rst_r <=> enabled' /\ rx.rd_rst_r)
         /\ rx'.wp = IF ~rx.wr_rst THEN 0 ELSE IF line.we THEN Up(rx.wp) ELSE rx.wp
         /\ rx'.cell = IF line.we THEN [rx.cell EXCEPT ![Slot(rx.wp)] = line.got] ELSE rx.cell
         /\ rx'.rp_s = rx.rp
         /\ rx'.full <=> IsFull(rx.wp, rx.rp_s) \/ (line.we /\ IsFull(Up(rx.wp), rx.rp_s))
         /\ rx'.rp = rx.rp /\ rx'.wp_s = rx.wp_s /\ rx'.ra = rx.ra /\ (rx'.empty <=> rx.empty)
<1> DEFINE w == WriteEdge(rx, enabled, line.we, line.got)
           on == dmNext.en_rx \/ dmNext.en_tx
<1>1. rx \in Fifo /\ line.we \in BOOLEAN /\ line.got \in Nat /\ enabled \in BOOLEAN
  BY EnabledFacts DEF DataTypeOK, SerialHost
<1>2. rx' = (IF on THEN w ELSE Held(w)) /\ enabled' = on
  BY DEF DataSdEdge, enabled
<1>3. /\ w \in Fifo
      /\ w.wr_rst_r <=> enabled
      /\ w.wr_rst <=> enabled /\ (rx.wr_rst \/ rx.wr_rst_r)
      /\ w.wp = IF ~rx.wr_rst THEN 0 ELSE IF line.we THEN Up(rx.wp) ELSE rx.wp
      /\ w.cell = IF line.we THEN [rx.cell EXCEPT ![Slot(rx.wp)] = line.got] ELSE rx.cell
      /\ w.rp_s = rx.rp
      /\ w.full <=> IsFull(rx.wp, rx.rp_s) \/ (line.we /\ IsFull(Up(rx.wp), rx.rp_s))
      /\ w.rp = rx.rp /\ w.wp_s = rx.wp_s /\ w.ra = rx.ra /\ (w.empty <=> rx.empty)
      /\ (w.rd_rst <=> rx.rd_rst) /\ (w.rd_rst_r <=> rx.rd_rst_r)
  BY <1>1, Written
<1> HIDE DEF w, on
<1>4. CASE on
  <2>1. rx' = w /\ enabled'
    BY <1>2, <1>4
  <2> QED
    BY <1>3, <2>1
<1>5. CASE ~ on
  <2>1. rx' = Held(w) /\ ~ enabled'
    BY <1>2, <1>5
  <2>2. /\ rx' \in Fifo
        /\ ~ rx'.wr_rst /\ ~ rx'.wr_rst_r /\ ~ rx'.rd_rst /\ ~ rx'.rd_rst_r
        /\ rx'.wp = w.wp /\ rx'.rp = w.rp /\ rx'.wp_s = w.wp_s /\ rx'.rp_s = w.rp_s
        /\ rx'.ra = w.ra /\ rx'.cell = w.cell /\ (rx'.full <=> w.full) /\ (rx'.empty <=> w.empty)
    BY <1>3, <2>1, HeldReset
  <2> QED
    BY <1>3, <2>1, <2>2
<1> QED
  BY <1>4, <1>5

(* ... and reads the FIFO to the card.                                      *)
LEMMA CardReads ==
  ASSUME DataTypeOK, DataSdEdge
  PROVE  /\ tx' \in Fifo
         /\ tx'.rd_rst_r <=> enabled' /\ enabled
         /\ tx'.rd_rst <=> enabled' /\ enabled /\ (tx.rd_rst \/ tx.rd_rst_r)
         /\ (tx'.wr_rst <=> enabled' /\ tx.wr_rst) /\ (tx'.wr_rst_r <=> enabled' /\ tx.wr_rst_r)
         /\ tx'.rp = IF ~tx.rd_rst THEN 0 ELSE IF line.rd THEN Up(tx.rp) ELSE tx.rp
         /\ tx'.ra = Slot(tx.rp)
         /\ tx'.wp_s = tx.wp
         /\ tx'.empty <=> (tx.wp_s = tx.rp) \/ (line.rd /\ tx.wp_s = Up(tx.rp))
         /\ tx'.wp = tx.wp /\ tx'.rp_s = tx.rp_s /\ tx'.cell = tx.cell /\ (tx'.full <=> tx.full)
<1> DEFINE r == ReadEdge(tx, enabled, line.rd)
           on == dmNext.en_rx \/ dmNext.en_tx
<1>1. tx \in Fifo /\ line.rd \in BOOLEAN /\ enabled \in BOOLEAN
  BY EnabledFacts DEF DataTypeOK, SerialHost
<1>2. tx' = (IF on THEN r ELSE Held(r)) /\ enabled' = on
  BY DEF DataSdEdge, enabled
<1>3. /\ r \in Fifo
      /\ r.rd_rst_r <=> enabled
      /\ r.rd_rst <=> enabled /\ (tx.rd_rst \/ tx.rd_rst_r)
      /\ r.rp = IF ~tx.rd_rst THEN 0 ELSE IF line.rd THEN Up(tx.rp) ELSE tx.rp
      /\ r.ra = Slot(tx.rp)
      /\ r.wp_s = tx.wp
      /\ r.empty <=> (tx.wp_s = tx.rp) \/ (line.rd /\ tx.wp_s = Up(tx.rp))
      /\ r.wp = tx.wp /\ r.rp_s = tx.rp_s /\ r.cell = tx.cell /\ (r.full <=> tx.full)
      /\ (r.wr_rst <=> tx.wr_rst) /\ (r.wr_rst_r <=> tx.wr_rst_r)
  BY <1>1, Read
<1> HIDE DEF r, on
<1>4. CASE on
  <2>1. tx' = r /\ enabled'
    BY <1>2, <1>4
  <2> QED
    BY <1>3, <2>1
<1>5. CASE ~ on
  <2>1. tx' = Held(r) /\ ~ enabled'
    BY <1>2, <1>5
  <2>2. /\ tx' \in Fifo
        /\ ~ tx'.wr_rst /\ ~ tx'.wr_rst_r /\ ~ tx'.rd_rst /\ ~ tx'.rd_rst_r
        /\ tx'.wp = r.wp /\ tx'.rp = r.rp /\ tx'.wp_s = r.wp_s /\ tx'.rp_s = r.rp_s
        /\ tx'.ra = r.ra /\ tx'.cell = r.cell /\ (tx'.full <=> r.full) /\ (tx'.empty <=> r.empty)
    BY <1>3, <2>1, HeldReset
  <2> QED
    BY <1>3, <2>1, <2>2
<1> QED
  BY <1>4, <1>5

(* The edge of the bus clock, the other way about.                          *)
LEMMA BusEdge ==
  ASSUME DataTypeOK, DataWbEdge
  PROVE  /\ tick < setup.period /\ tick' = tick + 1
         /\ UNCHANGED <<setup, request, dm, line, sent>>
         /\ wbm_ack' \in BOOLEAN /\ bus_wait' \in Nat
         /\ wbm_ack' => wbm_stb /\ ~ wbm_ack /\ bus_wait + 1 >= AckMin
         /\ bus_wait' > 0 => wbm_stb /\ ~ wbm_ack /\ bus_wait' = bus_wait + 1
         /\ dma'.adr = IF Taken THEN dma.adr + 1 ELSE IF ~enabled THEN 0 ELSE dma.adr
         /\ dma'.rd_reg <=> wbm_cyc /\ wbm_ack
         /\ dma'.rd_ack <=> dma.rd_reg \/ ~ (wbm_cyc /\ wbm_ack)
         /\ dma' \in [adr : Nat, rd_reg : BOOLEAN, rd_ack : BOOLEAN]
         /\ ram' = IF dm.en_rx /\ Taken THEN [ram EXCEPT ![dma.adr] = dout(rx)] ELSE ram
<1>1. /\ dma \in [adr : Nat, rd_reg : BOOLEAN, rd_ack : BOOLEAN] /\ bus_wait \in Nat
      /\ wbm_ack \in BOOLEAN
      /\ wbm_stb \in BOOLEAN /\ wbm_cyc \in BOOLEAN /\ enabled \in BOOLEAN /\ Taken \in BOOLEAN
  <2>1. DataTypeOK => wbm_cyc \in BOOLEAN /\ wbm_stb \in BOOLEAN
    BY DEF DataTypeOK, DataMaster, Fifo, wbm_cyc, wbm_stb
  <2> QED
    BY <2>1, EnabledFacts DEF DataTypeOK, Taken
<1>2. dma' = [adr |-> IF Taken THEN dma.adr + 1
                     ELSE IF ~enabled THEN 0 ELSE dma.adr,
             rd_reg |-> wbm_cyc /\ wbm_ack,
             rd_ack |-> dma.rd_reg \/ ~ (wbm_cyc /\ wbm_ack)]
  BY DEF DataWbEdge
<1>3. /\ dma'.adr = IF Taken THEN dma.adr + 1 ELSE IF ~enabled THEN 0 ELSE dma.adr
      /\ dma'.rd_reg <=> wbm_cyc /\ wbm_ack
      /\ dma'.rd_ack <=> dma.rd_reg \/ ~ (wbm_cyc /\ wbm_ack)
      /\ dma' \in [adr : Nat, rd_reg : BOOLEAN, rd_ack : BOOLEAN]
  <2> DEFINE a == IF Taken THEN dma.adr + 1 ELSE IF ~enabled THEN 0 ELSE dma.adr
             b == wbm_cyc /\ wbm_ack
             c == dma.rd_reg \/ ~ (wbm_cyc /\ wbm_ack)
  <2>1. a \in Nat /\ b \in BOOLEAN /\ c \in BOOLEAN
    BY <1>1
  <2>2. /\ a = IF Taken THEN dma.adr + 1 ELSE IF ~enabled THEN 0 ELSE dma.adr
        /\ b <=> wbm_cyc /\ wbm_ack
        /\ c <=> dma.rd_reg \/ ~ (wbm_cyc /\ wbm_ack)
    OBVIOUS
  <2>3. dma' = [adr |-> a, rd_reg |-> b, rd_ack |-> c]
    BY <1>2
  <2> HIDE DEF a, b, c
  <2> QED
    BY <2>1, <2>2, <2>3
<1>4. /\ wbm_ack' \in BOOLEAN /\ bus_wait' \in Nat
      /\ wbm_ack' => wbm_stb /\ ~ wbm_ack /\ bus_wait + 1 >= AckMin
      /\ bus_wait' > 0 => wbm_stb /\ ~ wbm_ack /\ bus_wait' = bus_wait + 1
  <2>1. PICK ack \in BOOLEAN :
          /\ ack => wbm_stb /\ ~ wbm_ack /\ bus_wait + 1 >= AckMin
          /\ wbm_ack' = ack
          /\ bus_wait' = IF wbm_stb /\ ~ wbm_ack /\ ~ack THEN bus_wait + 1 ELSE 0
    BY DEF DataWbEdge, BusAnswers
  <2> QED
    BY <1>1, <2>1
<1>5. /\ tick < setup.period /\ tick' = tick + 1
      /\ UNCHANGED <<setup, request, dm, line, sent>>
      /\ ram' = IF dm.en_rx /\ Taken THEN [ram EXCEPT ![dma.adr] = dout(rx)] ELSE ram
  BY DEF DataWbEdge
<1> QED
  BY <1>3, <1>4, <1>5

LEMMA BusReads ==
  ASSUME DataTypeOK, DataWbEdge
  PROVE  /\ rx' \in Fifo
         /\ rx'.rd_rst_r <=> enabled
         /\ rx'.rd_rst <=> enabled /\ (rx.rd_rst \/ rx.rd_rst_r)
         /\ rx'.rp = IF ~rx.rd_rst THEN 0
                     ELSE IF dm.en_rx /\ wbm_cyc /\ wbm_ack THEN Up(rx.rp) ELSE rx.rp
         /\ rx'.ra = Slot(rx.rp)
         /\ rx'.wp_s = rx.wp
         /\ rx'.empty <=> (rx.wp_s = rx.rp) \/ (dm.en_rx /\ wbm_cyc /\ wbm_ack /\ rx.wp_s = Up(rx.rp))
         /\ rx'.wp = rx.wp /\ rx'.rp_s = rx.rp_s /\ rx'.cell = rx.cell /\ (rx'.full <=> rx.full)
         /\ (rx'.wr_rst <=> rx.wr_rst) /\ (rx'.wr_rst_r <=> rx.wr_rst_r)
<1> DEFINE re == dm.en_rx /\ wbm_cyc /\ wbm_ack
<1>1. rx \in Fifo /\ re \in BOOLEAN /\ enabled \in BOOLEAN /\ rx' = ReadEdge(rx, enabled, re)
  BY EnabledFacts DEF DataTypeOK, DataWbEdge
<1>2. re <=> dm.en_rx /\ wbm_cyc /\ wbm_ack
  OBVIOUS
<1> HIDE DEF re
<1>3. /\ rx' \in Fifo
      /\ rx'.rd_rst_r <=> enabled
      /\ rx'.rd_rst <=> enabled /\ (rx.rd_rst \/ rx.rd_rst_r)
      /\ rx'.rp = IF ~rx.rd_rst THEN 0 ELSE IF re THEN Up(rx.rp) ELSE rx.rp
      /\ rx'.ra = Slot(rx.rp)
      /\ rx'.wp_s = rx.wp
      /\ rx'.empty <=> (rx.wp_s = rx.rp) \/ (re /\ rx.wp_s = Up(rx.rp))
      /\ rx'.wp = rx.wp /\ rx'.rp_s = rx.rp_s /\ rx'.cell = rx.cell /\ (rx'.full <=> rx.full)
      /\ (rx'.wr_rst <=> rx.wr_rst) /\ (rx'.wr_rst_r <=> rx.wr_rst_r)
  BY <1>1, Read
<1> QED
  BY <1>2, <1>3

LEMMA BusWrites ==
  ASSUME DataTypeOK, DataWbEdge
  PROVE  /\ tx' \in Fifo
         /\ tx'.wr_rst_r <=> enabled
         /\ tx'.wr_rst <=> enabled /\ (tx.wr_rst \/ tx.wr_rst_r)
         /\ (tx'.rd_rst <=> tx.rd_rst) /\ (tx'.rd_rst_r <=> tx.rd_rst_r)
         /\ tx'.wp = IF ~tx.wr_rst THEN 0 ELSE IF dm.en_tx /\ Taken THEN Up(tx.wp) ELSE tx.wp
         /\ tx'.cell = IF dm.en_tx /\ Taken THEN [tx.cell EXCEPT ![Slot(tx.wp)] = dma.adr + 1] ELSE tx.cell
         /\ tx'.rp_s = tx.rp
         /\ tx'.full <=> IsFull(tx.wp, tx.rp_s) \/ (dm.en_tx /\ Taken /\ IsFull(Up(tx.wp), tx.rp_s))
         /\ tx'.rp = tx.rp /\ tx'.wp_s = tx.wp_s /\ tx'.ra = tx.ra /\ (tx'.empty <=> tx.empty)
<1> DEFINE we == dm.en_tx /\ Taken
<1>1. /\ tx \in Fifo /\ we \in BOOLEAN /\ enabled \in BOOLEAN /\ dma.adr + 1 \in Nat
      /\ tx' = WriteEdge(tx, enabled, we, dma.adr + 1)
  BY EnabledFacts DEF DataTypeOK, DataWbEdge
<1>2. we <=> dm.en_tx /\ Taken
  OBVIOUS
<1> HIDE DEF we
<1>3. /\ tx' \in Fifo
      /\ tx'.wr_rst_r <=> enabled
      /\ tx'.wr_rst <=> enabled /\ (tx.wr_rst \/ tx.wr_rst_r)
      /\ tx'.wp = IF ~tx.wr_rst THEN 0 ELSE IF we THEN Up(tx.wp) ELSE tx.wp
      /\ tx'.cell = IF we THEN [tx.cell EXCEPT ![Slot(tx.wp)] = dma.adr + 1] ELSE tx.cell
      /\ tx'.rp_s = tx.rp
      /\ tx'.full <=> IsFull(tx.wp, tx.rp_s) \/ (we /\ IsFull(Up(tx.wp), tx.rp_s))
      /\ tx'.rp = tx.rp /\ tx'.wp_s = tx.wp_s /\ tx'.ra = tx.ra /\ (tx'.empty <=> tx.empty)
      /\ (tx'.rd_rst <=> tx.rd_rst) /\ (tx'.rd_rst_r <=> tx.rd_rst_r)
  BY <1>1, Written
<1> QED
  BY <1>2, <1>3

LEMMA CardEdge ==
  ASSUME DataTypeOK, DataSdEdge
  PROVE  /\ tick = setup.period /\ tick >= 2 /\ tick' = 0
         /\ request' = "none"
         /\ UNCHANGED <<setup, dma, bus_wait, wbm_ack, ram>>
         /\ dm' = dmNext
         /\ \E bit, good \in BOOLEAN : line' = lineNext(bit, good)
         /\ sent' = IF line.state = "WRITE_DAT" /\ line.cnt >= WORD /\ line.cnt <= data_cycles /\ Bit(line.cnt) = 0
                    THEN Append(sent, IF dout(tx) = line.first THEN line.first ELSE 0) ELSE sent
<1>1. tick = setup.period /\ setup \in Setup /\ line \in SerialHost
  BY DEF DataTypeOK, DataSdEdge
<1>2. tick >= 2
  BY <1>1 DEF Setup
<1>3. WORD \in Nat /\ data_cycles \in Nat /\ line.cnt \in Nat
  BY <1>1, BitFacts DEF SerialHost
<1>4. line.cnt \in WORD .. data_cycles /\ line.cnt % WORD = 0
        <=> line.cnt >= WORD /\ line.cnt <= data_cycles /\ Bit(line.cnt) = 0
  BY <1>3 DEF Bit
<1>5. sent' = IF /\ line.state = "WRITE_DAT"
                 /\ line.cnt \in WORD .. data_cycles /\ line.cnt % WORD = 0
              THEN Append(sent, IF dout(tx) = line.first THEN line.first ELSE 0)
              ELSE sent
  BY DEF DataSdEdge
<1>6. sent' = IF line.state = "WRITE_DAT" /\ line.cnt >= WORD /\ line.cnt <= data_cycles /\ Bit(line.cnt) = 0
              THEN Append(sent, IF dout(tx) = line.first THEN line.first ELSE 0) ELSE sent
  BY <1>4, <1>5
<1> QED
  BY <1>1, <1>2, <1>6 DEF DataSdEdge

-----------------------------------------------------------------------------
(* A transfer into memory: w words are in the FIFO's memory, the reader     *)
(* knows of p of them, and the writer that q of them have been taken.  What *)
(* the serial host has at hand it can always store, since it asks dm to     *)
(* stop in the first card cycle of a word that finds the FIFO full.         *)
RxCounts(w, p, q) ==
  /\ q <= dma.adr /\ dma.adr <= p /\ p <= w /\ w <= q + DEPTH
  /\ rx.wp = Ptr(w) /\ rx.rp = Ptr(dma.adr) /\ rx.wp_s = Ptr(p) /\ rx.rp_s = Ptr(q)
  /\ ~ rx.empty => dma.adr < p
  /\ ~ rx.full => w < q + DEPTH
  /\ \A n \in Nat : dma.adr <= n /\ n < w => rx.cell[Cel(n)] = n + 1
  /\ line.we => w < q + DEPTH /\ line.got = w + 1 /\ rx.wr_rst
  /\ line.state # "IDLE" /\ ~ line.we => line.got = w
  /\ w > 0 => rx.wr_rst /\ rx.rd_rst
  /\ dm.state = "START_RX_FIFO" => w = 0 /\ ~ line.we /\ ~ rx.full

RxLine ==
  /\ line.state = "READ_WAIT" => rx.wr_rst_r /\ ~ line.we /\ (rx.full => Stopped)
  /\ line.state = "READ_DAT" =>
       /\ rx.wr_rst
       /\ line.we => Bit(line.cnt) = 0 /\ line.cnt <= data_cycles
       /\ rx.full => Bit(line.cnt) = 1 \/ (Bit(line.cnt) = 2 /\ Stopped)
  /\ line.state # "IDLE" \/ tick >= 2 => rx.rd_rst
  /\ tick >= 1 => rx.rd_rst_r
  /\ wbm_ack => ~ rx.empty /\ dma.rd_ack /\ ~ dma.rd_reg
  /\ dma.rd_ack => rx.ra = Slot(rx.rp)

RxInv == dm.en_rx => RxLine /\ \E w, p, q \in Nat : RxCounts(w, p, q)

(* Memory holds the first m words and no others.                            *)
RamHolds(m) == \A a \in DOMAIN ram : ram[a] = IF a < m THEN a + 1 ELSE 0

RamInv ==
  /\ \E m \in Nat : RamHolds(m)
  /\ dm.en_rx => RamHolds(dma.adr)
  /\ ~ enabled /\ (Starting \/ request # "none") => RamHolds(0)

(* A transfer to the card: r words are taken out of the FIFO, the reader    *)
(* knows of p in it, and the writer that q have been taken.  In the window  *)
(* in which a word's last bits are sent, the FIFO gives out a word that has *)
(* been taken already; only the bus is slow enough to leave it there.       *)
InWindow == line.state = "WRITE_DAT" /\ line.cnt >= WORD /\ line.cnt <= data_cycles /\ Bit(line.cnt) = 0

TxWindow(r, q) ==
  /\ r = Len(sent) + 1 /\ tx.ra = Cel(Len(sent))
  /\ tick = 0 => q + 1 = r
  /\ Timely =>
       /\ tx.cell[Cel(Len(sent))] = r
       /\ dma.adr + 1 = r + DEPTH =>
            /\ tick <= 1 => tx.full
            /\ wbm_ack => tick >= AckMin + 2
            /\ bus_wait > 0 => bus_wait + 2 <= tick

TxCounts(r, p, q) ==
  /\ q <= r /\ r <= p /\ p <= dma.adr /\ dma.adr <= q + DEPTH
  /\ tx.wp = Ptr(dma.adr) /\ tx.rp = Ptr(r) /\ tx.wp_s = Ptr(p) /\ tx.rp_s = Ptr(q)
  /\ ~ tx.empty => r < p
  /\ ~ tx.full => dma.adr < q + DEPTH
  /\ \A n \in Nat : r <= n /\ n < dma.adr => tx.cell[Cel(n)] = n + 1
  /\ r <= q + 1 /\ (tick >= 1 => q = r)
  /\ ~ InWindow => r = Len(sent) /\ tx.ra = Cel(r)
  /\ InWindow => TxWindow(r, q)
  /\ dma.adr > 0 => tx.wr_rst
  /\ r > 0 => tx.rd_rst
  /\ dm.state = "START_TX_FIFO" =>
       /\ r = 0 /\ (tx.full => dma.adr = DEPTH)
       /\ dm.write => tx.full /\ p > 0 /\ tx.rd_rst_r

TxLine ==
  /\ tx.full => ~ wbm_ack /\ bus_wait = 0
  /\ bus_wait > 0 => tx.wr_rst_r
  /\ wbm_ack => tx.wr_rst
  /\ line.state # "IDLE" => tx.rd_rst
  /\ tx.empty /\ line.state # "IDLE" =>
       line.state = "WRITE_DAT" /\ (InWindow \/ (Bit(line.cnt) = 1 /\ Stopped))
  /\ line.rd <=> line.state = "WRITE_DAT" /\ Bit(line.cnt) = WORD - 1 /\ line.cnt < data_cycles
  /\ line.state = "WRITE_DAT" /\ line.cnt >= 2 /\ line.cnt <= data_cycles /\ Bit(line.cnt) # 1 =>
       line.first = Len(sent) + 1

Sending == dm.en_tx /\ (dm.state = "START_TX_FIFO" \/ line.state # "IDLE")

TxInv == Sending => TxLine /\ \E r, p, q \in Nat : TxCounts(r, p, q)

SentInv ==
  /\ Timely => LineInOrder
  /\ ~ enabled /\ (Starting \/ request # "none") => sent = <<>>

DataInv ==
  DataTypeOK /\ DataControl /\ LineControl /\ Off /\ RxInv /\ RamInv /\ TxInv /\ SentInv

-----------------------------------------------------------------------------
LEMMA DataInitInv == DataInit => DataInv
<1> SUFFICES ASSUME DataInit PROVE DataInv
  OBVIOUS
<1> USE DEF DataInit
<1>1. DEPTH \in Nat \ {0} /\ BLOCK \in Nat \ {0} /\ AckMin \in Nat
  BY SdDataAssumption
<1>2. 0 \in Pointer /\ [s \in 0 .. DEPTH - 1 |-> 0] \in [Place -> Nat] /\ 0 \in Place
  BY <1>1 DEF Pointer, Place
<1>3. EmptyFifo \in Fifo
  BY <1>2 DEF EmptyFifo, Fifo
<1>4. ram \in [0 .. BLOCK * setup.blocks - 1 -> Nat] /\ \A a \in DOMAIN ram : ram[a] = 0
  BY DEF NoWords
<1>5. DataTypeOK
  <2>1. dm \in DataMaster
    BY DEF DataMaster
  <2>2. line \in SerialHost
    BY DEF SerialHost
  <2>3. setup \in Setup
    BY DEF Setup
  <2>4. request \in {"none", "rx", "tx"} /\ dma \in [adr : Nat, rd_reg : BOOLEAN, rd_ack : BOOLEAN]
    OBVIOUS
  <2>5. bus_wait \in Nat /\ wbm_ack \in BOOLEAN /\ tick \in Nat
    OBVIOUS
  <2>6. sent \in Seq(Nat)
    <3>1. sent = <<>>
      OBVIOUS
    <3> QED
      BY ONLY <3>1
  <2> QED
    BY <1>3, <1>4, <2>1, <2>2, <2>3, <2>4, <2>5, <2>6 DEF DataTypeOK
<1>7. DataControl /\ LineControl
  BY DEF DataControl, LineControl, enabled, Starting, Stopped
<1>8. Off
  BY DEF Off, enabled, Starting, EmptyFifo
<1>9. RxInv /\ TxInv
  BY DEF RxInv, TxInv, Sending
<1>10. RamInv
  <2>1. RamHolds(0)
    BY <1>4 DEF RamHolds
  <2> QED
    BY <2>1 DEF RamInv
<1>11. SentInv
  <2>1. Len(sent) = 0
    OBVIOUS
  <2> QED
    BY <2>1 DEF SentInv, LineInOrder
<1> QED
  BY <1>5, <1>7, <1>8, <1>9, <1>10, <1>11 DEF DataInv

LEMMA DataTypeNext ==
  DataTypeOK /\ DataNext => DataTypeOK'
<1> SUFFICES ASSUME DataTypeOK, DataNext PROVE DataTypeOK'
  OBVIOUS
<1>1. CASE DataWbEdge
  <2>1. rx' \in Fifo /\ tx' \in Fifo
    BY <1>1, BusReads, BusWrites
  <2>2. ram' \in [0 .. BLOCK * setup.blocks - 1 -> Nat]
    <3>1. ram \in [0 .. BLOCK * setup.blocks - 1 -> Nat] /\ dout(rx) \in Nat
      BY EnabledFacts DEF DataTypeOK
    <3>2. ram' = IF dm.en_rx /\ Taken THEN [ram EXCEPT ![dma.adr] = dout(rx)] ELSE ram
      BY <1>1, BusEdge
    <3> QED
      BY <3>1, <3>2
  <2>3. tick' \in Nat /\ UNCHANGED <<setup, request, dm, line, sent>>
    BY <1>1, BusEdge DEF DataTypeOK
  <2>4. /\ wbm_ack' \in BOOLEAN /\ bus_wait' \in Nat
        /\ dma' \in [adr : Nat, rd_reg : BOOLEAN, rd_ack : BOOLEAN]
    BY <1>1, BusEdge
  <2> QED
    BY <2>1, <2>2, <2>3, <2>4 DEF DataTypeOK
<1>2. CASE DataSdEdge
  <2>1. rx' \in Fifo /\ tx' \in Fifo
    BY <1>2, CardWrites, CardReads
  <2>2. /\ tick' = 0 /\ request' = "none" /\ UNCHANGED <<setup, dma, bus_wait, wbm_ack, ram>>
        /\ dm' = dmNext
    BY <1>2, CardEdge
  <2>3. dm' \in DataMaster
    BY <2>2, MasterFacts
  <2>4. PICK bit, good \in BOOLEAN : line' = lineNext(bit, good)
    BY <1>2, CardEdge
  <2>5. line' \in SerialHost
    BY <2>4, HostFacts
  <2>6. sent' \in Seq(Nat)
    <3>1. (IF dout(tx) = line.first THEN line.first ELSE 0) \in Nat /\ sent \in Seq(Nat)
      BY DEF DataTypeOK, SerialHost
    <3>2. Append(sent, IF dout(tx) = line.first THEN line.first ELSE 0) \in Seq(Nat)
      BY <3>1
    <3> QED
      BY <1>2, <3>1, <3>2, CardEdge
  <2> QED
    BY <2>1, <2>2, <2>3, <2>5, <2>6 DEF DataTypeOK
<1>3. CASE DataClear
  <2>1. dm' \in DataMaster
    BY <1>3 DEF DataTypeOK, DataClear, DataMaster
  <2> QED
    BY <1>3, <2>1 DEF DataTypeOK, DataClear
<1>4. CASE DataIssue
  <2>1. setup' \in [blocks : BlockCounts, timeout : DataTimeouts, period : Periods, dir : {"rx", "tx"}]
    BY <1>4 DEF DataIssue
  <2>2. setup' \in Setup
    BY <2>1, SdDataAssumption DEF Setup
  <2>3. request' \in {"none", "rx", "tx"}
    BY <1>4, <2>1 DEF DataIssue
  <2>4. rx' \in Fifo /\ tx' \in Fifo
    <3>1. [s \in 0 .. DEPTH - 1 |-> 0] \in [Place -> Nat]
      BY DEF Place
    <3> QED
      BY <1>4, <3>1 DEF DataIssue, Stale, DataTypeOK, Fifo
  <2>5. line' \in SerialHost
    BY <1>4 DEF DataIssue, DataTypeOK, SerialHost
  <2>6. ram' \in [0 .. BLOCK * setup'.blocks - 1 -> Nat]
    BY <1>4 DEF DataIssue, NoWords
  <2>7. tick' = 0 /\ sent' = <<>> /\ UNCHANGED <<dm, dma, bus_wait, wbm_ack>>
    BY <1>4 DEF DataIssue
  <2> QED
    BY <2>2, <2>3, <2>4, <2>5, <2>6, <2>7 DEF DataTypeOK
<1> QED
  BY <1>1, <1>2, <1>3, <1>4 DEF DataNext


(* Between transfers software changes nothing that the invariant is about,  *)
(* and a new transfer starts afresh.                                        *)
LEMMA DataStutter ==
  ASSUME DataInv, DataTypeOK',
         UNCHANGED <<setup, request, line, rx, tx, dma, bus_wait, wbm_ack, tick, ram, sent>>,
         dm'.state = dm.state, dm'.en_rx = dm.en_rx, dm'.en_tx = dm.en_tx, dm'.write = dm.write,
         dm'.read = dm.read, dm'.trans_done = dm.trans_done, dm'.tx_cycle = dm.tx_cycle
  PROVE  DataInv'
<1> USE DEF enabled, Starting, Stopped, InWindow
<1>1. Timely' <=> Timely
  BY DEF Timely
<1>2. DataControl'
  BY DEF DataInv, DataControl
<1>3. LineControl'
  BY DEF DataInv, LineControl
<1>4. Off'
  BY DEF DataInv, Off
<1>5. RxInv'
  <2> SUFFICES ASSUME dm.en_rx PROVE RxLine' /\ (\E w, p, q \in Nat : RxCounts(w, p, q))'
    BY DEF RxInv
  <2>1. RxLine'
    BY DEF DataInv, RxInv, RxLine
  <2>2. PICK w, p, q \in Nat : RxCounts(w, p, q)
    BY DEF DataInv, RxInv
  <2>3. RxCounts(w, p, q)'
    BY <2>2 DEF RxCounts
  <2> QED
    BY <2>1, <2>3
<1>6. RamInv'
  <2>1. PICK m \in Nat : RamHolds(m)
    BY DEF DataInv, RamInv
  <2>2. \A n : RamHolds(n) => RamHolds(n)'
    BY DEF RamHolds
  <2>3. RamHolds(dma.adr) => RamHolds(dma.adr)'
    BY DEF RamHolds
  <2> QED
    BY <2>1, <2>2, <2>3 DEF DataInv, RamInv
<1>7. TxInv'
  <2> SUFFICES ASSUME Sending PROVE TxLine' /\ (\E r, p, q \in Nat : TxCounts(r, p, q))'
    BY DEF TxInv, Sending
  <2>1. TxLine'
    BY DEF DataInv, TxInv, TxLine
  <2>2. PICK r, p, q \in Nat : TxCounts(r, p, q)
    BY DEF DataInv, TxInv
  <2>3. TxCounts(r, p, q)'
    BY <1>1, <2>2 DEF TxCounts, TxWindow
  <2> QED
    BY <2>1, <2>3
<1>8. SentInv'
  BY <1>1 DEF DataInv, SentInv, LineInOrder
<1> QED
  BY <1>2, <1>3, <1>4, <1>5, <1>6, <1>7, <1>8 DEF DataInv

LEMMA DataIssueInv ==
  ASSUME DataInv, DataTypeOK', DataIssue
  PROVE  DataInv'
<1>1. /\ setup' \in [blocks : BlockCounts, timeout : DataTimeouts, period : Periods, dir : {"rx", "tx"}]
      /\ request' = setup'.dir /\ tick' = 0 /\ sent' = <<>> /\ ram' = NoWords'
      /\ UNCHANGED <<dm, dma, bus_wait, wbm_ack>>
      /\ dm.state = "IDLE" /\ ~ enabled /\ request = "none"
      /\ rx' = Stale(rx) /\ tx' = Stale(tx) /\ line' = [line EXCEPT !.first = 0]
  BY DEF DataIssue, Quiet
<1>2. /\ rx'.wr_rst = rx.wr_rst /\ rx'.wr_rst_r = rx.wr_rst_r
      /\ rx'.rd_rst = rx.rd_rst /\ rx'.rd_rst_r = rx.rd_rst_r
      /\ tx'.wr_rst = tx.wr_rst /\ tx'.wr_rst_r = tx.wr_rst_r
      /\ tx'.rd_rst = tx.rd_rst /\ tx'.rd_rst_r = tx.rd_rst_r
  BY <1>1 DEF DataInv, DataTypeOK, Stale, Fifo
<1>3. line'.state = line.state /\ line'.we = line.we /\ line'.rd = line.rd
  BY <1>1 DEF DataInv, DataTypeOK, SerialHost
<1>4. ~ enabled' /\ ~ Starting' /\ line.state = "IDLE"
  BY <1>1 DEF DataInv, Off, enabled, Starting
<1>6. DataControl'
  BY <1>1, <1>4 DEF DataInv, DataControl, enabled
<1>7. LineControl'
  BY <1>1, <1>3, <1>4 DEF DataInv, LineControl, Stopped, Starting
<1>8. Off'
  BY <1>1, <1>2, <1>3, <1>4 DEF DataInv, Off
<1>9. RxInv' /\ TxInv'
  BY <1>4 DEF RxInv, TxInv, Sending, enabled
<1>10. RamInv'
  <2>1. RamHolds(0)'
    BY <1>1 DEF RamHolds, NoWords
  <2> QED
    BY <1>4, <2>1 DEF RamInv, enabled
<1>11. SentInv'
  <2>1. Len(sent') = 0
    BY <1>1
  <2> QED
    BY <1>1, <2>1 DEF SentInv, LineInOrder
<1> QED
  BY <1>6, <1>7, <1>8, <1>9, <1>10, <1>11 DEF DataInv

-----------------------------------------------------------------------------
LEMMA BusControl ==
  ASSUME DataInv, DataWbEdge
  PROVE  DataControl' /\ LineControl' /\ Off' /\ SentInv'
<1> USE DEF enabled, Starting, Stopped
<1>1. DataTypeOK
  BY DEF DataInv
<1>2. UNCHANGED <<setup, request, dm, line, sent>> /\ tick' = tick + 1 /\ tick \in Nat
  BY <1>1, BusEdge DEF DataTypeOK
<1>3. DataControl' /\ LineControl' /\ SentInv'
  <2>1. Timely' <=> Timely
    BY <1>2 DEF Timely
  <2>2. DataControl'
    BY <1>2 DEF DataInv, DataControl
  <2>3. LineControl'
    BY <1>2 DEF DataInv, LineControl
  <2>4. SentInv'
    BY <1>2, <2>1 DEF DataInv, SentInv, LineInOrder
  <2> QED
    BY <2>2, <2>3, <2>4
<1>4. Off'
  <2> SUFFICES ASSUME ~ enabled PROVE Off'
    BY <1>2 DEF Off
  <2>1. ~ wbm_cyc /\ ~ wbm_stb /\ ~ Taken
    BY DEF wbm_cyc, wbm_stb, Taken
  <2>2. /\ line.state = "IDLE" /\ ~ line.we /\ ~ line.rd /\ ~ dm.read /\ ~ dm.write
        /\ ~ rx.wr_rst /\ ~ rx.wr_rst_r /\ ~ rx.rd_rst /\ ~ rx.rd_rst_r
        /\ ~ tx.wr_rst /\ ~ tx.wr_rst_r /\ ~ tx.rd_rst /\ ~ tx.rd_rst_r
    BY DEF DataInv, Off
  <2>3. /\ rx'.rp = 0 /\ rx'.ra = Slot(rx.rp) /\ rx'.wp_s = rx.wp
        /\ rx'.empty <=> rx.wp_s = rx.rp
        /\ rx'.wp = rx.wp /\ rx'.rp_s = rx.rp_s
        /\ ~ rx'.wr_rst /\ ~ rx'.wr_rst_r /\ ~ rx'.rd_rst /\ ~ rx'.rd_rst_r
    BY <1>1, <2>1, <2>2, BusReads
  <2>4. /\ tx'.wp = 0 /\ tx'.rp_s = tx.rp
        /\ tx'.full <=> IsFull(tx.wp, tx.rp_s)
        /\ tx'.rp = tx.rp /\ tx'.wp_s = tx.wp_s
        /\ ~ tx'.wr_rst /\ ~ tx'.wr_rst_r /\ ~ tx'.rd_rst /\ ~ tx'.rd_rst_r
    BY <1>1, <2>1, <2>2, BusWrites
  <2>5. dma'.adr = 0 /\ ~ dma'.rd_reg /\ dma'.rd_ack /\ ~ wbm_ack' /\ bus_wait' = 0
    <3>1. bus_wait' \in Nat /\ ~ (bus_wait' > 0)
      BY <1>1, <2>1, BusEdge
    <3> QED
      BY <1>1, <2>1, <3>1, BusEdge
  <2>6. Starting => rx.wp = 0 /\ rx.rp_s = 0 /\ tx.rp = 0 /\ tx.wp_s = 0
    BY DEF DataInv, Off
  <2>7. Starting /\ tick >= 1 => rx.wp_s = 0 /\ rx.rp = 0 /\ tx.rp_s = 0 /\ tx.wp = 0
    BY DEF DataInv, Off
  <2>8. Starting /\ tick >= 1 => rx'.empty /\ ~ tx'.full /\ rx'.ra = 0
    BY <2>3, <2>4, <2>7, PtrZero DEF IsFull
  <2>9. Starting /\ tick' >= 2 => rx'.empty /\ ~ tx'.full /\ rx'.ra = 0
    BY <1>2, <2>8
  <2> QED
    BY <1>2, <2>2, <2>3, <2>4, <2>5, <2>6, <2>9 DEF Off
<1> QED
  BY <1>3, <1>4

(* What the master and the serial host do together.                         *)
LEMMA StartIsFull ==
  DataInv /\ dm.state = "START_TX_FIFO" /\ dm.write => tx.full
<1>1. DataInv /\ dm.state = "START_TX_FIFO" /\ dm.write => Sending
  BY DEF DataInv, DataControl, Sending
<1> QED
  BY <1>1 DEF DataInv, TxInv, TxCounts

LEMMA CardControl ==
  ASSUME DataInv, DataSdEdge
  PROVE  DataControl' /\ LineControl'
<1> USE DEF enabled, Starting, Stopped
<1>1. DataTypeOK /\ DataControl /\ LineControl /\ Off
  BY DEF DataInv
<1>2. request' = "none" /\ setup' = setup /\ dm' = dmNext /\ request \in {"none", "rx", "tx"}
      /\ setup.dir \in {"rx", "tx"}
      /\ dm.state \in {"IDLE", "START_RX_FIFO", "START_TX_FIFO", "DATA_TRANSFER"}
      /\ line.state \in {"IDLE", "READ_WAIT", "READ_DAT", "WRITE_DAT", "WRITE_CRC", "WRITE_BUSY"}
  BY <1>1, CardEdge DEF DataTypeOK, Setup, DataMaster, SerialHost
<1>3. PICK bit, good \in BOOLEAN : line' = lineNext(bit, good)
  BY <1>1, CardEdge
<1>5. /\ Stopped => line'.state = "IDLE"
      /\ line.state = "IDLE" =>
           /\ ~ Stopped => line'.state = IF dm.write THEN "WRITE_DAT"
                                         ELSE IF dm.read THEN "READ_WAIT" ELSE "IDLE"
           /\ line'.cnt = 0
      /\ line.state \in {"READ_WAIT", "READ_DAT"} => line'.state \in {"READ_WAIT", "READ_DAT", "IDLE"}
      /\ line.state \in {"WRITE_DAT", "WRITE_CRC", "WRITE_BUSY"} =>
           line'.state \in {"WRITE_DAT", "WRITE_CRC", "WRITE_BUSY", "IDLE"}
      /\ line.state \in {"READ_WAIT", "WRITE_DAT"} /\ ~ Stopped => line'.state # "IDLE"
  <2>1. line' \in SerialHost /\ line.cnt \in Nat /\ data_cycles \in Nat
    BY <1>1, <1>3, HostFacts, BitFacts DEF DataTypeOK, SerialHost
  <2>2. Stopped => line'.state = "IDLE"
    BY <1>1, <1>3, HostFacts
  <2>3. line.state = "IDLE" =>
           /\ ~ Stopped => line'.state = IF dm.write THEN "WRITE_DAT"
                                         ELSE IF dm.read THEN "READ_WAIT" ELSE "IDLE"
           /\ line'.cnt = 0
    BY <1>1, <1>3, HostFacts
  <2>4. line.state = "READ_WAIT" => line'.state \in {"READ_WAIT", "READ_DAT", "IDLE"}
    BY <1>1, <1>3, HostFacts
  <2>5. line.state = "READ_DAT" => line'.state \in {"READ_WAIT", "READ_DAT", "IDLE"}
    <3>1. \/ line.cnt < data_cycles
          \/ line.cnt >= data_cycles /\ line.cnt < data_cycles + CRC_CYCLES
          \/ line.cnt >= data_cycles + CRC_CYCLES
      BY <2>1, SdDataAssumption
    <3> QED
      BY <1>1, <1>3, <3>1, HostFacts
  <2>6. line.state \in {"WRITE_DAT", "WRITE_CRC", "WRITE_BUSY"} =>
           line'.state \in {"WRITE_DAT", "WRITE_CRC", "WRITE_BUSY", "IDLE"}
    BY <1>1, <1>3, HostFacts
  <2>7. line.state \in {"READ_WAIT", "WRITE_DAT"} /\ ~ Stopped => line'.state # "IDLE"
    BY <1>1, <1>3, HostFacts
  <2> QED
    BY <2>2, <2>3, <2>4, <2>5, <2>6, <2>7
<1>6. dm.state = "START_TX_FIFO" /\ dm.write => tx.full
  BY StartIsFull DEF DataInv
<1>7. CASE dm.state = "IDLE"
  <2>1. /\ dm'.state = IF request = "tx" THEN "START_TX_FIFO"
                       ELSE IF request = "rx" THEN "START_RX_FIFO" ELSE "IDLE"
        /\ ~ dm'.en_tx /\ ~ dm'.en_rx /\ ~ dm'.write /\ ~ dm'.read /\ ~ dm'.trans_done
    BY <1>1, <1>2, <1>7, MasterFacts
  <2>2. line'.state = "IDLE"
    BY <1>1, <1>2, <1>5, <1>7 DEF LineControl
  <2>3. DataControl'
    BY <1>1, <1>2, <1>7, <2>1 DEF DataControl
  <2> QED
    BY <2>1, <2>2, <2>3 DEF LineControl
<1>8. CASE dm.state = "START_RX_FIFO"
  <2>1. /\ dm'.state = IF line.state # "IDLE" THEN "DATA_TRANSFER" ELSE "START_RX_FIFO"
        /\ dm'.en_rx /\ ~ dm'.en_tx /\ ~ dm'.tx_cycle /\ dm'.read
        /\ (dm'.write <=> dm.write) /\ (dm'.trans_done <=> dm.trans_done)
    BY <1>1, <1>2, <1>8, MasterFacts
  <2>2. DataControl'
    BY <1>1, <1>2, <1>8, <2>1 DEF DataControl
  <2>3. line.state = "IDLE" => line'.state \in {"IDLE", "READ_WAIT"}
    BY <1>1, <1>5, <1>8 DEF DataControl
  <2>4. line'.state \in {"READ_WAIT", "READ_DAT", "IDLE"}
    BY <1>1, <1>5, <1>8, <2>3 DEF LineControl
  <2>5. setup.dir = "rx" /\ ~ dm.trans_done /\ ~ dm.write
    BY <1>1, <1>8 DEF DataControl
  <2>7. line.state # "IDLE" => line'.state # "IDLE"
    BY <1>1, <1>2, <1>5, <1>8, <2>5 DEF LineControl
  <2>6. LineControl'
    BY <1>2, <1>8, <2>1, <2>3, <2>4, <2>5, <2>7 DEF LineControl
  <2> QED
    BY <2>2, <2>6
<1>9. CASE dm.state = "START_TX_FIFO"
  <2>1. /\ dm'.state = IF tx.full /\ line.state # "IDLE" THEN "DATA_TRANSFER" ELSE "START_TX_FIFO"
        /\ ~ dm'.en_rx /\ dm'.en_tx /\ dm'.tx_cycle
        /\ (dm'.write <=> tx.full \/ dm.write)
        /\ (dm'.read <=> dm.read) /\ (dm'.trans_done <=> dm.trans_done)
    BY <1>1, <1>2, <1>9, MasterFacts
  <2>2. DataControl'
    BY <1>1, <1>2, <1>9, <2>1 DEF DataControl
  <2>3. line.state = "IDLE" => line'.state = "IDLE" \/ (line'.state = "WRITE_DAT" /\ line'.cnt = 0 /\ dm.write)
    BY <1>1, <1>5, <1>9 DEF DataControl
  <2>4. line.state # "IDLE" => dm'.state = "DATA_TRANSFER"
    BY <1>1, <1>6, <1>9, <2>1 DEF LineControl
  <2>5. line'.state \in {"WRITE_DAT", "WRITE_CRC", "WRITE_BUSY", "IDLE"}
    BY <1>1, <1>5, <1>9, <2>3 DEF LineControl
  <2>6. setup.dir = "tx" /\ ~ dm.trans_done /\ ~ dm.read
    BY <1>1, <1>9 DEF DataControl
  <2>8. line.state # "IDLE" => line'.state # "IDLE"
    BY <1>1, <1>2, <1>5, <1>9, <2>6 DEF LineControl
  <2>7. LineControl'
    BY <1>2, <1>9, <2>1, <2>3, <2>4, <2>5, <2>6, <2>8 DEF LineControl
  <2> QED
    BY <2>2, <2>7
<1>10. CASE dm.state = "DATA_TRANSFER"
  <2>1. /\ dm'.state = IF dm.trans_done THEN "IDLE" ELSE "DATA_TRANSFER"
        /\ (dm'.en_rx <=> dm.en_rx) /\ (dm'.en_tx <=> dm.en_tx)
        /\ (dm'.tx_cycle <=> dm.tx_cycle)
        /\ (dm'.read <=> dm'.write)
        /\ dm.trans_done => dm'.trans_done
        /\ line.state # "IDLE" => (dm'.trans_done => dm'.write \/ dm.trans_done)
    BY <1>1, <1>2, <1>10, MasterFacts
  <2>2. DataControl'
    BY <1>1, <1>2, <1>10, <2>1 DEF DataControl
  <2>3. line.state = "IDLE" => line'.state = "IDLE"
    BY <1>1, <1>5, <1>10 DEF LineControl
  <2>4. dm.trans_done => line'.state = "IDLE"
    BY <1>1, <1>5, <2>3 DEF LineControl
  <2>5. line'.state # "IDLE" =>
          /\ line.state # "IDLE" /\ ~ dm.trans_done
          /\ setup.dir = "rx" => dm.en_rx /\ line'.state \in {"READ_WAIT", "READ_DAT"}
          /\ setup.dir = "tx" => dm.en_tx /\ line'.state \in {"WRITE_DAT", "WRITE_CRC", "WRITE_BUSY"}
    BY <1>1, <1>5, <2>3, <2>4 DEF LineControl
  <2>6. LineControl'
    BY <1>2, <1>10, <2>1, <2>5 DEF LineControl
  <2> QED
    BY <2>2, <2>6
<1> QED
  BY <1>2, <1>7, <1>8, <1>9, <1>10


LEMMA CardOff ==
  ASSUME DataInv, DataSdEdge
  PROVE  Off'
<1> USE DEF enabled, Starting
<1>1. DataTypeOK /\ DataControl /\ LineControl /\ Off
  BY DEF DataInv
<1> SUFFICES ASSUME ~ enabled' PROVE Off'
  BY DEF Off
<1>2. /\ tick >= 2 /\ tick' = 0 /\ setup' = setup /\ dm' = dmNext
      /\ dm.state \in {"IDLE", "START_RX_FIFO", "START_TX_FIFO", "DATA_TRANSFER"}
  BY <1>1, CardEdge DEF DataTypeOK, DataMaster
<1>3. dm.state = "IDLE"
  <2>1. dm.state = "DATA_TRANSFER" => enabled /\ (dm'.en_rx <=> dm.en_rx) /\ (dm'.en_tx <=> dm.en_tx)
    BY <1>1, <1>2, MasterFacts DEF DataControl
  <2>2. dm.state = "START_RX_FIFO" => dm'.en_rx
    BY <1>1, <1>2, MasterFacts
  <2>3. dm.state = "START_TX_FIFO" => dm'.en_tx
    BY <1>1, <1>2, MasterFacts
  <2> QED
    BY <1>2, <2>1, <2>2, <2>3
<1>4. /\ dm'.state = IF request = "tx" THEN "START_TX_FIFO"
                     ELSE IF request = "rx" THEN "START_RX_FIFO" ELSE "IDLE"
      /\ ~ dm'.read /\ ~ dm'.write
  BY <1>1, <1>2, <1>3, MasterFacts
<1>5. line'.state = "IDLE" /\ ~ line'.we /\ ~ line'.rd
  <2>1. PICK bit, good \in BOOLEAN : line' = lineNext(bit, good)
    BY <1>1, CardEdge
  <2>2. line.state = "IDLE" /\ (dm.read <=> dm.write)
    BY <1>1, <1>3 DEF LineControl
  <2> QED
    BY <1>1, <2>1, <2>2, HostFacts DEF Stopped
<1>6. /\ ~ rx'.wr_rst /\ ~ rx'.wr_rst_r /\ ~ rx'.rd_rst /\ ~ rx'.rd_rst_r
      /\ rx'.wp = IF ~rx.wr_rst THEN 0 ELSE IF line.we THEN Up(rx.wp) ELSE rx.wp
      /\ rx'.rp_s = rx.rp
  BY <1>1, CardWrites
<1>7. /\ ~ tx'.wr_rst /\ ~ tx'.wr_rst_r /\ ~ tx'.rd_rst /\ ~ tx'.rd_rst_r
      /\ tx'.rp = IF ~tx.rd_rst THEN 0 ELSE IF line.rd THEN Up(tx.rp) ELSE tx.rp
      /\ tx'.wp_s = tx.wp
  BY <1>1, CardReads
<1>8. Starting' => rx'.wp = 0 /\ rx'.rp_s = 0 /\ tx'.rp = 0 /\ tx'.wp_s = 0
  <2> SUFFICES ASSUME Starting' PROVE rx'.wp = 0 /\ rx'.rp_s = 0 /\ tx'.rp = 0 /\ tx'.wp_s = 0
    OBVIOUS
  <2>1. ~ enabled
    BY <1>1, <1>4 DEF DataControl
  <2>2. ~ rx.wr_rst /\ ~ tx.rd_rst /\ rx.rp = 0 /\ tx.wp = 0
    BY <1>1, <1>2, <2>1 DEF Off, DataTypeOK
  <2> QED
    BY <1>6, <1>7, <2>2
<1> QED
  BY <1>2, <1>4, <1>5, <1>6, <1>7, <1>8 DEF Off

-----------------------------------------------------------------------------
(* The bus takes words out of the FIFO.                                     *)
LEMMA BusRx ==
  ASSUME DataInv, DataWbEdge
  PROVE  RxInv'
<1> USE DEF enabled, Stopped
<1>1. DataTypeOK /\ DataControl /\ LineControl
  BY DEF DataInv
<1>2. UNCHANGED <<setup, request, dm, line, sent>> /\ tick' = tick + 1 /\ tick \in Nat
  BY <1>1, BusEdge DEF DataTypeOK
<1> SUFFICES ASSUME dm.en_rx PROVE RxLine' /\ (\E w, p, q \in Nat : RxCounts(w, p, q))'
  BY <1>2 DEF RxInv
<1>3. RxLine /\ \E w, p, q \in Nat : RxCounts(w, p, q)
  BY DEF DataInv, RxInv
<1>4. PICK w \in Nat, p \in Nat, q \in Nat : RxCounts(w, p, q)
  BY <1>3
<1>5. /\ q <= dma.adr /\ dma.adr <= p /\ p <= w /\ w <= q + DEPTH
      /\ rx.wp = Ptr(w) /\ rx.rp = Ptr(dma.adr) /\ rx.wp_s = Ptr(p) /\ rx.rp_s = Ptr(q)
      /\ ~ rx.empty => dma.adr < p
      /\ ~ rx.full => w < q + DEPTH
      /\ \A n \in Nat : dma.adr <= n /\ n < w => rx.cell[Cel(n)] = n + 1
      /\ line.we => w < q + DEPTH /\ line.got = w + 1 /\ rx.wr_rst
      /\ line.state # "IDLE" /\ ~ line.we => line.got = w
      /\ w > 0 => rx.wr_rst /\ rx.rd_rst
      /\ dm.state = "START_RX_FIFO" => w = 0 /\ ~ line.we /\ ~ rx.full
  BY <1>4 DEF RxCounts
<1>6. /\ wbm_cyc <=> ~ rx.empty
      /\ wbm_stb <=> ~ rx.empty /\ dma.rd_ack
      /\ wbm_ack => ~ rx.empty /\ dma.rd_ack /\ ~ dma.rd_reg
      /\ Taken <=> wbm_ack
      /\ (dm.en_rx /\ wbm_cyc /\ wbm_ack) <=> wbm_ack
      /\ dma.adr \in Nat /\ DEPTH \in Nat \ {0}
  BY <1>1, <1>3, SdDataAssumption DEF RxLine, wbm_cyc, wbm_stb, Taken, DataTypeOK
<1>7. dma'.adr = IF wbm_ack THEN dma.adr + 1 ELSE dma.adr
  BY <1>1, <1>6, BusEdge
<1>8. /\ wbm_ack' => ~ rx.empty /\ dma.rd_ack /\ ~ wbm_ack
      /\ dma'.rd_reg <=> wbm_ack
      /\ dma'.rd_ack <=> dma.rd_reg \/ ~ wbm_ack
  BY <1>1, <1>6, BusEdge
<1>9. /\ rx'.rd_rst_r
      /\ rx'.rd_rst <=> (rx.rd_rst \/ rx.rd_rst_r)
      /\ rx'.rp = IF ~rx.rd_rst THEN 0 ELSE IF wbm_ack THEN Up(rx.rp) ELSE rx.rp
      /\ rx'.ra = Slot(rx.rp)
      /\ rx'.wp_s = rx.wp
      /\ rx'.empty <=> (rx.wp_s = rx.rp) \/ (wbm_ack /\ rx.wp_s = Up(rx.rp))
      /\ rx'.wp = rx.wp /\ rx'.rp_s = rx.rp_s /\ rx'.cell = rx.cell /\ (rx'.full <=> rx.full)
      /\ (rx'.wr_rst <=> rx.wr_rst) /\ (rx'.wr_rst_r <=> rx.wr_rst_r)
  BY <1>1, <1>6, BusReads
<1>10. PICK a \in Nat : a = dma'.adr
  BY <1>6, <1>7
<1>11. wbm_ack => dma.adr < p
  BY <1>5, <1>6
<1>12. ~ rx.rd_rst => dma.adr = 0 /\ ~ wbm_ack
  BY <1>5, <1>6, <1>11
<1>13. rx'.rp = Ptr(a) /\ Up(rx.rp) = Ptr(dma.adr + 1)
  BY <1>5, <1>6, <1>7, <1>9, <1>10, <1>12, PtrFacts, PtrZero
<1>14. q <= a /\ a <= w
  BY <1>5, <1>6, <1>7, <1>10, <1>11
<1>15. ~ rx'.empty => a < w
  <2>1. rx.wp_s = rx.rp \/ p # dma.adr
    BY <1>5
  <2>2. wbm_ack => rx.wp_s = Up(rx.rp) \/ p # dma.adr + 1
    BY <1>5, <1>13
  <2> QED
    BY <1>5, <1>6, <1>7, <1>9, <1>10, <1>11, <2>1, <2>2
<1>16. RxCounts(w, w, q)'
  <2>1. \A n \in Nat : a <= n /\ n < w => rx'.cell[Cel(n)] = n + 1
    BY <1>5, <1>6, <1>7, <1>9, <1>10
  <2>2. /\ q <= dma'.adr /\ dma'.adr <= w /\ w <= w /\ w <= q + DEPTH
        /\ rx'.wp = Ptr(w) /\ rx'.rp = Ptr(dma'.adr) /\ rx'.wp_s = Ptr(w) /\ rx'.rp_s = Ptr(q)
    BY <1>5, <1>9, <1>10, <1>13, <1>14
  <2>3. /\ ~ rx'.empty => dma'.adr < w
        /\ ~ rx'.full => w < q + DEPTH
        /\ \A n \in Nat : dma'.adr <= n /\ n < w => rx'.cell[Cel(n)] = n + 1
    BY <1>5, <1>9, <1>10, <1>15, <2>1
  <2>4. /\ line'.we => w < q + DEPTH /\ line'.got = w + 1 /\ rx'.wr_rst
        /\ line'.state # "IDLE" /\ ~ line'.we => line'.got = w
        /\ w > 0 => rx'.wr_rst /\ rx'.rd_rst
        /\ dm'.state = "START_RX_FIFO" => w = 0 /\ ~ line'.we /\ ~ rx'.full
    BY <1>2, <1>5, <1>9
  <2> QED
    BY <2>2, <2>3, <2>4 DEF RxCounts
<1>17. RxLine'
  <2>1. /\ line.state = "READ_WAIT" => rx.wr_rst_r /\ ~ line.we /\ (rx.full => Stopped)
        /\ line.state = "READ_DAT" =>
             /\ rx.wr_rst
             /\ line.we => Bit(line.cnt) = 0 /\ line.cnt <= data_cycles
             /\ rx.full => Bit(line.cnt) = 1 \/ (Bit(line.cnt) = 2 /\ Stopped)
        /\ line.state # "IDLE" => rx.rd_rst
        /\ tick >= 1 => rx.rd_rst_r
        /\ dma.rd_ack => rx.ra = Slot(rx.rp)
    BY <1>3 DEF RxLine
  <2>2. wbm_ack' => ~ rx'.empty /\ dma'.rd_ack /\ ~ dma'.rd_reg
    <3>1. wbm_ack' => ~ (rx.wp_s = rx.rp)
      <4>1. wbm_ack' => dma.adr < p /\ p <= dma.adr + DEPTH
        BY <1>5, <1>6, <1>8
      <4>2. dma.adr < p /\ p <= dma.adr + DEPTH => Ptr(p) # Ptr(dma.adr)
        BY <1>6, SamePtr
      <4> QED
        BY <1>5, <4>1, <4>2
    <3> QED
      BY <1>8, <1>9, <3>1
  <2>3. dma'.rd_ack => rx'.ra = Slot(rx'.rp)
    <3>1. dma'.rd_ack => ~ wbm_ack
      BY <1>6, <1>8
    <3>2. ~ wbm_ack => rx'.rp = rx.rp
      BY <1>5, <1>9, <1>12, PtrZero
    <3> QED
      BY <1>9, <3>1, <3>2
  <2>4. tick' >= 2 => rx'.rd_rst
    BY <1>2, <1>9, <2>1
  <2> QED
    BY <1>2, <1>9, <2>1, <2>2, <2>3, <2>4 DEF RxLine
<1> QED
  BY <1>16, <1>17


(* The card's side puts words in.                                           *)
LEMMA CardRx ==
  ASSUME DataInv, DataSdEdge
  PROVE  RxInv'
<1> USE DEF enabled
<1>1. DataTypeOK /\ DataControl /\ LineControl /\ Off
  BY DEF DataInv
<1>2. /\ tick >= 2 /\ tick' = 0 /\ setup' = setup /\ dma' = dma /\ wbm_ack' = wbm_ack
      /\ dm' = dmNext
      /\ dm.state \in {"IDLE", "START_RX_FIFO", "START_TX_FIFO", "DATA_TRANSFER"}
      /\ dma.adr \in Nat /\ DEPTH \in Nat \ {0}
  BY <1>1, CardEdge, SdDataAssumption DEF DataTypeOK, DataMaster
<1>3. PICK bit, good \in BOOLEAN : line' = lineNext(bit, good)
  BY <1>1, CardEdge
<1> SUFFICES ASSUME dm'.en_rx PROVE RxLine' /\ (\E w, p, q \in Nat : RxCounts(w, p, q))'
  BY DEF RxInv
<1>4. /\ rx'.wr_rst_r <=> enabled
      /\ rx'.wr_rst <=> enabled /\ (rx.wr_rst \/ rx.wr_rst_r)
      /\ (rx'.rd_rst <=> rx.rd_rst) /\ (rx'.rd_rst_r <=> rx.rd_rst_r)
      /\ rx'.wp = IF ~rx.wr_rst THEN 0 ELSE IF line.we THEN Up(rx.wp) ELSE rx.wp
      /\ rx'.cell = IF line.we THEN [rx.cell EXCEPT ![Slot(rx.wp)] = line.got] ELSE rx.cell
      /\ rx'.rp_s = rx.rp
      /\ rx'.full <=> IsFull(rx.wp, rx.rp_s) \/ (line.we /\ IsFull(Up(rx.wp), rx.rp_s))
      /\ rx'.rp = rx.rp /\ rx'.wp_s = rx.wp_s /\ rx'.ra = rx.ra /\ (rx'.empty <=> rx.empty)
  BY <1>1, CardWrites
<1>5. dm.state \in {"START_RX_FIFO", "DATA_TRANSFER"}
  <2>1. dm.state = "IDLE" => ~ dm'.en_rx
    BY <1>1, <1>2, MasterFacts
  <2>2. dm.state = "START_TX_FIFO" => ~ dm'.en_rx
    BY <1>1, <1>2, MasterFacts
  <2> QED
    BY <1>2, <2>1, <2>2
<1>6. setup.dir = "rx"
  <2>1. dm.state = "DATA_TRANSFER" => dm.en_rx
    BY <1>1, <1>2, MasterFacts
  <2> QED
    BY <1>1, <1>5, <2>1 DEF DataControl
(* The first edge switches the FIFO on.                                     *)
<1>7. CASE ~ dm.en_rx
  <2>1. ~ enabled /\ dm.state = "START_RX_FIFO"
    BY <1>1, <1>5, <1>6, <1>7, MasterFacts DEF DataControl
  <2>2. /\ line.state = "IDLE" /\ ~ line.we /\ ~ dm.read /\ ~ dm.write
        /\ ~ rx.wr_rst
        /\ ~ wbm_ack /\ dma.adr = 0
        /\ rx.rp = 0 /\ rx.wp = 0 /\ rx.rp_s = 0 /\ rx.wp_s = 0 /\ rx.empty /\ rx.ra = 0
    BY <1>1, <1>2, <2>1 DEF Off, Starting, DataTypeOK
  <2>3. line'.state = "IDLE" /\ ~ line'.we
    BY <1>1, <1>3, <2>2, HostFacts DEF Stopped
  <2>4. RxCounts(0, 0, 0)'
    <3>1. rx'.wp = Ptr(0) /\ rx'.rp = Ptr(dma'.adr) /\ rx'.wp_s = Ptr(0) /\ rx'.rp_s = Ptr(0)
      BY <1>2, <1>4, <2>2, PtrZero
    <3>2. ~ rx'.full /\ rx'.empty
      BY <1>4, <2>2 DEF IsFull
    <3> QED
      BY <1>2, <2>2, <2>3, <3>1, <3>2 DEF RxCounts
  <2>5. RxLine'
    BY <1>2, <1>4, <2>2, <2>3, PtrZero DEF RxLine
  <2> QED
    BY <2>4, <2>5
<1>8. CASE dm.en_rx
  <2>1. enabled /\ RxLine /\ \E w, p, q \in Nat : RxCounts(w, p, q)
    BY <1>8 DEF DataInv, RxInv
  <2>2. PICK w \in Nat, p \in Nat, q \in Nat : RxCounts(w, p, q)
    BY <2>1
  <2>3. /\ q <= dma.adr /\ dma.adr <= p /\ p <= w /\ w <= q + DEPTH
        /\ rx.wp = Ptr(w) /\ rx.rp = Ptr(dma.adr) /\ rx.wp_s = Ptr(p) /\ rx.rp_s = Ptr(q)
        /\ ~ rx.empty => dma.adr < p
        /\ ~ rx.full => w < q + DEPTH
        /\ \A n \in Nat : dma.adr <= n /\ n < w => rx.cell[Cel(n)] = n + 1
        /\ line.we => w < q + DEPTH /\ line.got = w + 1 /\ rx.wr_rst
        /\ line.state # "IDLE" /\ ~ line.we => line.got = w
        /\ w > 0 => rx.wr_rst /\ rx.rd_rst
        /\ dm.state = "START_RX_FIFO" => w = 0 /\ ~ line.we /\ ~ rx.full
    BY <2>2 DEF RxCounts
  <2>4. /\ line.state = "READ_WAIT" => rx.wr_rst_r /\ ~ line.we /\ (rx.full => Stopped)
        /\ line.state = "READ_DAT" =>
             /\ rx.wr_rst
             /\ line.we => Bit(line.cnt) = 0 /\ line.cnt <= data_cycles
             /\ rx.full => Bit(line.cnt) = 1 \/ (Bit(line.cnt) = 2 /\ Stopped)
        /\ rx.rd_rst /\ rx.rd_rst_r
        /\ wbm_ack => ~ rx.empty /\ dma.rd_ack /\ ~ dma.rd_reg
        /\ dma.rd_ack => rx.ra = Slot(rx.rp)
    BY <1>1, <1>2, <2>1 DEF RxLine, DataTypeOK
  <2>5. line.state \in {"IDLE", "READ_WAIT", "READ_DAT"} /\ line.cnt \in Nat /\ data_cycles \in Nat
        /\ line.we \in BOOLEAN
    BY <1>1, <1>6, BitFacts DEF LineControl, DataTypeOK, SerialHost
  <2> DEFINE x == IF line.we THEN w + 1 ELSE w
  <2>6. PICK v \in Nat : v = x
    BY <2>5
  <2>7. PICK a \in Nat : a = dma.adr
    BY <1>2
  <2>8. rx'.wp = Ptr(v) /\ Slot(rx.wp) = Cel(w) /\ Up(rx.wp) = Ptr(w + 1)
    <3>1. Slot(rx.wp) = Cel(w) /\ Up(rx.wp) = Ptr(w + 1)
      BY <2>3, PtrFacts
    <3>2. ~ rx.wr_rst => w = 0 /\ ~ line.we
      BY <2>3
    <3> QED
      BY <1>4, <2>3, <2>6, <3>1, <3>2, PtrZero
  <2>9. w <= v /\ v <= q + DEPTH
    BY <1>2, <2>3, <2>6
  <2>10. ~ rx'.full => v < q + DEPTH
    <3>1. w = q + DEPTH => IsFull(Ptr(w), Ptr(q))
      BY <2>3, <2>7, FullWhen
    <3>2. line.we /\ w + 1 = q + DEPTH => IsFull(Ptr(w + 1), Ptr(q))
      <4>1. w + 1 \in Nat /\ q <= w + 1
        BY <2>3, <2>7
      <4> QED
        BY <4>1, FullWhen
    <3> QED
      BY <1>2, <1>4, <2>3, <2>6, <2>8, <2>9, <3>1, <3>2
  <2>11. rx'.full => v = q + DEPTH
    <3>1. IsFull(Ptr(w), Ptr(q)) => w = q + DEPTH
      BY <2>3, <2>7, FullWhen
    <3>2. line.we /\ IsFull(Ptr(w + 1), Ptr(q)) => w + 1 = q + DEPTH
      <4>1. line.we => w + 1 \in Nat /\ q <= w + 1 /\ w + 1 <= q + DEPTH
        BY <1>2, <2>3, <2>7
      <4> QED
        BY <4>1, FullWhen
    <3> QED
      BY <1>2, <1>4, <2>3, <2>6, <2>8, <2>9, <3>1, <3>2
  <2>12. \A n \in Nat : a <= n /\ n < v => rx'.cell[Cel(n)] = n + 1
    <3> SUFFICES ASSUME NEW n \in Nat, a <= n, n < v PROVE rx'.cell[Cel(n)] = n + 1
      OBVIOUS
    <3>1. n < w => rx.cell[Cel(n)] = n + 1
      BY <2>3, <2>7
    <3>2. CASE ~ line.we
      BY <1>4, <2>6, <3>1, <3>2
    <3>3. CASE line.we
      <4>1. rx.cell \in [Place -> Nat] /\ Cel(w) \in Place /\ Cel(n) \in Place
        BY <1>1, PtrFacts DEF DataTypeOK, Fifo
      <4>2. rx'.cell = [rx.cell EXCEPT ![Cel(w)] = w + 1]
        BY <1>4, <2>3, <2>8, <3>3
      <4>3. CASE n = w
        BY <4>1, <4>2, <4>3
      <4>4. CASE n < w
        <5>1. w < n + DEPTH
          BY <1>2, <2>3, <2>7, <3>3
        <5>2. Cel(n) # Cel(w)
          BY <4>4, <5>1, CellApart
        <5> QED
          BY <3>1, <4>1, <4>2, <4>4, <5>2
      <4> QED
        BY <2>6, <3>3, <4>3, <4>4
    <3> QED
      BY <2>5, <3>2, <3>3
  (* What the serial host does next. *)
  <2>13. Stopped => line'.state = "IDLE"
    BY <1>1, <1>3, HostFacts
  <2>14. rx.full /\ line.state # "IDLE" => Stopped'
    <3>1. dm.state = "START_RX_FIFO" => ~ rx.full
      BY <2>3
    <3>2. dm.state = "DATA_TRANSFER" => ~ dm.tx_cycle
      BY <1>1, <1>6 DEF DataControl
    <3> QED
      BY <1>1, <1>2, <1>5, <3>1, <3>2, MasterFacts DEF Stopped
  <2>15. /\ line'.we => v < q + DEPTH /\ line'.got = v + 1 /\ rx'.wr_rst /\ ~ line.we
         /\ line'.state # "IDLE" /\ ~ line'.we => line'.got = v
         /\ line'.state = "READ_WAIT" => ~ line'.we /\ (rx'.full => Stopped')
         /\ line'.state = "READ_DAT" =>
              /\ rx'.wr_rst
              /\ line'.we => Bit(line'.cnt) = 0 /\ line'.cnt <= data_cycles
              /\ rx'.full => Bit(line'.cnt) = 1 \/ (Bit(line'.cnt) = 2 /\ Stopped')
    <3>1. /\ WORD \in Nat /\ WORD >= 4 /\ Bit(line.cnt) \in Nat /\ Bit(line.cnt) < WORD
          /\ Bit(line.cnt) < WORD - 1 => Bit(line.cnt + 1) = Bit(line.cnt) + 1
          /\ Bit(line.cnt) = WORD - 1 => Bit(line.cnt + 1) = 0
      BY <2>5, BitFacts
    <3>2. CASE line.state = "IDLE"
      <4>1. /\ ~ Stopped => line'.state = IF dm.write THEN "WRITE_DAT"
                                          ELSE IF dm.read THEN "READ_WAIT" ELSE "IDLE"
            /\ line'.cnt = 0 /\ ~ line'.we /\ line'.got = 0
        BY <1>1, <1>3, <3>2, HostFacts
      <4>2. CASE dm.state = "START_RX_FIFO"
        <5>1. w = 0 /\ ~ line.we /\ ~ rx.full /\ ~ dm.write
          BY <1>1, <2>3, <4>2 DEF DataControl
        <5>2. v = 0 /\ ~ rx'.full
          BY <1>2, <2>3, <2>6, <2>11, <5>1
        <5> QED
          BY <2>13, <4>1, <5>1, <5>2
      <4>3. CASE dm.state = "DATA_TRANSFER"
        <5>1. dm.read <=> dm.write
          BY <1>1, <3>2, <4>3 DEF LineControl, Starting
        <5> QED
          BY <2>13, <4>1, <5>1 DEF Stopped
      <4> QED
        BY <1>5, <4>2, <4>3
    <3>3. CASE line.state = "READ_WAIT"
      <4>1. /\ line'.state \in {"READ_WAIT", "READ_DAT", "IDLE"}
            /\ line'.cnt = 0 /\ ~ line'.we /\ line'.got = line.got
        BY <1>1, <1>3, <2>4, <3>3, HostFacts
      <4>2. line'.state # "IDLE" => ~ rx.full /\ ~ line.we /\ line.got = w /\ v = w
        BY <2>3, <2>4, <2>6, <2>13, <3>3
      <4>3. line'.state # "IDLE" => ~ rx'.full
        BY <2>3, <2>9, <2>11, <4>2
      <4>4. rx'.wr_rst
        BY <1>4, <2>1, <2>4, <3>3
      <4> QED
        BY <4>1, <4>2, <4>3, <4>4
    <3>4. CASE line.state = "READ_DAT"
      <4>1. /\ rx'.wr_rst
            /\ line.we => Bit(line.cnt) = 0 /\ line.cnt <= data_cycles
            /\ rx.full => Bit(line.cnt) = 1 \/ (Bit(line.cnt) = 2 /\ Stopped)
            /\ line.we => line.got = v
            /\ ~ line.we => line.got = v /\ v = w
        BY <1>4, <2>1, <2>3, <2>4, <2>6, <3>4
      <4>2. line'.state # "IDLE" /\ line'.cnt = line.cnt + 1 /\ line'.state = "READ_DAT" =>
              (rx'.full => Bit(line'.cnt) = 1 \/ (Bit(line'.cnt) = 2 /\ Stopped'))
        <5> SUFFICES ASSUME line'.state # "IDLE", line'.cnt = line.cnt + 1, rx'.full
                     PROVE  Bit(line'.cnt) = 1 \/ (Bit(line'.cnt) = 2 /\ Stopped')
          OBVIOUS
        <5>1. CASE line.we
          BY <3>1, <4>1, <5>1
        <5>2. CASE ~ line.we
          <6>1. rx.full
            BY <1>2, <2>3, <2>11, <4>1, <5>2
          <6>2. Bit(line.cnt) = 1 /\ Stopped'
            BY <2>13, <2>14, <3>4, <4>1, <6>1
          <6> QED
            BY <3>1, <6>2
        <5> QED
          BY <2>5, <5>1, <5>2
      <4>3. CASE line.cnt < data_cycles
        <5>1. /\ line'.state \in {"READ_DAT", "IDLE"}
              /\ line'.cnt = line.cnt + 1
              /\ line'.we <=> Bit(line.cnt) = WORD - 1
              /\ line'.got = IF Bit(line.cnt) = WORD - 1 THEN line.got + 1 ELSE line.got
          BY <1>1, <1>3, <3>4, <4>3, HostFacts
        <5>2. line'.we => ~ line.we /\ ~ rx.full
          BY <3>1, <4>1, <5>1
        <5>3. line'.we => v < q + DEPTH
          BY <2>3, <4>1, <5>2
        <5>4. line'.we => Bit(line'.cnt) = 0 /\ line'.cnt <= data_cycles
          BY <2>5, <3>1, <4>3, <5>1
        <5>5. line'.got = IF line'.we THEN v + 1 ELSE v
          BY <2>5, <4>1, <5>1
        <5> QED
          BY <4>1, <4>2, <5>1, <5>2, <5>3, <5>4, <5>5
      <4>4. CASE line.cnt >= data_cycles /\ line.cnt < data_cycles + CRC_CYCLES
        <5>1. /\ line'.state \in {"READ_DAT", "IDLE"}
              /\ line'.cnt = line.cnt + 1 /\ ~ line'.we /\ line'.got = line.got
          BY <1>1, <1>3, <3>4, <4>4, HostFacts
        <5> QED
          BY <2>5, <4>1, <4>2, <5>1
      <4>5. CASE line.cnt >= data_cycles + CRC_CYCLES
        <5>1. /\ line'.state \in {"READ_WAIT", "IDLE"}
              /\ (line'.we <=> line.we) /\ line'.got = line.got
          BY <1>1, <1>3, <3>4, <4>5, HostFacts
        <5>2. ~ line.we
          BY <2>5, <4>1, <4>5, SdDataAssumption
        <5>3. rx'.full => rx.full
          BY <1>2, <2>3, <2>11, <4>1, <5>2
        <5> QED
          BY <2>14, <3>4, <4>1, <5>1, <5>2, <5>3
      <4> QED
        BY <2>5, <4>3, <4>4, <4>5, SdDataAssumption
    <3> QED
      BY <2>5, <3>2, <3>3, <3>4
  <2>16. dm'.state = "START_RX_FIFO" => v = 0 /\ ~ line'.we /\ ~ rx'.full
    <3> SUFFICES ASSUME dm'.state = "START_RX_FIFO" PROVE v = 0 /\ ~ line'.we /\ ~ rx'.full
      OBVIOUS
    <3>1. dm.state = "START_RX_FIFO" /\ line.state = "IDLE"
      BY <1>1, <1>2, <1>5, MasterFacts
    <3>2. w = 0 /\ ~ line.we /\ ~ rx.full /\ ~ line'.we
      BY <1>1, <1>3, <2>3, <3>1, HostFacts
    <3> QED
      BY <1>2, <2>3, <2>6, <2>11, <3>2
  <2>17. RxCounts(v, p, a)'
    <3>1. /\ a <= dma'.adr /\ dma'.adr <= p /\ p <= v /\ v <= a + DEPTH
          /\ rx'.wp = Ptr(v) /\ rx'.rp = Ptr(dma'.adr) /\ rx'.wp_s = Ptr(p) /\ rx'.rp_s = Ptr(a)
      BY <1>2, <1>4, <2>3, <2>7, <2>8, <2>9
    <3>2. /\ ~ rx'.empty => dma'.adr < p
          /\ ~ rx'.full => v < a + DEPTH
          /\ \A n \in Nat : dma'.adr <= n /\ n < v => rx'.cell[Cel(n)] = n + 1
      BY <1>2, <1>4, <2>3, <2>7, <2>10, <2>12
    <3>3. /\ line'.we => v < a + DEPTH /\ line'.got = v + 1 /\ rx'.wr_rst
          /\ line'.state # "IDLE" /\ ~ line'.we => line'.got = v
      BY <1>2, <2>3, <2>7, <2>15
    <3>4. v > 0 => rx'.wr_rst /\ rx'.rd_rst
      BY <1>4, <2>1, <2>3, <2>4, <2>6
    <3> QED
      BY <2>16, <3>1, <3>2, <3>3, <3>4 DEF RxCounts
  <2>18. RxLine'
    <3>1. rx'.wr_rst_r /\ rx'.rd_rst /\ rx'.rd_rst_r
      BY <1>4, <2>1, <2>4
    <3>2. wbm_ack' => ~ rx'.empty /\ dma'.rd_ack /\ ~ dma'.rd_reg
      BY <1>2, <1>4, <2>4
    <3>3. dma'.rd_ack => rx'.ra = Slot(rx'.rp)
      BY <1>2, <1>4, <2>4
    <3> QED
      BY <2>15, <3>1, <3>2, <3>3 DEF RxLine
  <2> QED
    BY <2>17, <2>18
<1> QED
  BY <1>7, <1>8


-----------------------------------------------------------------------------
(* Memory is filled from its first word on.                                 *)
LEMMA BusRam ==
  ASSUME DataInv, DataWbEdge
  PROVE  RamInv'
<1> USE DEF enabled, Starting
<1>1. DataTypeOK /\ DataControl /\ Off /\ RamInv
  BY DEF DataInv
<1>2. /\ UNCHANGED <<setup, request, dm, line, sent>>
      /\ dma.adr \in Nat /\ ram \in [0 .. BLOCK * setup.blocks - 1 -> Nat]
      /\ dma'.adr = IF Taken THEN dma.adr + 1 ELSE IF ~enabled THEN 0 ELSE dma.adr
      /\ ram' = IF dm.en_rx /\ Taken THEN [ram EXCEPT ![dma.adr] = dout(rx)] ELSE ram
  BY <1>1, BusEdge DEF DataTypeOK
<1>3. CASE ~ dm.en_rx \/ ~ Taken
  <2>1. ram' = ram
    BY <1>2, <1>3
  <2>2. \A m : RamHolds(m) => RamHolds(m)'
    BY <2>1 DEF RamHolds
  <2>3. dm.en_rx => dma'.adr = dma.adr
    BY <1>2, <1>3
  <2>4. RamHolds(dma.adr) /\ dm.en_rx => RamHolds(dma.adr)'
    BY <2>1, <2>3 DEF RamHolds
  <2>5. PICK m \in Nat : RamHolds(m)
    BY <1>1 DEF RamInv
  <2> QED
    BY <1>1, <1>2, <2>2, <2>4, <2>5 DEF RamInv
<1>4. CASE dm.en_rx /\ Taken
  <2>1. dout(rx) = dma.adr + 1
    <3>1. wbm_ack /\ wbm_stb
      BY <1>4 DEF Taken
    <3>2. RxLine /\ \E w, p, q \in Nat : RxCounts(w, p, q)
      BY <1>4 DEF DataInv, RxInv
    <3>3. rx.ra = Slot(rx.rp) /\ ~ rx.empty
      BY <3>1, <3>2 DEF RxLine
    <3>4. PICK w \in Nat, p \in Nat, q \in Nat : RxCounts(w, p, q)
      BY <3>2
    <3>5. dma.adr < w /\ rx.rp = Ptr(dma.adr) /\ \A n \in Nat : dma.adr <= n /\ n < w => rx.cell[Cel(n)] = n + 1
      BY <1>2, <3>3, <3>4 DEF RxCounts
    <3>6. Slot(rx.rp) = Cel(dma.adr)
      BY <1>2, <3>5, PtrFacts
    <3> QED
      BY <1>2, <3>3, <3>5, <3>6 DEF dout
  <2>2. RamHolds(dma.adr)
    BY <1>1, <1>4 DEF RamInv
  <2>3. PICK a \in Nat : a = dma.adr
    BY <1>2
  <2>4. ram' = [ram EXCEPT ![a] = a + 1] /\ dma'.adr = a + 1
    BY <1>2, <1>4, <2>1, <2>3
  <2>5. \A n \in DOMAIN ram : ram[n] = IF n < a THEN n + 1 ELSE 0
    BY <2>2, <2>3 DEF RamHolds
  <2>6. \A n \in DOMAIN ram' : ram'[n] = IF n < a + 1 THEN n + 1 ELSE 0
    <3> SUFFICES ASSUME NEW n \in DOMAIN ram' PROVE ram'[n] = IF n < a + 1 THEN n + 1 ELSE 0
      OBVIOUS
    <3>1. n \in DOMAIN ram /\ DOMAIN ram = 0 .. BLOCK * setup.blocks - 1 /\ n \in Int
      BY <1>2, <2>4
    <3>2. n = a => ram'[n] = a + 1
      BY <2>4, <3>1
    <3>3. n # a => ram'[n] = ram[n] /\ (n < a <=> n < a + 1)
      BY <2>4, <3>1
    <3> QED
      BY <2>5, <3>1, <3>2, <3>3
  <2>7. RamHolds(a + 1)'
    BY <2>6 DEF RamHolds
  <2>8. RamHolds(dma.adr)'
    BY <2>4, <2>6 DEF RamHolds
  <2>9. a + 1 \in Nat
    OBVIOUS
  <2> QED
    BY <1>2, <1>4, <2>7, <2>8, <2>9 DEF RamInv
<1> QED
  BY <1>3, <1>4

LEMMA CardRam ==
  ASSUME DataInv, DataSdEdge
  PROVE  RamInv'
<1> USE DEF enabled, Starting
<1>1. DataTypeOK /\ DataControl /\ Off /\ RamInv
  BY DEF DataInv
<1>2. /\ tick >= 2 /\ UNCHANGED <<setup, dma, ram>> /\ request' = "none" /\ dm' = dmNext
      /\ dm.state \in {"IDLE", "START_RX_FIFO", "START_TX_FIFO", "DATA_TRANSFER"}
      /\ request \in {"none", "rx", "tx"} /\ tick \in Nat
  BY <1>1, CardEdge DEF DataTypeOK, DataMaster
<1>3. \A m : RamHolds(m) => RamHolds(m)'
  BY <1>2 DEF RamHolds
<1>4. PICK m \in Nat : RamHolds(m)
  BY <1>1 DEF RamInv
<1>5. dm'.en_rx => RamHolds(dma.adr)
  <2> SUFFICES ASSUME dm'.en_rx PROVE RamHolds(dma.adr)
    OBVIOUS
  <2>1. CASE dm.en_rx
    BY <1>1, <2>1 DEF RamInv
  <2>2. CASE ~ dm.en_rx
    <3>1. dm.state = "START_RX_FIFO"
      BY <1>1, <1>2, <2>2, MasterFacts
    <3>2. ~ enabled
      BY <1>1, <2>2, <3>1 DEF DataControl
    <3>3. dma.adr = 0 /\ RamHolds(0)
      BY <1>1, <1>2, <3>1, <3>2 DEF Off, RamInv
    <3> QED
      BY <3>3
  <2> QED
    BY <2>1, <2>2
<1>6. RamHolds(dma.adr) => RamHolds(dma.adr)'
  BY <1>2 DEF RamHolds
<1>7. ~ enabled' /\ Starting' => RamHolds(0)
  <2> SUFFICES ASSUME ~ enabled', Starting' PROVE RamHolds(0)
    OBVIOUS
  <2>1. dm.state = "IDLE" /\ request # "none"
    <3>1. dm.state = "START_RX_FIFO" => dm'.en_rx
      BY <1>1, <1>2, MasterFacts
    <3>2. dm.state = "START_TX_FIFO" => dm'.en_tx
      BY <1>1, <1>2, MasterFacts
    <3>3. dm.state = "DATA_TRANSFER" => dm'.state \in {"IDLE", "DATA_TRANSFER"}
      BY <1>1, <1>2, MasterFacts
    <3>4. dm.state = "IDLE"
      BY <1>2, <3>1, <3>2, <3>3
    <3>5. dm.state = "IDLE" => dm'.state = IF request = "tx" THEN "START_TX_FIFO"
                     ELSE IF request = "rx" THEN "START_RX_FIFO" ELSE "IDLE"
      BY <1>1, <1>2, MasterFacts
    <3> QED
      BY <3>4, <3>5
  <2> QED
    BY <1>1, <2>1 DEF DataControl, RamInv
<1> QED
  BY <1>2, <1>3, <1>4, <1>5, <1>6, <1>7 DEF RamInv


-----------------------------------------------------------------------------
(* The bus fills the FIFO to the card.                                      *)
LEMMA BusTx ==
  ASSUME DataInv, DataWbEdge
  PROVE  TxInv'
<1> USE DEF enabled, Stopped
<1>1. DataTypeOK /\ DataControl /\ LineControl
  BY DEF DataInv
<1>2. /\ UNCHANGED <<setup, request, dm, line, sent>> /\ tick' = tick + 1 /\ tick \in Nat
      /\ tick < setup.period /\ setup.period \in Nat
  BY <1>1, BusEdge DEF DataTypeOK, Setup
<1> SUFFICES ASSUME Sending PROVE TxLine' /\ (\E r, p, q \in Nat : TxCounts(r, p, q))'
  BY <1>2 DEF TxInv, Sending
<1>3. TxLine /\ \E r, p, q \in Nat : TxCounts(r, p, q)
  BY DEF DataInv, TxInv
<1>4. PICK r \in Nat, p \in Nat, q \in Nat : TxCounts(r, p, q)
  BY <1>3
<1>5. /\ q <= r /\ r <= p /\ p <= dma.adr /\ dma.adr <= q + DEPTH
      /\ tx.wp = Ptr(dma.adr) /\ tx.rp = Ptr(r) /\ tx.wp_s = Ptr(p) /\ tx.rp_s = Ptr(q)
      /\ ~ tx.empty => r < p
      /\ ~ tx.full => dma.adr < q + DEPTH
      /\ \A n \in Nat : r <= n /\ n < dma.adr => tx.cell[Cel(n)] = n + 1
      /\ r <= q + 1 /\ (tick >= 1 => q = r)
      /\ ~ InWindow => r = Len(sent) /\ tx.ra = Cel(r)
      /\ InWindow => TxWindow(r, q)
      /\ dma.adr > 0 => tx.wr_rst
      /\ r > 0 => tx.rd_rst
      /\ dm.state = "START_TX_FIFO" =>
           /\ r = 0 /\ (tx.full => dma.adr = DEPTH)
           /\ dm.write => tx.full /\ p > 0 /\ tx.rd_rst_r
  BY <1>4 DEF TxCounts
<1>6. /\ tx.full => ~ wbm_ack /\ bus_wait = 0
      /\ bus_wait > 0 => tx.wr_rst_r
      /\ wbm_ack => tx.wr_rst
      /\ line.state # "IDLE" => tx.rd_rst
      /\ tx.empty /\ line.state # "IDLE" =>
           line.state = "WRITE_DAT" /\ (InWindow \/ (Bit(line.cnt) = 1 /\ Stopped))
      /\ line.rd <=> line.state = "WRITE_DAT" /\ Bit(line.cnt) = WORD - 1 /\ line.cnt < data_cycles
      /\ line.state = "WRITE_DAT" /\ line.cnt >= 2 /\ line.cnt <= data_cycles /\ Bit(line.cnt) # 1 =>
           line.first = Len(sent) + 1
  BY <1>3 DEF TxLine
<1>7. dm.en_tx /\ ~ dm.en_rx
  BY <1>1 DEF Sending, DataControl
<1>8. /\ wbm_cyc <=> ~ tx.full
      /\ wbm_stb <=> ~ tx.full
      /\ Taken <=> wbm_ack
      /\ (dm.en_tx /\ Taken) <=> wbm_ack
      /\ dma.adr \in Nat /\ DEPTH \in Nat \ {0} /\ AckMin \in Nat /\ AckMin >= 2 /\ bus_wait \in Nat
  BY <1>1, <1>6, <1>7, SdDataAssumption DEF wbm_cyc, wbm_stb, Taken, DataTypeOK
<1>9. dma'.adr = IF wbm_ack THEN dma.adr + 1 ELSE dma.adr
  BY <1>1, <1>7, <1>8, BusEdge
<1>10. /\ wbm_ack' => ~ tx.full /\ ~ wbm_ack /\ bus_wait + 1 >= AckMin
       /\ bus_wait' > 0 => ~ tx.full /\ ~ wbm_ack /\ bus_wait' = bus_wait + 1
       /\ bus_wait' \in Nat
  BY <1>1, <1>8, BusEdge
<1>11. /\ tx'.wr_rst_r
       /\ tx'.wr_rst <=> (tx.wr_rst \/ tx.wr_rst_r)
       /\ (tx'.rd_rst <=> tx.rd_rst) /\ (tx'.rd_rst_r <=> tx.rd_rst_r)
       /\ tx'.wp = IF ~tx.wr_rst THEN 0 ELSE IF wbm_ack THEN Up(tx.wp) ELSE tx.wp
       /\ tx'.cell = IF wbm_ack THEN [tx.cell EXCEPT ![Slot(tx.wp)] = dma.adr + 1] ELSE tx.cell
       /\ tx'.rp_s = tx.rp
       /\ tx'.full <=> IsFull(tx.wp, tx.rp_s) \/ (wbm_ack /\ IsFull(Up(tx.wp), tx.rp_s))
       /\ tx'.rp = tx.rp /\ tx'.wp_s = tx.wp_s /\ tx'.ra = tx.ra /\ (tx'.empty <=> tx.empty)
  BY <1>1, <1>7, <1>8, BusWrites
<1>12. PICK a \in Nat : a = dma.adr
  BY <1>8
<1>13. PICK b \in Nat : b = dma'.adr
  BY <1>8, <1>9
<1>14. b = IF wbm_ack THEN a + 1 ELSE a
  BY <1>9, <1>12, <1>13
<1>15. wbm_ack => a < q + DEPTH /\ tx.wr_rst
  BY <1>5, <1>6, <1>12
<1>16. a <= b /\ b <= q + DEPTH
  BY <1>5, <1>8, <1>12, <1>14, <1>15
<1>17. tx'.wp = Ptr(b) /\ Slot(tx.wp) = Cel(a) /\ Up(tx.wp) = Ptr(a + 1)
  <2>1. Slot(tx.wp) = Cel(a) /\ Up(tx.wp) = Ptr(a + 1)
    BY <1>5, <1>12, PtrFacts
  <2>2. ~ tx.wr_rst => a = 0 /\ ~ wbm_ack
    BY <1>5, <1>6, <1>12
  <2> QED
    BY <1>5, <1>11, <1>12, <1>14, <2>1, <2>2, PtrZero
<1>18. tx'.full <=> b = q + DEPTH
  <2>1. IsFull(tx.wp, tx.rp_s) <=> a = q + DEPTH
    <3>1. IsFull(Ptr(a), Ptr(q)) <=> a = q + DEPTH
      BY <1>5, <1>12, FullWhen
    <3> QED
      BY <1>5, <1>12, <3>1
  <2>2. wbm_ack => (IsFull(Up(tx.wp), tx.rp_s) <=> a + 1 = q + DEPTH)
    <3>1. wbm_ack => a + 1 \in Nat /\ q <= a + 1 /\ a + 1 <= q + DEPTH
      BY <1>5, <1>8, <1>12, <1>15
    <3>2. wbm_ack => (IsFull(Ptr(a + 1), Ptr(q)) <=> a + 1 = q + DEPTH)
      BY <3>1, FullWhen
    <3> QED
      BY <1>5, <1>17, <3>2
  <2> QED
    BY <1>8, <1>11, <1>14, <1>15, <2>1, <2>2
(* A word that the card still reads is not overwritten: the bus does not    *)
(* answer so early.                                                         *)
<1>19. Timely /\ InWindow /\ a + 1 = r + DEPTH => ~ wbm_ack
  <2> SUFFICES ASSUME Timely, InWindow, a + 1 = r + DEPTH, wbm_ack PROVE FALSE
    OBVIOUS
  <2>1. tick >= AckMin + 2
    BY <1>5, <1>12 DEF TxWindow
  <2> QED
    BY <1>1, <1>2, <1>8, <2>1 DEF Timely
<1>20. InWindow' <=> InWindow
  BY <1>2 DEF InWindow
<1>21. \A n \in Nat : r <= n /\ n < b => tx'.cell[Cel(n)] = n + 1
  <2> SUFFICES ASSUME NEW n \in Nat, r <= n, n < b PROVE tx'.cell[Cel(n)] = n + 1
    OBVIOUS
  <2>1. n < a => tx.cell[Cel(n)] = n + 1
    BY <1>5, <1>12
  <2>2. CASE ~ wbm_ack
    BY <1>11, <1>14, <2>1, <2>2
  <2>3. CASE wbm_ack
    <3>1. tx.cell \in [Place -> Nat] /\ Cel(a) \in Place /\ Cel(n) \in Place
      BY <1>1, PtrFacts DEF DataTypeOK, Fifo
    <3>2. tx'.cell = [tx.cell EXCEPT ![Cel(a)] = a + 1]
      BY <1>11, <1>12, <1>17, <2>3
    <3>3. CASE n = a
      BY <3>1, <3>2, <3>3
    <3>4. CASE n < a
      <4>1. a < n + DEPTH
        BY <1>5, <1>8, <1>15, <2>3
      <4>2. Cel(n) # Cel(a)
        BY <3>4, <4>1, CellApart
      <4> QED
        BY <2>1, <3>1, <3>2, <3>4, <4>2
    <3> QED
      BY <1>14, <2>3, <3>3, <3>4
  <2> QED
    BY <2>2, <2>3
<1>22. InWindow => TxWindow(r, r)'
  <2> SUFFICES ASSUME InWindow PROVE TxWindow(r, r)'
    OBVIOUS
  <2>1. PICK l \in Nat : l = Len(sent)
    BY <1>1 DEF DataTypeOK
  <2>2. /\ r = l + 1 /\ tx.ra = Cel(l)
        /\ tick = 0 => q + 1 = r
    BY <1>5, <1>12, <2>1 DEF TxWindow
  <2>5. tick' >= 1
    BY <1>2
  <2>6. r = Len(sent') + 1 /\ tx'.ra = Cel(Len(sent'))
    BY <1>2, <1>11, <2>1, <2>2
  <2>7. tick' = 0 => r + 1 = r
    BY <1>2, <2>5
  <2>10. ASSUME Timely PROVE tx.cell[Cel(l)] = r /\
        (a + 1 = r + DEPTH =>
             /\ tick <= 1 => tx.full
             /\ wbm_ack => tick >= AckMin + 2
             /\ bus_wait > 0 => bus_wait + 2 <= tick)
    BY <1>5, <1>12, <2>1, <2>10 DEF TxWindow
  <2>3. Timely => tx'.cell[Cel(l)] = r
    <3> SUFFICES ASSUME Timely PROVE tx'.cell[Cel(l)] = r
      OBVIOUS
    <3>1. CASE ~ wbm_ack
      BY <1>11, <2>10, <3>1
    <3>2. CASE wbm_ack
      <4>1. tx.cell \in [Place -> Nat] /\ Cel(a) \in Place /\ Cel(l) \in Place
        BY <1>1, PtrFacts DEF DataTypeOK, Fifo
      <4>2. tx'.cell = [tx.cell EXCEPT ![Cel(a)] = a + 1]
        BY <1>11, <1>12, <1>17, <3>2
      <4>3. l < a /\ a < l + DEPTH
        BY <1>5, <1>8, <1>12, <1>15, <1>19, <2>2, <3>2
      <4>4. Cel(a) # Cel(l)
        BY <4>3, CellApart
      <4> QED
        BY <2>10, <4>1, <4>2, <4>4
    <3> QED
      BY <3>1, <3>2
  <2>4. Timely /\ b + 1 = r + DEPTH =>
          /\ tick' <= 1 => tx'.full
          /\ wbm_ack' => tick' >= AckMin + 2
          /\ bus_wait' > 0 => bus_wait' + 2 <= tick'
    <3> SUFFICES ASSUME Timely, b + 1 = r + DEPTH
                 PROVE  /\ tick' <= 1 => tx'.full
                        /\ wbm_ack' => tick' >= AckMin + 2
                        /\ bus_wait' > 0 => bus_wait' + 2 <= tick'
      OBVIOUS
    <3>1. tick' <= 1 => tx'.full
      <4>1. tick' <= 1 => q + 1 = r
        BY <1>2, <2>2
      <4>2. tick' <= 1 => b = q + DEPTH
        BY <1>8, <4>1
      <4> QED
        BY <1>18, <4>2
    <3>2. wbm_ack' \/ bus_wait' > 0 => a + 1 = r + DEPTH /\ tick >= 2
      <4>1. wbm_ack' \/ bus_wait' > 0 => ~ wbm_ack /\ ~ tx.full
        BY <1>10
      <4>2. wbm_ack' \/ bus_wait' > 0 => a + 1 = r + DEPTH
        BY <1>14, <4>1
      <4>3. a + 1 = r + DEPTH => (tick <= 1 => tx.full)
        BY <2>10
      <4> QED
        BY <1>2, <4>1, <4>2, <4>3
    <3>3. wbm_ack' => tick' >= AckMin + 2
      <4> SUFFICES ASSUME wbm_ack' PROVE tick' >= AckMin + 2
        OBVIOUS
      <4>1. bus_wait + 1 >= AckMin /\ a + 1 = r + DEPTH
        BY <1>10, <3>2
      <4>2. bus_wait > 0
        BY <1>8, <4>1
      <4> QED
        BY <1>2, <1>8, <2>10, <4>1, <4>2
    <3>4. bus_wait' > 0 => bus_wait' + 2 <= tick'
      <4> SUFFICES ASSUME bus_wait' > 0 PROVE bus_wait' + 2 <= tick'
        OBVIOUS
      <4>1. bus_wait' = bus_wait + 1 /\ a + 1 = r + DEPTH /\ tick >= 2
        BY <1>10, <3>2
      <4>2. bus_wait + 2 <= tick
        BY <1>8, <2>10, <4>1
      <4> QED
        BY <1>2, <1>8, <4>1, <4>2
    <3> QED
      BY <3>1, <3>3, <3>4
  <2>8. Timely /\ dma'.adr + 1 = r + DEPTH =>
          /\ tick' <= 1 => tx'.full
          /\ wbm_ack' => tick' >= AckMin + 2
          /\ bus_wait' > 0 => bus_wait' + 2 <= tick'
    BY <1>13, <2>4
  <2>9. Timely => tx'.cell[Cel(Len(sent'))] = r
    BY <1>2, <2>1, <2>3
  <2>11. Timely' <=> Timely
    BY <1>2 DEF Timely
  <2> HIDE DEF enabled, Stopped
  <2> QED
    BY ONLY <2>6, <2>7, <2>8, <2>9, <2>11 DEF TxWindow
<1>23. TxCounts(r, p, r)'
  <2>1. /\ r <= r /\ r <= p /\ p <= dma'.adr /\ dma'.adr <= r + DEPTH
        /\ tx'.wp = Ptr(dma'.adr) /\ tx'.rp = Ptr(r) /\ tx'.wp_s = Ptr(p) /\ tx'.rp_s = Ptr(r)
    BY <1>5, <1>8, <1>11, <1>12, <1>13, <1>16, <1>17
  <2>2. /\ ~ tx'.empty => r < p
        /\ ~ tx'.full => dma'.adr < r + DEPTH
        /\ \A n \in Nat : r <= n /\ n < dma'.adr => tx'.cell[Cel(n)] = n + 1
    BY <1>5, <1>8, <1>11, <1>13, <1>16, <1>18, <1>21
  <2>3. ~ InWindow' => r = Len(sent') /\ tx'.ra = Cel(r)
    BY <1>2, <1>5, <1>11, <1>20
  <2>4. InWindow' => TxWindow(r, r)'
    BY <1>20, <1>22
  <2>5. /\ dma'.adr > 0 => tx'.wr_rst
        /\ r > 0 => tx'.rd_rst
    BY <1>5, <1>8, <1>9, <1>11, <1>15
  <2>6. dm'.state = "START_TX_FIFO" =>
          /\ r = 0 /\ (tx'.full => dma'.adr = DEPTH)
          /\ dm'.write => tx'.full /\ p > 0 /\ tx'.rd_rst_r
    <3> SUFFICES ASSUME dm.state = "START_TX_FIFO"
                 PROVE  /\ r = 0 /\ (tx'.full => dma'.adr = DEPTH)
                        /\ dm.write => tx'.full /\ p > 0 /\ tx'.rd_rst_r
      BY <1>2
    <3>1. r = 0 /\ q = 0
      BY <1>5
    <3>2. tx'.full <=> b = DEPTH
      BY <1>8, <1>18, <3>1
    <3>3. dm.write => tx.full /\ a = DEPTH /\ ~ wbm_ack
      BY <1>5, <1>6, <1>12
    <3> QED
      BY <1>5, <1>11, <1>13, <1>14, <3>1, <3>2, <3>3
  <2>7. r <= r + 1 /\ (tick' >= 1 => r = r)
    OBVIOUS
  <2> QED
    BY <2>1, <2>2, <2>3, <2>4, <2>5, <2>6, <2>7 DEF TxCounts
<1>24. TxLine'
  <2>1. tx'.full => ~ wbm_ack' /\ ~ (bus_wait' > 0)
    <3>1. wbm_ack' \/ bus_wait' > 0 => a < q + DEPTH /\ b = a
      BY <1>5, <1>10, <1>12, <1>14
    <3> QED
      BY <1>8, <1>18, <3>1
  <2>2. tx'.full => bus_wait' = 0
    BY <1>10, <2>1
  <2>3. wbm_ack' => tx'.wr_rst
    BY <1>6, <1>8, <1>10, <1>11
  <2> QED
    BY <1>2, <1>6, <1>11, <1>20, <2>1, <2>2, <2>3 DEF TxLine
<1> QED
  BY <1>23, <1>24


(* The serial host takes words out and sends them.                          *)
LEMMA CardTx ==
  ASSUME DataInv, DataSdEdge
  PROVE  TxInv' /\ SentInv'
<1> USE DEF enabled
<1>1. DataTypeOK /\ DataControl /\ LineControl /\ Off /\ SentInv
  BY DEF DataInv
<1>2. /\ tick >= 2 /\ tick' = 0 /\ UNCHANGED <<setup, dma, wbm_ack, bus_wait>>
      /\ dm' = dmNext /\ request' = "none"
      /\ dm.state \in {"IDLE", "START_RX_FIFO", "START_TX_FIFO", "DATA_TRANSFER"}
      /\ request \in {"none", "rx", "tx"} /\ setup.dir \in {"rx", "tx"}
      /\ dma.adr \in Nat /\ DEPTH \in Nat \ {0} /\ bus_wait \in Nat /\ tick \in Nat
      /\ sent' = IF line.state = "WRITE_DAT" /\ line.cnt >= WORD /\ line.cnt <= data_cycles /\ Bit(line.cnt) = 0
                 THEN Append(sent, IF dout(tx) = line.first THEN line.first ELSE 0) ELSE sent
  BY <1>1, CardEdge, SdDataAssumption DEF DataTypeOK, DataMaster, Setup
<1>3. PICK bit, good \in BOOLEAN : line' = lineNext(bit, good)
  BY <1>1, CardEdge
<1>4. /\ tx'.rd_rst_r <=> enabled' /\ enabled
      /\ tx'.rd_rst <=> enabled' /\ enabled /\ (tx.rd_rst \/ tx.rd_rst_r)
      /\ (tx'.wr_rst <=> enabled' /\ tx.wr_rst) /\ (tx'.wr_rst_r <=> enabled' /\ tx.wr_rst_r)
      /\ tx'.rp = IF ~tx.rd_rst THEN 0 ELSE IF line.rd THEN Up(tx.rp) ELSE tx.rp
      /\ tx'.ra = Slot(tx.rp)
      /\ tx'.wp_s = tx.wp
      /\ tx'.empty <=> (tx.wp_s = tx.rp) \/ (line.rd /\ tx.wp_s = Up(tx.rp))
      /\ tx'.wp = tx.wp /\ tx'.rp_s = tx.rp_s /\ tx'.cell = tx.cell /\ (tx'.full <=> tx.full)
  BY <1>1, CardReads
<1>5. PICK l \in Nat : l = Len(sent)
  BY <1>1 DEF DataTypeOK
<1>6. /\ line.state \in {"IDLE", "READ_WAIT", "READ_DAT", "WRITE_DAT", "WRITE_CRC", "WRITE_BUSY"}
      /\ line.cnt \in Nat /\ data_cycles \in Nat /\ line' \in SerialHost /\ line'.cnt \in Nat
  <2>1. line' \in SerialHost
    BY <1>1, <1>3, HostFacts
  <2> QED
    BY <1>1, <2>1, BitFacts DEF DataTypeOK, SerialHost
<1>7. Stopped => line'.state = "IDLE"
  BY <1>1, <1>3, HostFacts
(* The first edge switches the FIFO on.                                     *)
<1>8. CASE ~ dm.en_tx
  <2>1. line.state # "WRITE_DAT"
    BY <1>1, <1>2, <1>8 DEF LineControl
  <2>2. sent' = sent
    BY <1>2, <2>1
  <2>3. ~ enabled' /\ Starting' => sent = <<>>
    <3>1. dm.state = "IDLE" => dm'.state = IF request = "tx" THEN "START_TX_FIFO"
                     ELSE IF request = "rx" THEN "START_RX_FIFO" ELSE "IDLE"
      BY <1>1, <1>2, MasterFacts
    <3>2. dm.state = "DATA_TRANSFER" => ~ Starting'
      BY <1>1, <1>2, MasterFacts DEF Starting
    <3>3. dm.state = "START_RX_FIFO" => dm'.en_rx
      BY <1>1, <1>2, MasterFacts
    <3>4. dm.state = "START_TX_FIFO" => dm'.en_tx
      BY <1>1, <1>2, MasterFacts
    <3>5. dm.state = "IDLE" /\ Starting' => request # "none"
      BY <3>1 DEF Starting
    <3> QED
      BY <1>1, <1>2, <3>2, <3>3, <3>4, <3>5 DEF SentInv, DataControl
  <2>4. SentInv'
    BY <1>1, <1>2, <2>2, <2>3 DEF SentInv, LineInOrder, Timely
  <2>5. TxInv'
    <3> SUFFICES ASSUME Sending' PROVE TxLine' /\ (\E r, p, q \in Nat : TxCounts(r, p, q))'
      BY DEF TxInv
    <3>1. dm.state = "START_TX_FIFO"
      BY <1>1, <1>2, <1>8, MasterFacts DEF Sending
    <3>2. setup.dir = "tx" /\ ~ enabled
      BY <1>1, <1>8, <3>1 DEF DataControl
    <3>3. /\ line.state = "IDLE" /\ ~ line.we /\ ~ line.rd /\ ~ dm.read /\ ~ dm.write
          /\ ~ tx.rd_rst /\ ~ tx.wr_rst
          /\ ~ wbm_ack /\ bus_wait = 0 /\ dma.adr = 0 /\ tx.wp = 0
          /\ tx.rp = 0 /\ tx.wp_s = 0 /\ tx.rp_s = 0 /\ ~ tx.full
      BY <1>1, <1>2, <3>1, <3>2 DEF Off, Starting
    <3>4. line'.state = "IDLE" /\ ~ line'.rd
      BY <1>1, <1>3, <3>3, HostFacts DEF Stopped
    <3>5. ~ dm'.write
      BY <1>1, <1>2, <3>1, <3>3, MasterFacts
    <3>6. sent = <<>> /\ l = 0
      BY <1>1, <1>5, <3>1, <3>2 DEF SentInv, Starting
    <3>7. TxCounts(0, 0, 0)'
      <4>1. tx'.wp = Ptr(dma'.adr) /\ tx'.rp = Ptr(0) /\ tx'.wp_s = Ptr(0) /\ tx'.rp_s = Ptr(0)
            /\ tx'.ra = Cel(0) /\ tx'.empty /\ ~ tx'.full /\ dma'.adr = 0
        BY <1>2, <1>4, <3>3, PtrZero
      <4>2. ~ InWindow' /\ Len(sent') = 0
        BY <1>5, <2>2, <3>4, <3>6 DEF InWindow
      <4> QED
        BY <1>2, <3>5, <4>1, <4>2 DEF TxCounts
    <3>8. TxLine'
      BY <1>2, <1>4, <3>3, <3>4 DEF TxLine
    <3> QED
      BY <3>7, <3>8
  <2> QED
    BY <2>4, <2>5
<1>9. CASE dm.en_tx /\ dm.state # "START_TX_FIFO" /\ line.state = "IDLE"
  <2>1. setup.dir = "tx" /\ dm.state \in {"IDLE", "DATA_TRANSFER"}
    BY <1>1, <1>2, <1>9 DEF DataControl
  <2>2. dm.read <=> dm.write
    BY <1>1, <1>9, <2>1 DEF LineControl, Starting
  <2>3. line'.state = "IDLE"
    BY <1>1, <1>3, <1>7, <1>9, <2>2, HostFacts DEF Stopped
  <2>4. /\ sent' = sent
        /\ dm.state = "DATA_TRANSFER" => ~ Starting'
        /\ dm.state = "IDLE" => ~ dm'.en_tx /\ ~ Starting'
    <3>1. dm.state = "IDLE" => request = "none"
      BY <1>1, <1>9 DEF DataControl
    <3> QED
      BY <1>1, <1>2, <1>9, <3>1, MasterFacts DEF Starting
  <2>5. ~ Sending' /\ ~ Starting'
    BY <2>1, <2>3, <2>4 DEF Sending, Starting
  <2>6. SentInv'
    BY <1>1, <1>2, <2>4, <2>5 DEF SentInv, LineInOrder, Timely
  <2> QED
    BY <2>5, <2>6 DEF TxInv
<1>10. CASE Sending
  <2>1. TxLine /\ (\E r, p, q \in Nat : TxCounts(r, p, q)) /\ setup.dir = "tx" /\ dm.en_tx /\ enabled
    BY <1>1, <1>10 DEF DataInv, TxInv, Sending, DataControl
  <2>2. PICK r \in Nat, p \in Nat, q \in Nat : TxCounts(r, p, q)
    BY <2>1
  <2>3. /\ q <= r /\ r <= p /\ p <= dma.adr /\ dma.adr <= q + DEPTH
        /\ tx.wp = Ptr(dma.adr) /\ tx.rp = Ptr(r) /\ tx.wp_s = Ptr(p) /\ tx.rp_s = Ptr(q)
        /\ ~ tx.empty => r < p
        /\ ~ tx.full => dma.adr < q + DEPTH
        /\ \A n \in Nat : r <= n /\ n < dma.adr => tx.cell[Cel(n)] = n + 1
        /\ q = r
        /\ ~ InWindow => r = l /\ tx.ra = Cel(r)
        /\ InWindow => r = l + 1 /\ tx.ra = Cel(l) /\ (Timely => tx.cell[Cel(l)] = r)
        /\ dma.adr > 0 => tx.wr_rst
        /\ r > 0 => tx.rd_rst
        /\ dm.state = "START_TX_FIFO" =>
             /\ r = 0 /\ (tx.full => dma.adr = DEPTH)
             /\ dm.write => tx.full /\ p > 0 /\ tx.rd_rst_r
    BY <1>2, <1>5, <2>2 DEF TxCounts, TxWindow
  <2>4. /\ tx.full => ~ wbm_ack /\ bus_wait = 0
        /\ bus_wait > 0 => tx.wr_rst_r
        /\ wbm_ack => tx.wr_rst
        /\ line.state # "IDLE" => tx.rd_rst
        /\ tx.empty /\ line.state # "IDLE" =>
             line.state = "WRITE_DAT" /\ (InWindow \/ (Bit(line.cnt) = 1 /\ Stopped))
        /\ line.rd <=> line.state = "WRITE_DAT" /\ Bit(line.cnt) = WORD - 1 /\ line.cnt < data_cycles
        /\ line.state = "WRITE_DAT" /\ line.cnt >= 2 /\ line.cnt <= data_cycles /\ Bit(line.cnt) # 1 =>
             line.first = l + 1
    BY <1>5, <2>1 DEF TxLine
  <2>5. line.state \in {"IDLE", "WRITE_DAT", "WRITE_CRC", "WRITE_BUSY"}
        /\ dm.state \in {"IDLE", "START_TX_FIFO", "DATA_TRANSFER"}
    BY <1>1, <1>2, <2>1 DEF LineControl, DataControl
  <2>6. InWindow <=> line.state = "WRITE_DAT" /\ line.cnt >= WORD /\ line.cnt <= data_cycles /\ Bit(line.cnt) = 0
    BY DEF InWindow
  <2>7. /\ WORD \in Nat /\ WORD >= 4 /\ Bit(line.cnt) \in Nat /\ Bit(line.cnt) < WORD
        /\ Bit(line.cnt) < WORD - 1 => Bit(line.cnt + 1) = Bit(line.cnt) + 1
        /\ Bit(line.cnt) = WORD - 1 => Bit(line.cnt + 1) = 0
        /\ line.cnt < WORD => Bit(line.cnt) = line.cnt
        /\ data_cycles >= WORD /\ Bit(data_cycles) = 0
    BY <1>6, BitFacts
  (* The word that is sent. *)
  <2>25. PICK d : d = IF dout(tx) = line.first THEN line.first ELSE 0
    OBVIOUS
  <2>8. /\ sent' = IF InWindow THEN Append(sent, d) ELSE sent
        /\ d \in Nat
        /\ InWindow /\ Timely => d = l + 1
    <3>1. InWindow /\ Timely => dout(tx) = l + 1
      BY <2>3 DEF dout
    <3>2. InWindow => line.first = l + 1
      BY <1>6, <2>4, <2>6, <2>7
    <3>3. line.first \in Nat
      BY <1>1 DEF DataTypeOK, SerialHost
    <3> QED
      BY <1>2, <2>6, <2>25, <3>1, <3>2, <3>3
  <2>9. Len(sent') = (IF InWindow THEN l + 1 ELSE l) /\ r = Len(sent')
    <3>1. sent \in Seq(Nat)
      BY <1>1 DEF DataTypeOK
    <3>2. InWindow => Len(sent') = l + 1
      BY <1>5, <2>8, <3>1
    <3> QED
      BY <1>5, <2>3, <2>8, <3>2
  <2>10. SentInv'
    <3>1. Timely => \A n \in 1 .. Len(sent') : sent'[n] = n
      <4> SUFFICES ASSUME Timely PROVE \A n \in 1 .. Len(sent') : sent'[n] = n
        OBVIOUS
      <4>1. sent \in Seq(Nat) /\ \A n \in 1 .. l : sent[n] = n
        BY <1>1, <1>5 DEF DataTypeOK, SentInv, LineInOrder
      <4>2. CASE ~ InWindow
        BY <1>5, <2>8, <4>1, <4>2
      <4>3. CASE InWindow
        <5>1. sent' = Append(sent, l + 1) /\ Len(sent) = l
          BY <1>5, <2>8, <4>3
        <5> QED
          BY <4>1, <5>1
      <4> QED
        BY <4>2, <4>3
    <3>2. enabled' \/ ~ Starting'
      <4>1. dm.state = "IDLE" => request = "none"
        BY <1>1, <2>1 DEF DataControl
      <4>2. dm.state = "IDLE" => ~ Starting'
        BY <1>1, <1>2, <4>1, MasterFacts DEF Starting
      <4>3. dm.state = "DATA_TRANSFER" => ~ Starting'
        BY <1>1, <1>2, MasterFacts DEF Starting
      <4>4. dm.state = "START_TX_FIFO" => enabled'
        BY <1>1, <1>2, MasterFacts
      <4> QED
        BY <2>5, <4>2, <4>3, <4>4
    <3>3. Timely' <=> Timely
      BY <1>2 DEF Timely
    <3> QED
      BY <1>2, <3>1, <3>2, <3>3 DEF SentInv, LineInOrder
  (* The word that is taken out. *)
  <2>11. line.rd => ~ InWindow /\ ~ tx.empty /\ r < p /\ tx.rd_rst
    <3>1. line.rd => line.state = "WRITE_DAT" /\ Bit(line.cnt) = WORD - 1
      BY <2>4
    <3>2. line.rd => ~ InWindow /\ Bit(line.cnt) # 1
      BY <2>6, <2>7, <3>1
    <3> QED
      BY <2>3, <2>4, <3>1, <3>2
  <2>12. PICK s \in Nat : s = IF line.rd THEN r + 1 ELSE r
    OBVIOUS
  <2>13. PICK a \in Nat : a = dma.adr
    BY <1>2
  <2>14. r <= s /\ s <= p /\ s <= r + 1 /\ p <= a
    BY <2>3, <2>11, <2>12, <2>13
  <2>15. tx'.rp = Ptr(s) /\ Slot(tx.rp) = Cel(r) /\ Up(tx.rp) = Ptr(r + 1)
    <3>1. Slot(tx.rp) = Cel(r) /\ Up(tx.rp) = Ptr(r + 1)
      BY <2>3, PtrFacts
    <3>2. ~ tx.rd_rst => r = 0 /\ ~ line.rd
      BY <2>3, <2>11
    <3> QED
      BY <1>4, <2>3, <2>12, <3>1, <3>2, PtrZero
  <2>16. ~ tx'.empty => s < p
    <3>1. p = r => tx.wp_s = tx.rp
      BY <2>3
    <3>2. line.rd /\ p = r + 1 => tx.wp_s = Up(tx.rp)
      BY <2>3, <2>15
    <3> QED
      BY <1>4, <2>3, <2>11, <2>12, <2>14, <3>1, <3>2
  <2>17. tx'.empty => (tx.empty /\ ~ line.rd) \/ line.rd
    <3>1. tx.wp_s = tx.rp => p = r
      <4>1. p <= r + DEPTH
        BY <1>2, <2>3
      <4>2. Ptr(p) = Ptr(r) <=> p = r
        BY <2>3, <4>1, SamePtr
      <4> QED
        BY <2>3, <4>2
    <3>2. p = r => tx.empty
      BY <2>3
    <3> QED
      BY <1>4, <3>1, <3>2
  <2>18. \A n \in Nat : s <= n /\ n < a => tx'.cell[Cel(n)] = n + 1
    BY <1>4, <2>3, <2>13, <2>14
  <2> SUFFICES ASSUME Sending' PROVE TxLine' /\ (\E x, y, z \in Nat : TxCounts(x, y, z))'
    BY <2>10 DEF TxInv
  <2>19. enabled'
    BY DEF Sending
  <2>24. line.state # "IDLE" => line'.state # "IDLE"
    <3> SUFFICES ASSUME line.state # "IDLE", line'.state = "IDLE" PROVE FALSE
      OBVIOUS
    <3>1. dm'.state = "START_TX_FIFO"
      BY DEF Sending
    <3>2. dm.state = "START_TX_FIFO"
      <4>1. dm.state = "IDLE" => ~ dm'.en_tx
        BY <1>1, <1>2, MasterFacts
      <4>2. dm.state = "DATA_TRANSFER" => dm'.state # "START_TX_FIFO"
        BY <1>1, <1>2, MasterFacts
      <4> QED
        BY <2>5, <3>1, <4>1, <4>2 DEF Sending
    <3>3. tx.full
      BY <1>1, <2>3, <3>2 DEF LineControl
    <3> QED
      BY <1>1, <1>2, <3>1, <3>2, <3>3, MasterFacts
  (* What the serial host does next. *)
  <2>20. /\ line'.rd <=> line'.state = "WRITE_DAT" /\ Bit(line'.cnt) = WORD - 1 /\ line'.cnt < data_cycles
         /\ InWindow' <=> line.rd /\ line'.state = "WRITE_DAT"
         /\ line.rd => line'.state = "WRITE_DAT" \/ line'.state = "IDLE"
         /\ line'.state = "WRITE_DAT" /\ line'.cnt >= 2 /\ line'.cnt <= data_cycles /\ Bit(line'.cnt) # 1 =>
              line'.first = Len(sent') + 1
         /\ line'.state # "IDLE" => tx.rd_rst \/ tx.rd_rst_r
         /\ tx'.empty /\ line'.state # "IDLE" =>
              line'.state = "WRITE_DAT" /\ (InWindow' \/ (Bit(line'.cnt) = 1 /\ Stopped'))
    <3>1. CASE line.state = "IDLE"
      <4>1. dm.state = "START_TX_FIFO"
        BY <1>10, <3>1 DEF Sending
      <4>2. /\ ~ Stopped => line'.state = IF dm.write THEN "WRITE_DAT"
                                          ELSE IF dm.read THEN "READ_WAIT" ELSE "IDLE"
            /\ line'.cnt = 0 /\ ~ line'.rd
        BY <1>1, <1>3, <3>1, HostFacts
      <4>3. ~ dm.read /\ ~ line.rd /\ ~ Stopped
        BY <1>1, <2>4, <3>1, <4>1 DEF DataControl, Stopped
      <4>4. Bit(0) = 0
        BY <2>7, BitFacts
      <4>5. dm.write => tx.rd_rst_r /\ ~ tx'.empty
        <5>1. dm.write => p > r
          BY <2>3, <4>1
        <5>2. dm.write => p <= r + DEPTH
          BY <1>2, <2>3
        <5>3. dm.write => Ptr(p) # Ptr(r)
          BY <5>1, <5>2, SamePtr
        <5> QED
          BY <1>4, <2>3, <4>1, <4>3, <5>3
      <4>6. ~ InWindow'
        BY <2>7, <4>2 DEF InWindow
      <4> QED
        BY <1>6, <2>7, <4>2, <4>3, <4>4, <4>5, <4>6
    <3>2. CASE line.state = "WRITE_DAT"
      <4>1. /\ line'.state \in {"WRITE_DAT", "WRITE_CRC", "IDLE"}
            /\ ~ Stopped => line'.state # "IDLE"
            /\ line'.state = "WRITE_CRC" => line.cnt = data_cycles + CRC_CYCLES + 4
            /\ line'.cnt = IF line.cnt = data_cycles + CRC_CYCLES + 4 THEN line.cnt ELSE line.cnt + 1
            /\ line'.rd <=> line.cnt >= 2 /\ line.cnt <= data_cycles + 1 /\ Bit(line.cnt) = WORD - 2
            /\ line'.first = IF Bit(line.cnt) = 1 /\ line.cnt < data_cycles THEN dout(tx) ELSE line.first
        BY <1>1, <1>3, <3>2, HostFacts
      <4>2. CRC_CYCLES \in Nat /\ CRC_CYCLES >= 1
        BY SdDataAssumption
      <4>3. CASE line.cnt = data_cycles + CRC_CYCLES + 4
        <5>1. line'.cnt > data_cycles + 1 /\ ~ line'.rd /\ ~ line.rd
          BY <1>6, <2>4, <4>1, <4>2, <4>3
        <5>2. ~ InWindow /\ ~ InWindow'
          BY <1>6, <4>2, <4>3, <5>1 DEF InWindow
        <5>3. tx'.empty => line'.state = "IDLE"
          <6>1. tx'.empty => tx.empty
            BY <2>17, <5>1
          <6>2. tx.empty => Stopped
            BY <2>4, <3>2, <5>2
          <6> QED
            BY <1>7, <6>1, <6>2
        <5> QED
          BY <1>6, <2>4, <3>2, <4>1, <5>1, <5>2, <5>3
      <4>4. CASE line.cnt # data_cycles + CRC_CYCLES + 4
        <5>1. line'.cnt = line.cnt + 1 /\ line'.state \in {"WRITE_DAT", "IDLE"}
          BY <4>1, <4>4
        <5>2. line'.rd <=> Bit(line.cnt) = WORD - 2 /\ line.cnt < data_cycles
          <6>1. Bit(line.cnt) = WORD - 2 => line.cnt >= 2
            BY <1>6, <2>7
          <6>2. Bit(data_cycles + 1) = 1
            <7>1. /\ Bit(data_cycles) < WORD - 1 => Bit(data_cycles + 1) = Bit(data_cycles) + 1
              BY <1>6, BitFacts
            <7> QED
              BY <2>7, <7>1
          <6>3. Bit(line.cnt) = WORD - 2 => line.cnt # data_cycles /\ line.cnt # data_cycles + 1
            BY <2>7, <6>2
          <6> QED
            BY <1>6, <4>1, <6>1, <6>3
        <5>3. line'.rd <=> Bit(line'.cnt) = WORD - 1 /\ line'.cnt < data_cycles
          <6>1. Bit(line'.cnt) = WORD - 1 <=> Bit(line.cnt) = WORD - 2
            BY <2>7, <5>1
          <6>2. Bit(line'.cnt) = WORD - 1 => line'.cnt # data_cycles
            BY <2>7
          <6> QED
            BY <1>6, <5>1, <5>2, <6>1, <6>2
        <5>4. line.rd <=> line'.cnt >= WORD /\ line'.cnt <= data_cycles /\ Bit(line'.cnt) = 0
          <6>1. Bit(line'.cnt) = 0 <=> Bit(line.cnt) = WORD - 1
            BY <2>7, <5>1
          <6>2. Bit(line.cnt) = WORD - 1 => line.cnt + 1 >= WORD
            BY <1>6, <2>7
          <6> QED
            BY <1>6, <2>4, <3>2, <5>1, <6>1, <6>2
        <5>5. InWindow' <=> line.rd /\ line'.state = "WRITE_DAT"
          BY <5>4 DEF InWindow
        <5>6. line'.state = "WRITE_DAT" /\ line'.cnt >= 2 /\ line'.cnt <= data_cycles /\ Bit(line'.cnt) # 1 =>
                line'.first = Len(sent') + 1
          <6> SUFFICES ASSUME line'.state = "WRITE_DAT", line'.cnt >= 2, line'.cnt <= data_cycles,
                              Bit(line'.cnt) # 1
                       PROVE  line'.first = Len(sent') + 1
            OBVIOUS
          <6>1. Bit(line.cnt) # 0 /\ line.cnt < data_cycles
            BY <1>6, <2>7, <5>1
          <6>2. ~ InWindow /\ Len(sent') = l
            BY <2>6, <2>9, <6>1
          <6>3. CASE Bit(line.cnt) = 1
            <7>1. ~ tx.empty
              BY <1>7, <2>4, <3>2, <6>2
            <7>2. tx.cell[Cel(r)] = r + 1 /\ r = l /\ tx.ra = Cel(r)
              BY <1>2, <2>3, <6>2, <7>1
            <7> QED
              BY <4>1, <6>1, <6>2, <6>3, <7>2 DEF dout
          <6>4. CASE Bit(line.cnt) # 1
            <7>1. line.cnt >= 2
              BY <1>6, <2>7, <5>1, <6>4
            <7>2. line.first = l + 1
              BY <1>6, <2>4, <3>2, <6>1, <6>4, <7>1
            <7> QED
              BY <4>1, <6>2, <6>4, <7>2
          <6> QED
            BY <6>3, <6>4
        <5>7. tx'.empty /\ line'.state # "IDLE" =>
                line'.state = "WRITE_DAT" /\ (InWindow' \/ (Bit(line'.cnt) = 1 /\ Stopped'))
          <6> SUFFICES ASSUME tx'.empty, line'.state # "IDLE", ~ line.rd
                       PROVE  Bit(line'.cnt) = 1 /\ Stopped'
            BY <5>1, <5>5
          <6>1. tx.empty /\ InWindow
            BY <1>7, <2>4, <2>17, <3>2
          <6>2. Bit(line'.cnt) = 1
            BY <2>6, <2>7, <5>1, <6>1
          <6>3. dm.state # "START_TX_FIFO"
            BY <1>1, <1>6, <2>6, <2>7, <3>2, <6>1 DEF LineControl
          <6>4. dm.state = "DATA_TRANSFER" /\ dm.tx_cycle
            BY <1>1, <2>1, <2>5, <3>2, <6>3 DEF LineControl, DataControl
          <6>5. Stopped'
            BY <1>1, <1>2, <3>2, <6>1, <6>4, MasterFacts DEF Stopped
          <6> QED
            BY <6>2, <6>5
        <5>9. line'.state = "WRITE_DAT"
          BY <2>24, <3>2, <5>1
        <5>8. line'.rd <=> line'.state = "WRITE_DAT" /\ Bit(line'.cnt) = WORD - 1 /\ line'.cnt < data_cycles
          BY <5>1, <5>3, <5>9
        <5>10. tx.rd_rst
          BY <2>4, <3>2
        <5> QED
          BY <5>1, <5>5, <5>6, <5>7, <5>8, <5>10
      <4> QED
        BY <4>3, <4>4
    <3>3. CASE line.state \in {"WRITE_CRC", "WRITE_BUSY"}
      <4>1. /\ ~ line.rd /\ ~ line'.rd /\ tx.rd_rst /\ ~ tx.empty
            /\ line'.state = "WRITE_DAT" => line'.cnt = 0
        <5>1. ~ line.rd /\ tx.rd_rst /\ ~ tx.empty
          BY <2>4, <3>3
        <5>2. line.state = "WRITE_CRC" => ~ line'.rd /\ line'.state # "WRITE_DAT"
          BY <1>1, <1>3, <5>1, HostFacts
        <5>3. line.state = "WRITE_BUSY" => ~ line'.rd /\ line'.cnt = 0
          BY <1>1, <1>3, <5>1, HostFacts
        <5> QED
          BY <3>3, <5>1, <5>2, <5>3
      <4>2. ~ tx'.empty
        BY <2>17, <4>1
      <4>3. Bit(0) = 0
        BY <2>7, BitFacts
      <4>4. ~ InWindow'
        BY <2>7, <4>1 DEF InWindow
      <4> QED
        BY <1>6, <2>7, <4>1, <4>2, <4>3, <4>4
    <3> QED
      BY <2>5, <3>1, <3>2, <3>3
  <2>21. dm'.state = "START_TX_FIFO" =>
           /\ s = 0 /\ (tx'.full => dma'.adr = DEPTH)
           /\ dm'.write => tx'.full /\ a > 0 /\ tx'.rd_rst_r
    <3> SUFFICES ASSUME dm'.state = "START_TX_FIFO"
                 PROVE  /\ s = 0 /\ (tx'.full => dma'.adr = DEPTH)
                        /\ dm'.write => tx'.full /\ a > 0 /\ tx'.rd_rst_r
      OBVIOUS
    <3>1. dm.state = "START_TX_FIFO"
      <4>1. dm.state = "IDLE" => ~ dm'.en_tx
        BY <1>1, <1>2, MasterFacts
      <4>2. dm.state = "DATA_TRANSFER" => dm'.state # "START_TX_FIFO"
        BY <1>1, <1>2, MasterFacts
      <4> QED
        BY <2>5, <4>1, <4>2 DEF Sending
    <3>2. ~ line.rd
      <4>1. line.state = "WRITE_DAT" => line.cnt = 0
        BY <1>1, <3>1 DEF LineControl
      <4> QED
        BY <2>4, <2>7, <4>1
    <3>3. dm'.write => tx.full
      BY <1>1, <1>2, <2>3, <3>1, MasterFacts
    <3> QED
      BY <1>2, <1>4, <2>1, <2>3, <2>12, <2>13, <2>19, <3>1, <3>2, <3>3
  <2>22. TxCounts(s, a, r)'
    <3>1. /\ r <= s /\ s <= a /\ a <= dma'.adr /\ dma'.adr <= r + DEPTH
          /\ tx'.wp = Ptr(dma'.adr) /\ tx'.rp = Ptr(s) /\ tx'.wp_s = Ptr(a) /\ tx'.rp_s = Ptr(r)
      BY <1>2, <1>4, <2>3, <2>13, <2>14, <2>15
    <3>2. /\ ~ tx'.empty => s < a
          /\ ~ tx'.full => dma'.adr < r + DEPTH
          /\ \A n \in Nat : s <= n /\ n < dma'.adr => tx'.cell[Cel(n)] = n + 1
      BY <1>2, <1>4, <2>3, <2>13, <2>14, <2>16, <2>18
    <3>3. s <= r + 1 /\ (tick' >= 1 => r = s)
      BY <1>2, <2>14
    <3>4. ~ InWindow' => s = Len(sent') /\ tx'.ra = Cel(s)
      <4>1. ~ InWindow' => ~ line.rd
        <5>1. line.rd => line'.state # "IDLE"
          <6>1. line'.state = "IDLE" => dm'.state = "START_TX_FIFO"
            BY DEF Sending
          <6>2. dm'.state = "START_TX_FIFO" => ~ line.rd
            BY <2>12, <2>14, <2>21
          <6> QED
            BY <6>1, <6>2
        <5> QED
          BY <2>20, <5>1
      <4> QED
        BY <1>4, <2>9, <2>12, <2>15, <4>1
    <3>5. InWindow' => TxWindow(s, r)'
      <4> SUFFICES ASSUME InWindow' PROVE TxWindow(s, r)'
        OBVIOUS
      <4>1. line.rd /\ s = r + 1 /\ Len(sent') = r
        BY <2>9, <2>12, <2>20
      <4>2. tx'.ra = Cel(r) /\ tx'.cell[Cel(r)] = r + 1
        BY <1>2, <1>4, <2>3, <2>11, <2>15, <4>1
      <4>3. dma.adr + 1 = s + DEPTH => tx.full /\ ~ wbm_ack /\ bus_wait = 0
        BY <1>2, <2>3, <2>4, <4>1
      <4> QED
        BY <1>2, <1>4, <4>1, <4>2, <4>3 DEF TxWindow
    <3>6. /\ dma'.adr > 0 => tx'.wr_rst
          /\ s > 0 => tx'.rd_rst
      BY <1>2, <1>4, <2>1, <2>3, <2>11, <2>12, <2>19
    <3> QED
      BY <2>21, <3>1, <3>2, <3>3, <3>4, <3>5, <3>6 DEF TxCounts
  <2>23. TxLine'
    BY <1>2, <1>4, <2>1, <2>4, <2>19, <2>20 DEF TxLine
  <2> QED
    BY <2>22, <2>23
<1> QED
  BY <1>8, <1>9, <1>10 DEF Sending


-----------------------------------------------------------------------------
LEMMA DataInvNext ==
  ASSUME DataInv, [SdNext]_sdVars
  PROVE  DataInv'
<1>1. CASE DataWbEdge
  <2>1. DataTypeOK'
    BY <1>1, DataTypeNext DEF DataInv, DataNext
  <2>2. DataControl' /\ LineControl' /\ Off' /\ SentInv'
    BY <1>1, BusControl
  <2>3. RxInv' /\ RamInv' /\ TxInv'
    BY <1>1, BusRx, BusRam, BusTx
  <2> QED
    BY <2>1, <2>2, <2>3 DEF DataInv
<1>2. CASE DataSdEdge
  <2>1. DataTypeOK'
    BY <1>2, DataTypeNext DEF DataInv, DataNext
  <2>2. DataControl' /\ LineControl' /\ Off'
    BY <1>2, CardControl, CardOff
  <2>3. RxInv' /\ RamInv' /\ TxInv' /\ SentInv'
    BY <1>2, CardRx, CardRam, CardTx
  <2> QED
    BY <2>1, <2>2, <2>3 DEF DataInv
<1>3. CASE DataClear
  <2>1. DataTypeOK'
    BY <1>3, DataTypeNext DEF DataInv, DataNext
  <2>2. /\ UNCHANGED <<setup, request, line, rx, tx, dma, bus_wait, wbm_ack, tick, ram, sent>>
        /\ dm'.state = dm.state /\ dm'.en_rx = dm.en_rx /\ dm'.en_tx = dm.en_tx /\ dm'.write = dm.write
        /\ dm'.read = dm.read /\ dm'.trans_done = dm.trans_done /\ dm'.tx_cycle = dm.tx_cycle
    BY <1>3 DEF DataClear, DataInv, DataTypeOK, DataMaster
  <2> QED
    BY <2>1, <2>2, DataStutter
<1>4. CASE DataIssue
  <2>1. DataTypeOK'
    BY <1>4, DataTypeNext DEF DataInv, DataNext
  <2> QED
    BY <1>4, <2>1, DataIssueInv
<1>5. CASE UNCHANGED dataVars
  <2>1. DataTypeOK'
    BY <1>5 DEF DataInv, DataTypeOK, dataVars
  <2>2. /\ UNCHANGED <<setup, request, line, rx, tx, dma, bus_wait, wbm_ack, tick, ram, sent>>
        /\ dm' = dm
    BY <1>5 DEF dataVars
  <2> QED
    BY <2>1, <2>2, DataStutter
<1> QED
  BY <1>1, <1>2, <1>3, <1>4, <1>5 DEF SdNext, sdVars, OnCommandPath

LEMMA OrderInInv == DataInv => WordsInOrder
<1> SUFFICES ASSUME DataInv PROVE WordsInOrder
  OBVIOUS
<1>1. PICK m \in Nat : RamHolds(m)
  BY DEF DataInv, RamInv
<1>2. \A a \in DOMAIN ram : ram[a] # 0 => ram[a] = a + 1 /\ \A b \in 0 .. a - 1 : ram[b] # 0
  <2> SUFFICES ASSUME NEW a \in DOMAIN ram, ram[a] # 0
               PROVE  ram[a] = a + 1 /\ \A b \in 0 .. a - 1 : ram[b] # 0
    OBVIOUS
  <2>1. DOMAIN ram = 0 .. BLOCK * setup.blocks - 1 /\ BLOCK * setup.blocks \in Int
    BY SdDataAssumption DEF DataInv, DataTypeOK, Setup
  <2>2. ram[a] = a + 1 /\ a < m
    BY <1>1 DEF RamHolds
  <2>3. ASSUME NEW b \in 0 .. a - 1 PROVE ram[b] # 0
    <3> DEFINE e == BLOCK * setup.blocks
    <3> HIDE DEF e
    <3>1. a \in 0 .. e - 1 /\ e \in Int
      BY <2>1 DEF e
    <3>2. b \in 0 .. e - 1 /\ b < m
      BY <2>2, <3>1
    <3>3. b \in DOMAIN ram
      BY <2>1, <3>2 DEF e
    <3>4. ram[b] = b + 1
      BY <1>1, <3>2, <3>3 DEF RamHolds
    <3> QED
      BY <3>2, <3>4
  <2> QED
    BY <2>2, <2>3
<1> QED
  BY <1>2 DEF DataInv, SentInv, WordsInOrder, MemoryInOrder

(* The registers of the data path and the two FIFOs, whatever the depths,   *)
(* the sizes, the timeouts and the speeds of the card and of the bus are.   *)
(* That the line has its words in order is part of it only while the bus is *)
(* slow enough for the card clock: sd_data_serial_host.v, WRITE_DAT, takes  *)
(* a word out of the FIFO before it has sent the last bits of it.           *)
THEOREM DataInvariant == SdSpec => []DataInv
<1>1. SdInit => DataInv
  BY DataInitInv DEF SdInit
<1>2. DataInv /\ [SdNext]_sdVars => DataInv'
  BY DataInvNext
<1> QED
  BY <1>1, <1>2, PTL DEF SdSpec

(* No word of a transfer is lost, repeated, garbled or out of order: in     *)
(* memory none, however slow or fast the bus is, and on the line none in    *)
(* the transfers whose card clock is not too slow for the bus.              *)
THEOREM WordsKeepOrder == SdSpec => []WordsInOrder
BY DataInvariant, OrderInInv, PTL

-----------------------------------------------------------------------------
(* A complete transfer is whole.                                            *)
(* The words of a block that have been dealt with when the serial host has  *)
(* counted c card cycles of it: a word is done after its last cycle.        *)
InBlock(u, c) ==
  IF c = 0 THEN u = 0
  ELSE IF c <= data_cycles THEN u * WORD < c /\ c <= (u + 1) * WORD ELSE u = BLOCK

(* The words of the blocks before this one.                                 *)
Before == BLOCK * (setup.blocks - 1 - line.blkcnt)

(* The serial host has ended a transfer, and the master is about to see it. *)
OverNow == line.state = "IDLE" /\ dm.state = "DATA_TRANSFER" /\ ~ dm.trans_done /\ line.crc_ok

StatusInv ==
  /\ Stopped => dm.trans_done
  /\ "CC" \in dm.status =>
       /\ line.state = "IDLE" /\ request = "none" /\ ~ line.we
       /\ dm.state = "IDLE" \/ (dm.state = "DATA_TRANSFER" /\ dm.trans_done)

(* A write: the words on the line are those of the blocks before and of     *)
(* this one, and it only ends with the last block stored.                   *)
TxWhole ==
  setup.dir = "tx" =>
    /\ line.state # "IDLE" => line.blkcnt <= setup.blocks - 1
    /\ line.state = "WRITE_DAT" =>
         /\ line.crc_ok => line.cnt = 0
         /\ \E u \in Nat : InBlock(u, line.cnt) /\ Len(sent) = Before + u
    /\ line.state \in {"WRITE_CRC", "WRITE_BUSY"} => Len(sent) = Before + BLOCK
    /\ line.state = "WRITE_CRC" => ~ line.crc_ok
    /\ line.state = "WRITE_BUSY" /\ ~ line.busy_int =>
         (line.next_block <=> line.blkcnt # 0) /\ (line.crc_ok <=> line.crc_s)
    /\ OverNow \/ "CC" \in dm.status => Len(sent) = Words

(* A read.  Left is how many bus cycles the filler needs at most until      *)
(* memory has all w words; it falls with every bus cycle, and a new word    *)
(* adds to it, which comes after a word's time.                             *)
HeadLeft(p) ==
  IF rx.empty THEN IF p = dma.adr THEN Service + 1 ELSE Service
  ELSE IF ~ dma.rd_ack THEN Service
  ELSE IF wbm_ack THEN 1 ELSE AckMax + 1 - bus_wait

Left(w, p) == (w - dma.adr - 1) * Service + HeadLeft(p)

(* Card cycles since the last word was handed to the FIFO, at least.        *)
Since ==
  IF line.state # "READ_DAT" \/ line.cnt = 0 THEN 0
  ELSE IF line.cnt > data_cycles THEN line.cnt - 1 - data_cycles
  ELSE IF Bit(line.cnt) = 0 THEN WORD - 1 ELSE Bit(line.cnt) - 1

OnTime(w, p, c) == w > dma.adr => Left(w, p) + c * setup.period + tick <= Most(setup.period, w)

(* The words in the FIFO's memory are those of the blocks before and of     *)
(* this one.                                                                *)
RxBlocks(w) ==
  /\ line.state # "IDLE" => line.blkcnt <= setup.blocks - 1
  /\ line.state = "READ_WAIT" => w = Before
  /\ line.state = "READ_DAT" =>
       /\ line.we <=> line.cnt > 0 /\ line.cnt <= data_cycles /\ Bit(line.cnt) = 0
       /\ line.cnt <= data_cycles + CRC_CYCLES
       /\ line.cnt < data_cycles + CRC_CYCLES => ~ line.next_block
       /\ \E u \in Nat :
            /\ InBlock(u, line.cnt)
            /\ IF line.next_block THEN w + BLOCK = Before + u
               ELSE IF line.cnt = data_cycles + CRC_CYCLES THEN w = Words
               ELSE w = Before + u
  /\ OverNow \/ "CC" \in dm.status => w = Words /\ ~ line.we

RxOnTime(w, p) ==
  /\ bus_wait > 0 => bus_wait < AckMax /\ ~ wbm_ack
  /\ line.state # "IDLE" => OnTime(w, p, Since)
  /\ OverNow => OnTime(w, p, CRC_CYCLES)
  /\ "CC" \in dm.status =>
       OnTime(w, p, IF dm.state = "IDLE" THEN CRC_CYCLES + 2 ELSE CRC_CYCLES + 1)

RxWhole == dm.en_rx => \E w, p, q \in Nat : RxCounts(w, p, q) /\ RxBlocks(w) /\ RxOnTime(w, p)

(* What the FIFO leaves behind when it is switched off.                     *)
OffWhole ==
  "CC" \in dm.status /\ setup.dir = "rx" /\ ~ dm.en_rx /\ BusKeepsUp(setup.period, setup.blocks) =>
    \A a \in DOMAIN ram : ram[a] # 0

WriteInv == DataInv /\ StatusInv /\ TxWhole
ReadInv == RxWhole /\ OffWhole


-----------------------------------------------------------------------------
(* More of what a step does: how the master reports, how the serial host    *)
(* counts blocks, and that the bus answers at last.                         *)
LEMMA MasterReports ==
  ASSUME DataTypeOK, NEW next, next = dmNext
  PROVE  /\ dm.state # "DATA_TRANSFER" => next.status = dm.status
         /\ dm.state = "DATA_TRANSFER" =>
              /\ (next.read <=> next.write) /\ (next.write => next.trans_done)
              /\ line.state = "IDLE" => next.trans_done
              /\ "CC" \in next.status /\ "CC" \notin dm.status =>
                   line.state = "IDLE" /\ ~ dm.trans_done /\ line.crc_ok
<1>1. /\ dm \in DataMaster /\ request \in {"none", "rx", "tx"}
      /\ setup \in Setup /\ tx.full \in BOOLEAN /\ tx.empty \in BOOLEAN /\ rx.full \in BOOLEAN
      /\ line.crc_ok \in BOOLEAN
  BY DEF DataTypeOK, Fifo, SerialHost
<1>2. CASE dm.state # "DATA_TRANSFER"
  <2>1. dm.state \in {"IDLE", "START_RX_FIFO", "START_TX_FIFO"}
    BY <1>1, <1>2 DEF DataMaster
  <2>2. next = CASE dm.state = "IDLE" -> dmIdle
                 [] dm.state = "START_RX_FIFO" -> dmStartRx
                 [] dm.state = "START_TX_FIFO" -> dmStartTx
                 [] OTHER -> dm
    BY <2>1 DEF dmNext
  <2> QED
    BY <1>1, <1>2, <2>1, <2>2 DEF dmIdle, dmStartRx, dmStartTx, DataMaster
<1>3. CASE dm.state = "DATA_TRANSFER"
  <2> DEFINE short == IF dm.tx_cycle THEN tx.empty ELSE rx.full
             late == DataLate
             complete == xfr_complete /\ ~late
             stop == (short \/ late) /\ ~complete
             done == dm.trans_done \/ short \/ late \/ complete
             state == IF dm.trans_done THEN "IDLE" ELSE dm.state
             watchdog == IF setup.timeout = 0 \/ late THEN dm.watchdog ELSE dm.watchdog + 1
             status == dm.status \cup
               (IF short /\ ~dm.trans_done THEN {"CFE", "EI"} ELSE {}) \cup
               (IF late THEN {"CTE", "EI"} ELSE {}) \cup
               (IF ~complete \/ dm.trans_done THEN {}
                ELSE IF line.crc_ok THEN {"CC"} ELSE {"CCRCE", "EI"})
  <2>1. next = [dm EXCEPT !.state = state, !.watchdog = watchdog, !.trans_done = done,
                          !.write = stop, !.read = stop, !.status = status]
    BY <1>3 DEF dmNext, dmTransfer
  <2>2. short \in BOOLEAN /\ late \in BOOLEAN /\ (complete <=> line.state = "IDLE" /\ ~ late)
    BY <1>1 DEF DataLate, xfr_complete, DataMaster
  <2>3. /\ stop \in BOOLEAN /\ done \in BOOLEAN /\ (stop => done) /\ (line.state = "IDLE" => done)
    BY <1>1, <2>2 DEF DataMaster
  <2>4. "CC" \in status /\ "CC" \notin dm.status => line.state = "IDLE" /\ ~ dm.trans_done /\ line.crc_ok
    BY <2>2
  <2> HIDE DEF short, late, complete, stop, done, state, watchdog, status
  <2>5. next.read = stop /\ next.write = stop /\ next.trans_done = done /\ next.status = status
    BY <1>1, <2>1 DEF DataMaster
  <2> QED
    BY <1>3, <2>3, <2>4, <2>5
<1> QED
  BY <1>2, <1>3

LEMMA HostCounts ==
  ASSUME DataTypeOK, NEW bit \in BOOLEAN, NEW good \in BOOLEAN, NEW next, next = lineNext(bit, good)
  PROVE  /\ line.state = "IDLE" => next.blkcnt = setup.blocks - 1 /\ ~ next.next_block
         /\ line.state = "READ_WAIT" => next.blkcnt = line.blkcnt /\ ~ next.next_block
         /\ line.state = "READ_DAT" =>
              /\ line.cnt < data_cycles + CRC_CYCLES - 1 =>
                   next.blkcnt = line.blkcnt /\ (next.next_block <=> line.next_block)
              /\ line.cnt = data_cycles + CRC_CYCLES - 1 =>
                   /\ next.blkcnt = IF line.blkcnt > 0 THEN line.blkcnt - 1 ELSE line.blkcnt
                   /\ next.next_block <=> line.blkcnt # 0
              /\ line.cnt >= data_cycles + CRC_CYCLES =>
                   /\ next.blkcnt = line.blkcnt /\ next.cnt = line.cnt
                   /\ (next.next_block <=> line.next_block) /\ (next.crc_ok <=> line.crc_ok)
                   /\ ~ Stopped => (next.state = "READ_WAIT" <=> line.next_block /\ line.crc_ok)
              /\ line.cnt < data_cycles + CRC_CYCLES /\ ~ Stopped => next.state = "READ_DAT"
         /\ line.state = "WRITE_DAT" => next.blkcnt = line.blkcnt /\ ~ next.crc_ok
         /\ line.state = "WRITE_CRC" =>
              /\ next.blkcnt = line.blkcnt /\ (next.crc_ok <=> line.crc_ok) /\ next.busy_int
              /\ ~ Stopped => next.state # "IDLE"
         /\ line.state = "WRITE_BUSY" =>
              /\ (next.crc_ok <=> line.crc_s) /\ (next.crc_s <=> line.crc_s)
              /\ next.next_block <=> line.blkcnt # 0
              /\ line.busy_int =>
                   next.blkcnt = line.blkcnt /\ (~ Stopped => next.state = "WRITE_BUSY")
              /\ ~ line.busy_int =>
                   /\ next.blkcnt = IF line.blkcnt > 0 THEN line.blkcnt - 1 ELSE line.blkcnt
                   /\ next.state \in {"WRITE_DAT", "IDLE"}
                   /\ next.state = "WRITE_DAT" => line.next_block /\ line.crc_ok
                   /\ ~ Stopped /\ next.state = "IDLE" => ~ (line.next_block /\ line.crc_ok)
<1>1. /\ line \in SerialHost /\ dm.read \in BOOLEAN /\ dm.write \in BOOLEAN
      /\ setup.blocks - 1 \in Nat /\ dout(tx) \in Nat
  <2>1. setup.blocks - 1 \in Nat
    BY DEF DataTypeOK, Setup
  <2>2. dout(tx) \in Nat
    BY EnabledFacts
  <2> QED
    BY <2>1, <2>2 DEF DataTypeOK, DataMaster
<1>2. data_cycles \in Nat /\ CRC_CYCLES \in Nat /\ CRC_CYCLES >= 1 /\ data_cycles + CRC_CYCLES \in Nat
      /\ line.cnt \in Nat
  BY <1>1, BitFacts, SdDataAssumption DEF SerialHost
<1> DEFINE base == CASE line.state = "IDLE" -> lineIdle
                [] line.state = "READ_WAIT" -> readWait(bit)
                [] line.state = "READ_DAT" -> readDat(good)
                [] line.state = "WRITE_DAT" -> writeDat(bit)
                [] line.state = "WRITE_CRC" -> writeCrc(good)
                [] line.state = "WRITE_BUSY" -> writeBusy(bit)
<1>3. next = IF Stopped THEN [base EXCEPT !.state = "IDLE"] ELSE base
  <2>1. next = IF dm.write /\ dm.read THEN [base EXCEPT !.state = "IDLE"] ELSE base
    BY Zenon DEF lineNext
  <2> HIDE DEF base
  <2> QED
    BY <2>1 DEF Stopped
<1>4. line.state \in {"IDLE", "READ_WAIT", "READ_DAT", "WRITE_DAT", "WRITE_CRC", "WRITE_BUSY"}
  BY <1>1 DEF SerialHost
<1>5. ASSUME DOMAIN base = DOMAIN line
      PROVE  /\ Stopped => next.state = "IDLE"
             /\ ~ Stopped => next.state = base.state
             /\ next.cnt = base.cnt /\ next.blkcnt = base.blkcnt
             /\ next.next_block = base.next_block /\ next.crc_ok = base.crc_ok
             /\ next.crc_s = base.crc_s /\ next.busy_int = base.busy_int
  <2> HIDE DEF base
  <2>1. DOMAIN base = {"state", "cnt", "we", "rd", "crc_ok", "crc_s", "crc_status", "busy_int",
                       "next_block", "blkcnt", "got", "first"}
    BY <1>1, <1>5 DEF SerialHost
  <2> QED
    BY <1>3, <2>1
<1> HIDE DEF base
<1>6. CASE line.state = "IDLE"
  <2>1. base = lineIdle
    BY <1>6 DEF base
  <2>2. DOMAIN base = DOMAIN line /\ base.blkcnt = setup.blocks - 1 /\ base.next_block = FALSE
    BY <1>1, <2>1 DEF lineIdle, SerialHost
  <2> QED
    BY <1>5, <1>6, <2>2
<1>7. CASE line.state = "READ_WAIT"
  <2>1. base = readWait(bit)
    BY <1>7 DEF base
  <2>2. DOMAIN base = DOMAIN line /\ base.blkcnt = line.blkcnt /\ base.next_block = FALSE
    BY <1>1, <2>1 DEF readWait, SerialHost
  <2> QED
    BY <1>5, <1>7, <2>2
<1>8. CASE line.state = "READ_DAT"
  <2> DEFINE last == line.cnt % WORD = WORD - 1
             checked == line.cnt = data_cycles + CRC_CYCLES - 1
             more == MoreBlocks
  <2>1. base = IF line.cnt < data_cycles
     THEN [line EXCEPT !.cnt = @ + 1, !.we = last, !.crc_ok = TRUE,
                       !.got = IF last THEN @ + 1 ELSE @]
     ELSE IF line.cnt < data_cycles + CRC_CYCLES
     THEN [line EXCEPT !.cnt = @ + 1, !.we = FALSE,
                       !.crc_ok = IF checked THEN good ELSE @,
                       !.next_block = IF checked THEN more ELSE @,
                       !.blkcnt = IF checked /\ @ > 0 THEN @ - 1 ELSE @]
     ELSE [line EXCEPT !.state = IF line.next_block /\ line.crc_ok
                                 THEN "READ_WAIT" ELSE "IDLE"]
    BY <1>8 DEF base, readDat
  <2>2. /\ last \in BOOLEAN /\ checked \in BOOLEAN /\ more \in BOOLEAN
        /\ checked <=> line.cnt = data_cycles + CRC_CYCLES - 1
        /\ more <=> line.blkcnt # 0
    BY DEF MoreBlocks
  <2> HIDE DEF last, checked, more
  <2>3. CASE line.cnt < data_cycles
    <3>1. base = [line EXCEPT !.cnt = @ + 1, !.we = last, !.crc_ok = TRUE,
                       !.got = IF last THEN @ + 1 ELSE @]
      BY <2>1, <2>3
    <3>2. DOMAIN base = DOMAIN line /\ base.blkcnt = line.blkcnt /\ base.next_block = line.next_block
          /\ base.state = "READ_DAT"
      BY <1>1, <1>8, <3>1 DEF SerialHost
    <3>3. line.cnt < data_cycles + CRC_CYCLES - 1
      BY <1>2, <2>3
    <3> QED
      BY <1>2, <1>5, <1>8, <2>3, <3>2, <3>3
  <2>4. CASE line.cnt >= data_cycles /\ line.cnt < data_cycles + CRC_CYCLES
    <3>1. base = [line EXCEPT !.cnt = @ + 1, !.we = FALSE,
                       !.crc_ok = IF checked THEN good ELSE @,
                       !.next_block = IF checked THEN more ELSE @,
                       !.blkcnt = IF checked /\ @ > 0 THEN @ - 1 ELSE @]
      BY <1>2, <2>1, <2>4
    <3>2. /\ DOMAIN base = DOMAIN line /\ base.state = "READ_DAT"
          /\ base.blkcnt = IF checked /\ line.blkcnt > 0 THEN line.blkcnt - 1 ELSE line.blkcnt
          /\ base.next_block = IF checked THEN more ELSE line.next_block
      BY <1>1, <1>8, <3>1 DEF SerialHost
    <3> QED
      BY <1>2, <1>5, <1>8, <2>2, <2>4, <3>2
  <2>5. CASE line.cnt >= data_cycles + CRC_CYCLES
    <3>1. base = [line EXCEPT !.state = IF line.next_block /\ line.crc_ok
                                 THEN "READ_WAIT" ELSE "IDLE"]
      BY <1>2, <2>1, <2>5
    <3>2. /\ DOMAIN base = DOMAIN line
          /\ base.state = IF line.next_block /\ line.crc_ok THEN "READ_WAIT" ELSE "IDLE"
          /\ base.blkcnt = line.blkcnt /\ base.cnt = line.cnt
          /\ base.next_block = line.next_block /\ base.crc_ok = line.crc_ok
      BY <1>1, <3>1 DEF SerialHost
    <3> QED
      BY <1>2, <1>5, <1>8, <2>5, <3>2
  <2> QED
    BY <1>2, <2>3, <2>4, <2>5
<1>9. CASE line.state = "WRITE_DAT"
  <2>1. base = writeDat(bit)
    BY <1>9 DEF base
  <2>2. DOMAIN base = DOMAIN line /\ base.blkcnt = line.blkcnt /\ base.crc_ok = FALSE
    BY <1>1, <2>1 DEF writeDat, SerialHost
  <2> QED
    BY <1>5, <1>9, <2>2
<1>10. CASE line.state = "WRITE_CRC"
  <2>1. base = writeCrc(good)
    BY <1>10 DEF base
  <2>2. /\ DOMAIN base = DOMAIN line /\ base.blkcnt = line.blkcnt /\ base.crc_ok = line.crc_ok
        /\ base.busy_int = TRUE /\ base.state \in {"WRITE_CRC", "WRITE_BUSY"}
    BY <1>1, <1>10, <2>1 DEF writeCrc, SerialHost
  <2> QED
    BY <1>5, <1>10, <2>2
<1>11. CASE line.state = "WRITE_BUSY"
  <2> DEFINE more == MoreBlocks
  <2>1. base = [line EXCEPT
                  !.state = IF ~line.busy_int /\ line.next_block /\ line.crc_ok THEN "WRITE_DAT"
                            ELSE IF ~line.busy_int THEN "IDLE" ELSE @,
                  !.crc_ok = line.crc_s,
                  !.busy_int = bit,
                  !.next_block = more,
                  !.blkcnt = IF ~line.busy_int /\ @ > 0 THEN @ - 1 ELSE @,
                  !.crc_status = IF ~line.busy_int THEN 0 ELSE @,
                  !.cnt = 0]
    BY <1>11 DEF base, writeBusy
  <2>2. more \in BOOLEAN /\ (more <=> line.blkcnt # 0)
    BY DEF MoreBlocks
  <2> HIDE DEF more
  <2>3. /\ DOMAIN base = DOMAIN line
        /\ base.state = IF ~line.busy_int /\ line.next_block /\ line.crc_ok THEN "WRITE_DAT"
                        ELSE IF ~line.busy_int THEN "IDLE" ELSE "WRITE_BUSY"
        /\ base.crc_ok = line.crc_s /\ base.crc_s = line.crc_s /\ base.next_block = more
        /\ base.blkcnt = IF ~line.busy_int /\ line.blkcnt > 0 THEN line.blkcnt - 1 ELSE line.blkcnt
    BY <1>1, <1>11, <2>1 DEF SerialHost
  <2> QED
    BY <1>1, <1>5, <1>11, <2>2, <2>3
<1> QED
  BY <1>4, <1>6, <1>7, <1>8, <1>9, <1>10, <1>11

LEMMA BusAnswersAtLast ==
  ASSUME DataTypeOK, DataWbEdge
  PROVE  /\ wbm_stb /\ ~ wbm_ack /\ bus_wait + 1 >= AckMax => wbm_ack'
         /\ bus_wait' = IF wbm_stb /\ ~ wbm_ack /\ ~ wbm_ack' THEN bus_wait + 1 ELSE 0
<1>1. PICK ack \in BOOLEAN :
        /\ wbm_stb /\ ~ wbm_ack /\ bus_wait + 1 >= AckMax => ack
        /\ wbm_ack' = ack
        /\ bus_wait' = IF wbm_stb /\ ~ wbm_ack /\ ~ack THEN bus_wait + 1 ELSE 0
  BY DEF DataWbEdge, BusAnswers
<1> QED
  BY <1>1


(* Two words at hand that share a pointer are the same one.                 *)
LEMMA PointersTell ==
  ASSUME NEW a \in Nat, NEW x \in Nat, NEW y \in Nat, a <= x, x <= a + DEPTH, a <= y, y <= a + DEPTH,
         Ptr(x) = Ptr(y)
  PROVE  x = y
<1>1. DEPTH \in Nat
  BY SdDataAssumption
<1>2. CASE x <= y
  BY <1>1, <1>2, SamePtr
<1>3. CASE y <= x
  BY <1>1, <1>3, SamePtr
<1> QED
  BY <1>2, <1>3

(* A block's words, counted cycle by cycle.                                 *)
LEMMA BlockStarts ==
  InBlock(0, 0) /\ \A u \in Nat : InBlock(u, 0) => u = 0
BY DEF InBlock

LEMMA BlockGoesOn ==
  ASSUME NEW u \in Nat, NEW c \in Nat, InBlock(u, c)
  PROVE  /\ c > 0 /\ c <= data_cycles /\ Bit(c) = 0 => InBlock(u + 1, c + 1)
         /\ ~ (c > 0 /\ c <= data_cycles /\ Bit(c) = 0) => InBlock(u, c + 1)
         /\ c > data_cycles => u = BLOCK
<1>1. WORD \in Nat /\ WORD >= 4 /\ BLOCK \in Nat \ {0} /\ data_cycles \in Nat /\ data_cycles >= WORD
      /\ Bit(data_cycles) = 0
  BY BitFacts, SdDataAssumption
<1>0. ASSUME NEW v \in Nat, NEW d \in Nat, d > 0, d <= data_cycles, v * WORD < d, d <= (v + 1) * WORD
      PROVE  InBlock(v, d)
  BY <1>0 DEF InBlock
<1>2. CASE c = 0
  <2>1. u = 0 /\ c + 1 = 1 /\ 1 <= data_cycles
    BY <1>1, <1>2 DEF InBlock
  <2>2. InBlock(0, 1)
    BY <1>0, <1>1, <2>1
  <2> QED
    BY <1>1, <1>2, <2>1, <2>2
<1>3. CASE c > 0 /\ c <= data_cycles
  <2>1. u * WORD < c /\ c <= (u + 1) * WORD
    BY <1>3 DEF InBlock
  <2>2. (u + 1) * WORD = u * WORD + WORD /\ u * WORD \in Nat /\ ((u + 1) + 1) * WORD = u * WORD + WORD + WORD
    BY <1>1
  <2>3. c < (u + 1) * WORD => Bit(c) # 0
    <3> SUFFICES ASSUME c < (u + 1) * WORD PROVE Bit(c) # 0
      OBVIOUS
    <3>1. c >= u * WORD /\ c < u * WORD + WORD
      BY <2>1, <2>2
    <3>2. c % WORD = c - u * WORD
      <4>1. WORD \in Nat \ {0}
        BY <1>1
      <4> QED
        BY ONLY <3>1, <4>1, ModTimes, u \in Nat, c \in Nat
    <3>3. c - u * WORD # 0
      BY <2>1, <2>2
    <3> QED
      BY <3>2, <3>3, Zenon DEF Bit
  <2>4. c = (u + 1) * WORD => Bit(c) = 0
    <3> SUFFICES ASSUME c = (u + 1) * WORD PROVE Bit(c) = 0
      OBVIOUS
    <3>1. c >= (u + 1) * WORD /\ c < (u + 1) * WORD + WORD /\ u + 1 \in Nat
      BY <1>1
    <3>2. c % WORD = c - (u + 1) * WORD
      BY <1>1, <3>1, ModTimes
    <3> QED
      BY <3>2 DEF Bit
  <2>5. CASE Bit(c) = 0
    <3>1. c = (u + 1) * WORD
      <4> DEFINE e == (u + 1) * WORD
      <4>1. c <= e /\ ~ (c < e) /\ e \in Nat
        BY <1>1, <2>1, <2>3, <2>5
      <4> HIDE DEF e
      <4>2. c = e
        BY <4>1
      <4> QED
        BY <4>2 DEF e
    <3>2. CASE c < data_cycles
      <4> DEFINE v == u + 1
                 d == c + 1
      <4>1. v \in Nat /\ d \in Nat /\ d > 0 /\ d <= data_cycles
        BY <1>1, <3>2
      <4>2. v * WORD < d /\ d <= (v + 1) * WORD
        BY <1>1, <2>2, <3>1
      <4> HIDE DEF v, d
      <4>3. InBlock(v, d)
        BY <1>0, <4>1, <4>2
      <4> QED
        BY <1>1, <1>3, <2>5, <3>2, <4>3 DEF v, d
    <3>3. CASE c = data_cycles
      <4>1. (u + 1) * WORD = BLOCK * WORD
        BY <3>1, <3>3 DEF data_cycles
      <4>2. u + 1 = BLOCK
        <5>1. ((u + 1) - BLOCK) * WORD = 0
          BY <1>1, <4>1
        <5> QED
          BY <1>1, <5>1
      <4>3. InBlock(u + 1, c + 1)
        BY <1>1, <3>3, <4>2 DEF InBlock
      <4> QED
        BY <1>1, <2>5, <3>3, <4>3
    <3> QED
      BY <1>1, <1>3, <3>2, <3>3
  <2>6. CASE Bit(c) # 0
    <3>1. c < (u + 1) * WORD /\ c < data_cycles
      BY <1>1, <1>3, <2>1, <2>2, <2>4, <2>6
    <3> DEFINE d == c + 1
    <3>2. d \in Nat /\ d > 0 /\ u * WORD < d /\ d <= (u + 1) * WORD /\ d <= data_cycles
      BY <1>1, <2>1, <2>2, <3>1
    <3> HIDE DEF d
    <3>3. InBlock(u, d)
      BY <1>0, <3>2
    <3> QED
      BY <1>1, <1>3, <2>6, <3>1, <3>3 DEF d
  <2> QED
    BY <1>1, <1>3, <2>5, <2>6
<1>4. CASE c > data_cycles
  BY <1>1, <1>4 DEF InBlock
<1> QED
  BY <1>1, <1>2, <1>3, <1>4

(* What is before a block, at the first, the next, and after the last.      *)
LEMMA BeforeFacts ==
  ASSUME DataTypeOK
  PROVE  /\ Before \in Int /\ BLOCK \in Nat /\ Words \in Nat
         /\ line.blkcnt = setup.blocks - 1 => Before = 0
         /\ line.blkcnt = 0 => Before + BLOCK = Words
         /\ \A b \in Nat : b = line.blkcnt - 1 => BLOCK * (setup.blocks - 1 - b) = Before + BLOCK
<1>1. BLOCK \in Nat /\ setup.blocks \in Nat /\ line.blkcnt \in Nat
  BY SdDataAssumption DEF DataTypeOK, Setup, SerialHost
<1> DEFINE k == setup.blocks - 1 - line.blkcnt
<1>2. k \in Int /\ Before = BLOCK * k
  BY <1>1 DEF Before
<1>3. BLOCK * (k + 1) = BLOCK * k + BLOCK
  BY <1>1, <1>2
<1>4. line.blkcnt = setup.blocks - 1 => k = 0
  BY <1>1
<1>5. line.blkcnt = 0 => k + 1 = setup.blocks
  BY <1>1
<1>6. \A b \in Nat : b = line.blkcnt - 1 => setup.blocks - 1 - b = k + 1
  BY <1>1
<1>7. BLOCK * k \in Int /\ BLOCK * setup.blocks \in Nat /\ BLOCK * 0 = 0
  BY <1>1, <1>2
<1> HIDE DEF k
<1> QED
  BY <1>1, <1>2, <1>3, <1>4, <1>5, <1>6, <1>7 DEF Words


-----------------------------------------------------------------------------
(* Between transfers.                                                       *)
LEMMA QuietSteps ==
  ASSUME DataInv
  PROVE  /\ DataWbEdge => UNCHANGED <<setup, request, dm, line, sent>>
         /\ DataClear =>
              /\ UNCHANGED <<setup, request, line, rx, tx, dma, bus_wait, wbm_ack, tick, ram, sent>>
              /\ "CC" \notin dm'.status
              /\ dm'.state = dm.state /\ dm'.en_rx = dm.en_rx /\ dm'.en_tx = dm.en_tx
              /\ dm'.write = dm.write /\ dm'.read = dm.read /\ dm'.trans_done = dm.trans_done
              /\ dm.state = "IDLE" /\ ~ enabled
         /\ DataIssue =>
              /\ dm' = dm /\ dm.state = "IDLE" /\ ~ enabled /\ "CC" \notin dm.status
              /\ line.state = "IDLE" /\ line'.state = "IDLE"
<1>1. DataTypeOK /\ Off
  BY DEF DataInv
<1>2. DataWbEdge => UNCHANGED <<setup, request, dm, line, sent>>
  BY <1>1, BusEdge
<1>3. ASSUME DataClear
      PROVE  /\ UNCHANGED <<setup, request, line, rx, tx, dma, bus_wait, wbm_ack, tick, ram, sent>>
             /\ "CC" \notin dm'.status
             /\ dm'.state = dm.state /\ dm'.en_rx = dm.en_rx /\ dm'.en_tx = dm.en_tx
             /\ dm'.write = dm.write /\ dm'.read = dm.read /\ dm'.trans_done = dm.trans_done
             /\ dm.state = "IDLE" /\ ~ enabled
  BY <1>1, <1>3 DEF DataClear, Quiet, DataTypeOK, DataMaster
<1>4. ASSUME DataIssue
      PROVE  /\ dm' = dm /\ dm.state = "IDLE" /\ ~ enabled /\ "CC" \notin dm.status
             /\ line.state = "IDLE" /\ line'.state = "IDLE"
  <2>1. dm' = dm /\ dm.state = "IDLE" /\ ~ enabled /\ dm.status = {} /\ line' = [line EXCEPT !.first = 0]
    BY <1>4 DEF DataIssue, Quiet
  <2>2. line.state = "IDLE"
    BY <1>1, <2>1 DEF Off
  <2> QED
    BY <1>1, <2>1, <2>2 DEF DataTypeOK, SerialHost
<1> QED
  BY <1>2, <1>3, <1>4

(* The edge of the card clock, as far as the report goes.                   *)
LEMMA CardReports ==
  ASSUME DataInv, StatusInv, DataSdEdge
  PROVE  /\ StatusInv'
         /\ OverNow' => line.state # "IDLE" /\ ~ Stopped /\ dm.state # "IDLE"
         /\ "CC" \in dm'.status => "CC" \in dm.status \/ OverNow
         /\ "CC" \in dm'.status => dm.state \in {"IDLE", "DATA_TRANSFER"} /\ line.state = "IDLE"
<1> USE DEF Stopped
<1>1. DataTypeOK /\ DataControl /\ LineControl /\ Off
  BY DEF DataInv
<1>2. /\ request' = "none" /\ setup' = setup /\ dm' = dmNext /\ line.cnt \in Nat
      /\ dm.state \in {"IDLE", "START_RX_FIFO", "START_TX_FIFO", "DATA_TRANSFER"}
  BY <1>1, CardEdge DEF DataTypeOK, DataMaster, SerialHost
<1>3. PICK bit, good \in BOOLEAN : line' = lineNext(bit, good)
  BY <1>1, CardEdge
<1>4. /\ dm.state # "DATA_TRANSFER" => dm'.status = dm.status
      /\ dm.state = "DATA_TRANSFER" =>
           /\ (dm'.read <=> dm'.write) /\ (dm'.write => dm'.trans_done)
           /\ line.state = "IDLE" => dm'.trans_done
           /\ "CC" \in dm'.status /\ "CC" \notin dm.status =>
                line.state = "IDLE" /\ ~ dm.trans_done /\ line.crc_ok
  BY <1>1, <1>2, MasterReports
<1>5. /\ dm.state = "IDLE" =>
           /\ dm'.state = IF request = "tx" THEN "START_TX_FIFO"
                          ELSE IF request = "rx" THEN "START_RX_FIFO" ELSE "IDLE"
           /\ ~ dm'.write
      /\ dm.state = "START_RX_FIFO" =>
           /\ dm'.state = IF line.state # "IDLE" THEN "DATA_TRANSFER" ELSE "START_RX_FIFO"
           /\ (dm'.write <=> dm.write)
      /\ dm.state = "START_TX_FIFO" =>
           /\ dm'.state = IF tx.full /\ line.state # "IDLE" THEN "DATA_TRANSFER" ELSE "START_TX_FIFO"
           /\ (dm'.read <=> dm.read)
      /\ dm.state = "DATA_TRANSFER" =>
           /\ dm'.state = IF dm.trans_done THEN "IDLE" ELSE "DATA_TRANSFER"
           /\ dm.trans_done => dm'.trans_done
  <2>1. dm.state = "IDLE" =>
           /\ dm'.state = IF request = "tx" THEN "START_TX_FIFO"
                          ELSE IF request = "rx" THEN "START_RX_FIFO" ELSE "IDLE"
           /\ ~ dm'.write
    BY <1>1, <1>2, MasterFacts
  <2>2. dm.state = "START_RX_FIFO" =>
           /\ dm'.state = IF line.state # "IDLE" THEN "DATA_TRANSFER" ELSE "START_RX_FIFO"
           /\ (dm'.write <=> dm.write)
    BY <1>1, <1>2, MasterFacts
  <2>3. dm.state = "START_TX_FIFO" =>
           /\ dm'.state = IF tx.full /\ line.state # "IDLE" THEN "DATA_TRANSFER" ELSE "START_TX_FIFO"
           /\ (dm'.read <=> dm.read)
    BY <1>1, <1>2, MasterFacts
  <2>4. dm.state = "DATA_TRANSFER" =>
           /\ dm'.state = IF dm.trans_done THEN "IDLE" ELSE "DATA_TRANSFER"
           /\ dm.trans_done => dm'.trans_done
    BY <1>1, <1>2, MasterFacts
  <2> QED
    BY <2>1, <2>2, <2>3, <2>4
<1>6. dm.state = "START_RX_FIFO" => ~ dm.write
  BY <1>1 DEF DataControl
<1>7. dm.state = "START_TX_FIFO" => ~ dm.read
  BY <1>1 DEF DataControl
<1>8. (dm'.read /\ dm'.write) => dm'.trans_done
  BY <1>2, <1>4, <1>5, <1>6, <1>7
<1>9. "CC" \in dm'.status => "CC" \in dm.status \/ OverNow
  BY <1>2, <1>4 DEF OverNow
<1>10. "CC" \in dm'.status => dm.state \in {"IDLE", "DATA_TRANSFER"} /\ line.state = "IDLE"
  BY <1>9 DEF StatusInv, OverNow
<1>11. line.state = "IDLE" /\ dm.state \in {"IDLE", "DATA_TRANSFER"} => line'.state = "IDLE" /\ ~ line'.we
  <2> SUFFICES ASSUME line.state = "IDLE", dm.state \in {"IDLE", "DATA_TRANSFER"}
               PROVE  line'.state = "IDLE" /\ ~ line'.we
    OBVIOUS
  <2>1. dm.read <=> dm.write
    BY <1>1 DEF LineControl, Starting
  <2> QED
    BY <1>1, <1>3, <2>1, HostFacts
<1>12. "CC" \in dm'.status =>
         /\ line'.state = "IDLE" /\ request' = "none" /\ ~ line'.we
         /\ dm'.state = "IDLE" \/ (dm'.state = "DATA_TRANSFER" /\ dm'.trans_done)
  <2> SUFFICES ASSUME "CC" \in dm'.status
               PROVE  dm'.state = "IDLE" \/ (dm'.state = "DATA_TRANSFER" /\ dm'.trans_done)
    BY <1>2, <1>10, <1>11
  <2>1. dm.state = "IDLE" => request = "none"
    BY <1>9 DEF StatusInv, OverNow
  <2> QED
    BY <1>4, <1>5, <1>10, <2>1
<1>13. StatusInv'
  BY <1>8, <1>12 DEF StatusInv
<1>14. OverNow' => line.state # "IDLE" /\ ~ Stopped /\ dm.state # "IDLE"
  <2> SUFFICES ASSUME OverNow' PROVE line.state # "IDLE" /\ ~ Stopped /\ dm.state # "IDLE"
    OBVIOUS
  <2>1. dm'.state = "DATA_TRANSFER" /\ ~ dm'.trans_done
    BY DEF OverNow
  <2>2. line.state # "IDLE" /\ dm.state # "IDLE"
    BY <1>2, <1>4, <1>5, <2>1
  <2>3. Stopped => dm.trans_done
    BY DEF StatusInv
  <2> QED
    BY <1>2, <1>5, <1>6, <1>7, <2>1, <2>2, <2>3
<1> QED
  BY <1>9, <1>10, <1>13, <1>14

LEMMA StatusNext ==
  ASSUME DataInv, StatusInv, [SdNext]_sdVars
  PROVE  StatusInv'
<1> USE DEF Stopped
<1>1. CASE DataWbEdge
  BY <1>1, QuietSteps DEF StatusInv
<1>2. CASE DataSdEdge
  BY <1>2, CardReports
<1>3. CASE DataClear
  BY <1>3, QuietSteps DEF StatusInv
<1>4. CASE DataIssue
  BY <1>4, QuietSteps DEF StatusInv
<1>5. CASE UNCHANGED dataVars
  BY <1>5 DEF dataVars, StatusInv
<1> QED
  BY <1>1, <1>2, <1>3, <1>4, <1>5 DEF SdNext, sdVars, OnCommandPath


-----------------------------------------------------------------------------
(* A write.                                                                 *)
LEMMA CardWritesBlocks ==
  ASSUME DataInv, StatusInv, TxWhole, DataSdEdge
  PROVE  TxWhole'
<1> USE DEF Stopped
<1>1. DataTypeOK /\ DataTypeOK' /\ DataControl /\ LineControl /\ Off
  BY DataTypeNext DEF DataInv, DataNext
<1>2. /\ setup' = setup /\ dm' = dmNext /\ line.cnt \in Nat /\ line.blkcnt \in Nat
      /\ data_cycles \in Nat /\ CRC_CYCLES \in Nat /\ line.crc_ok \in BOOLEAN
      /\ setup.blocks - 1 \in Nat /\ data_cycles >= WORD /\ WORD >= 4 /\ WORD \in Nat
  <2>1. setup.blocks - 1 \in Nat
    BY <1>1 DEF DataTypeOK, Setup
  <2>2. line.cnt \in Nat /\ line.blkcnt \in Nat /\ line.crc_ok \in BOOLEAN
    BY <1>1 DEF DataTypeOK, SerialHost
  <2> QED
    BY <1>1, <2>1, <2>2, CardEdge, BitFacts, SdDataAssumption
<1>3. PICK bit, good \in BOOLEAN : line' = lineNext(bit, good)
  BY <1>1, CardEdge
<1> SUFFICES ASSUME setup.dir = "tx" PROVE TxWhole'
  BY <1>2 DEF TxWhole
<1>4. /\ OverNow' => line.state # "IDLE" /\ ~ Stopped /\ dm.state # "IDLE"
      /\ "CC" \in dm'.status => "CC" \in dm.status \/ OverNow
      /\ "CC" \in dm'.status => dm.state \in {"IDLE", "DATA_TRANSFER"} /\ line.state = "IDLE"
  BY CardReports
<1>5. /\ line.state # "IDLE" => line.blkcnt <= setup.blocks - 1
      /\ line.state = "WRITE_DAT" =>
           /\ line.crc_ok => line.cnt = 0
           /\ \E u \in Nat : InBlock(u, line.cnt) /\ Len(sent) = Before + u
      /\ line.state \in {"WRITE_CRC", "WRITE_BUSY"} => Len(sent) = Before + BLOCK
      /\ line.state = "WRITE_CRC" => ~ line.crc_ok
      /\ line.state = "WRITE_BUSY" /\ ~ line.busy_int =>
           (line.next_block <=> line.blkcnt # 0) /\ (line.crc_ok <=> line.crc_s)
      /\ OverNow \/ "CC" \in dm.status => Len(sent) = Words
  BY DEF TxWhole
<1>6. /\ sent' = IF line.state = "WRITE_DAT" /\ line.cnt >= WORD /\ line.cnt <= data_cycles /\ Bit(line.cnt) = 0
                 THEN Append(sent, IF dout(tx) = line.first THEN line.first ELSE 0) ELSE sent
      /\ sent \in Seq(Nat) /\ Len(sent) \in Nat
      /\ (IF dout(tx) = line.first THEN line.first ELSE 0) \in Nat
  <2>1. sent \in Seq(Nat) /\ line.first \in Nat
    BY <1>1 DEF DataTypeOK, SerialHost
  <2> QED
    BY <1>1, <2>1, CardEdge
<1>7. line.state \in {"IDLE", "WRITE_DAT", "WRITE_CRC", "WRITE_BUSY"}
  BY <1>1 DEF LineControl
<1>8. /\ Before \in Int /\ BLOCK \in Nat /\ Words \in Nat
      /\ line.blkcnt = 0 => Before + BLOCK = Words
      /\ \A b \in Nat : b = line.blkcnt - 1 => BLOCK * (setup.blocks - 1 - b) = Before + BLOCK
  BY <1>1, BeforeFacts
<1>9. Words' = Words
  BY <1>2 DEF Words
<1>10. line'.blkcnt = line.blkcnt => Before' = Before
  BY <1>2 DEF Before
<1>11. line.blkcnt > 0 /\ line'.blkcnt = line.blkcnt - 1 => Before' = Before + BLOCK
  <2>1. line.blkcnt > 0 => line.blkcnt - 1 \in Nat
    BY <1>2
  <2>2. Before' = BLOCK * (setup.blocks - 1 - line'.blkcnt)
    BY <1>2 DEF Before
  <2> QED
    BY <1>8, <2>1, <2>2
(* The transfer begins, or has ended.                                       *)
<1>12. CASE line.state = "IDLE"
  <2>1. sent' = sent /\ ~ OverNow'
    BY <1>4, <1>6, <1>12
  <2>2. "CC" \in dm'.status => Len(sent') = Words'
    BY <1>4, <1>5, <1>9, <2>1
  <2>3. line'.state # "IDLE" => line'.state = "WRITE_DAT" /\ line'.cnt = 0 /\ line'.blkcnt = setup.blocks - 1
    <3> SUFFICES ASSUME line'.state # "IDLE"
                 PROVE  line'.state = "WRITE_DAT" /\ line'.cnt = 0 /\ line'.blkcnt = setup.blocks - 1
      OBVIOUS
    <3>1. /\ ~ Stopped /\ line'.cnt = 0
          /\ line'.state = IF dm.write THEN "WRITE_DAT" ELSE IF dm.read THEN "READ_WAIT" ELSE "IDLE"
          /\ line'.blkcnt = setup.blocks - 1
      BY <1>1, <1>3, <1>12, HostFacts, HostCounts
    <3>2. line'.state \in {"IDLE", "WRITE_DAT", "WRITE_CRC", "WRITE_BUSY"}
      BY <1>2, CardControl DEF LineControl
    <3> QED
      BY <3>1, <3>2
  <2>4. line'.state # "IDLE" => Len(sent') = 0
    <3> SUFFICES ASSUME line'.state # "IDLE" PROVE Len(sent) = 0
      BY <2>1
    <3>1. dm.write /\ ~ Stopped
      BY <1>1, <1>3, <1>12, <2>3, HostFacts
    <3>2. dm.state = "START_TX_FIFO" /\ dm.en_tx
      <4>1. Starting
        BY <1>1, <1>12, <3>1 DEF LineControl
      <4> QED
        BY <1>1, <3>1, <4>1 DEF DataControl, Starting
    <3>3. PICK r, p, q \in Nat : TxCounts(r, p, q)
      BY <3>2 DEF DataInv, TxInv, Sending
    <3>4. r = 0 /\ r = Len(sent)
      BY <1>12, <3>2, <3>3 DEF TxCounts, InWindow
    <3> QED
      BY <3>4
  <2>5. line'.state # "IDLE" => Before' = 0
    BY <1>1, <1>2, <2>3, BeforeFacts DEF Before
  <2>6. line'.state # "IDLE" => \E u \in Nat : InBlock(u, line'.cnt) /\ Len(sent') = Before' + u
    <3> SUFFICES ASSUME line'.state # "IDLE" PROVE InBlock(0, line'.cnt) /\ Len(sent') = Before' + 0
      OBVIOUS
    <3> QED
      BY <2>3, <2>4, <2>5, BlockStarts
  <2> QED
    BY <1>2, <2>1, <2>2, <2>3, <2>6 DEF TxWhole
<1>13. CASE line.state = "WRITE_DAT"
  <2>1. /\ line'.state \in {"WRITE_DAT", "WRITE_CRC", "IDLE"}
        /\ ~ Stopped => line'.state # "IDLE"
        /\ line'.state = "WRITE_CRC" => line.cnt = data_cycles + CRC_CYCLES + 4
        /\ line'.cnt = IF line.cnt = data_cycles + CRC_CYCLES + 4 THEN line.cnt ELSE line.cnt + 1
        /\ line'.blkcnt = line.blkcnt /\ ~ line'.crc_ok
    BY <1>1, <1>3, <1>13, HostFacts, HostCounts
  <2>2. ~ OverNow' /\ "CC" \notin dm'.status
    BY <1>4, <1>13, <2>1 DEF OverNow
  <2>3. PICK u \in Nat : InBlock(u, line.cnt) /\ Len(sent) = Before + u
    BY <1>5, <1>13
  <2>4. /\ line.cnt > 0 /\ line.cnt <= data_cycles /\ Bit(line.cnt) = 0 => InBlock(u + 1, line.cnt + 1)
        /\ ~ (line.cnt > 0 /\ line.cnt <= data_cycles /\ Bit(line.cnt) = 0) => InBlock(u, line.cnt + 1)
        /\ line.cnt > data_cycles => u = BLOCK
    BY <1>2, <2>3, BlockGoesOn
  <2>5. Bit(line.cnt) = 0 /\ line.cnt > 0 => line.cnt >= WORD
    BY <1>2, BitFacts
  <2>6. line'.state = "WRITE_CRC" => Len(sent') = Before' + BLOCK
    BY <1>2, <1>6, <1>10, <2>1, <2>3, <2>4
  <2>7. \E v \in Nat : InBlock(v, line'.cnt) /\ Len(sent') = Before' + v
    <3>1. CASE line.cnt > 0 /\ line.cnt <= data_cycles /\ Bit(line.cnt) = 0
      <4>1. line.cnt >= WORD
        BY <2>5, <3>1
      <4>2. sent' = Append(sent, IF dout(tx) = line.first THEN line.first ELSE 0)
        BY <1>6, <1>13, <3>1, <4>1
      <4>3. Len(sent') = Len(sent) + 1
        BY <1>6, <4>2
      <4>4. line'.cnt = line.cnt + 1
        BY <1>2, <2>1, <3>1
      <4>5. InBlock(u + 1, line'.cnt) /\ Len(sent') = Before' + (u + 1) /\ u + 1 \in Nat
        BY <1>8, <1>10, <2>1, <2>3, <2>4, <3>1, <4>3, <4>4
      <4> QED
        BY <4>5
    <3>2. CASE ~ (line.cnt > 0 /\ line.cnt <= data_cycles /\ Bit(line.cnt) = 0)
      <4>1. sent' = sent
        BY <1>2, <1>6, <3>2
      <4>2. InBlock(u, line'.cnt)
        BY <2>1, <2>3, <2>4, <3>2
      <4> QED
        BY <1>10, <2>1, <2>3, <4>1, <4>2
    <3> QED
      BY <3>1, <3>2
  <2> QED
    BY <1>2, <1>5, <1>13, <2>1, <2>2, <2>6, <2>7 DEF TxWhole
<1>14. CASE line.state = "WRITE_CRC"
  <2>1. /\ line'.state \in {"WRITE_CRC", "WRITE_BUSY", "IDLE"}
        /\ line'.blkcnt = line.blkcnt /\ (line'.crc_ok <=> line.crc_ok) /\ line'.busy_int
        /\ ~ Stopped => line'.state # "IDLE"
    BY <1>1, <1>3, <1>14, HostFacts, HostCounts
  <2>2. ~ OverNow' /\ "CC" \notin dm'.status /\ sent' = sent
    BY <1>4, <1>6, <1>14, <2>1 DEF OverNow
  <2> QED
    BY <1>2, <1>5, <1>10, <1>14, <2>1, <2>2 DEF TxWhole
<1>15. CASE line.state = "WRITE_BUSY"
  <2>1. /\ line'.state \in {"WRITE_BUSY", "WRITE_DAT", "IDLE"} /\ line'.cnt = 0
        /\ (line'.crc_ok <=> line.crc_s) /\ (line'.crc_s <=> line.crc_s)
        /\ line'.next_block <=> line.blkcnt # 0
        /\ line.busy_int =>
             line'.blkcnt = line.blkcnt /\ (~ Stopped => line'.state = "WRITE_BUSY")
        /\ ~ line.busy_int =>
             /\ line'.blkcnt = IF line.blkcnt > 0 THEN line.blkcnt - 1 ELSE line.blkcnt
             /\ line'.state \in {"WRITE_DAT", "IDLE"}
             /\ line'.state = "WRITE_DAT" => line.next_block /\ line.crc_ok
             /\ ~ Stopped /\ line'.state = "IDLE" => ~ (line.next_block /\ line.crc_ok)
    BY <1>1, <1>3, <1>15, HostFacts, HostCounts
  <2>2. "CC" \notin dm'.status /\ sent' = sent
    BY <1>4, <1>6, <1>15
  <2>3. CASE line.busy_int
    <3>1. ~ OverNow' /\ line'.blkcnt = line.blkcnt /\ line'.state # "WRITE_DAT"
      <4>1. line'.state = "WRITE_BUSY" \/ Stopped
        BY <2>1, <2>3
      <4>2. Stopped => line'.state = "IDLE"
        BY <1>1, <1>3, HostFacts
      <4> QED
        BY <1>4, <2>1, <2>3, <4>1, <4>2 DEF OverNow
    <3> QED
      BY <1>2, <1>5, <1>10, <1>15, <2>1, <2>2, <3>1 DEF TxWhole
  <2>4. CASE ~ line.busy_int
    <3>1. /\ line.next_block <=> line.blkcnt # 0
          /\ line.crc_ok <=> line.crc_s
          /\ Len(sent) = Before + BLOCK
      BY <1>5, <1>15, <2>4
    <3>2. line'.state = "WRITE_DAT" => Before' = Before + BLOCK
      BY <1>2, <1>11, <2>1, <2>4, <3>1
    <3>3. line'.state = "WRITE_DAT" => \E u \in Nat : InBlock(u, line'.cnt) /\ Len(sent') = Before' + u
      <4> SUFFICES ASSUME line'.state = "WRITE_DAT" PROVE InBlock(0, line'.cnt) /\ Len(sent') = Before' + 0
        OBVIOUS
      <4> QED
        BY <1>8, <2>1, <2>2, <3>1, <3>2, BlockStarts
    <3>4. OverNow' => Len(sent') = Words'
      <4> SUFFICES ASSUME OverNow' PROVE Len(sent') = Words'
        OBVIOUS
      <4>1. ~ Stopped /\ line'.state = "IDLE" /\ line'.crc_ok
        BY <1>4 DEF OverNow
      <4>2. line.blkcnt = 0
        BY <2>1, <2>4, <3>1, <4>1
      <4> QED
        BY <1>8, <1>9, <2>2, <3>1, <4>2
    <3> QED
      BY <1>2, <1>5, <1>15, <2>1, <2>2, <2>4, <3>3, <3>4 DEF TxWhole
  <2> QED
    BY <2>3, <2>4
<1> QED
  BY <1>7, <1>12, <1>13, <1>14, <1>15

LEMMA WriteNext ==
  ASSUME DataInv, StatusInv, TxWhole, [SdNext]_sdVars
  PROVE  TxWhole'
<1> USE DEF OverNow, Words, Before
<1>1. CASE DataWbEdge
  BY <1>1, QuietSteps DEF TxWhole
<1>2. CASE DataSdEdge
  BY <1>2, CardWritesBlocks
<1>3. CASE DataClear
  BY <1>3, QuietSteps DEF TxWhole
<1>4. CASE DataIssue
  BY <1>4, QuietSteps DEF TxWhole
<1>5. CASE UNCHANGED dataVars
  BY <1>5 DEF dataVars, TxWhole
<1> QED
  BY <1>1, <1>2, <1>3, <1>4, <1>5 DEF SdNext, sdVars, OnCommandPath


-----------------------------------------------------------------------------
(* A read: the bus's side takes a cycle off what is left.                   *)
LEMMA RxNumbers ==
  ASSUME DataInv, NEW w \in Nat, NEW p \in Nat, NEW q \in Nat, RxCounts(w, p, q)
  PROVE  /\ dma.adr \in Nat /\ q <= dma.adr /\ dma.adr <= p /\ p <= w /\ w <= dma.adr + DEPTH /\ DEPTH \in Nat
         /\ rx.wp = Ptr(w) /\ rx.rp = Ptr(dma.adr) /\ rx.wp_s = Ptr(p)
         /\ ~ rx.empty => dma.adr < p
         /\ ~ rx.rd_rst => w = 0
         /\ line.we => rx.wr_rst
         /\ ~ rx.wr_rst => w = 0
<1>1. dma.adr \in Nat /\ DEPTH \in Nat
  BY SdDataAssumption DEF DataInv, DataTypeOK
<1> QED
  BY <1>1 DEF RxCounts

LEMMA BusTakes ==
  ASSUME DataInv, dm.en_rx, DataWbEdge, NEW w \in Nat, NEW p \in Nat, NEW q \in Nat, RxCounts(w, p, q)
  PROVE  /\ dma'.adr = IF wbm_ack THEN dma.adr + 1 ELSE dma.adr
         /\ wbm_ack => dma.adr < w
         /\ \E s \in Nat : RxCounts(w, w, s)'
<1>1. DataTypeOK /\ RxLine /\ dm' = dm
  BY BusEdge DEF DataInv, RxInv
<1>2. /\ dma.adr \in Nat /\ dma.adr <= p /\ p <= w /\ w <= dma.adr + DEPTH /\ DEPTH \in Nat
      /\ rx.wp = Ptr(w) /\ (~ rx.empty => dma.adr < p)
  BY RxNumbers
<1>3. /\ wbm_cyc <=> ~ rx.empty
      /\ wbm_ack => ~ rx.empty /\ dma.rd_ack
      /\ Taken <=> wbm_ack
  BY <1>1 DEF RxLine, wbm_cyc, wbm_stb, Taken
<1>4. enabled
  BY DEF enabled
<1>5. dma'.adr = IF wbm_ack THEN dma.adr + 1 ELSE dma.adr
  BY <1>1, <1>3, <1>4, BusEdge
<1>6. wbm_ack => dma.adr < w
  BY <1>2, <1>3
<1>7. rx'.wp = rx.wp /\ rx'.wp_s = rx.wp
  BY <1>1, BusReads
<1>8. (\E v, s, t \in Nat : RxCounts(v, s, t))'
  BY <1>1, BusRx DEF RxInv
<1>9. PICK v \in Nat, s \in Nat, t \in Nat : RxCounts(v, s, t)'
  BY <1>8
<1>10. PICK a \in Nat : a = dma'.adr
  BY <1>2, <1>5
<1>11. t <= a /\ a <= s /\ s <= v /\ v <= t + DEPTH /\ rx'.wp = Ptr(v) /\ rx'.wp_s = Ptr(s)
  BY <1>9, <1>10 DEF RxCounts
<1>12. v = w
  <2>1. a <= w /\ w <= a + DEPTH /\ a <= v /\ v <= a + DEPTH
    BY <1>2, <1>5, <1>6, <1>10, <1>11
  <2>2. Ptr(v) = Ptr(w)
    BY <1>2, <1>7, <1>11
  <2> QED
    BY <2>1, <2>2, PointersTell
<1>13. s = w
  <2>1. a <= w /\ w <= a + DEPTH /\ a <= s /\ s <= a + DEPTH
    BY <1>2, <1>5, <1>6, <1>10, <1>11
  <2>2. Ptr(s) = Ptr(w)
    BY <1>2, <1>7, <1>11
  <2> QED
    BY <2>1, <2>2, PointersTell
<1> QED
  BY <1>5, <1>6, <1>9, <1>12, <1>13

LEMMA LeftFalls ==
  ASSUME DataInv, dm.en_rx, DataWbEdge, NEW w \in Nat, NEW p \in Nat, NEW q \in Nat,
         RxCounts(w, p, q), bus_wait > 0 => bus_wait < AckMax /\ ~ wbm_ack
  PROVE  /\ bus_wait' > 0 => bus_wait' < AckMax /\ ~ wbm_ack'
         /\ w > dma'.adr => w > dma.adr /\ Left(w, w)' + 1 <= Left(w, p)
<1>1. DataTypeOK /\ RxLine /\ bus_wait \in Nat /\ AckMax \in Nat /\ AckMax >= 1
  BY SdDataAssumption DEF DataInv, RxInv, DataTypeOK
<1>2. /\ dma.adr \in Nat /\ dma.adr <= p /\ p <= w /\ w <= dma.adr + DEPTH /\ DEPTH \in Nat
      /\ rx.rp = Ptr(dma.adr) /\ rx.wp_s = Ptr(p) /\ (~ rx.empty => dma.adr < p)
  BY RxNumbers
<1>3. dma'.adr = IF wbm_ack THEN dma.adr + 1 ELSE dma.adr
  BY BusTakes
<1>4. /\ wbm_cyc <=> ~ rx.empty
      /\ wbm_stb <=> ~ rx.empty /\ dma.rd_ack
      /\ wbm_ack => ~ rx.empty /\ dma.rd_ack /\ ~ dma.rd_reg
  BY <1>1 DEF RxLine, wbm_cyc, wbm_stb
<1>5. /\ wbm_ack' => ~ rx.empty /\ dma.rd_ack /\ ~ wbm_ack
      /\ dma'.rd_ack <=> dma.rd_reg \/ ~ wbm_ack
      /\ wbm_ack' \in BOOLEAN
  BY <1>1, <1>4, BusEdge
<1>6. /\ wbm_stb /\ ~ wbm_ack /\ bus_wait + 1 >= AckMax => wbm_ack'
      /\ bus_wait' = IF wbm_stb /\ ~ wbm_ack /\ ~ wbm_ack' THEN bus_wait + 1 ELSE 0
  BY <1>1, BusAnswersAtLast
<1>7. bus_wait' > 0 => bus_wait' < AckMax /\ ~ wbm_ack'
  BY <1>1, <1>6
<1>8. ~ wbm_ack => (rx'.empty <=> p = dma.adr)
  <2>1. rx'.empty <=> (rx.wp_s = rx.rp) \/ (dm.en_rx /\ wbm_cyc /\ wbm_ack /\ rx.wp_s = Up(rx.rp))
    BY <1>1, BusReads
  <2>2. Ptr(p) = Ptr(dma.adr) <=> p = dma.adr
    BY <1>2, SamePtr
  <2> QED
    BY <1>2, <2>1, <2>2
<1> SUFFICES ASSUME w > dma'.adr PROVE w > dma.adr /\ Left(w, w)' + 1 <= Left(w, p)
  BY <1>7
<1>9. w > dma.adr
  BY <1>2, <1>3
<1>10. Service = AckMax + 2 /\ Service \in Nat
  BY <1>1 DEF Service
<1>11. CASE ~ wbm_ack
  <2>1. dma'.adr = dma.adr /\ w # dma.adr /\ dma'.rd_ack
    BY <1>3, <1>5, <1>9, <1>11
  <2>2. HeadLeft(w)' = IF rx'.empty THEN Service ELSE IF wbm_ack' THEN 1 ELSE AckMax + 1 - bus_wait'
    BY <2>1 DEF HeadLeft, Service
  <2>3. HeadLeft(w)' + 1 <= HeadLeft(p) /\ HeadLeft(p) \in Int /\ HeadLeft(w)' \in Int
    <3>1. CASE rx.empty
      <4>1. HeadLeft(p) = IF p = dma.adr THEN Service + 1 ELSE Service
        BY <3>1 DEF HeadLeft
      <4>2. ~ wbm_ack' /\ bus_wait' = 0
        BY <1>4, <1>5, <1>6, <3>1
      <4> QED
        BY <1>1, <1>8, <1>10, <1>11, <2>2, <4>1, <4>2
    <3>2. CASE ~ rx.empty /\ ~ dma.rd_ack
      <4>1. HeadLeft(p) = Service
        BY <3>2 DEF HeadLeft
      <4>2. ~ wbm_ack' /\ bus_wait' = 0 /\ ~ rx'.empty
        BY <1>2, <1>4, <1>5, <1>6, <1>8, <1>11, <3>2
      <4> QED
        BY <1>1, <1>10, <2>2, <4>1, <4>2
    <3>3. CASE ~ rx.empty /\ dma.rd_ack
      <4>1. HeadLeft(p) = AckMax + 1 - bus_wait
        BY <1>11, <3>3 DEF HeadLeft
      <4>2. ~ rx'.empty
        BY <1>2, <1>8, <1>11, <3>3
      <4>3. bus_wait < AckMax
        BY <1>1
      <4>4. ~ wbm_ack' => bus_wait' = bus_wait + 1
        BY <1>4, <1>6, <1>11, <3>3
      <4> QED
        BY <1>1, <2>2, <4>1, <4>2, <4>3, <4>4
    <3> QED
      BY <3>1, <3>2, <3>3
  <2>4. Left(w, w)' = (w - dma.adr - 1) * Service + HeadLeft(w)'
    BY <2>1 DEF Left, Service
  <2>5. (w - dma.adr - 1) * Service \in Int
    BY <1>2, <1>10
  <2> DEFINE x == (w - dma.adr - 1) * Service
             y == HeadLeft(w)'
             z == HeadLeft(p)
  <2>6. Left(w, w)' = x + y /\ Left(w, p) = x + z /\ x \in Int /\ y + 1 <= z /\ y \in Int /\ z \in Int
    BY <2>3, <2>4, <2>5 DEF Left
  <2> HIDE DEF x, y, z
  <2> QED
    BY <1>9, <2>6
<1>12. CASE wbm_ack
  <2>1. dma'.adr = dma.adr + 1 /\ w # dma.adr + 1 /\ ~ dma'.rd_ack /\ ~ wbm_ack'
    BY <1>3, <1>4, <1>5, <1>12
  <2>2. HeadLeft(w)' = Service
    BY <2>1 DEF HeadLeft, Service
  <2>3. HeadLeft(p) = 1
    BY <1>4, <1>12 DEF HeadLeft
  <2>4. Left(w, w)' = (w - (dma.adr + 1) - 1) * Service + Service
    BY <2>1, <2>2 DEF Left, Service
  <2>5. (w - (dma.adr + 1) - 1) * Service + Service = (w - dma.adr - 1) * Service
    BY <1>2, <1>10
  <2>6. (w - dma.adr - 1) * Service \in Int
    BY <1>2, <1>10
  <2> DEFINE x == (w - dma.adr - 1) * Service
  <2>7. Left(w, w)' = x /\ Left(w, p) = x + 1 /\ x \in Int
    BY <2>3, <2>4, <2>5, <2>6 DEF Left
  <2> HIDE DEF x
  <2> QED
    BY <1>9, <2>7
<1> QED
  BY <1>1, <1>11, <1>12 DEF DataTypeOK

LEMMA BusReadsOn ==
  ASSUME DataInv, RxWhole, DataWbEdge
  PROVE  RxWhole'
<1>1. DataTypeOK /\ UNCHANGED <<setup, request, dm, line, sent>> /\ tick' = tick + 1 /\ tick \in Nat
  BY BusEdge DEF DataInv, DataTypeOK
<1> SUFFICES ASSUME dm.en_rx
             PROVE  (\E w, p, q \in Nat : RxCounts(w, p, q) /\ RxBlocks(w) /\ RxOnTime(w, p))'
  BY <1>1 DEF RxWhole
<1>2. PICK w \in Nat, p \in Nat, q \in Nat : RxCounts(w, p, q) /\ RxBlocks(w) /\ RxOnTime(w, p)
  BY DEF RxWhole
<1>3. PICK s \in Nat : RxCounts(w, w, s)'
  BY <1>2, BusTakes
<1>4. RxBlocks(w)'
  BY <1>1, <1>2 DEF RxBlocks, OverNow, Words, Before
<1>5. bus_wait > 0 => bus_wait < AckMax /\ ~ wbm_ack
  BY <1>2 DEF RxOnTime
<1>6. /\ bus_wait' > 0 => bus_wait' < AckMax /\ ~ wbm_ack'
      /\ w > dma'.adr => w > dma.adr /\ Left(w, w)' + 1 <= Left(w, p)
  BY <1>2, <1>5, LeftFalls
<1>7. Left(w, p) \in Int /\ Left(w, w)' \in Int
  <2>1. dma.adr \in Nat /\ dma'.adr \in Nat /\ bus_wait \in Nat /\ bus_wait' \in Nat /\ AckMax \in Nat
    BY <1>1, DataTypeNext, SdDataAssumption DEF DataNext, DataTypeOK
  <2>2. HeadLeft(p) \in Int /\ HeadLeft(w)' \in Int /\ Service \in Int
    BY <2>1 DEF HeadLeft, Service
  <2>3. Left(w, w)' = (w - dma'.adr - 1) * Service + HeadLeft(w)'
    BY DEF Left, Service
  <2> QED
    BY <2>1, <2>2, <2>3 DEF Left
<1>8. ASSUME NEW c \in Nat, OnTime(w, p, c) PROVE OnTime(w, w, c)'
  <2>1. c * setup.period \in Nat /\ setup'.period = setup.period
    BY <1>1 DEF DataTypeOK, Setup
  <2>2. Most(setup.period, w)' = Most(setup.period, w)
    BY <1>1 DEF Most, Lag, Service
  <2>3. Most(setup.period, w) \in Int
    <3>1. AckMax \in Nat /\ WORD \in Nat /\ setup.period \in Nat
      BY <1>1, SdDataAssumption DEF DataTypeOK, Setup
    <3>2. WORD * setup.period \in Nat
      BY <3>1
    <3>3. Lag(setup.period) \in Int
      BY <3>1, <3>2 DEF Lag, Service
    <3>4. (w - 1) * Lag(setup.period) \in Int
      BY <3>3
    <3> QED
      BY <3>1, <3>4 DEF Most, Service
  <2> SUFFICES ASSUME w > dma'.adr
               PROVE  Left(w, w)' + c * setup.period + (tick + 1) <= Most(setup.period, w)
    BY <1>1, <2>1, <2>2 DEF OnTime
  <2>4. Left(w, p) + c * setup.period + tick <= Most(setup.period, w)
    BY <1>6, <1>8 DEF OnTime
  <2> DEFINE e == c * setup.period
             m == Most(setup.period, w)
             x == Left(w, p)
             y == Left(w, w)'
  <2>5. x + e + tick <= m /\ y + 1 <= x /\ x \in Int /\ y \in Int /\ e \in Nat /\ m \in Int
    BY <1>6, <1>7, <2>1, <2>3, <2>4
  <2> HIDE DEF e, m, x, y
  <2>6. y + e + (tick + 1) <= m
    BY <1>1, <2>5
  <2> QED
    BY <2>6 DEF e, m, y
<1>9. PICK c \in Nat : c = Since
  <2>1. line.cnt \in Nat
    BY <1>1 DEF DataTypeOK, SerialHost
  <2>2. Bit(line.cnt) \in Nat /\ WORD \in Nat /\ WORD >= 4 /\ data_cycles \in Nat
    BY <2>1, BitFacts
  <2>3. Since \in Nat
    BY <2>1, <2>2 DEF Since
  <2> QED
    BY <2>3
<1>10. Since' = c
  BY <1>1, <1>9 DEF Since
<1>11. CRC_CYCLES \in Nat
  BY SdDataAssumption
<1>12. line.state # "IDLE" => OnTime(w, w, Since)'
  <2> SUFFICES ASSUME line.state # "IDLE" PROVE OnTime(w, w, Since)'
    OBVIOUS
  <2>1. OnTime(w, p, c)
    BY <1>2, <1>9 DEF RxOnTime, OnTime
  <2>2. OnTime(w, w, c)'
    BY <1>8, <2>1
  <2> QED
    BY <1>10, <2>2 DEF OnTime
<1>13. OverNow' => OnTime(w, w, CRC_CYCLES)'
  BY <1>1, <1>2, <1>8, <1>11 DEF RxOnTime, OverNow
<1>14. "CC" \in dm.status =>
         OnTime(w, w, IF dm.state = "IDLE" THEN CRC_CYCLES + 2 ELSE CRC_CYCLES + 1)'
  <2> SUFFICES ASSUME "CC" \in dm.status
               PROVE  OnTime(w, w, IF dm.state = "IDLE" THEN CRC_CYCLES + 2 ELSE CRC_CYCLES + 1)'
    OBVIOUS
  <2>1. PICK d \in Nat : d = IF dm.state = "IDLE" THEN CRC_CYCLES + 2 ELSE CRC_CYCLES + 1
    BY <1>11
  <2>2. OnTime(w, p, d)
    BY <1>2, <2>1 DEF RxOnTime, OnTime
  <2>3. OnTime(w, w, d)'
    BY <1>8, <2>2
  <2> QED
    BY <1>1, <2>1, <2>3 DEF OnTime
<1>15. RxOnTime(w, w)'
  BY <1>1, <1>6, <1>12, <1>13, <1>14 DEF RxOnTime
<1> QED
  BY <1>3, <1>4, <1>15


-----------------------------------------------------------------------------
(* A read: the card's side puts words in, which are those of its blocks ... *)
LEMMA CardPuts ==
  ASSUME DataInv, dm.en_rx, dm'.en_rx, DataSdEdge, NEW w \in Nat, NEW p \in Nat, NEW q \in Nat,
         RxCounts(w, p, q), NEW v \in Nat, v = IF line.we THEN w + 1 ELSE w
  PROVE  \E s \in Nat : RxCounts(v, p, s)'
<1>1. DataTypeOK /\ dma' = dma
  BY CardEdge DEF DataInv
<1>2. /\ dma.adr \in Nat /\ q <= dma.adr /\ dma.adr <= p /\ p <= w /\ w <= dma.adr + DEPTH /\ DEPTH \in Nat
      /\ rx.wp = Ptr(w) /\ rx.wp_s = Ptr(p)
      /\ line.we => rx.wr_rst
      /\ ~ rx.wr_rst => w = 0
  BY RxNumbers
<1>3. line.we => w < q + DEPTH
  BY DEF RxCounts
<1>4. rx'.wp_s = rx.wp_s /\ rx'.wp = IF ~rx.wr_rst THEN 0 ELSE IF line.we THEN Up(rx.wp) ELSE rx.wp
  BY <1>1, CardWrites
<1>5. rx'.wp = Ptr(v)
  <2>1. Up(rx.wp) = Ptr(w + 1)
    BY <1>2, PtrFacts
  <2>2. CASE line.we
    BY <1>2, <1>4, <2>1, <2>2
  <2>3. CASE ~ line.we
    BY <1>2, <1>4, <2>3, PtrZero
  <2> QED
    BY <2>2, <2>3
<1>6. (\E x, y, s \in Nat : RxCounts(x, y, s))'
  BY CardRx DEF RxInv
<1>7. PICK x \in Nat, y \in Nat, s \in Nat : RxCounts(x, y, s)'
  BY <1>6
<1>8. PICK a \in Nat : a = dma.adr
  BY <1>2
<1>9. s <= a /\ a <= y /\ y <= x /\ x <= s + DEPTH /\ rx'.wp = Ptr(x) /\ rx'.wp_s = Ptr(y)
  BY <1>1, <1>7, <1>8 DEF RxCounts
<1>10. x = v
  <2>1. a <= v /\ v <= a + DEPTH /\ a <= x /\ x <= a + DEPTH
    BY <1>2, <1>3, <1>8, <1>9
  <2> QED
    BY <1>5, <1>9, <2>1, PointersTell
<1>11. y = p
  <2>1. a <= p /\ p <= a + DEPTH /\ a <= y /\ y <= a + DEPTH
    BY <1>2, <1>8, <1>9
  <2> QED
    BY <1>2, <1>4, <1>9, <2>1, PointersTell
<1> QED
  BY <1>7, <1>10, <1>11

(* What the card's side has in a read.                                      *)
LEMMA ReadingFacts ==
  ASSUME DataInv, dm.en_rx
  PROVE  /\ setup.dir = "rx" /\ enabled /\ line.state \in {"IDLE", "READ_WAIT", "READ_DAT"}
         /\ line.cnt \in Nat /\ line.blkcnt \in Nat /\ setup.blocks - 1 \in Nat /\ setup.period \in Nat
         /\ WORD \in Nat /\ WORD >= 4 /\ data_cycles \in Nat /\ data_cycles >= WORD /\ Bit(data_cycles) = 0
         /\ Bit(line.cnt) \in Nat /\ Bit(line.cnt) < WORD
         /\ Bit(line.cnt) < WORD - 1 => Bit(line.cnt + 1) = Bit(line.cnt) + 1
         /\ Bit(line.cnt) = WORD - 1 => Bit(line.cnt + 1) = 0
         /\ line.cnt < WORD => Bit(line.cnt) = line.cnt
         /\ CRC_CYCLES \in Nat /\ CRC_CYCLES >= 1
         /\ line.state = "READ_WAIT" => ~ line.we
<1>1. DataTypeOK /\ setup.dir = "rx" /\ enabled
  BY DEF DataInv, DataControl, enabled
<1>2. line.state \in {"IDLE", "READ_WAIT", "READ_DAT"}
  BY <1>1 DEF DataInv, LineControl
<1>3. line.cnt \in Nat /\ line.blkcnt \in Nat /\ setup.blocks - 1 \in Nat /\ setup.period \in Nat
  BY <1>1 DEF DataTypeOK, SerialHost, Setup
<1>4. CRC_CYCLES \in Nat /\ CRC_CYCLES >= 1
  BY SdDataAssumption
<1>5. line.state = "READ_WAIT" => ~ line.we
  BY DEF DataInv, RxInv, RxLine
<1> QED
  BY <1>1, <1>2, <1>3, <1>4, <1>5, BitFacts

LEMMA ReadStarts ==
  ASSUME DataInv, dm.en_rx, DataSdEdge, line.state = "IDLE", line'.state # "IDLE",
         NEW w \in Nat, NEW p \in Nat, NEW q \in Nat, RxCounts(w, p, q)
  PROVE  line'.state = "READ_WAIT" /\ line'.blkcnt = setup.blocks - 1 /\ ~ line'.we /\ w = 0 /\ ~ line.we
<1> USE DEF Stopped
<1>1. DataTypeOK /\ DataControl /\ LineControl
  BY DEF DataInv
<1>2. setup.dir = "rx" /\ setup' = setup
  BY <1>1, ReadingFacts, CardEdge
<1>3. PICK bit, good \in BOOLEAN : line' = lineNext(bit, good)
  BY <1>1, CardEdge
<1>4. /\ ~ Stopped /\ ~ line'.we
      /\ line'.state = IF dm.write THEN "WRITE_DAT" ELSE IF dm.read THEN "READ_WAIT" ELSE "IDLE"
      /\ line'.blkcnt = setup.blocks - 1
  BY <1>1, <1>3, HostFacts, HostCounts
<1>5. line'.state \in {"READ_WAIT", "READ_DAT"}
  BY <1>2, CardControl DEF LineControl
<1>6. line'.state = "READ_WAIT" /\ ~ dm.write /\ dm.read
  BY <1>4, <1>5
<1>7. Starting
  BY <1>1, <1>6 DEF LineControl
<1>8. dm.state = "START_RX_FIFO"
  BY <1>1, <1>2, <1>7 DEF DataControl, Starting
<1> QED
  BY <1>4, <1>6, <1>8 DEF RxCounts

LEMMA CardReadsBlocks ==
  ASSUME DataInv, StatusInv, dm.en_rx, DataSdEdge, NEW w \in Nat, NEW p \in Nat, NEW q \in Nat,
         RxCounts(w, p, q), RxBlocks(w), NEW v \in Nat, v = IF line.we THEN w + 1 ELSE w
  PROVE  RxBlocks(v)'
<1> USE DEF Stopped
<1>1. DataTypeOK /\ DataControl /\ LineControl
  BY DEF DataInv
<1>2. /\ setup.dir = "rx" /\ line.state \in {"IDLE", "READ_WAIT", "READ_DAT"}
      /\ line.cnt \in Nat /\ line.blkcnt \in Nat /\ setup.blocks - 1 \in Nat
      /\ WORD \in Nat /\ WORD >= 4 /\ data_cycles \in Nat /\ data_cycles >= WORD /\ Bit(data_cycles) = 0
      /\ Bit(line.cnt) \in Nat /\ Bit(line.cnt) < WORD
      /\ Bit(line.cnt) < WORD - 1 => Bit(line.cnt + 1) = Bit(line.cnt) + 1
      /\ Bit(line.cnt) = WORD - 1 => Bit(line.cnt + 1) = 0
      /\ CRC_CYCLES \in Nat /\ CRC_CYCLES >= 1
      /\ line.state = "READ_WAIT" => ~ line.we
  BY ReadingFacts
<1>3. PICK bit, good \in BOOLEAN : line' = lineNext(bit, good)
  BY <1>1, CardEdge
<1>4. /\ OverNow' => line.state # "IDLE" /\ ~ Stopped
      /\ "CC" \in dm'.status => "CC" \in dm.status \/ OverNow
      /\ "CC" \in dm'.status => line.state = "IDLE"
      /\ "CC" \in dm'.status => ~ line'.we
  BY CardReports DEF StatusInv
<1>5. /\ line.state # "IDLE" => line.blkcnt <= setup.blocks - 1
      /\ line.state = "READ_WAIT" => w = Before
      /\ line.state = "READ_DAT" =>
           /\ line.we <=> line.cnt > 0 /\ line.cnt <= data_cycles /\ Bit(line.cnt) = 0
           /\ line.cnt <= data_cycles + CRC_CYCLES
           /\ line.cnt < data_cycles + CRC_CYCLES => ~ line.next_block
           /\ \E u \in Nat :
                /\ InBlock(u, line.cnt)
                /\ IF line.next_block THEN w + BLOCK = Before + u
                   ELSE IF line.cnt = data_cycles + CRC_CYCLES THEN w = Words
                   ELSE w = Before + u
      /\ OverNow \/ "CC" \in dm.status => w = Words /\ ~ line.we
  BY DEF RxBlocks
<1>6. setup' = setup /\ Words' = Words
  BY <1>1, CardEdge DEF Words
<1>7. /\ Before \in Int /\ BLOCK \in Nat /\ Words \in Nat
      /\ line.blkcnt = 0 => Before + BLOCK = Words
      /\ \A b \in Nat : b = line.blkcnt - 1 => BLOCK * (setup.blocks - 1 - b) = Before + BLOCK
  BY <1>1, BeforeFacts
<1>8. line'.blkcnt = line.blkcnt => Before' = Before
  BY <1>6 DEF Before
<1>9. line.blkcnt > 0 /\ line'.blkcnt = line.blkcnt - 1 => Before' = Before + BLOCK
  <2>1. line.blkcnt > 0 => line.blkcnt - 1 \in Nat
    BY <1>2
  <2>2. Before' = BLOCK * (setup.blocks - 1 - line'.blkcnt)
    BY <1>6 DEF Before
  <2> QED
    BY <1>7, <2>1, <2>2
<1>10. CASE line.state = "IDLE"
  <2>1. ~ OverNow'
    BY <1>4, <1>10
  <2>2. "CC" \in dm'.status => v = Words' /\ ~ line'.we
    BY <1>4, <1>5, <1>6
  <2>3. CASE line'.state = "IDLE"
    BY <2>1, <2>2, <2>3 DEF RxBlocks
  <2>4. CASE line'.state # "IDLE"
    <3>1. line'.state = "READ_WAIT" /\ line'.blkcnt = setup.blocks - 1 /\ ~ line'.we /\ w = 0 /\ ~ line.we
      BY <1>10, <2>4, ReadStarts
    <3>2. Before' = 0
      BY <1>2, <1>6, <1>7, <3>1 DEF Before
    <3> QED
      BY <1>2, <1>6, <2>1, <2>2, <3>1, <3>2 DEF RxBlocks
  <2> QED
    BY <2>3, <2>4
<1>11. CASE line.state = "READ_WAIT"
  <2>1. /\ line'.state \in {"READ_WAIT", "READ_DAT", "IDLE"}
        /\ ~ Stopped => line'.state # "IDLE"
        /\ line'.cnt = 0 /\ ~ line'.we
        /\ line'.blkcnt = line.blkcnt /\ ~ line'.next_block
    BY <1>1, <1>2, <1>3, <1>11, HostFacts, HostCounts
  <2>2. ~ OverNow' /\ "CC" \notin dm'.status
    BY <1>4, <1>11, <2>1 DEF OverNow
  <2>3. v = Before'
    BY <1>2, <1>5, <1>8, <1>11, <2>1
  <2>4. \E u \in Nat : InBlock(u, line'.cnt) /\ v = Before' + u
    <3> SUFFICES InBlock(0, line'.cnt) /\ v = Before' + 0
      OBVIOUS
    <3> QED
      BY <1>7, <1>8, <2>1, <2>3, BlockStarts
  <2> QED
    <3>1. line'.cnt < data_cycles + CRC_CYCLES /\ ~ (line'.cnt > 0)
      BY <1>2, <2>1
    <3>2. line'.blkcnt <= setup'.blocks - 1
      BY <1>5, <1>6, <1>11, <2>1
    <3>3. \E u \in Nat :
            /\ InBlock(u, line'.cnt)
            /\ IF line'.next_block THEN v + BLOCK = Before' + u
               ELSE IF line'.cnt = data_cycles + CRC_CYCLES THEN v = Words'
               ELSE v = Before' + u
      BY <1>2, <2>1, <2>4, <3>1
    <3>4. line'.cnt <= data_cycles + CRC_CYCLES
      BY <1>2, <2>1
    <3> QED
      BY <2>1, <2>2, <2>3, <3>1, <3>2, <3>3, <3>4 DEF RxBlocks
<1>12. CASE line.state = "READ_DAT"
  <2>1. PICK u \in Nat :
          /\ InBlock(u, line.cnt)
          /\ IF line.next_block THEN w + BLOCK = Before + u
             ELSE IF line.cnt = data_cycles + CRC_CYCLES THEN w = Words
             ELSE w = Before + u
    BY <1>5, <1>12
  <2>2. /\ line.cnt > 0 /\ line.cnt <= data_cycles /\ Bit(line.cnt) = 0 => InBlock(u + 1, line.cnt + 1)
        /\ ~ (line.cnt > 0 /\ line.cnt <= data_cycles /\ Bit(line.cnt) = 0) => InBlock(u, line.cnt + 1)
        /\ line.cnt > data_cycles => u = BLOCK
    BY <1>2, <2>1, BlockGoesOn
  <2>3. "CC" \notin dm'.status
    BY <1>4, <1>12
  <2>4. CASE line.cnt < data_cycles + CRC_CYCLES
    <3>1. /\ ~ line.next_block /\ w = Before + u
          /\ line.we <=> line.cnt > 0 /\ line.cnt <= data_cycles /\ Bit(line.cnt) = 0
      BY <1>2, <1>5, <1>12, <2>1, <2>4
    <3>2. PICK x \in Nat : InBlock(x, line.cnt + 1) /\ v = Before + x
      <4>1. CASE line.we
        <5>1. u + 1 \in Nat /\ InBlock(u + 1, line.cnt + 1) /\ v = Before + (u + 1)
          BY <1>7, <2>2, <3>1, <4>1
        <5> QED
          BY <5>1
      <4>2. CASE ~ line.we
        BY <2>2, <3>1, <4>2
      <4> QED
        BY <4>1, <4>2
    <3>3. /\ line'.state \in {"READ_DAT", "IDLE"} /\ line'.cnt = line.cnt + 1
          /\ ~ Stopped => line'.state = "READ_DAT"
          /\ line'.we <=> line.cnt < data_cycles /\ Bit(line.cnt) = WORD - 1
      <4>1. CASE line.cnt < data_cycles
        BY <1>1, <1>3, <1>12, <2>4, <4>1, HostFacts, HostCounts
      <4>2. CASE line.cnt >= data_cycles
        BY <1>1, <1>3, <1>12, <2>4, <4>2, HostFacts, HostCounts
      <4> QED
        BY <1>2, <4>1, <4>2
    <3>4. ~ OverNow'
      BY <1>4, <3>3 DEF OverNow
    <3>5. line'.we <=> line'.cnt > 0 /\ line'.cnt <= data_cycles /\ Bit(line'.cnt) = 0
      <4>1. Bit(line.cnt + 1) = 0 <=> Bit(line.cnt) = WORD - 1
        BY <1>2
      <4> QED
        BY <1>2, <3>3, <4>1
    <3>6. CASE line.cnt < data_cycles + CRC_CYCLES - 1
      <4>1. line'.blkcnt = line.blkcnt /\ ~ line'.next_block /\ Before' = Before
        BY <1>1, <1>3, <1>8, <1>12, <3>1, <3>6, HostCounts
      <4>2. line'.cnt < data_cycles + CRC_CYCLES
        BY <1>2, <3>3, <3>6
      <4>3. \E y \in Nat : InBlock(y, line'.cnt) /\ v = Before' + y
        BY <3>2, <3>3, <4>1
      <4> QED
        BY <1>2, <1>5, <1>6, <1>12, <2>3, <3>3, <3>4, <3>5, <4>1, <4>2, <4>3 DEF RxBlocks
    <3>7. CASE line.cnt = data_cycles + CRC_CYCLES - 1
      <4>1. /\ line'.blkcnt = IF line.blkcnt > 0 THEN line.blkcnt - 1 ELSE line.blkcnt
            /\ line'.next_block <=> line.blkcnt # 0
        BY <1>1, <1>3, <1>12, <3>7, HostCounts
      <4>2. line'.cnt = data_cycles + CRC_CYCLES /\ line.cnt + 1 > data_cycles
        BY <1>2, <3>3, <3>7
      <4>3. x = BLOCK
        BY <1>2, <3>2, <4>2, BlockGoesOn
      <4>4. line'.next_block => v + BLOCK = Before' + x
        BY <1>2, <1>7, <1>9, <3>2, <4>1, <4>3
      <4>5. ~ line'.next_block => v = Words'
        BY <1>2, <1>6, <1>7, <3>2, <4>1, <4>3
      <4>6. \E y \in Nat :
              /\ InBlock(y, line'.cnt)
              /\ IF line'.next_block THEN v + BLOCK = Before' + y
                 ELSE IF line'.cnt = data_cycles + CRC_CYCLES THEN v = Words'
                 ELSE v = Before' + y
        BY <3>2, <3>3, <4>2, <4>4, <4>5
      <4>7. line'.blkcnt <= setup'.blocks - 1
        BY <1>2, <1>5, <1>6, <1>12, <4>1
      <4> QED
        BY <1>2, <2>3, <3>3, <3>4, <3>5, <4>2, <4>6, <4>7 DEF RxBlocks
    <3> QED
      BY <1>2, <2>4, <3>6, <3>7
  <2>5. CASE line.cnt = data_cycles + CRC_CYCLES
    <3>1. u = BLOCK /\ ~ line.we /\ v = w
      BY <1>2, <1>5, <1>12, <2>2, <2>5
    <3>2. /\ line'.state \in {"READ_WAIT", "IDLE"} /\ ~ line'.we
          /\ line'.blkcnt = line.blkcnt
          /\ (line'.next_block <=> line.next_block) /\ (line'.crc_ok <=> line.crc_ok)
          /\ ~ Stopped => (line'.state = "READ_WAIT" <=> line.next_block /\ line.crc_ok)
          /\ Stopped => line'.state = "IDLE"
      BY <1>1, <1>2, <1>3, <1>12, <2>5, <3>1, HostFacts, HostCounts
    <3>3. Before' = Before
      BY <1>8, <3>2
    <3>4. line'.state = "READ_WAIT" => v = Before'
      <4> SUFFICES ASSUME line'.state = "READ_WAIT" PROVE v = Before'
        OBVIOUS
      <4>1. line.next_block
        BY <3>2
      <4>2. w + BLOCK = Before + BLOCK
        BY <2>1, <3>1, <4>1
      <4> QED
        BY <1>7, <3>1, <3>3, <4>2
    <3>5. OverNow' => v = Words'
      <4> SUFFICES ASSUME OverNow' PROVE v = Words'
        OBVIOUS
      <4>1. ~ Stopped /\ line'.state = "IDLE" /\ line'.crc_ok
        BY <1>4 DEF OverNow
      <4>2. ~ line.next_block
        BY <3>2, <4>1
      <4> QED
        BY <1>6, <2>1, <2>5, <3>1, <4>2
    <3> QED
      BY <1>2, <1>5, <1>6, <1>12, <2>3, <3>2, <3>4, <3>5 DEF RxBlocks
  <2> QED
    BY <1>2, <1>5, <1>12, <2>4, <2>5
<1> QED
  BY <1>2, <1>10, <1>11, <1>12


(* ... and the bus's side is never far behind.                              *)
LEMMA MostGrows ==
  ASSUME NEW t \in Nat, NEW w \in Nat
  PROVE  /\ Service \in Nat /\ Lag(t) \in Nat /\ Most(t, w) \in Int /\ Most(t, w + 1) \in Int
         /\ WORD * t \in Nat /\ Service - WORD * t <= Lag(t)
         /\ Most(t, w + 1) = Most(t, w) + Lag(t)
         /\ Most(t, w + 1) >= Service + 1
<1>1. WORD \in Nat /\ AckMax \in Nat
  BY SdDataAssumption
<1>2. Service \in Nat /\ WORD * t \in Nat
  BY <1>1 DEF Service
<1>3. Lag(t) \in Nat /\ Service - WORD * t <= Lag(t)
  BY <1>2 DEF Lag
<1> DEFINE l == Lag(t)
<1>4. l \in Nat /\ Most(t, w) = Service + 1 + (w - 1) * l /\ Most(t, w + 1) = Service + 1 + ((w + 1) - 1) * l
  BY <1>3 DEF Most
<1> HIDE DEF l
<1>5. (w - 1) * l \in Int /\ w * l \in Nat /\ ((w + 1) - 1) * l = w * l /\ w * l = (w - 1) * l + l
  BY <1>4
<1>6. Most(t, w) \in Int /\ Most(t, w + 1) = Most(t, w) + l /\ Most(t, w + 1) >= Service + 1
  BY <1>2, <1>4, <1>5
<1> QED
  BY <1>2, <1>3, <1>4, <1>6 DEF l

LEMMA CardTakesTime ==
  ASSUME DataInv, dm.en_rx, dm'.en_rx, DataSdEdge, NEW w \in Nat, NEW p \in Nat, NEW q \in Nat,
         RxCounts(w, p, q), NEW v \in Nat, v = IF line.we THEN w + 1 ELSE w,
         NEW c \in Nat, OnTime(w, p, c), NEW d \in Nat,
         IF line.we THEN c >= WORD - 1 /\ d = 0 ELSE d <= c + 1
  PROVE  OnTime(v, p, d)'
<1>1. /\ DataTypeOK
      /\ tick = setup.period /\ tick' = 0 /\ UNCHANGED <<setup, dma, bus_wait, wbm_ack>>
  BY CardEdge DEF DataInv
<1>2. /\ dma.adr \in Nat /\ dma.adr <= p /\ p <= w
      /\ ~ rx.empty => dma.adr < p
  BY RxNumbers
<1>3. rx'.empty <=> rx.empty
  BY <1>1, CardWrites
<1>4. HeadLeft(p)' = HeadLeft(p)
  BY <1>1, <1>3 DEF HeadLeft, Service
<1>5. /\ setup.period \in Nat /\ WORD \in Nat /\ WORD >= 4 /\ bus_wait \in Nat /\ AckMax \in Nat
      /\ line.we \in BOOLEAN
  BY <1>1, SdDataAssumption DEF DataTypeOK, Setup, SerialHost
<1> DEFINE t == setup.period
           h == HeadLeft(p)
           l == Lag(t)
           m == Most(t, w)
           x == (w - dma.adr - 1) * Service
<1>6. /\ Service \in Nat /\ t \in Nat /\ l \in Nat /\ m \in Int /\ Service - WORD * t <= l
      /\ Most(t, w + 1) = m + l /\ Most(t, w + 1) >= Service + 1
  BY <1>5, MostGrows
<1>7. h \in Int /\ x \in Int
  BY <1>2, <1>5, <1>6 DEF HeadLeft
<1>8. w > dma.adr => x + h + c * t + t <= m
  BY <1>1 DEF OnTime, Left
<1> SUFFICES ASSUME v > dma.adr
             PROVE  (v - dma.adr - 1) * Service + h + d * t + 0 <= Most(t, v)
  BY <1>1, <1>4 DEF OnTime, Left, Most, Lag, Service
<1>9. CASE ~ line.we
  <2>1. v = w /\ d <= c + 1 /\ w > dma.adr
    BY <1>9
  <2>2. (c + 1) * t = c * t + t /\ d * t <= (c + 1) * t /\ d * t \in Nat /\ c * t \in Nat
    <3>1. (c + 1) - d \in Nat
      BY <2>1
    <3>2. ((c + 1) - d) * t \in Nat
      BY <1>6, <3>1
    <3>3. ((c + 1) - d) * t = (c * t + t) - d * t /\ d * t \in Nat /\ c * t \in Nat
      <4> HIDE DEF t, h, l, m, x
      <4>1. t \in Nat
        BY <1>6
      <4> QED
        BY ONLY <4>1, c \in Nat, d \in Nat
    <3>4. (c + 1) * t = c * t + t
      BY <1>6
    <3> QED
      BY <1>6, <3>2, <3>3, <3>4
  <2>3. (v - dma.adr - 1) * Service = x /\ Most(t, v) = m
    BY <2>1
  <2> HIDE DEF t, h, l, m, x
  <2> DEFINE e == d * t
             f == c * t
  <2>4. e <= f + t /\ e \in Nat /\ f \in Nat /\ x + h + f + t <= m
    BY <1>8, <2>1, <2>2
  <2> HIDE DEF e, f
  <2>5. x + h + e + 0 <= m
    BY <1>6, <1>7, <2>4
  <2> QED
    BY <2>3, <2>5 DEF e
<1>10. CASE line.we /\ w > dma.adr
  <2>1. v = w + 1 /\ d = 0 /\ c >= WORD - 1
    BY <1>10
  <2>2. (v - dma.adr - 1) * Service = x + Service
    <3>1. (w - dma.adr) * Service = (w - dma.adr - 1) * Service + Service
      BY <1>2, <1>6
    <3>2. v - dma.adr - 1 = w - dma.adr
      BY <1>2, <2>1
    <3> QED
      BY <3>1, <3>2
  <2>3. Most(t, v) = m + l /\ d * t = 0
    BY <1>6, <2>1
  <2>4. c * t + t >= WORD * t /\ c * t \in Nat /\ WORD * t \in Nat
    <3>1. (c + 1) - WORD \in Nat
      BY <1>5, <2>1
    <3>2. ((c + 1) - WORD) * t \in Nat
      BY <1>6, <3>1
    <3>3. ((c + 1) - WORD) * t = (c * t + t) - WORD * t /\ WORD * t \in Nat /\ c * t \in Nat
      BY <1>5, <1>6
    <3> QED
      BY <1>6, <3>2, <3>3
  <2> HIDE DEF t, h, l, m, x
  <2> DEFINE e == WORD * t
             f == c * t
             s == Service
  <2>5. /\ f + t >= e /\ e \in Nat /\ f \in Nat /\ x + h + f + t <= m
        /\ s - e <= l /\ s \in Nat
    BY <1>6, <1>8, <1>10, <2>4
  <2> HIDE DEF e, f, s
  <2>6. (x + s) + h + 0 + 0 <= m + l
    BY <1>6, <1>7, <2>5
  <2> QED
    BY <2>2, <2>3, <2>6 DEF s
<1>11. CASE line.we /\ ~ (w > dma.adr)
  <2>1. v = w + 1 /\ d = 0 /\ w = dma.adr /\ p = dma.adr /\ rx.empty
    BY <1>2, <1>11
  <2>2. h = Service + 1
    BY <2>1 DEF HeadLeft
  <2>3. (v - dma.adr - 1) * Service = 0 /\ d * t = 0 /\ Most(t, v) = Most(t, w + 1)
    <3>1. v - dma.adr - 1 = 0
      BY <1>2, <2>1
    <3> QED
      BY <1>6, <2>1, <3>1
  <2> HIDE DEF t, h, l, m, x
  <2> QED
    BY <1>6, <2>2, <2>3
<1> QED
  BY <1>5, <1>9, <1>10, <1>11

LEMMA CardReadsOnTime ==
  ASSUME DataInv, StatusInv, dm.en_rx, dm'.en_rx, DataSdEdge, NEW w \in Nat, NEW p \in Nat, NEW q \in Nat,
         RxCounts(w, p, q), RxBlocks(w), RxOnTime(w, p), NEW v \in Nat, v = IF line.we THEN w + 1 ELSE w
  PROVE  RxOnTime(v, p)'
<1> USE DEF Stopped
<1>1. DataTypeOK /\ UNCHANGED <<setup, dma, bus_wait, wbm_ack>>
  BY CardEdge DEF DataInv
<1>2. /\ line.state \in {"IDLE", "READ_WAIT", "READ_DAT"} /\ line.cnt \in Nat
      /\ WORD \in Nat /\ WORD >= 4 /\ data_cycles \in Nat /\ data_cycles >= WORD /\ Bit(data_cycles) = 0
      /\ Bit(line.cnt) \in Nat /\ Bit(line.cnt) < WORD
      /\ Bit(line.cnt) < WORD - 1 => Bit(line.cnt + 1) = Bit(line.cnt) + 1
      /\ Bit(line.cnt) = WORD - 1 => Bit(line.cnt + 1) = 0
      /\ line.cnt < WORD => Bit(line.cnt) = line.cnt
      /\ CRC_CYCLES \in Nat /\ CRC_CYCLES >= 1
      /\ line.state = "READ_WAIT" => ~ line.we
  BY ReadingFacts
<1>3. PICK bit, good \in BOOLEAN : line' = lineNext(bit, good)
  BY <1>1, CardEdge
<1>4. /\ OverNow' => line.state # "IDLE" /\ ~ Stopped
      /\ "CC" \in dm'.status => "CC" \in dm.status \/ OverNow
      /\ "CC" \in dm'.status => dm.state \in {"IDLE", "DATA_TRANSFER"} /\ line.state = "IDLE"
  BY CardReports
<1>5. /\ bus_wait > 0 => bus_wait < AckMax /\ ~ wbm_ack
      /\ line.state # "IDLE" => OnTime(w, p, Since)
      /\ OverNow => OnTime(w, p, CRC_CYCLES) /\ ~ line.we
      /\ "CC" \in dm.status =>
           /\ OnTime(w, p, IF dm.state = "IDLE" THEN CRC_CYCLES + 2 ELSE CRC_CYCLES + 1)
           /\ ~ line.we
      /\ line.state = "READ_DAT" =>
           /\ line.we <=> line.cnt > 0 /\ line.cnt <= data_cycles /\ Bit(line.cnt) = 0
           /\ line.cnt <= data_cycles + CRC_CYCLES
  BY DEF RxOnTime, RxBlocks
<1>6. ASSUME NEW c \in Nat, OnTime(w, p, c), NEW d \in Nat,
             IF line.we THEN c >= WORD - 1 /\ d = 0 ELSE d <= c + 1
      PROVE  OnTime(v, p, d)'
  BY <1>6, CardTakesTime
<1>7. PICK e : e = Since'
  OBVIOUS
<1>8. line.state = "READ_DAT" /\ line.cnt < data_cycles + CRC_CYCLES =>
        /\ line'.state \in {"READ_DAT", "IDLE"} /\ line'.cnt = line.cnt + 1
        /\ ~ Stopped => line'.state = "READ_DAT"
  <2>1. CASE line.cnt < data_cycles
    BY <1>1, <1>2, <1>3, <2>1, HostFacts, HostCounts
  <2>2. CASE line.cnt >= data_cycles
    BY <1>1, <1>3, <2>2, HostFacts, HostCounts
  <2> QED
    BY <1>2, <2>1, <2>2
<1>9. line.state = "READ_DAT" /\ line.cnt >= data_cycles + CRC_CYCLES => line'.state \in {"READ_WAIT", "IDLE"}
  BY <1>1, <1>3, HostFacts
<1>10. line.state = "READ_WAIT" =>
         /\ line'.state \in {"READ_WAIT", "READ_DAT", "IDLE"} /\ line'.cnt = 0
         /\ ~ Stopped => line'.state # "IDLE"
  BY <1>1, <1>3, HostFacts
<1>11. line'.state # "IDLE" => OnTime(v, p, e)'
  <2> SUFFICES ASSUME line'.state # "IDLE" PROVE OnTime(v, p, e)'
    OBVIOUS
  <2>1. CASE line.state = "IDLE"
    <3>1. v = 0 /\ dma'.adr \in Nat
      BY <1>1, <2>1, ReadStarts DEF DataTypeOK
    <3> QED
      BY <3>1 DEF OnTime
  <2>2. CASE line.state = "READ_WAIT"
    <3>1. e = 0 /\ Since = 0
      BY <1>7, <1>10, <2>2 DEF Since
    <3>2. OnTime(w, p, 0)
      BY <1>5, <2>2, <3>1 DEF OnTime
    <3> QED
      BY <1>2, <1>6, <2>2, <3>1, <3>2
  <2>3. CASE line.state = "READ_DAT" /\ line.cnt >= data_cycles + CRC_CYCLES
    <3>1. e = 0 /\ ~ line.we
      BY <1>2, <1>5, <1>7, <1>9, <2>3 DEF Since
    <3>2. PICK c \in Nat : c = Since
      BY <1>2, <2>3 DEF Since
    <3>3. OnTime(w, p, c)
      BY <1>5, <2>3, <3>2 DEF OnTime
    <3> QED
      BY <1>6, <3>1, <3>3
  <2>4. CASE line.state = "READ_DAT" /\ line.cnt < data_cycles + CRC_CYCLES
    <3>1. line'.state = "READ_DAT" /\ line'.cnt = line.cnt + 1
      BY <1>8, <2>4
    <3>2. e = IF line.cnt + 1 > data_cycles THEN line.cnt - data_cycles
              ELSE IF Bit(line.cnt + 1) = 0 THEN WORD - 1 ELSE Bit(line.cnt + 1) - 1
      <4>1. Since' = IF line'.cnt > data_cycles THEN line'.cnt - 1 - data_cycles
                     ELSE IF Bit(line'.cnt) = 0 THEN WORD - 1 ELSE Bit(line'.cnt) - 1
        BY <1>2, <3>1 DEF Since
      <4> QED
        BY <1>2, <1>7, <3>1, <4>1
    <3>3. PICK c : c = Since
      OBVIOUS
    <3>4. c = IF line.cnt = 0 THEN 0
              ELSE IF line.cnt > data_cycles THEN line.cnt - 1 - data_cycles
              ELSE IF Bit(line.cnt) = 0 THEN WORD - 1 ELSE Bit(line.cnt) - 1
      BY <2>4, <3>3 DEF Since
    <3>5. c \in Nat /\ OnTime(w, p, c)
      BY <1>2, <1>5, <2>4, <3>3, <3>4 DEF OnTime
    <3>6. e \in Nat /\ (IF line.we THEN c >= WORD - 1 /\ e = 0 ELSE e <= c + 1)
      <4>1. CASE line.we
        <5>1. line.cnt > 0 /\ line.cnt <= data_cycles /\ Bit(line.cnt) = 0
          BY <1>5, <2>4, <4>1
        <5>2. Bit(line.cnt + 1) = 1
          BY <1>2, <5>1
        <5> QED
          BY <1>2, <3>2, <3>4, <4>1, <5>1, <5>2
      <4>2. CASE ~ line.we /\ line.cnt = 0
        <5>1. Bit(line.cnt + 1) = 1
          BY <1>2, <4>2
        <5> QED
          BY <1>2, <3>2, <3>4, <4>2, <5>1
      <4>3. CASE ~ line.we /\ line.cnt > data_cycles
        BY <1>2, <3>2, <3>4, <4>3
      <4>4. CASE ~ line.we /\ line.cnt > 0 /\ line.cnt <= data_cycles
        <5>1. Bit(line.cnt) # 0 /\ line.cnt # data_cycles
          BY <1>2, <1>5, <2>4, <4>4
        <5>2. line.cnt + 1 <= data_cycles
          BY <1>2, <4>4, <5>1
        <5> QED
          BY <1>2, <3>2, <3>4, <4>4, <5>1, <5>2
      <4> QED
        BY <1>2, <4>1, <4>2, <4>3, <4>4
    <3> QED
      BY <1>6, <3>5, <3>6
  <2> QED
    BY <1>2, <2>1, <2>2, <2>3, <2>4
<1>12. line'.state # "IDLE" => OnTime(v, p, Since)'
  BY <1>7, <1>11 DEF OnTime
<1>13. OverNow' => OnTime(v, p, CRC_CYCLES)'
  <2> SUFFICES ASSUME OverNow' PROVE OnTime(v, p, CRC_CYCLES)'
    OBVIOUS
  <2>1. line'.state = "IDLE" /\ ~ Stopped /\ line.state # "IDLE"
    BY <1>4 DEF OverNow
  <2>2. line.state = "READ_DAT" /\ line.cnt = data_cycles + CRC_CYCLES
    BY <1>2, <1>5, <1>8, <1>10, <2>1
  <2>3. ~ line.we /\ Since = CRC_CYCLES - 1
    BY <1>2, <1>5, <2>2 DEF Since
  <2>4. PICK c \in Nat : c = CRC_CYCLES - 1
    BY <1>2
  <2>5. OnTime(w, p, c)
    BY <1>5, <2>1, <2>3, <2>4 DEF OnTime
  <2> QED
    BY <1>2, <1>6, <2>3, <2>4, <2>5
<1>14. "CC" \in dm'.status =>
         OnTime(v, p, IF dm.state = "IDLE" THEN CRC_CYCLES + 2 ELSE CRC_CYCLES + 1)'
  <2> SUFFICES ASSUME "CC" \in dm'.status
               PROVE  OnTime(v, p, IF dm.state = "IDLE" THEN CRC_CYCLES + 2 ELSE CRC_CYCLES + 1)'
    OBVIOUS
  <2>1. dm'.state = "IDLE" \/ (dm'.state = "DATA_TRANSFER" /\ dm'.trans_done)
    BY CardReports DEF StatusInv
  <2>2. dm.state = "DATA_TRANSFER"
    <3>1. dm.state = "IDLE" => ~ dm'.en_rx
      BY <1>1, CardEdge, MasterFacts
    <3> QED
      BY <1>4, <3>1
  <2>3. dm'.state = IF dm.trans_done THEN "IDLE" ELSE "DATA_TRANSFER"
    BY <1>1, <2>2, CardEdge, MasterFacts
  <2>4. CASE dm.trans_done
    <3>1. "CC" \in dm.status
      BY <1>4, <2>4 DEF OverNow
    <3>2. PICK c \in Nat : c = CRC_CYCLES + 1
      BY <1>2
    <3>3. OnTime(w, p, c) /\ ~ line.we
      BY <1>5, <2>2, <3>1, <3>2 DEF OnTime
    <3>4. PICK d \in Nat : d = CRC_CYCLES + 2
      BY <1>2
    <3>5. OnTime(v, p, d)'
      BY <1>2, <1>6, <3>2, <3>3, <3>4
    <3> QED
      BY <2>3, <2>4, <3>4, <3>5 DEF OnTime
  <2>5. CASE ~ dm.trans_done
    <3>1. OverNow
      BY <1>4, <2>2, <2>5 DEF StatusInv
    <3>2. OnTime(w, p, CRC_CYCLES) /\ ~ line.we
      BY <1>5, <3>1
    <3>3. PICK d \in Nat : d = CRC_CYCLES + 1
      BY <1>2
    <3>4. OnTime(v, p, d)'
      BY <1>2, <1>6, <3>2, <3>3
    <3> QED
      BY <2>3, <2>5, <3>3, <3>4 DEF OnTime
  <2> QED
    BY <1>1, <2>4, <2>5 DEF DataTypeOK, DataMaster
<1> QED
  BY <1>1, <1>5, <1>12, <1>13, <1>14 DEF RxOnTime


-----------------------------------------------------------------------------
(* The read is switched on ...                                              *)
LEMMA CardReadsOn ==
  ASSUME DataInv, StatusInv, RxWhole, DataSdEdge
  PROVE  RxWhole'
<1> USE DEF Stopped
<1>1. DataTypeOK /\ DataControl /\ LineControl /\ Off
  BY DEF DataInv
<1>2. tick >= 1 /\ setup' = setup /\ bus_wait' = bus_wait /\ dm' = dmNext
  BY <1>1, CardEdge DEF DataTypeOK
<1> SUFFICES ASSUME dm'.en_rx
             PROVE  (\E w, p, q \in Nat : RxCounts(w, p, q) /\ RxBlocks(w) /\ RxOnTime(w, p))'
  BY DEF RxWhole
<1>3. CASE dm.en_rx
  <2>1. PICK w \in Nat, p \in Nat, q \in Nat : RxCounts(w, p, q) /\ RxBlocks(w) /\ RxOnTime(w, p)
    BY <1>3 DEF RxWhole
  <2>2. PICK v \in Nat : v = IF line.we THEN w + 1 ELSE w
    OBVIOUS
  <2>3. PICK s \in Nat : RxCounts(v, p, s)'
    BY <1>3, <2>1, <2>2, CardPuts
  <2>4. RxBlocks(v)'
    BY <1>3, <2>1, <2>2, CardReadsBlocks
  <2>5. RxOnTime(v, p)'
    BY <1>3, <2>1, <2>2, CardReadsOnTime
  <2> QED
    BY <2>3, <2>4, <2>5
<1>4. CASE ~ dm.en_rx
  <2>1. dm.state = "START_RX_FIFO"
    <3>1. dm.state \in {"IDLE", "START_RX_FIFO", "START_TX_FIFO", "DATA_TRANSFER"}
      BY <1>1 DEF DataTypeOK, DataMaster
    <3>2. dm.state = "IDLE" => ~ dm'.en_rx
      BY <1>1, <1>2, MasterFacts
    <3>3. dm.state = "START_TX_FIFO" => ~ dm'.en_rx
      BY <1>1, <1>2, MasterFacts
    <3>4. dm.state = "DATA_TRANSFER" => ~ dm'.en_rx
      BY <1>1, <1>2, <1>4, MasterFacts
    <3> QED
      BY <3>1, <3>2, <3>3, <3>4
  <2>2. ~ enabled
    BY <1>1, <1>4, <2>1 DEF DataControl, enabled
  <2>3. line.state = "IDLE" /\ bus_wait' = 0 /\ ~ dm.read
    BY <1>1, <1>2, <2>2 DEF Off
  <2>4. dm'.state = "START_RX_FIFO"
    BY <1>1, <1>2, <2>1, <2>3, MasterFacts
  <2>5. line'.state = "IDLE"
    <3>1. PICK bit, good \in BOOLEAN : line' = lineNext(bit, good)
      BY <1>1, CardEdge
    <3>2. ~ dm.write
      BY <1>1, <2>1 DEF DataControl
    <3> QED
      BY <1>1, <2>3, <3>1, <3>2, HostFacts
  <2>6. PICK w \in Nat, p \in Nat, q \in Nat : RxCounts(w, p, q)'
    BY CardRx DEF RxInv
  <2>7. "CC" \notin dm'.status
    BY <2>1, CardReports
  <2>8. RxBlocks(w)'
    BY <2>4, <2>5, <2>7 DEF RxBlocks, OverNow
  <2>9. RxOnTime(w, p)'
    BY <2>3, <2>4, <2>5, <2>7 DEF RxOnTime, OverNow
  <2> QED
    BY <2>6, <2>8, <2>9
<1> QED
  BY <1>3, <1>4

LEMMA ReadNext ==
  ASSUME DataInv, StatusInv, RxWhole, [SdNext]_sdVars
  PROVE  RxWhole'
<1>1. CASE DataWbEdge
  BY <1>1, BusReadsOn
<1>2. CASE DataSdEdge
  BY <1>2, CardReadsOn
<1>3. CASE DataClear
  BY <1>3, QuietSteps DEF RxWhole, enabled
<1>4. CASE DataIssue
  BY <1>4, QuietSteps DEF RxWhole, enabled
<1>5. CASE UNCHANGED dataVars
  <2>1. UNCHANGED <<setup, request, dm, line, rx, tx, dma, bus_wait, wbm_ack, tick, ram, sent>>
    BY <1>5 DEF dataVars
  <2> SUFFICES ASSUME dm.en_rx
               PROVE  (\E w, p, q \in Nat : RxCounts(w, p, q) /\ RxBlocks(w) /\ RxOnTime(w, p))'
    BY <2>1 DEF RxWhole
  <2>2. PICK w \in Nat, p \in Nat, q \in Nat : RxCounts(w, p, q) /\ RxBlocks(w) /\ RxOnTime(w, p)
    BY DEF RxWhole
  <2>3. RxCounts(w, p, q)'
    BY <2>1, <2>2 DEF RxCounts
  <2>4. RxBlocks(w)'
    BY <2>1, <2>2 DEF RxBlocks, OverNow, Words, Before
  <2>5. RxOnTime(w, p)'
    BY <2>1, <2>2 DEF RxOnTime, OverNow, OnTime, Since, Left, HeadLeft, Most, Lag
  <2> QED
    BY <2>3, <2>4, <2>5
<1> QED
  BY <1>1, <1>2, <1>3, <1>4, <1>5 DEF SdNext, sdVars, OnCommandPath

(* A word that is not in memory yet takes time.                             *)
LEMMA SomeLeft ==
  ASSUME DataInv, NEW w \in Nat, NEW p \in Nat, w > dma.adr, bus_wait > 0 => bus_wait < AckMax
  PROVE  Left(w, p) >= 1 /\ Left(w, p) \in Int
<1>1. dma.adr \in Nat /\ bus_wait \in Nat /\ AckMax \in Nat
  BY SdDataAssumption DEF DataInv, DataTypeOK
<1>2. Service \in Nat /\ Service >= 1
  BY <1>1 DEF Service
<1>3. HeadLeft(p) \in Int /\ HeadLeft(p) >= 1
  BY <1>1, <1>2 DEF HeadLeft
<1>4. w - dma.adr - 1 \in Nat
  BY <1>1
<1>5. (w - dma.adr - 1) * Service \in Nat
  BY ONLY <1>2, <1>4
<1> DEFINE e == (w - dma.adr - 1) * Service
           h == HeadLeft(p)
<1>6. e \in Nat /\ h \in Int /\ h >= 1 /\ Left(w, p) = e + h
  BY <1>3, <1>5 DEF Left
<1> HIDE DEF e, h
<1> QED
  BY <1>6

(* While the FIFO is on, what memory has not got yet waits in it.           *)
LEMMA RestWaits ==
  ASSUME DataInv, RxWhole, dm.en_rx, "CC" \in dm.status, NEW a \in DOMAIN ram
  PROVE  ram[a] # 0 \/ a + 1 \in Waiting(rx)
<1>1. PICK w \in Nat, p \in Nat, q \in Nat : RxCounts(w, p, q) /\ RxBlocks(w)
  BY DEF RxWhole
<1>2. w = Words
  BY <1>1 DEF RxBlocks
<1>3. PICK m \in Nat : m = dma.adr
  BY DEF DataInv, DataTypeOK
<1>4. m <= w /\ w <= m + DEPTH /\ rx.wp = Ptr(w) /\ rx.rp = Ptr(m)
  BY <1>1, <1>3, RxNumbers
<1>5. \A n \in Nat : m <= n /\ n < w => rx.cell[Cel(n)] = n + 1
  BY <1>1, <1>3 DEF RxCounts
<1>6. DOMAIN ram = 0 .. w - 1
  BY <1>2 DEF DataInv, DataTypeOK, Words
<1>7. a \in Nat /\ a < w
  BY <1>6
<1>8. ram[a] = IF a < m THEN a + 1 ELSE 0
  BY <1>3 DEF DataInv, RamInv, RamHolds
<1> SUFFICES ASSUME m <= a PROVE a + 1 \in Waiting(rx)
  BY <1>7, <1>8
<1>9. PICK i \in Nat : i = a - m
  BY <1>7
<1>10. DEPTH \in Nat \ {0} /\ 2 * DEPTH \in Nat \ {0}
  BY SdDataAssumption
<1>11. Level(rx) = w - m
  <2>1. w < m + 2 * DEPTH
    BY <1>4, <1>10
  <2>2. ((w % (2 * DEPTH)) + 2 * DEPTH - (m % (2 * DEPTH))) % (2 * DEPTH) = w - m
    BY <1>4, <1>10, <2>1, ModMinus
  <2> QED
    BY <1>4, <2>2 DEF Level, Ptr
<1>12. Slot(rx.rp + i) = Cel(a)
  <2>1. ((m % (2 * DEPTH)) + i) % DEPTH = (m + i) % DEPTH
    BY <1>10, ModAdd
  <2>2. m + i = a
    BY <1>7, <1>9
  <2> QED
    BY <1>4, <2>1, <2>2 DEF Slot, Ptr, Cel
<1>13. rx.cell[Slot(rx.rp + i)] = a + 1
  BY <1>5, <1>7, <1>12
<1>14. i \in 0 .. Level(rx) - 1
  BY <1>7, <1>9, <1>11
<1> QED
  BY <1>13, <1>14 DEF Waiting

(* When the master switches the FIFO off, memory has every word.            *)
LEMMA SwitchedOffWhole ==
  ASSUME DataInv, RxWhole, DataSdEdge, dm.en_rx, dm.state = "IDLE", "CC" \in dm.status,
         BusKeepsUp(setup.period, setup.blocks)
  PROVE  \A a \in DOMAIN ram : ram[a] # 0
<1>1. DataTypeOK /\ tick = setup.period
  BY CardEdge DEF DataInv
<1>2. PICK w \in Nat, p \in Nat, q \in Nat : RxCounts(w, p, q) /\ RxBlocks(w) /\ RxOnTime(w, p)
  BY DEF RxWhole
<1>3. w = Words /\ dma.adr <= w /\ dma.adr \in Nat
  BY <1>2, RxNumbers DEF RxBlocks
<1>4. dma.adr = w
  <2> SUFFICES ASSUME w > dma.adr PROVE FALSE
    BY <1>3
  <2>1. setup.period \in Nat /\ CRC_CYCLES \in Nat
    BY <1>1, SdDataAssumption DEF DataTypeOK, Setup
  <2>2. Left(w, p) >= 1 /\ Left(w, p) \in Int
    BY <1>2, SomeLeft DEF RxOnTime
  <2>3. Left(w, p) + (CRC_CYCLES + 2) * setup.period + tick <= Most(setup.period, w)
    BY <1>2 DEF RxOnTime, OnTime
  <2>4. Most(setup.period, w) <= (CRC_CYCLES + 3) * setup.period
    BY <1>3 DEF BusKeepsUp, Words
  <2>5. Most(setup.period, w) \in Int
    BY <2>1, MostGrows
  <2> DEFINE m == Most(setup.period, w)
             x == Left(w, p)
             e == (CRC_CYCLES + 2) * setup.period
             t == setup.period
  <2>6. (CRC_CYCLES + 3) * setup.period = e + setup.period /\ e \in Nat
    <3>1. \A c, s \in Nat : (c + 3) * s = (c + 2) * s + s /\ (c + 2) * s \in Nat
      OBVIOUS
    <3> QED
      BY <2>1, <3>1
  <2>7. x + e + t <= m /\ m <= e + t /\ x >= 1 /\ x \in Int /\ m \in Int /\ e \in Nat /\ t \in Nat
    BY <1>1, <2>1, <2>2, <2>3, <2>4, <2>5, <2>6
  <2> HIDE DEF m, x, e, t
  <2> QED
    BY <2>7
<1>5. RamHolds(dma.adr)
  BY DEF DataInv, RamInv
<1>6. DOMAIN ram = 0 .. Words - 1 /\ Words \in Int
  BY <1>3 DEF DataInv, DataTypeOK, Words
<1> QED
  BY <1>3, <1>4, <1>5, <1>6 DEF RamHolds

LEMMA OffNext ==
  ASSUME WriteInv, ReadInv, [SdNext]_sdVars
  PROVE  OffWhole'
<1> USE DEF BusKeepsUp, Most, Lag
<1>1. DataInv /\ DataTypeOK /\ DataControl /\ StatusInv /\ RxWhole /\ OffWhole
  BY DEF WriteInv, ReadInv, DataInv
<1>2. CASE DataWbEdge
  <2>1. UNCHANGED <<setup, dm>>
    BY <1>1, <1>2, QuietSteps
  <2>2. ~ dm.en_rx => ram' = ram
    BY <1>1, <1>2, BusEdge
  <2> QED
    BY <1>1, <2>1, <2>2 DEF OffWhole
<1>3. CASE DataSdEdge
  <2>1. setup' = setup /\ ram' = ram /\ dm' = dmNext
    BY <1>1, <1>3, CardEdge
  <2> SUFFICES ASSUME "CC" \in dm'.status, setup.dir = "rx", ~ dm'.en_rx,
                      BusKeepsUp(setup.period, setup.blocks)
               PROVE  \A a \in DOMAIN ram : ram[a] # 0
    BY <2>1 DEF OffWhole
  <2>2. dm.state \in {"IDLE", "DATA_TRANSFER"} /\ ("CC" \in dm.status \/ OverNow)
    BY <1>1, <1>3, CardReports
  <2>3. dm.state = "DATA_TRANSFER" => dm'.en_rx
    <3>1. dm.state = "DATA_TRANSFER" => dm.en_rx
      BY <1>1 DEF DataControl, enabled
    <3> QED
      BY <1>1, <2>1, <3>1, MasterFacts
  <2>4. dm.state = "IDLE" /\ "CC" \in dm.status
    BY <2>2, <2>3 DEF OverNow
  <2>5. CASE dm.en_rx
    BY <1>1, <1>3, <2>4, <2>5, SwitchedOffWhole
  <2>6. CASE ~ dm.en_rx
    BY <1>1, <2>4, <2>6 DEF OffWhole
  <2> QED
    BY <2>5, <2>6
<1>4. CASE DataClear \/ DataIssue
  <2>1. "CC" \notin dm'.status
    BY <1>1, <1>4, QuietSteps
  <2> QED
    BY <2>1 DEF OffWhole
<1>5. CASE UNCHANGED dataVars
  BY <1>1, <1>5 DEF dataVars, OffWhole
<1> QED
  BY <1>2, <1>3, <1>4, <1>5 DEF SdNext, sdVars, OnCommandPath

(* A write that is reported complete has put every word of every block on   *)
(* the line, however slow the bus is: sd_data_master.v waits in             *)
(* DATA_TRANSFER for the serial host, and the host leaves for IDLE without  *)
(* an error only after its last block.                                      *)
THEOREM WritesAreWhole == SdSpec => [](setup.dir = "tx" /\ "CC" \in dm.status => Len(sent) = Words)
<1>1. SdInit => WriteInv
  <2> SUFFICES ASSUME SdInit PROVE WriteInv
    OBVIOUS
  <2>1. DataInv
    BY DataInitInv DEF SdInit
  <2> QED
    BY <2>1 DEF WriteInv, SdInit, DataInit, StatusInv, TxWhole, Stopped, OverNow
<1>2. WriteInv /\ [SdNext]_sdVars => WriteInv'
  BY DataInvNext, StatusNext, WriteNext DEF WriteInv
<1>3. WriteInv => (setup.dir = "tx" /\ "CC" \in dm.status => Len(sent) = Words)
  BY DEF WriteInv, TxWhole
<1> QED
  BY <1>1, <1>2, <1>3, PTL DEF SdSpec

(* What a transfer that is reported complete may be sure of, whatever the   *)
(* bus does: a write is on the card, and of a read every word is in memory  *)
(* or waits in the FIFO as long as that is on.  The master switches it off  *)
(* a fixed number of card cycles later (sd_data_master.v, IDLE after        *)
(* trans_done), whether it is empty or not; only when the bus keeps up has  *)
(* it taken every word by then.                                             *)
THEOREM CompleteTransfersWhole == SdSpec => []CompleteLeavesNothingOut
<1> DEFINE Inv == WriteInv /\ ReadInv
<1>1. SdInit => Inv
  <2> SUFFICES ASSUME SdInit PROVE Inv
    OBVIOUS
  <2>1. DataInv
    BY DataInitInv DEF SdInit
  <2>2. WriteInv
    BY <2>1 DEF WriteInv, SdInit, DataInit, StatusInv, TxWhole, Stopped, OverNow
  <2>3. ReadInv
    BY DEF ReadInv, SdInit, DataInit, RxWhole, OffWhole
  <2> QED
    BY <2>2, <2>3
<1>2. Inv /\ [SdNext]_sdVars => Inv'
  <2> SUFFICES ASSUME Inv, [SdNext]_sdVars PROVE Inv'
    OBVIOUS
  <2>1. DataInv /\ StatusInv /\ TxWhole /\ RxWhole
    BY DEF WriteInv, ReadInv
  <2>2. WriteInv'
    BY <2>1, DataInvNext, StatusNext, WriteNext DEF WriteInv
  <2>3. RxWhole' /\ OffWhole'
    BY <2>1, ReadNext, OffNext
  <2> QED
    BY <2>2, <2>3 DEF ReadInv
<1>3. Inv => CompleteLeavesNothingOut
  <2> SUFFICES ASSUME Inv, "CC" \in dm.status PROVE CompleteLeavesNothingOut
    BY DEF CompleteLeavesNothingOut
  <2>1. DataInv /\ TxWhole /\ RxWhole /\ OffWhole /\ setup.dir \in {"tx", "rx"}
    BY DEF WriteInv, ReadInv, DataInv, DataTypeOK, Setup
  <2>2. setup.dir = "tx" => Len(sent) = Words
    BY <2>1 DEF TxWhole
  <2>3. dm.en_rx => \A a \in DOMAIN ram : ram[a] # 0 \/ a + 1 \in Waiting(rx)
    BY <2>1, RestWaits
  <2>4. setup.dir = "rx" /\ ~ dm.en_rx =>
          \A a \in DOMAIN ram : ram[a] # 0 \/ ~ BusKeepsUp(setup.period, setup.blocks)
    BY <2>1 DEF OffWhole
  <2> QED
    BY <2>1, <2>2, <2>3, <2>4 DEF CompleteLeavesNothingOut
<1> QED
  BY <1>1, <1>2, <1>3, PTL DEF SdSpec
=============================================================================
