------------------------------- MODULE SdCommand -------------------------------
(***************************************************************************)
(* The command path of the SD controller (src/ip/sd): the Wishbone         *)
(* registers with their two write pulses, the crossings between the bus    *)
(* clock and the card clock, the command master with its watchdog, the     *)
(* serial host that shifts commands out and answers in, and the trigger    *)
(* that starts a data transfer.                                            *)
(*                                                                         *)
(* WbEdge and SdEdge are the edges of the two clocks; every register of a  *)
(* domain takes its next value from the values before the edge.  Software  *)
(* is a driver that issues one command at a time, reads the status until   *)
(* it is not zero, clears it, and waits to see it cleared.                 *)
(***************************************************************************)
EXTENDS Naturals, Sequences

CONSTANTS Kind,          \* the kinds of commands software issues
          Timeout,       \* the values of the timeout register it uses
          INIT_DELAY,    \* card cycles that the serial host waits after reset
          BITS_TO_SEND,  \* bits of a command on the line (48)
          BITS_TO_READ   \* bits of an answer (48 or 136)

ASSUME SdAssumption ==
  /\ Kind \subseteq {"silent", "busy", "read", "write"}
  /\ Timeout \subseteq Nat
  /\ INIT_DELAY \in Nat
  /\ BITS_TO_SEND \in Nat \ {0} /\ BITS_TO_READ \in Nat \ {0}

(* The bits of cmd_isr that a command can leave: complete, error, timeout,  *)
(* wrong checksum, wrong index.                                             *)
Flag == {"CC", "EI", "CTE", "CCRCE", "CIE"}

(* Two tags tell a command from the one before it.                          *)
Tag == {"a", "b"}
Other(t) == IF t = "a" THEN "b" ELSE "a"

(* What the command, argument and timeout registers say.  A busy command is *)
(* answered but its answer is not checked; those with data are checked.     *)
Command == [tag : Tag, kind : Kind, timeout : Timeout]
ExpectsResponse(c) == c.kind # "silent"
Checked(c) == c.kind \in {"read", "write"}

VARIABLES
  phase,      \* software: "ready", "waiting", "answered" or "clearing"
  seen,       \* status and response that it read last
  bus,        \* the register whose write is open, or "none"
  wb,         \* registers of the bus clock
  wbStatus,   \* the two stages that bring status and response to the bus
  cmdSync,    \* the two stages that bring the registers to the card clock
  startSync, clearSync,  \* the three stages that bring the pulses there
  since,      \* bus edges since the last card edge, up to 2
  master,     \* sd_cmd_master
  host,       \* sd_cmd_serial_host
  trig,       \* sd_data_xfer_trig
  card,       \* the card holds DAT0 low
  transfers   \* history: data transfers started for this command

software == <<phase, seen, bus>>
sd == <<cmdSync, startSync, clearSync, master, host, trig, card, transfers>>
vars == <<software, wb, wbStatus, since, sd>>

-----------------------------------------------------------------------------
(* The bus clock.                                                           *)

(* A write of register r: the data, and the pulse that goes with it, are    *)
(* registered while the strobe or the acknowledge is up, two edges long.    *)
Writes(r) == bus = r

(* cmd_start and cmd_int_rst, the edge detectors behind them, and the level *)
(* that changes at every rise.                                              *)
Rise(sig) == sig[1] /\ ~sig[2]

wbNext(c) ==
  [ cmd   |-> IF Writes("argument") THEN c ELSE wb.cmd,
    ack   |-> bus # "none" /\ ~wb.ack,
    start |-> Writes("argument"),
    clear |-> Writes("cmd_isr"),
    startSig |-> <<wb.start, wb.startSig[1]>>,
    clearSig |-> <<wb.clear, wb.clearSig[1]>>,
    startLevel |-> (wb.startLevel # Rise(wb.startSig)),
    clearLevel |-> (wb.clearLevel # Rise(wb.clearSig)) ]

(* The master shows its status only while it is idle.                       *)
int_status_o(m) == IF m.state = "IDLE" THEN m.status ELSE {}

Status == wbStatus[2].status

(* What software does at a bus edge.  A read of the status is taken to be   *)
(* immediate; a write takes two edges.                                      *)
Issue ==
  /\ phase = "ready" /\ bus = "none"
  /\ phase' = "waiting" /\ bus' = "argument"
  /\ UNCHANGED seen

Finish ==
  /\ bus # "none" /\ wb.ack
  /\ bus' = "none"
  /\ UNCHANGED <<phase, seen>>

Poll ==
  /\ phase = "waiting" /\ bus = "none" /\ Status # {}
  /\ phase' = "answered" /\ seen' = wbStatus[2]
  /\ UNCHANGED bus

Clear ==
  /\ phase = "answered" /\ bus = "none"
  /\ phase' = "clearing" /\ bus' = "cmd_isr"
  /\ UNCHANGED seen

Cleared ==
  /\ phase = "clearing" /\ bus = "none" /\ Status = {}
  /\ phase' = "ready"
  /\ UNCHANGED <<seen, bus>>

(* It may rest before it issues or clears, but not while it polls.          *)
Rest ==
  /\ ~ (bus # "none" /\ wb.ack)
  /\ phase = "waiting" => bus # "none" \/ Status = {}
  /\ phase = "clearing" => bus # "none" \/ Status # {}
  /\ UNCHANGED software

Software == Issue \/ Finish \/ Poll \/ Clear \/ Cleared \/ Rest

(* The command that software writes next.                                   *)
NextCommand == {c \in Command : c.tag = Other(wb.cmd.tag)}

WbEdge ==
  /\ Software
  /\ \/ Writes("argument") /\ ~wb.ack
        /\ \E c \in NextCommand : wb' = wbNext(c)
     \/ ~ (Writes("argument") /\ ~wb.ack) /\ wb' = wbNext(wb.cmd)
  /\ wbStatus' = << [status |-> int_status_o(master),
                     response |-> master.response], wbStatus[1] >>
  /\ since' = IF since < 2 THEN since + 1 ELSE 2
  /\ UNCHANGED sd

-----------------------------------------------------------------------------
(* The card clock.                                                          *)
start_i == startSync[3] # startSync[2]
int_status_rst_i == clearSync[3] # clearSync[2]
command_i == cmdSync[2]

(* A timeout of 0 is none.                                                  *)
TimedOut == master.cmd.timeout > 0 /\ master.watchdog >= master.cmd.timeout

(* The watchdog stands here where counting on cannot change a comparison.   *)
Count ==
  IF TimedOut \/ master.cmd.timeout = 0 THEN master.watchdog
  ELSE master.watchdog + 1

(* The status that an answer leaves.                                        *)
AnswerStatus ==
  {"CC"} \cup
  (IF Checked(master.cmd) /\ host.answer = "bad crc" THEN {"EI", "CCRCE"} ELSE {}) \cup
  (IF Checked(master.cmd) /\ host.answer = "bad index" THEN {"EI", "CIE"} ELSE {})

masterIdle ==
  [master EXCEPT !.state = IF start_i THEN "EXECUTE" ELSE "IDLE",
                 !.go_idle = FALSE, !.cmd = command_i, !.watchdog = 0,
                 !.start_xfr = IF start_i THEN TRUE ELSE @,
                 !.status = IF start_i THEN {} ELSE @]

(* Wrong: an answer is taken even as the watchdog expires.                  *)
masterExecute_Both ==
  [master EXCEPT
     !.state = IF master.go_idle THEN "IDLE"
               ELSE IF ~host.finish THEN "EXECUTE"
               ELSE IF master.cmd.kind = "busy" THEN "BUSY_CHECK" ELSE "IDLE",
     !.start_xfr = FALSE,
     !.watchdog = Count,
     !.go_idle = @ \/ TimedOut,
     !.status = (IF TimedOut THEN @ \cup {"CTE", "EI"} ELSE @)
                \cup (IF host.finish THEN AnswerStatus ELSE {})]

(* Wrong: the watchdog reports, but the command goes on.                    *)
masterExecute_Stay ==
  [master EXCEPT
     !.state = IF ~host.finish THEN "EXECUTE"
               ELSE IF master.cmd.kind = "busy" THEN "BUSY_CHECK" ELSE "IDLE",
     !.start_xfr = FALSE,
     !.watchdog = Count,
     !.status = IF TimedOut THEN @ \cup {"CTE", "EI"}
                ELSE IF host.finish THEN @ \cup AnswerStatus ELSE @]

masterExecute ==
  LET answered == ~TimedOut /\ host.finish
  IN [master EXCEPT
        !.state = IF master.go_idle THEN "IDLE"
                  ELSE IF ~host.finish THEN "EXECUTE"
                  ELSE IF master.cmd.kind = "busy" THEN "BUSY_CHECK" ELSE "IDLE",
        !.start_xfr = FALSE,
        !.watchdog = Count,
        !.go_idle = @ \/ TimedOut,
        !.status = IF TimedOut THEN @ \cup {"CTE", "EI"}
                   ELSE IF answered THEN @ \cup AnswerStatus ELSE @,
        !.response = IF answered /\ ExpectsResponse(master.cmd)
                     THEN host.response ELSE @]

masterBusy ==
  [master EXCEPT !.state = IF card THEN "BUSY_CHECK" ELSE "IDLE",
                 !.start_xfr = FALSE, !.go_idle = FALSE]

(* A clear from the bus wins over whatever the state sets.                  *)
masterNext ==
  LET next == CASE master.state = "IDLE" -> masterIdle
                [] master.state = "EXECUTE" -> masterExecute
                [] master.state = "BUSY_CHECK" -> masterBusy
  IN IF int_status_rst_i THEN [next EXCEPT !.status = {}] ELSE next

-----------------------------------------------------------------------------
(* The serial host.                                                         *)
hostReset ==
  [state |-> "INIT", counter |-> 0, finish |-> FALSE,
   cmd |-> [tag |-> "a", kind |-> "silent", timeout |-> 0],
   response |-> "none", answer |-> "none"]

(* Wrong: it needs a cycle more to be ready.                                *)
InitDone_Late == host.counter > INIT_DELAY
InitDone == host.counter >= INIT_DELAY

(* What arrives on the command line: whether the first bit of an answer is  *)
(* there, and whether the answer is whole.                                  *)
hostStep(low, quality) ==
  CASE host.state = "INIT" ->
         [host EXCEPT !.state = IF InitDone THEN "IDLE" ELSE "INIT",
                      !.counter = @ + 1]
    [] host.state = "IDLE" ->
         [host EXCEPT !.state = IF master.start_xfr THEN "SETUP_CRC" ELSE "IDLE",
                      !.counter = 0, !.finish = FALSE,
                      !.response = "none", !.answer = "none"]
    [] host.state = "SETUP_CRC" -> [host EXCEPT !.state = "WRITE"]
    [] host.state = "WRITE" ->
         [host EXCEPT !.state = IF host.counter < BITS_TO_SEND THEN "WRITE"
                                ELSE IF ExpectsResponse(host.cmd)
                                THEN "READ_WAIT" ELSE "FINISH_WO",
                      !.counter = @ + 1]
    [] host.state = "READ_WAIT" ->
         [host EXCEPT !.state = IF low THEN "READ" ELSE "READ_WAIT",
                      !.counter = 1]
    [] host.state = "READ" ->
         [host EXCEPT !.state = IF host.counter >= BITS_TO_READ
                                THEN "FINISH_WR" ELSE "READ",
                      !.counter = @ + 1]
    [] host.state = "FINISH_WO" ->
         [host EXCEPT !.state = "IDLE", !.finish = TRUE, !.counter = 0]
    [] host.state = "FINISH_WR" ->
         [host EXCEPT !.state = "IDLE", !.finish = TRUE, !.counter = 0,
                      !.answer = quality,
                      !.response = IF quality = "good" THEN host.cmd.tag ELSE "bad"]

(* go_idle resets it at once.  A start is latched in whatever state it is.  *)
hostNext(low, quality) ==
  IF master.go_idle \/ masterNext.go_idle THEN hostReset
  ELSE [hostStep(low, quality) EXCEPT
          !.cmd = IF master.start_xfr THEN master.cmd ELSE @]

-----------------------------------------------------------------------------
(* The data trigger: a read is set going with its command, a write when its *)
(* command has been answered.                                               *)
trigIdle ==
  [state |-> IF start_i /\ command_i.kind = "read" THEN "TRIGGER_XFER"
             ELSE IF start_i /\ command_i.kind = "write" THEN "WAIT_FOR_CMD_INT"
             ELSE "IDLE",
   r_w |-> command_i.kind = "read", start_tx |-> FALSE, start_rx |-> FALSE]

trigWait_Slip ==  \* wrong: an error does not end the wait
  [trig EXCEPT !.state = IF "CC" \in int_status_o(master) THEN "TRIGGER_XFER"
                         ELSE "WAIT_FOR_CMD_INT",
               !.start_tx = FALSE, !.start_rx = FALSE]

trigWait ==
  [trig EXCEPT !.state = IF "CC" \in int_status_o(master) THEN "TRIGGER_XFER"
                         ELSE IF "EI" \in int_status_o(master) THEN "IDLE"
                         ELSE "WAIT_FOR_CMD_INT",
               !.start_tx = FALSE, !.start_rx = FALSE]

trigXfer ==
  [trig EXCEPT !.state = "IDLE", !.start_tx = ~trig.r_w, !.start_rx = trig.r_w]

trigNext ==
  CASE trig.state = "IDLE" -> trigIdle
    [] trig.state = "WAIT_FOR_CMD_INT" -> trigWait
    [] trig.state = "TRIGGER_XFER" -> trigXfer

(* A card that answers a busy command may pull DAT0 low with its answer.    *)
CardHolds(c) ==
  c = card \/ (host.state = "FINISH_WR" /\ host.cmd.kind = "busy")

(* The card clock is the bus clock divided by two or more.                  *)
SdEdge ==
  /\ since = 2 /\ since' = 0
  /\ cmdSync' = <<wb.cmd, cmdSync[1]>>
  /\ startSync' = <<wb.startLevel, startSync[1], startSync[2]>>
  /\ clearSync' = <<wb.clearLevel, clearSync[1], clearSync[2]>>
  /\ master' = masterNext
  /\ \E low \in BOOLEAN, quality \in {"good", "bad crc", "bad index"} :
       host' = hostNext(low, quality)
  /\ trig' = trigNext
  /\ \E c \in BOOLEAN : CardHolds(c) /\ card' = c
  /\ transfers' = IF start_i THEN 0
                  ELSE IF trig.state = "TRIGGER_XFER" THEN transfers + 1
                  ELSE transfers
  /\ UNCHANGED <<software, wb, wbStatus>>

CardReady ==
  /\ card /\ card' = FALSE
  /\ UNCHANGED <<software, wb, wbStatus, since, cmdSync, startSync, clearSync,
                 master, host, trig, transfers>>

-----------------------------------------------------------------------------
(* Long after reset, with nothing issued.                                   *)
FirstCommand == [tag |-> "a", kind |-> "silent", timeout |-> 0]
NoStatus == [status |-> {}, response |-> "none"]

Init ==
  /\ phase = "ready" /\ bus = "none" /\ seen = NoStatus
  /\ wb = [cmd |-> FirstCommand, ack |-> FALSE, start |-> FALSE, clear |-> FALSE,
           startSig |-> <<FALSE, FALSE>>, clearSig |-> <<FALSE, FALSE>>,
           startLevel |-> FALSE, clearLevel |-> FALSE]
  /\ wbStatus = <<NoStatus, NoStatus>>
  /\ cmdSync = <<FirstCommand, FirstCommand>>
  /\ startSync = <<FALSE, FALSE, FALSE>>
  /\ clearSync = <<FALSE, FALSE, FALSE>>
  /\ since = 0
  /\ master = [state |-> "IDLE", status |-> {}, cmd |-> FirstCommand,
               watchdog |-> 0, go_idle |-> FALSE, start_xfr |-> FALSE,
               response |-> "none"]
  /\ host = [hostReset EXCEPT !.state = "IDLE"]
  /\ trig = [state |-> "IDLE", r_w |-> FALSE, start_tx |-> FALSE, start_rx |-> FALSE]
  /\ card = FALSE /\ transfers = 0

Next == WbEdge \/ SdEdge \/ CardReady

(* Both clocks run, and no card is busy for ever.                           *)
Fairness == WF_vars(WbEdge) /\ WF_vars(SdEdge) /\ WF_vars(CardReady)

Spec == Init /\ [][Next]_vars /\ Fairness

-----------------------------------------------------------------------------
(* What software reads belongs to the command it issued, and says either    *)
(* that the card answered or that it did not, also when the answer comes as *)
(* the watchdog expires (sd_cmd_master.v, EXECUTE; bistable_domain_cross.v).*)
AnswerMatchesCommand ==
  phase = "answered" =>
    LET s == seen.status
    IN /\ ("CC" \in s) # ("CTE" \in s)
       /\ "CTE" \in s => wb.cmd.timeout > 0
       /\ "CC" \in s /\ ExpectsResponse(wb.cmd) =>
            \/ seen.response = wb.cmd.tag
            \/ seen.response = "bad" /\ (Checked(wb.cmd) => "EI" \in s)

(* No pulse is wasted: a start finds the master idle, the master's start    *)
(* finds the serial host out of its reset, and a clear never wipes out a    *)
(* status that is being set (sd_cmd_master.v, sd_cmd_serial_host.v, INIT).  *)
PulsesFindIdle ==
  /\ start_i => master.state = "IDLE" /\ master.status = {}
  /\ master.start_xfr => host.state = "IDLE"
  /\ int_status_rst_i => master.state = "IDLE"

(* Each command with data starts its own transfer and only that: a read     *)
(* always, a write when it was answered; nothing is left waiting for the    *)
(* status of another command (sd_data_xfer_trig.v, WAIT_FOR_CMD_INT).       *)
TransferPerCommand ==
  /\ trig.start_tx => "CC" \in master.status
  /\ phase = "ready" =>
       transfers = IF wb.cmd.kind = "read" THEN 1
                   ELSE IF wb.cmd.kind = "write" /\ "CC" \in seen.status THEN 1
                   ELSE 0

(* With a timeout, every command ends in a status, whether the card answers *)
(* or not, and every clear is seen to have worked (the watchdog of          *)
(* sd_cmd_master.v and the pulse crossings).                                *)
CommandEnds ==
  /\ (phase = "waiting" /\ bus = "none" /\ wb.cmd.timeout > 0) ~> (phase = "answered")
  /\ (phase = "clearing") ~> (phase = "ready")
=============================================================================
