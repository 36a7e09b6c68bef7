-------------------------------- MODULE SdData --------------------------------
(***************************************************************************)
(* The data path of the SD controller (src/ip/sd): the data master with    *)
(* its watchdog, the serial host that moves words over the data lines, the *)
(* two dual-clock FIFOs, and the filler that moves words between FIFO and  *)
(* memory as a bus master.                                                 *)
(*                                                                         *)
(* A transfer moves whole words, from a word address on; word n is the     *)
(* n-th of the transfer, on the card and in memory.  The card clock is     *)
(* made from the bus clock, so its edge comes right after every period-th  *)
(* edge of the bus clock.                                                  *)
(***************************************************************************)
EXTENDS Naturals, Sequences

CONSTANTS
  DEPTH,        \* words of a FIFO (16)
  WORD,         \* card cycles that a word takes (8, on one line 32)
  BLOCK,        \* words of a block (128)
  CRC_CYCLES,   \* card cycles from the last word to the end of a read (17)
  BlockCounts,  \* the numbers of blocks that software asks for
  DataTimeouts, \* the values of the data timeout register it uses
  Periods,      \* bus cycles of a card cycle, 2 * (divider + 1)
  AckMin, AckMax \* bus cycles until the bus acknowledges; the adapter to
                 \* AXI (src/ip/adapters) has a register each way, so at least 2

ASSUME SdDataAssumption ==
  /\ DEPTH \in Nat \ {0} /\ BLOCK \in Nat \ {0} /\ CRC_CYCLES \in Nat \ {0}
  /\ WORD \in Nat /\ WORD >= 4
  /\ BlockCounts \subseteq Nat \ {0} /\ DataTimeouts \subseteq Nat
  /\ Periods \subseteq Nat \ {0, 1}
  /\ AckMin \in Nat /\ AckMin >= 2 /\ AckMax \in Nat /\ AckMin <= AckMax

VARIABLES
  setup,     \* blocks, timeout and period of the transfer
  request,   \* the start pulse on its way to the master: "none", "tx" or "rx"
  dm,        \* sd_data_master
  line,      \* sd_data_serial_host
  rx, tx,    \* the FIFOs to memory and to the card
  dma,       \* sd_fifo_filler: word address, fifo_rd_reg and fifo_rd_ack
  bus_wait,  \* bus cycles that the open access has waited
  wbm_ack,   \* the bus acknowledges it
  tick,      \* bus edges since the last card edge
  ram,       \* the words that a read has put in memory
  sent       \* the words that a write has put on the line, 0 if garbled

dataVars == <<setup, request, dm, line, rx, tx, dma, bus_wait, wbm_ack, tick, ram, sent>>

-----------------------------------------------------------------------------
(* The dual-clock FIFO.  Pointers count twice around; grey code makes sure  *)
(* that the other side sees the old or the new value of one.                *)
Up(p) == (p + 1) % (2 * DEPTH)
Slot(p) == p % DEPTH
IsFull(w, r) == w # r /\ Slot(w) = Slot(r)

EmptyFifo ==
  [wp |-> 0, rp |-> 0, wp_s |-> 0, rp_s |-> 0, empty |-> TRUE, full |-> FALSE,
   wr_rst |-> FALSE, wr_rst_r |-> FALSE, rd_rst |-> FALSE, rd_rst_r |-> FALSE,
   ra |-> 0, cell |-> [s \in 0 .. DEPTH - 1 |-> 0]]

(* An edge of the writing clock; run is low while the FIFO is held reset.   *)
WriteEdge(f, run, we, word) ==
  [f EXCEPT !.wr_rst_r = run, !.wr_rst = run /\ (f.wr_rst \/ f.wr_rst_r),
            !.wp = IF ~f.wr_rst THEN 0 ELSE IF we THEN Up(@) ELSE @,
            !.cell = IF we THEN [@ EXCEPT ![Slot(f.wp)] = word] ELSE @,
            !.rp_s = f.rp,
            !.full = IsFull(f.wp, f.rp_s) \/ (we /\ IsFull(Up(f.wp), f.rp_s))]

(* An edge of the reading clock.                                            *)
ReadEdge(f, run, re) ==
  [f EXCEPT !.rd_rst_r = run, !.rd_rst = run /\ (f.rd_rst \/ f.rd_rst_r),
            !.rp = IF ~f.rd_rst THEN 0 ELSE IF re THEN Up(@) ELSE @,
            !.ra = Slot(f.rp),
            !.wp_s = f.wp,
            !.empty = (f.wp_s = f.rp) \/ (re /\ f.wp_s = Up(f.rp))]

dout(f) == f.cell[f.ra]

(* The reset takes its effect at once.                                      *)
Held(f) == [f EXCEPT !.wr_rst = FALSE, !.wr_rst_r = FALSE,
                     !.rd_rst = FALSE, !.rd_rst_r = FALSE]

-----------------------------------------------------------------------------
(* The bus clock: the filler.                                               *)
enabled == dm.en_rx \/ dm.en_tx
wbm_cyc == IF dm.en_rx THEN ~rx.empty ELSE dm.en_tx /\ ~tx.full
wbm_stb == wbm_cyc /\ (dm.en_rx => dma.rd_ack)
Taken == wbm_cyc /\ wbm_stb /\ wbm_ack

(* The bus answers an access after AckMin to AckMax cycles.                 *)
BusAnswers ==
  LET open == wbm_stb /\ ~wbm_ack
  IN \E ack \in BOOLEAN :
       /\ ack => open /\ bus_wait + 1 >= AckMin
       /\ open /\ bus_wait + 1 >= AckMax => ack
       /\ wbm_ack' = ack
       /\ bus_wait' = IF open /\ ~ack THEN bus_wait + 1 ELSE 0

DataWbEdge ==
  /\ tick < setup.period /\ tick' = tick + 1
  /\ BusAnswers
  /\ rx' = ReadEdge(rx, enabled, dm.en_rx /\ wbm_cyc /\ wbm_ack)
  /\ tx' = WriteEdge(tx, enabled, dm.en_tx /\ Taken, dma.adr + 1)
  /\ ram' = IF dm.en_rx /\ Taken THEN [ram EXCEPT ![dma.adr] = dout(rx)] ELSE ram
  /\ dma' = [adr |-> IF Taken THEN dma.adr + 1
                     ELSE IF ~enabled THEN 0 ELSE dma.adr,
             rd_reg |-> wbm_cyc /\ wbm_ack,
             rd_ack |-> dma.rd_reg \/ ~ (wbm_cyc /\ wbm_ack)]
  /\ UNCHANGED <<setup, request, dm, line, sent>>

-----------------------------------------------------------------------------
(* The card clock: the data master.                                         *)
xfr_complete == line.state = "IDLE"
DataLate == setup.timeout > 0 /\ dm.watchdog >= setup.timeout

dmIdle ==
  [dm EXCEPT !.state = CASE request = "tx" -> "START_TX_FIFO"
                         [] request = "rx" -> "START_RX_FIFO"
                         [] OTHER -> "IDLE",
             !.en_tx = FALSE, !.en_rx = FALSE, !.write = FALSE, !.read = FALSE,
             !.trans_done = FALSE, !.tx_cycle = FALSE, !.watchdog = 0]

dmStartRx ==
  [dm EXCEPT !.state = IF ~xfr_complete THEN "DATA_TRANSFER" ELSE @,
             !.en_rx = TRUE, !.en_tx = FALSE, !.tx_cycle = FALSE, !.read = TRUE]

(* A write starts when the FIFO is full; the watchdog stands still.         *)
dmStartTx ==
  [dm EXCEPT !.state = IF tx.full /\ ~xfr_complete THEN "DATA_TRANSFER" ELSE @,
             !.en_rx = FALSE, !.en_tx = TRUE, !.tx_cycle = TRUE,
             !.write = IF tx.full THEN TRUE ELSE @]

(* A FIFO that runs short, a timeout, or the end of the transfer.           *)
dmTransfer ==
  LET short == IF dm.tx_cycle THEN tx.empty ELSE rx.full
      complete == xfr_complete /\ ~DataLate
      stop == (short \/ DataLate) /\ ~complete
  IN [dm EXCEPT
        !.state = IF dm.trans_done THEN "IDLE" ELSE @,
        !.watchdog = IF setup.timeout = 0 \/ DataLate THEN @ ELSE @ + 1,
        !.trans_done = @ \/ short \/ DataLate \/ complete,
        !.write = stop, !.read = stop,
        !.status = @ \cup
          (IF short /\ ~dm.trans_done THEN {"CFE", "EI"} ELSE {}) \cup
          (IF DataLate THEN {"CTE", "EI"} ELSE {}) \cup
          (IF ~complete \/ dm.trans_done THEN {}
           ELSE IF line.crc_ok THEN {"CC"} ELSE {"CCRCE", "EI"})]

dmNext ==
  CASE dm.state = "IDLE" -> dmIdle
    [] dm.state = "START_RX_FIFO" -> dmStartRx
    [] dm.state = "START_TX_FIFO" -> dmStartTx
    [] dm.state = "DATA_TRANSFER" -> dmTransfer

-----------------------------------------------------------------------------
(* The card clock: the serial host.                                         *)
data_cycles == BLOCK * WORD
Words == BLOCK * setup.blocks

MoreBlocks_Slip == line.blkcnt > 1  \* wrong: the last block is left out
MoreBlocks == line.blkcnt # 0

lineIdle ==
  [line EXCEPT !.state = IF dm.write THEN "WRITE_DAT"
                         ELSE IF dm.read THEN "READ_WAIT" ELSE "IDLE",
               !.cnt = 0, !.we = FALSE, !.rd = FALSE, !.next_block = FALSE,
               !.blkcnt = setup.blocks - 1, !.crc_status = 0, !.crc_s = FALSE,
               !.got = 0]

readWait(bit) ==
  [line EXCEPT !.state = IF bit THEN "READ_DAT" ELSE @,
               !.cnt = 0, !.next_block = FALSE]

(* A word is handed to the FIFO when its last bits are in.                  *)
readDat(good) ==
  LET last == line.cnt % WORD = WORD - 1
      checked == line.cnt = data_cycles + CRC_CYCLES - 1
  IN IF line.cnt < data_cycles
     THEN [line EXCEPT !.cnt = @ + 1, !.we = last, !.crc_ok = TRUE,
                       !.got = IF last THEN @ + 1 ELSE @]
     ELSE IF line.cnt < data_cycles + CRC_CYCLES
     THEN [line EXCEPT !.cnt = @ + 1, !.we = FALSE,
                       !.crc_ok = IF checked THEN good ELSE @,
                       !.next_block = IF checked THEN MoreBlocks ELSE @,
                       !.blkcnt = IF checked /\ @ > 0 THEN @ - 1 ELSE @]
     ELSE [line EXCEPT !.state = IF line.next_block /\ line.crc_ok
                                 THEN "READ_WAIT" ELSE "IDLE"]

(* The next word is asked for before the last bits of this one are sent, to *)
(* make up for the delay of the FIFO.                                       *)
AskAt_Slip == WORD  \* wrong: with the last bits
AskAt == WORD - 2

writeDat(bit) ==
  [line EXCEPT !.state = IF line.cnt = data_cycles + CRC_CYCLES + 4 /\ bit THEN "WRITE_CRC" ELSE @,
               !.cnt = IF @ = data_cycles + CRC_CYCLES + 4 THEN @ ELSE @ + 1,
               !.crc_ok = FALSE, !.next_block = FALSE,
               !.rd = line.cnt \in 2 .. data_cycles + 1 /\ line.cnt % WORD = AskAt % WORD,
               !.first = IF line.cnt % WORD = 1 /\ line.cnt < data_cycles
                         THEN dout(tx) ELSE @]

(* The card says whether the block's checksum was right, ...                *)
writeCrc(good) ==
  [line EXCEPT !.state = IF line.crc_status = 3 THEN "WRITE_BUSY" ELSE @,
               !.crc_s = IF line.crc_status = 2 THEN good ELSE @,
               !.crc_status = (@ + 1) % 4, !.busy_int = TRUE]

(* ... and holds the line low until it has stored the block.                *)
writeBusy(bit) ==
  LET over == ~line.busy_int
  IN [line EXCEPT !.state = IF over /\ line.next_block /\ line.crc_ok THEN "WRITE_DAT"
                            ELSE IF over THEN "IDLE" ELSE @,
                  !.crc_ok = line.crc_s,
                  !.busy_int = bit,
                  !.next_block = MoreBlocks,
                  !.blkcnt = IF over /\ @ > 0 THEN @ - 1 ELSE @,
                  !.crc_status = IF over THEN 0 ELSE @,
                  !.cnt = 0]

lineNext(bit, good) ==
  LET next == CASE line.state = "IDLE" -> lineIdle
                [] line.state = "READ_WAIT" -> readWait(bit)
                [] line.state = "READ_DAT" -> readDat(good)
                [] line.state = "WRITE_DAT" -> writeDat(bit)
                [] line.state = "WRITE_CRC" -> writeCrc(good)
                [] line.state = "WRITE_BUSY" -> writeBusy(bit)
  IN IF dm.write /\ dm.read THEN [next EXCEPT !.state = "IDLE"] ELSE next

DataSdEdge ==
  /\ tick = setup.period /\ tick' = 0
  /\ dm' = dmNext
  /\ \E bit, good \in BOOLEAN : line' = lineNext(bit, good)
  /\ LET w == WriteEdge(rx, enabled, line.we, line.got)
         r == ReadEdge(tx, enabled, line.rd)
         on == dmNext.en_rx \/ dmNext.en_tx
     IN /\ rx' = IF on THEN w ELSE Held(w)
        /\ tx' = IF on THEN r ELSE Held(r)
  /\ sent' = IF /\ line.state = "WRITE_DAT"
                /\ line.cnt \in WORD .. data_cycles /\ line.cnt % WORD = 0
             THEN Append(sent, IF dout(tx) = line.first THEN line.first ELSE 0)
             ELSE sent
  /\ request' = "none"
  /\ UNCHANGED <<setup, dma, bus_wait, wbm_ack, ram>>

-----------------------------------------------------------------------------
(* Software, long after the last transfer: it clears the status, and issues *)
(* a command with data.                                                     *)
Quiet == dm.state = "IDLE" /\ ~enabled /\ request = "none"

DataClear ==
  /\ Quiet /\ dm.status # {}
  /\ dm' = [dm EXCEPT !.status = {}]
  /\ UNCHANGED <<setup, request, line, rx, tx, dma, bus_wait, wbm_ack, tick, ram, sent>>

NoWords == [a \in 0 .. BLOCK * setup.blocks - 1 |-> 0]

(* What an earlier transfer has left in a FIFO is no word of this one.      *)
Stale(f) == [f EXCEPT !.cell = [s \in 0 .. DEPTH - 1 |-> 0]]

DataIssue ==
  /\ Quiet /\ dm.status = {}
  /\ setup' \in [blocks : BlockCounts, timeout : DataTimeouts, period : Periods,
                 dir : {"rx", "tx"}]
  /\ request' = setup'.dir
  /\ tick' = 0 /\ ram' = NoWords' /\ sent' = <<>>
  /\ rx' = Stale(rx) /\ tx' = Stale(tx) /\ line' = [line EXCEPT !.first = 0]
  /\ UNCHANGED <<dm, dma, bus_wait, wbm_ack>>

DataInit ==
  /\ setup = [blocks |-> 1, timeout |-> 0, period |-> 2, dir |-> "rx"]
  /\ request = "none"
  /\ dm = [state |-> "IDLE", en_rx |-> FALSE, en_tx |-> FALSE, write |-> FALSE,
           read |-> FALSE, trans_done |-> FALSE, tx_cycle |-> FALSE,
           watchdog |-> 0, status |-> {}]
  /\ line = [state |-> "IDLE", cnt |-> 0, we |-> FALSE, rd |-> FALSE,
             crc_ok |-> FALSE, crc_s |-> FALSE, crc_status |-> 0,
             busy_int |-> FALSE, next_block |-> FALSE, blkcnt |-> 0,
             got |-> 0, first |-> 0]
  /\ rx = EmptyFifo /\ tx = EmptyFifo
  /\ dma = [adr |-> 0, rd_reg |-> FALSE, rd_ack |-> TRUE]
  /\ bus_wait = 0 /\ wbm_ack = FALSE /\ tick = 0
  /\ ram = NoWords /\ sent = <<>>

DataNext == DataWbEdge \/ DataSdEdge \/ DataClear \/ DataIssue

DataSpec ==
  /\ DataInit /\ [][DataNext]_dataVars
  /\ WF_dataVars(DataWbEdge) /\ WF_dataVars(DataSdEdge)

-----------------------------------------------------------------------------
(* Words get into memory in order, none left out, repeated or garbled,      *)
(* however the bus and the card pause (the FIFO, the filler's fifo_rd_ack). *)
MemoryInOrder ==
  \A a \in DOMAIN ram :
    ram[a] # 0 => ram[a] = a + 1 /\ \A b \in 0 .. a - 1 : ram[b] # 0

(* Words get on the line in order, none left out, repeated or garbled: the  *)
(* word that is being sent is still there when its last bits are due, even  *)
(* though the next one has been asked for (sd_data_serial_host.v, "not 7 -  *)
(* read delay").                                                            *)
LineInOrder == \A n \in 1 .. Len(sent) : sent[n] = n

(* A word's place in the FIFO is free for two card edges before its last    *)
(* bits are sent, and only the time of an access protects it then.          *)
Timely == setup.period <= AckMin + 2

(* Memory gets its words in order whatever the bus and the card do, the     *)
(* line those of a transfer whose card clock is not too slow for the bus.   *)
WordsInOrder == MemoryInOrder /\ (Timely => LineInOrder)

(* A transfer that is reported complete is whole: everything is on the card *)
(* or, when the FIFO is switched off, in memory (sd_data_master.v, as its   *)
(* TODO has it: "wishbone read all data case").                             *)
CompleteIsWhole ==
  "CC" \in dm.status =>
    IF setup.dir = "tx" THEN Len(sent) = Words
    ELSE dm.en_rx \/ \A a \in DOMAIN ram : ram[a] # 0

(* The words that a FIFO's reader has still to take.                        *)
Level(f) == (f.wp + 2 * DEPTH - f.rp) % (2 * DEPTH)
Waiting(f) == {f.cell[Slot(f.rp + i)] : i \in 0 .. Level(f) - 1}

(* The filler needs Service bus cycles for a word, so a bus that is slower  *)
(* than the card falls behind by Lag with each, and has all w words in      *)
(* memory at most Most cycles after the last was handed to the FIFO.  The   *)
(* master switches the FIFO off three card cycles after the last checksum.  *)
Service == AckMax + 2
Lag(t) == IF Service > WORD * t THEN Service - WORD * t ELSE 0
Most(t, w) == Service + 1 + (w - 1) * Lag(t)
BusKeepsUp(t, blocks) == Most(t, BLOCK * blocks) <= (CRC_CYCLES + 3) * t

(* What a transfer that is reported complete may be sure of.  A write is on *)
(* the card.  Of a read every word is in memory or waits in the FIFO, until *)
(* the master switches it off; that no word is lost then takes a bus that   *)
(* keeps up (sd_data_master.v, sd_fifo_filler.v).                           *)
CompleteLeavesNothingOut ==
  "CC" \in dm.status =>
    IF setup.dir = "tx" THEN Len(sent) = Words
    ELSE \A a \in DOMAIN ram :
           \/ ram[a] # 0
           \/ IF dm.en_rx THEN a + 1 \in Waiting(rx)
              ELSE ~BusKeepsUp(setup.period, setup.blocks)

(* With a timeout every transfer ends, and says how.                        *)
DataEnds ==
  (dm.state # "IDLE" /\ setup.timeout > 0) ~> (dm.state = "IDLE" /\ dm.status # {})
=============================================================================
