------------------------------- MODULE Clint -------------------------------
(***************************************************************************)
(* The core-local interruptor of rtl/clint.v: the 64-bit mtime counter,    *)
(* the two halves of mtimecmp, msip, and the two interrupt lines, behind   *)
(* the AXI4-Lite slave of AxiLiteSlave.  A bus word is one half of mtime;  *)
(* Half is the number of its values (2^32 in the hardware).                *)
(*                                                                         *)
(* The program is the machine-mode firmware (external): it reads the time  *)
(* as high, low, high until both high words agree, and moves the deadline  *)
(* by first raising the high word of mtimecmp out of reach.  Its accesses  *)
(* take any number of cycles each, and the clock never waits for them.     *)
(***************************************************************************)
EXTENDS Naturals, Sequences

CONSTANTS Half,      \* the number of values of a 32-bit half
          Deadlines, \* the 64-bit deadlines the program asks for
          IpiWords,  \* the words the program writes to msip
          MaxTime    \* bound on mtime: the run ends here, far below wrap-round

ASSUME ClintAssumption ==
  /\ Half \in Nat \ {0, 1}
  /\ Deadlines \subseteq 0 .. Half * Half - 1
  /\ IpiWords \subseteq 0 .. Half - 1
  /\ MaxTime \in 0 .. (Half - 1) * Half - 1

VARIABLES
  state_write, axi_awready, axi_wready, axi_bvalid, axi_awaddr,
  state_read, axi_arready, axi_rvalid, axi_araddr,
  regs, op, aw, w, ar, rsp,
  mtime,
  todo,      \* the accesses the program has still to make in this call
  task,      \* the call: "none", "read", "arm" or "ipi"
  got,       \* the words it has read so far
  since,     \* mtime when the time read in progress began
  timeRead,  \* the last completed time read: its bounds and its value
  armed      \* the deadlines mtimecmp may stand for

ClintReg == {"msip", "mtimecmp_l", "mtimecmp_h"}
ReadOnlyReg == {"mtime_l", "mtime_h"}
Lane == {"word"}

Bus == INSTANCE AxiLiteSlave WITH
         Reg <- ClintReg, Other <- ReadOnlyReg \cup {"unmapped"},
         Lane <- Lane, Byte <- 0 .. Half - 1, ZeroByte <- 0, WLeads <- FALSE

softVars == <<todo, task, got, since, timeRead, armed>>
vars == <<Bus!vars, mtime, softVars>>

Num(word) == word["word"]
Wrd(n) == [l \in Lane |-> n]
Low(n) == n % Half
High(n) == n \div Half

-----------------------------------------------------------------------------
(* A wrong read multiplexer, with the halves of mtime swapped.              *)
View_Slip ==
  [a \in ClintReg \cup ReadOnlyReg |->
     CASE a = "msip" -> Wrd(Num(regs["msip"]) % 2)
       [] a = "mtime_l" -> Wrd(High(mtime))
       [] a = "mtime_h" -> Wrd(Low(mtime))
       [] OTHER -> regs[a]]

(* What a read returns: msip shows only the bit that drives the line.       *)
View ==
  [a \in ClintReg \cup ReadOnlyReg |->
     CASE a = "msip" -> Wrd(Num(regs["msip"]) % 2)
       [] a = "mtime_l" -> Wrd(Low(mtime))
       [] a = "mtime_h" -> Wrd(High(mtime))
       [] OTHER -> regs[a]]

(* Wrong device logic: the halves of the deadline swapped, and a comparison *)
(* that starts a tick late.                                                 *)
mtimecmp_Slip == Num(regs["mtimecmp_l"]) * Half + Num(regs["mtimecmp_h"])

mtimecmp == Num(regs["mtimecmp_h"]) * Half + Num(regs["mtimecmp_l"])

sftwr_irq == Num(regs["msip"]) % 2 = 1
timer_irq_Slip == mtime > mtimecmp
timer_irq == mtime >= mtimecmp

Count == mtime' = (mtime + 1) % (Half * Half)

-----------------------------------------------------------------------------
(* The program.  Its calls are scripts of accesses, one at a time.          *)
Read(a) == [kind |-> "read", addr |-> a]
Write(a, n) == [kind |-> "write", addr |-> a, data |-> Wrd(n), strb |-> Lane]

TimeScript == <<Read("mtime_h"), Read("mtime_l"), Read("mtime_h")>>
ArmScript(d) == <<Write("mtimecmp_h", Half - 1),
                  Write("mtimecmp_l", Low(d)),
                  Write("mtimecmp_h", High(d))>>

NoOp == Bus!NoOp

CallTime ==
  /\ task = "none"
  /\ task' = "read" /\ todo' = TimeScript /\ got' = <<>> /\ since' = mtime
  /\ UNCHANGED <<timeRead, armed>>

CallArm(d) ==
  /\ task = "none"
  /\ task' = "arm" /\ todo' = ArmScript(d)
  /\ armed' = [armed EXCEPT !.new = d]
  /\ UNCHANGED <<got, since, timeRead>>

CallIpi(n) ==
  /\ task = "none"
  /\ task' = "ipi" /\ todo' = <<Write("msip", n)>>
  /\ UNCHANGED <<got, since, timeRead, armed>>

Return ==
  /\ task # "none" /\ todo = <<>>
  /\ task = "read" => got[1] = got[3]
  /\ timeRead' = IF task = "read"
                   THEN [since |-> since, value |-> got[1] * Half + got[2],
                         until |-> mtime]
                   ELSE timeRead
  /\ armed' = IF task = "arm" THEN [armed EXCEPT !.old = armed.new] ELSE armed
  /\ task' = "none" /\ got' = <<>>
  /\ UNCHANGED <<todo, since>>

(* The high word moved while the low one was read: start over.              *)
Retry ==
  /\ task = "read" /\ todo = <<>>
  /\ got[1] # got[3]
  /\ todo' = TimeScript /\ got' = <<>>
  /\ UNCHANGED <<task, since, timeRead, armed>>

(* Between accesses the program runs; one access is open at a time.         *)
Think ==
  /\ op = NoOp /\ op' = NoOp
  /\ \/ CallTime
     \/ \E d \in Deadlines : CallArm(d)
     \/ \E n \in IpiWords : CallIpi(n)
     \/ Return
     \/ Retry
     \/ UNCHANGED softVars

Issue ==
  /\ op = NoOp /\ todo # <<>>
  /\ op' = Head(todo)
  /\ todo' = Tail(todo)
  /\ UNCHANGED <<task, got, since, timeRead, armed>>

Blocked ==
  /\ op # NoOp /\ op' = op
  /\ UNCHANGED softVars

Collect ==
  /\ op # NoOp /\ op' = NoOp
  /\ got' = IF op.kind = "read" THEN Append(got, Num(rsp')) ELSE got
  /\ UNCHANGED <<todo, task, since, timeRead, armed>>

Program == Think \/ Issue \/ Blocked \/ Collect

-----------------------------------------------------------------------------
Init ==
  /\ Bus!Init /\ axi_awaddr = "unmapped" /\ axi_araddr = "unmapped"
  /\ mtime = 0
  /\ todo = <<>> /\ task = "none" /\ got = <<>> /\ since = 0
  /\ timeRead = [since |-> 0, value |-> 0, until |-> 0]
  /\ armed = [old |-> 0, new |-> 0]

Next ==
  /\ mtime < MaxTime
  /\ \E BREADY, RREADY \in BOOLEAN : Bus!BusCycle(BREADY, RREADY, View)
  /\ Count
  /\ Program

Spec == Init /\ [][Next]_vars

-----------------------------------------------------------------------------
(* A time read of several bus accesses returns a value mtime had during the *)
(* call: the halves cannot be torn apart by a carry between them.           *)
TimeReadIsCurrent ==
  timeRead.since <= timeRead.value /\ timeRead.value <= timeRead.until

(* No early interrupt: while the deadline is being moved word by word, the  *)
(* timer line is high only if the old or the new deadline has passed.       *)
NoEarlyTimer == timer_irq => mtime >= armed.old \/ mtime >= armed.new

(* No lost or late interrupt: once the call that armed a deadline is over,  *)
(* the line is high exactly from that deadline on.                          *)
TimerKeepsDeadline == task # "arm" => (timer_irq <=> mtime >= armed.old)
=============================================================================
