----------------------------- MODULE Clint_proof -----------------------------
(***************************************************************************)
(* Proofs about Clint, for halves of any number of values, any deadlines   *)
(* and accesses that take any number of cycles: the time read is whole and *)
(* the timer is on time.  The slave of every access is known from          *)
(* AxiLiteSlave_proof, whose interconnect never lets data overtake its     *)
(* address.                                                                *)
(***************************************************************************)
EXTENDS Clint, Integers, SequenceTheorems, TLAPS

Slave == INSTANCE AxiLiteSlave_proof WITH
           Reg <- ClintReg, Other <- ReadOnlyReg \cup {"unmapped"},
           Lane <- Lane, Byte <- 0 .. Half - 1, ZeroByte <- 0, WLeads <- FALSE

(* The slave is in step with the access, and a write is in its register     *)
(* before its answer.                                                       *)
BusInv == Slave!Inv /\ Slave!WrittenBeforeAnswer

(* The clock, and the numbers the program keeps.                            *)
TimesInv ==
  /\ mtime \in 0 .. MaxTime /\ since \in 0 .. mtime
  /\ armed \in [old : 0 .. Half * Half - 1, new : 0 .. Half * Half - 1]
  /\ task \in {"none", "read", "arm", "ipi"}

(* mtimecmp is deadline d, or is out of reach whatever its low half.        *)
Stands(d) == /\ regs["mtimecmp_h"] = Wrd(High(d))
             /\ regs["mtimecmp_l"] = Wrd(Low(d))
Parked == regs["mtimecmp_h"] = Wrd(Half - 1)
LowIsNew == regs["mtimecmp_l"] = Wrd(Low(armed.new))

At(access, rest) == op = access /\ todo = rest

(* Where the program stands in its call, and what the registers hold there. *)
ArmInv ==
  LET first == Write("mtimecmp_h", Half - 1)
      second == Write("mtimecmp_l", Low(armed.new))
      third == Write("mtimecmp_h", High(armed.new))
  IN  \/ At(NoOp, <<first, second, third>>) /\ Stands(armed.old)
      \/ At(first, <<second, third>>) /\ (Stands(armed.old) \/ Parked)
      \/ At(NoOp, <<second, third>>) /\ Parked
      \/ At(second, <<third>>) /\ Parked
      \/ At(NoOp, <<third>>) /\ Parked /\ LowIsNew
      \/ At(third, <<>>) /\ LowIsNew /\ (Parked \/ Stands(armed.new))
      \/ At(NoOp, <<>>) /\ Stands(armed.new)

(* What the program has read are halves of times of this call, in order.    *)
GotOne == \E t \in since .. mtime : got = <<High(t)>>
GotTwo == \E t \in since .. mtime : \E u \in t .. mtime : got = <<High(t), Low(u)>>
GotAll == \E t \in since .. mtime : \E u \in t .. mtime : \E v \in u .. mtime :
            got = <<High(t), Low(u), High(v)>>

ReadInv ==
  LET high == Read("mtime_h")
      low == Read("mtime_l")
  IN  \/ At(NoOp, <<high, low, high>>) /\ got = <<>>
      \/ At(high, <<low, high>>) /\ got = <<>>
      \/ At(NoOp, <<low, high>>) /\ GotOne
      \/ At(low, <<high>>) /\ GotOne
      \/ At(NoOp, <<high>>) /\ GotTwo
      \/ At(high, <<>>) /\ GotTwo
      \/ At(NoOp, <<>>) /\ GotAll

IpiInv ==
  \E n \in 0 .. Half - 1 :
     \/ At(NoOp, <<Write("msip", n)>>)
     \/ At(Write("msip", n), <<>>)
     \/ At(NoOp, <<>>)

CallInv ==
  /\ task = "none" => At(NoOp, <<>>)
  /\ task = "read" => ReadInv
  /\ task = "ipi" => IpiInv
  /\ task = "arm" => ArmInv
  /\ task # "arm" => Stands(armed.old)

ClintInv == BusInv /\ TimesInv /\ CallInv /\ TimeReadIsCurrent

-----------------------------------------------------------------------------
(* The two names of the slave are one.                                      *)
LEMMA SlaveAssumption == Slave!AxiLiteAssumption
BY ClintAssumption DEF Slave!AxiLiteAssumption, ClintReg, ReadOnlyReg

LEMMA SameInit == Bus!Init <=> Slave!Init
BY DEF Bus!Init, Slave!Init, Bus!Addr, Slave!Addr, Bus!ZeroWord, Slave!ZeroWord,
       Bus!NoOp, Slave!NoOp

LEMMA SameCycle ==
  ASSUME NEW BREADY, NEW RREADY, Bus!BusCycle(BREADY, RREADY, View)
  PROVE  Slave!BusCycle(BREADY, RREADY, View)
<1>1. Slave!WriteFsm(BREADY)
  BY DEF Bus!BusCycle, Bus!Slave, Bus!WriteFsm, Slave!WriteFsm, Bus!WriteIdle,
     Slave!WriteIdle, Bus!WaddrWithData, Slave!WaddrWithData, Bus!WaddrAlone,
     Slave!WaddrAlone, Bus!WaddrWait, Slave!WaddrWait, Bus!WdataBeat,
     Slave!WdataBeat, Bus!WdataWait, Slave!WdataWait, Bus!Acknowledge,
     Slave!Acknowledge, Bus!AWVALID, Slave!AWVALID, Bus!WVALID, Slave!WVALID
<1>2. Slave!RegisterWrite
  BY DEF Bus!BusCycle, Bus!Slave, Bus!RegisterWrite, Slave!RegisterWrite,
     Bus!WriteAddr, Slave!WriteAddr, Bus!Merge, Slave!Merge, Bus!AWVALID,
     Slave!AWVALID, Bus!WVALID, Slave!WVALID
<1>3. Slave!ReadFsm(RREADY)
  BY DEF Bus!BusCycle, Bus!Slave, Bus!ReadFsm, Slave!ReadFsm, Bus!ReadIdle,
     Slave!ReadIdle, Bus!RaddrBeat, Slave!RaddrBeat, Bus!RaddrWait,
     Slave!RaddrWait, Bus!RdataBeat, Slave!RdataBeat, Bus!RdataWait,
     Slave!RdataWait, Bus!ARVALID, Slave!ARVALID, Bus!readVars, Slave!readVars
<1>4. Slave!Master(BREADY, RREADY, View)
  BY DEF Bus!BusCycle, Bus!Master, Slave!Master, Bus!MasterIdle,
     Slave!MasterIdle, Bus!IssueWrite, Slave!IssueWrite, Bus!IssueRead,
     Slave!IssueRead, Bus!MasterWait, Slave!MasterWait, Bus!MasterAnswered,
     Slave!MasterAnswered, Bus!Answered, Slave!Answered, Bus!Carry,
     Slave!Carry, Bus!MayOfferW, Slave!MayOfferW, Bus!RDATA, Slave!RDATA,
     Bus!ZeroWord, Slave!ZeroWord, Bus!NoOp, Slave!NoOp, Bus!WriteOp,
     Slave!WriteOp, Bus!ReadOp, Slave!ReadOp, Bus!Word, Slave!Word, Bus!Addr,
     Slave!Addr, Bus!masterVars, Slave!masterVars
<1> QED
  BY <1>1, <1>2, <1>3, <1>4 DEF Slave!BusCycle, Slave!Slave

-----------------------------------------------------------------------------
(* Halves of a time.                                                        *)
LEMMA Halves ==
  ASSUME NEW t \in 0 .. Half * Half - 1
  PROVE  /\ Low(t) \in 0 .. Half - 1 /\ High(t) \in 0 .. Half - 1
         /\ t = High(t) * Half + Low(t)
<1>1. Half \in Nat /\ Half > 1
  BY ClintAssumption
<1>2. Low(t) \in 0 .. Half - 1 /\ t = High(t) * Half + Low(t) /\ High(t) \in Int
  BY <1>1 DEF Low, High
<1>3. High(t) < Half
  BY <1>1, <1>2
<1>4. High(t) >= 0
  BY <1>1, <1>2
<1> QED
  BY <1>1, <1>2, <1>3, <1>4

(* Two halves of times and the time between them, if no carry came.         *)
LEMMA WholeTime ==
  ASSUME NEW t \in 0 .. Half * Half - 1, NEW u \in 0 .. Half * Half - 1,
         NEW v \in 0 .. Half * Half - 1, t <= u, u <= v, High(t) = High(v)
  PROVE  High(t) = High(u)
<1>1. Half \in Nat /\ Half > 1
  BY ClintAssumption
<1>2. /\ t = High(t) * Half + Low(t) /\ u = High(u) * Half + Low(u)
      /\ v = High(v) * Half + Low(v)
      /\ Low(t) \in 0 .. Half - 1 /\ Low(u) \in 0 .. Half - 1 /\ Low(v) \in 0 .. Half - 1
      /\ High(t) \in Nat /\ High(u) \in Nat /\ High(v) \in Nat
  BY Halves, <1>1
<1>3. \A a, b \in Nat : a < b => a * Half + Half <= b * Half
  <2> SUFFICES ASSUME NEW a \in Nat, NEW b \in Nat, a < b
               PROVE  a * Half + Half <= b * Half
    OBVIOUS
  <2>1. PICK k \in Nat : b = a + 1 + k
    <3>1. b - a - 1 \in Nat /\ b = a + 1 + (b - a - 1)
      OBVIOUS
    <3> QED
      BY <3>1
  <2>2. b * Half = a * Half + Half + k * Half /\ k * Half \in Nat /\ a * Half \in Nat
    BY <1>1, <2>1
  <2> QED
    BY <1>1, <2>2
<1>4. ~ (High(u) < High(t))
  <2>1. High(u) < High(t) => High(u) * Half + Half <= High(t) * Half
    BY <1>2, <1>3
  <2>2. High(u) * Half \in Nat /\ High(t) * Half \in Nat
    BY <1>1, <1>2
  <2> QED
    BY <1>1, <1>2, <2>1, <2>2
<1>5. ~ (High(v) < High(u))
  <2>1. High(v) < High(u) => High(v) * Half + Half <= High(u) * Half
    BY <1>2, <1>3
  <2>2. High(u) * Half \in Nat /\ High(v) * Half \in Nat
    BY <1>1, <1>2
  <2> QED
    BY <1>1, <1>2, <2>1, <2>2
<1> QED
  BY <1>2, <1>4, <1>5

(* mtime stays below a deadline whose high half is out of reach.            *)
LEMMA Bounds ==
  /\ Half \in Nat /\ Half > 1 /\ Half * Half \in Nat /\ (Half - 1) * Half \in Nat
  /\ MaxTime \in Nat /\ MaxTime < (Half - 1) * Half
  /\ (Half - 1) * Half < Half * Half
<1>1. Half \in Nat /\ Half > 1
  BY ClintAssumption
<1>2. (Half - 1) * Half = Half * Half - Half /\ Half * Half \in Nat
  BY <1>1
<1>3. (Half - 1) * Half \in Nat
  BY <1>1
<1> QED
  BY <1>1, <1>2, <1>3, ClintAssumption

-----------------------------------------------------------------------------
(* What a cycle does to the registers, seen from the access.                *)
LEMMA ViewShowsWords ==
  ASSUME Slave!Inv, TimesInv PROVE Slave!ShowsWords(View)
<1>1. mtime \in 0 .. Half * Half - 1
  BY Bounds DEF TimesInv
<1>2. Low(mtime) \in 0 .. Half - 1 /\ High(mtime) \in 0 .. Half - 1
  BY <1>1, Halves
<1>3. regs \in [ClintReg -> [Lane -> 0 .. Half - 1]]
  BY DEF Slave!Inv, Slave!TypeOK, Slave!Word
<1>4. Num(regs["msip"]) % 2 \in 0 .. Half - 1
  <2>1. Num(regs["msip"]) \in Nat
    BY <1>3, Bounds DEF Num, ClintReg, Lane
  <2> QED
    BY <2>1, Bounds
<1> QED
  BY <1>2, <1>3, <1>4 DEF Slave!ShowsWords, View, Slave!Word, Wrd, ClintReg, ReadOnlyReg

LEMMA BusStep ==
  ASSUME BusInv, TimesInv, NEW BREADY \in BOOLEAN, NEW RREADY \in BOOLEAN,
         Bus!BusCycle(BREADY, RREADY, View)
  PROVE  BusInv'
<1>1. Slave!BusCycle(BREADY, RREADY, View)
  BY SameCycle
<1>2. Slave!ShowsWords(View)
  BY ViewShowsWords DEF BusInv
<1>3. Slave!Inv'
  BY <1>1, <1>2, SlaveAssumption, Slave!BusCycleInv DEF BusInv, Slave!AddressLeads
<1>4. Slave!WrittenBeforeAnswer'
  BY <1>1, SlaveAssumption, Slave!CycleWritten DEF BusInv, Slave!AddressLeads
<1> QED
  BY <1>3, <1>4 DEF BusInv

(* No register moves between accesses.                                      *)
LEMMA BetweenAccesses ==
  ASSUME BusInv, NEW BREADY \in BOOLEAN, NEW RREADY \in BOOLEAN,
         Slave!BusCycle(BREADY, RREADY, View), op = NoOp
  PROVE  regs' = regs
<1>1. Slave!RegisterWrite
  BY DEF Slave!BusCycle, Slave!Slave
<1>2. op.kind = "none"
  BY DEF NoOp, Bus!NoOp
<1> QED
  BY <1>1, <1>2, SlaveAssumption, Slave!WriteLands DEF BusInv

(* A read moves no register and returns what the multiplexer shows in the   *)
(* cycle of its answer.                                                     *)
LEMMA Reading ==
  ASSUME BusInv, NEW BREADY \in BOOLEAN, NEW RREADY \in BOOLEAN,
         Slave!BusCycle(BREADY, RREADY, View),
         NEW a \in ReadOnlyReg, op = Read(a)
  PROVE  /\ regs' = regs
         /\ op' = NoOp => rsp' = View[a]
<1>1. op.kind = "read" /\ op.addr = a
  BY DEF Read
<1>2. regs' = regs
  <2>1. Slave!RegisterWrite
    BY DEF Slave!BusCycle, Slave!Slave
  <2> QED
    BY <1>1, <2>1, SlaveAssumption, Slave!WriteLands DEF BusInv
<1>3. ASSUME op' = NoOp PROVE rsp' = View[a]
  <2>1. op # op' /\ op # Slave!NoOp
    BY <1>1, <1>3 DEF NoOp, Bus!NoOp, Slave!NoOp
  <2>2. Slave!MasterAnswered(BREADY, RREADY, View)
    BY <2>1 DEF Slave!BusCycle, Slave!Master, Slave!MasterIdle, Slave!IssueWrite,
       Slave!IssueRead, Slave!MasterWait
  <2>3. axi_rvalid
    BY <1>1, <2>2 DEF Slave!MasterAnswered, Slave!Answered
  <2>4. axi_araddr = a
    BY <1>1, <2>3 DEF BusInv, Slave!Inv, Slave!ReadTracksAccess
  <2> QED
    BY <1>1, <2>2, <2>4 DEF Slave!MasterAnswered, Slave!RDATA, View
<1> QED
  BY <1>2, <1>3

(* A write moves its register only, to its data, before its answer.         *)
LEMMA Writing ==
  ASSUME BusInv, NEW BREADY \in BOOLEAN, NEW RREADY \in BOOLEAN,
         Slave!BusCycle(BREADY, RREADY, View),
         NEW a \in ClintReg, NEW n \in 0 .. Half - 1, op = Write(a, n)
  PROVE  /\ regs' = regs \/ regs' = [regs EXCEPT ![a] = Wrd(n)]
         /\ op' = NoOp => regs' = regs /\ regs[a] = Wrd(n)
<1>1. op.kind = "write" /\ op.addr = a /\ op.data = Wrd(n) /\ op.strb = Lane
  BY DEF Write
<1>2. \A old : Slave!Merge(old, Wrd(n), Lane) = Wrd(n)
  BY DEF Slave!Merge, Wrd
<1>3. Slave!RegisterWrite
  BY DEF Slave!BusCycle, Slave!Slave
<1>4. regs' = regs \/ regs' = [regs EXCEPT ![a] = Wrd(n)]
  BY <1>1, <1>2, <1>3, SlaveAssumption, Slave!WriteLands DEF BusInv
<1>5. ASSUME op' = NoOp PROVE regs' = regs /\ regs[a] = Wrd(n)
  <2>1. op # op' /\ op # Slave!NoOp
    BY <1>1, <1>5 DEF NoOp, Bus!NoOp, Slave!NoOp
  <2>2. Slave!MasterAnswered(BREADY, RREADY, View)
    BY <2>1 DEF Slave!BusCycle, Slave!Master, Slave!MasterIdle, Slave!IssueWrite,
       Slave!IssueRead, Slave!MasterWait
  <2>3. w = "done"
    BY <1>1, <2>2 DEF Slave!MasterAnswered, Slave!Answered, BusInv, Slave!Inv,
       Slave!WriteTracksAccess
  <2>4. regs[a] = Wrd(n)
    BY <1>1, <1>2, <2>3 DEF BusInv, Slave!WrittenBeforeAnswer
  <2> QED
    BY <1>3, <2>3, <2>4 DEF Slave!RegisterWrite, Slave!WVALID
<1> QED
  BY <1>4, <1>5

-----------------------------------------------------------------------------
(* One clock edge: what every case below starts from.                       *)
Edge(BREADY, RREADY) ==
  /\ ClintInv /\ mtime < MaxTime /\ Count
  /\ Slave!BusCycle(BREADY, RREADY, View)

LEMMA ClockAhead ==
  ASSUME NEW BREADY \in BOOLEAN, NEW RREADY \in BOOLEAN, Edge(BREADY, RREADY)
  PROVE  /\ mtime' = mtime + 1 /\ mtime' \in 0 .. MaxTime /\ mtime \in 0 .. MaxTime
         /\ MaxTime < Half * Half
<1>1. mtime \in Nat /\ mtime + 1 <= MaxTime /\ MaxTime < Half * Half
  BY Bounds DEF Edge, ClintInv, TimesInv
<1>2. (mtime + 1) % (Half * Half) = mtime + 1
  BY <1>1, Bounds
<1> QED
  BY <1>1, <1>2, Bounds DEF Edge, Count

(* As time goes on, times that have been are still times that have been.    *)
LEMMA GotKept ==
  ASSUME mtime \in Nat, since \in Nat, mtime' = mtime + 1, since' = since, got' = got
  PROVE  /\ GotOne => GotOne'
         /\ GotTwo => GotTwo'
         /\ GotAll => GotAll'
<1>1. \A t \in Nat : t .. mtime \subseteq t .. mtime'
  OBVIOUS
<1>2. GotOne => GotOne'
  BY <1>1 DEF GotOne
<1>3. GotTwo => GotTwo'
  BY <1>1 DEF GotTwo
<1>4. GotAll => GotAll'
  BY <1>1 DEF GotAll
<1> QED
  BY <1>2, <1>3, <1>4

(* What a step of the program has to show.                                  *)
Served == /\ since' \in 0 .. mtime'
          /\ armed' \in [old : 0 .. Half * Half - 1, new : 0 .. Half * Half - 1]
          /\ task' \in {"none", "read", "arm", "ipi"}
          /\ CallInv' /\ TimeReadIsCurrent'

(* The program between accesses: it calls, returns, starts over or waits.   *)
LEMMA ThinkStep ==
  ASSUME NEW BREADY \in BOOLEAN, NEW RREADY \in BOOLEAN,
         Edge(BREADY, RREADY), Think
  PROVE  Served
<1>1. /\ mtime' = mtime + 1 /\ mtime \in Nat /\ mtime < Half * Half
      /\ since \in Nat /\ since <= mtime
  BY ClockAhead, Bounds DEF Edge, ClintInv, TimesInv
<1>2. op = NoOp /\ op' = NoOp /\ regs' = regs
  BY BetweenAccesses DEF Edge, ClintInv, Think
<1>3. CallInv /\ TimesInv /\ TimeReadIsCurrent
  BY DEF Edge, ClintInv
<1>4. Half * Half \in Nat
  BY Bounds
<1>5. CASE CallTime
  <2>1. ReadInv'
    BY <1>2, <1>5 DEF CallTime, TimeScript, ReadInv, At
  <2> QED
    BY <1>1, <1>2, <1>3, <1>5, <2>1
    DEF CallTime, Served, TimesInv, CallInv, Stands, TimeReadIsCurrent
<1>6. ASSUME NEW d \in Deadlines, CallArm(d) PROVE Served
  <2>1. d \in 0 .. Half * Half - 1
    BY ClintAssumption
  <2>2. armed' \in [old : 0 .. Half * Half - 1, new : 0 .. Half * Half - 1]
        /\ armed'.old = armed.old /\ armed'.new = d
    BY <1>3, <1>6, <2>1 DEF CallArm, TimesInv
  <2>3. ArmInv'
    <3>1. task = "none" /\ Stands(armed.old)
      BY <1>3, <1>6 DEF CallArm, CallInv
    <3>2. todo' = ArmScript(d)
      BY <1>6 DEF CallArm
    <3>3. Stands(armed.old)'
      BY <1>2, <2>2, <3>1 DEF Stands
    <3> QED
      BY <1>2, <2>2, <3>2, <3>3 DEF ArmScript, ArmInv, At
  <2> QED
    BY <1>1, <1>3, <1>6, <2>2, <2>3
    DEF CallArm, Served, TimesInv, CallInv, TimeReadIsCurrent
<1>7. ASSUME NEW n \in IpiWords, CallIpi(n) PROVE Served
  <2>1. n \in 0 .. Half - 1
    BY ClintAssumption
  <2>2. IpiInv'
    BY <1>2, <1>7, <2>1 DEF CallIpi, IpiInv, At
  <2> QED
    BY <1>1, <1>2, <1>3, <1>7, <2>2
    DEF CallIpi, Served, TimesInv, CallInv, Stands, TimeReadIsCurrent
<1>8. CASE Return
  <2>1. /\ armed' \in [old : 0 .. Half * Half - 1, new : 0 .. Half * Half - 1]
        /\ armed'.old = IF task = "arm" THEN armed.new ELSE armed.old
    BY <1>3, <1>8 DEF Return, TimesInv
  <2>2. Stands(armed.old)'
    <3>1. task = "arm" => Stands(armed.new)
      BY <1>2, <1>3, <1>8 DEF Return, CallInv, ArmInv, At, NoOp, Bus!NoOp, Write
    <3>2. task # "arm" => Stands(armed.old)
      BY <1>3 DEF CallInv
    <3> QED
      BY <1>2, <2>1, <3>1, <3>2 DEF Stands
  <2>3. TimeReadIsCurrent'
    <3>1. CASE task = "read"
      <4>1. GotAll
        BY <1>2, <1>3, <1>8, <3>1 DEF Return, CallInv, ReadInv, At, NoOp, Bus!NoOp, Read
      <4>2. PICK t \in since .. mtime, u \in since .. mtime, v \in since .. mtime :
               t <= u /\ u <= v /\ got = <<High(t), Low(u), High(v)>>
        BY <1>1, <4>1 DEF GotAll
      <4>3. /\ t \in 0 .. Half * Half - 1 /\ u \in 0 .. Half * Half - 1
            /\ v \in 0 .. Half * Half - 1
        BY <1>1, <1>4
      <4>4. High(t) = High(v)
        BY <1>8, <3>1, <4>2 DEF Return
      <4>5. got[1] * Half + got[2] = u
        BY <4>2, <4>3, <4>4, WholeTime, Halves
      <4>6. timeRead' = [since |-> since, value |-> u, until |-> mtime]
        BY <1>8, <3>1, <4>5 DEF Return
      <4> QED
        BY <1>1, <4>6 DEF TimeReadIsCurrent
    <3>2. CASE task # "read"
      BY <1>3, <1>8, <3>2 DEF Return, TimeReadIsCurrent
    <3> QED
      BY <3>1, <3>2
  <2>4. task' = "none" /\ At(NoOp, <<>>)' /\ since' = since
    BY <1>2, <1>8 DEF Return, At, NoOp, Bus!NoOp
  <2> QED
    BY <1>1, <2>1, <2>2, <2>3, <2>4 DEF Served, CallInv
<1>9. CASE Retry
  <2>1. ReadInv'
    BY <1>2, <1>9 DEF Retry, TimeScript, ReadInv, At
  <2> QED
    BY <1>1, <1>2, <1>3, <1>9, <2>1
    DEF Retry, Served, TimesInv, CallInv, Stands, TimeReadIsCurrent
<1>10. CASE UNCHANGED softVars
  <2>1. ReadInv => ReadInv'
    BY <1>1, <1>2, <1>10, GotKept DEF softVars, ReadInv, At
  <2>2. IpiInv => IpiInv'
    BY <1>2, <1>10 DEF softVars, IpiInv, At
  <2>3. ArmInv => ArmInv'
    BY <1>2, <1>10 DEF softVars, ArmInv, At, Stands, Parked, LowIsNew
  <2> QED
    BY <1>1, <1>2, <1>3, <1>10, <2>1, <2>2, <2>3
    DEF softVars, Served, TimesInv, CallInv, Stands, At, TimeReadIsCurrent
<1> QED
  BY <1>5, <1>6, <1>7, <1>8, <1>9, <1>10 DEF Think

(* Heads and tails of the scripts, and what is read so far.                 *)
LEMMA FirstOf ==
  ASSUME NEW a, NEW b, NEW c
  PROVE  /\ Head(<<a>>) = a /\ Head(<<a, b>>) = a /\ Head(<<a, b, c>>) = a
         /\ <<a>> # <<>> /\ <<a, b>> # <<>> /\ <<a, b, c>> # <<>>
<1>1. Head(<<a>>) = a /\ <<a>> # <<>>
  OBVIOUS
<1>2. Head(<<a, b>>) = a /\ <<a, b>> # <<>>
  OBVIOUS
<1>3. Head(<<a, b, c>>) = a /\ <<a, b, c>> # <<>>
  OBVIOUS
<1> QED
  BY <1>1, <1>2, <1>3

LEMMA RestOf ==
  ASSUME NEW a, NEW b, NEW c
  PROVE  Tail(<<a>>) = <<>> /\ Tail(<<a, b>>) = <<b>> /\ Tail(<<a, b, c>>) = <<b, c>>
<1>1. Tail(<<a>>) = <<>>
  OBVIOUS
<1>2. Tail(<<a, b>>) = <<b>>
  OBVIOUS
<1>3. Tail(<<a, b, c>>) = <<b, c>>
  OBVIOUS
<1> QED
  BY <1>1, <1>2, <1>3

LEMMA SecondWord ==
  ASSUME NEW a, NEW b
  PROVE  Append(<<a>>, b) = <<a, b>>
<1> DEFINE s == Append(<<a>>, b)
           t == <<a, b>>
<1>1. s \in Seq({a, b}) /\ t \in Seq({a, b})
  OBVIOUS
<1>2. Len(s) = 2 /\ Len(t) = 2
  OBVIOUS
<1>3. \A i \in 1 .. 2 : s[i] = t[i]
  OBVIOUS
<1> HIDE DEF s, t
<1>4. s = t
  BY <1>1, <1>2, <1>3, SeqEqual
<1> QED
  BY <1>4 DEF s, t

LEMMA ThirdWord ==
  ASSUME NEW a, NEW b, NEW c
  PROVE  Append(<<a, b>>, c) = <<a, b, c>>
<1> DEFINE s == Append(<<a, b>>, c)
           t == <<a, b, c>>
<1>1. s \in Seq({a, b, c}) /\ t \in Seq({a, b, c})
  OBVIOUS
<1>2. Len(s) = 3 /\ Len(t) = 3
  OBVIOUS
<1>3. \A i \in 1 .. 3 : s[i] = t[i]
  OBVIOUS
<1> HIDE DEF s, t
<1>4. s = t
  BY <1>1, <1>2, <1>3, SeqEqual
<1> QED
  BY <1>4 DEF s, t

(* An access is not idleness.                                               *)
LEMMA Busy ==
  ASSUME NEW a, NEW n
  PROVE  Read(a) # NoOp /\ Write(a, n) # NoOp
BY DEF Read, Write, NoOp, Bus!NoOp

(* The program hands its next access to the bus.                            *)
LEMMA IssueStep ==
  ASSUME NEW BREADY \in BOOLEAN, NEW RREADY \in BOOLEAN,
         Edge(BREADY, RREADY), Issue
  PROVE  Served
<1>1. /\ mtime' = mtime + 1 /\ mtime \in Nat
      /\ since \in Nat /\ since <= mtime
  BY ClockAhead, Bounds DEF Edge, ClintInv, TimesInv
<1>2. /\ op = NoOp /\ todo # <<>> /\ op' = Head(todo) /\ todo' = Tail(todo)
      /\ UNCHANGED <<task, got, since, timeRead, armed>>
  BY DEF Issue
<1>3. regs' = regs
  BY <1>2, BetweenAccesses DEF Edge, ClintInv
<1>4. CallInv /\ TimesInv /\ TimeReadIsCurrent
  BY DEF Edge, ClintInv
<1>5. ASSUME ReadInv PROVE ReadInv'
  <2> DEFINE high == Read("mtime_h")
             low == Read("mtime_l")
  <2>1. high # NoOp /\ low # NoOp
    BY Busy
  <2>2. /\ GotOne => GotOne'
        /\ GotTwo => GotTwo'
    BY <1>1, <1>2, GotKept
  <2>3. CASE At(NoOp, <<high, low, high>>) /\ got = <<>>
    <3>1. At(high, <<low, high>>)' /\ got' = <<>>
      BY <1>2, <2>3, FirstOf, RestOf DEF At
    <3> QED
      BY <3>1 DEF ReadInv
  <2>4. CASE At(NoOp, <<low, high>>) /\ GotOne
    <3>1. At(low, <<high>>)' /\ GotOne'
      BY <1>2, <2>2, <2>4, FirstOf, RestOf DEF At
    <3> QED
      BY <3>1 DEF ReadInv
  <2>5. CASE At(NoOp, <<high>>) /\ GotTwo
    <3>1. At(high, <<>>)' /\ GotTwo'
      BY <1>2, <2>2, <2>5, FirstOf, RestOf DEF At
    <3> QED
      BY <3>1 DEF ReadInv
  <2> QED
    BY <1>2, <1>5, <2>1, <2>3, <2>4, <2>5 DEF ReadInv, At
<1>6. ASSUME IpiInv PROVE IpiInv'
  BY <1>2, <1>6, Busy, FirstOf, RestOf DEF IpiInv, At
<1>7. ASSUME ArmInv PROVE ArmInv'
  <2> DEFINE first == Write("mtimecmp_h", Half - 1)
             second == Write("mtimecmp_l", Low(armed.new))
             third == Write("mtimecmp_h", High(armed.new))
  <2>1. first # NoOp /\ second # NoOp /\ third # NoOp
    BY Busy
  <2>2. /\ first' = first
        /\ second' = second
        /\ third' = third
    BY <1>2
  <2>3. CASE At(NoOp, <<first, second, third>>) /\ Stands(armed.old)
    <3>1. At(first, <<second, third>>)' /\ Stands(armed.old)'
      BY <1>2, <1>3, <2>2, <2>3, FirstOf, RestOf DEF At, Stands
    <3> QED
      BY <3>1 DEF ArmInv
  <2>4. CASE At(NoOp, <<second, third>>) /\ Parked
    <3>1. At(second, <<third>>)' /\ Parked'
      BY <1>2, <1>3, <2>2, <2>4, FirstOf, RestOf DEF At, Parked
    <3> QED
      BY <3>1 DEF ArmInv
  <2>5. CASE At(NoOp, <<third>>) /\ Parked /\ LowIsNew
    <3>1. At(third, <<>>)' /\ Parked' /\ LowIsNew'
      BY <1>2, <1>3, <2>2, <2>5, FirstOf, RestOf DEF At, Parked, LowIsNew
    <3> QED
      BY <3>1 DEF ArmInv
  <2> QED
    BY <1>2, <1>7, <2>1, <2>3, <2>4, <2>5 DEF ArmInv, At
<1>8. task # "none"
  BY <1>2, <1>4 DEF CallInv, At
<1> QED
  BY <1>1, <1>2, <1>3, <1>4, <1>5, <1>6, <1>7, <1>8
  DEF Served, TimesInv, CallInv, Stands, TimeReadIsCurrent

(* The words the program writes are words.                                  *)
LEMMA Words ==
  ASSUME TimesInv
  PROVE  /\ Half - 1 \in 0 .. Half - 1
         /\ Low(armed.new) \in 0 .. Half - 1 /\ High(armed.new) \in 0 .. Half - 1
<1>1. armed.new \in 0 .. Half * Half - 1
  BY DEF TimesInv
<1> QED
  BY <1>1, Halves, Bounds

(* The program waits for its access, whose write may land meanwhile.        *)
LEMMA BlockedStep ==
  ASSUME NEW BREADY \in BOOLEAN, NEW RREADY \in BOOLEAN,
         Edge(BREADY, RREADY), Blocked
  PROVE  Served
<1>1. /\ mtime' = mtime + 1 /\ mtime \in Nat
      /\ since \in Nat /\ since <= mtime
  BY ClockAhead, Bounds DEF Edge, ClintInv, TimesInv
<1>2. /\ op # NoOp /\ op' = op
      /\ UNCHANGED <<todo, task, got, since, timeRead, armed>>
  BY DEF Blocked, softVars
<1>3. CallInv /\ TimesInv /\ TimeReadIsCurrent /\ BusInv
  BY DEF Edge, ClintInv
<1>4. regs \in [ClintReg -> [Lane -> 0 .. Half - 1]]
  BY <1>3 DEF BusInv, Slave!Inv, Slave!TypeOK, Slave!Word
<1>5. ASSUME NEW a \in ClintReg, NEW n \in 0 .. Half - 1, op = Write(a, n)
      PROVE  /\ regs'[a] = regs[a] \/ regs'[a] = Wrd(n)
             /\ \A r \in ClintReg \ {a} : regs'[r] = regs[r]
  BY <1>3, <1>4, <1>5, Writing DEF Edge
<1>6. ASSUME ReadInv PROVE ReadInv' /\ regs' = regs
  <2>1. /\ GotOne => GotOne'
        /\ GotTwo => GotTwo'
        /\ GotAll => GotAll'
    BY <1>1, <1>2, GotKept
  <2>2. ReadInv'
    BY <1>2, <1>6, <2>1 DEF ReadInv, At
  <2>3. op = Read("mtime_h") \/ op = Read("mtime_l")
    BY <1>2, <1>6 DEF ReadInv, At
  <2> QED
    BY <1>3, <2>2, <2>3, Reading DEF Edge, ReadOnlyReg
<1>7. ASSUME IpiInv, Stands(armed.old) PROVE IpiInv' /\ Stands(armed.old)'
  <2>1. PICK n \in 0 .. Half - 1 : op = Write("msip", n)
    BY <1>2, <1>7 DEF IpiInv, At
  <2>2. /\ regs'["mtimecmp_h"] = regs["mtimecmp_h"]
        /\ regs'["mtimecmp_l"] = regs["mtimecmp_l"]
    BY <1>5, <2>1 DEF ClintReg
  <2> QED
    BY <1>2, <1>7, <2>2 DEF IpiInv, At, Stands
<1>8. ASSUME ArmInv PROVE ArmInv'
  <2> DEFINE first == Write("mtimecmp_h", Half - 1)
             second == Write("mtimecmp_l", Low(armed.new))
             third == Write("mtimecmp_h", High(armed.new))
  <2>1. first' = first /\ second' = second /\ third' = third
    BY <1>2
  <2>2. CASE At(first, <<second, third>>) /\ (Stands(armed.old) \/ Parked)
    <3>1. Stands(armed.old)' \/ Parked'
      BY <1>2, <1>3, <1>5, <2>2, Words DEF At, ClintReg, Stands, Parked
    <3>2. At(first, <<second, third>>)'
      BY <1>2, <2>1, <2>2 DEF At
    <3> QED
      BY <3>1, <3>2 DEF ArmInv
  <2>3. CASE At(second, <<third>>) /\ Parked
    <3>1. Parked'
      BY <1>2, <1>3, <1>5, <2>3, Words DEF At, ClintReg, Parked
    <3>2. At(second, <<third>>)'
      BY <1>2, <2>1, <2>3 DEF At
    <3> QED
      BY <3>1, <3>2 DEF ArmInv
  <2>4. CASE At(third, <<>>) /\ LowIsNew /\ (Parked \/ Stands(armed.new))
    <3>1. LowIsNew' /\ (Parked' \/ Stands(armed.new)')
      BY <1>2, <1>3, <1>5, <2>4, Words DEF At, ClintReg, Parked, Stands, LowIsNew
    <3>2. At(third, <<>>)'
      BY <1>2, <2>1, <2>4 DEF At
    <3> QED
      BY <3>1, <3>2 DEF ArmInv
  <2> QED
    BY <1>2, <1>8, <2>2, <2>3, <2>4 DEF ArmInv, At
<1>9. task # "none"
  BY <1>2, <1>3 DEF CallInv, At
<1> QED
  BY <1>1, <1>2, <1>3, <1>6, <1>7, <1>8, <1>9
  DEF Served, TimesInv, CallInv, Stands, TimeReadIsCurrent

(* The answer comes: what was read is a half of the time it is now, what    *)
(* was written is in its register.                                          *)
LEMMA CollectStep ==
  ASSUME NEW BREADY \in BOOLEAN, NEW RREADY \in BOOLEAN,
         Edge(BREADY, RREADY), Collect
  PROVE  Served
<1>1. /\ mtime' = mtime + 1 /\ mtime \in Nat
      /\ since \in Nat /\ since <= mtime
  BY ClockAhead, Bounds DEF Edge, ClintInv, TimesInv
<1>2. /\ op # NoOp /\ op' = NoOp
      /\ got' = IF op.kind = "read" THEN Append(got, Num(rsp')) ELSE got
      /\ UNCHANGED <<todo, task, since, timeRead, armed>>
  BY DEF Collect
<1>3. CallInv /\ TimesInv /\ TimeReadIsCurrent /\ BusInv
  BY DEF Edge, ClintInv
<1>4. ASSUME NEW a \in ReadOnlyReg, op = Read(a)
      PROVE  regs' = regs /\ got' = Append(got, Num(View[a]))
  BY <1>2, <1>3, <1>4, Reading DEF Edge, Read
<1>5. Num(View["mtime_h"]) = High(mtime) /\ Num(View["mtime_l"]) = Low(mtime)
  BY DEF View, Num, Wrd, Lane, ReadOnlyReg, ClintReg
<1>6. ASSUME NEW a \in ClintReg, NEW n \in 0 .. Half - 1, op = Write(a, n)
      PROVE  regs' = regs /\ regs[a] = Wrd(n)
  BY <1>2, <1>3, <1>6, Writing DEF Edge
<1>7. ASSUME ReadInv PROVE ReadInv' /\ regs' = regs
  <2> DEFINE high == Read("mtime_h")
             low == Read("mtime_l")
  <2>1. mtime \in since .. mtime' /\ mtime \in mtime .. mtime'
    BY <1>1
  <2>2. CASE At(high, <<low, high>>) /\ got = <<>>
    <3>1. regs' = regs /\ got' = Append(<<>>, High(mtime))
      BY <1>4, <1>5, <2>2 DEF At, ReadOnlyReg
    <3>2. got' = <<High(mtime)>>
      BY <3>1
    <3>3. At(NoOp, <<low, high>>)' /\ GotOne'
      BY <1>2, <2>1, <2>2, <3>2 DEF At, GotOne, NoOp, Bus!NoOp
    <3> QED
      BY <3>1, <3>3 DEF ReadInv
  <2>3. CASE At(low, <<high>>) /\ GotOne
    <3>1. PICK t \in since .. mtime : got = <<High(t)>>
      BY <2>3 DEF GotOne
    <3>2. regs' = regs /\ got' = Append(<<High(t)>>, Low(mtime))
      BY <1>4, <1>5, <2>3, <3>1 DEF At, ReadOnlyReg
    <3>3. got' = <<High(t), Low(mtime)>>
      BY <3>2, SecondWord
    <3>4. t \in since .. mtime' /\ mtime \in t .. mtime'
      BY <1>1
    <3>5. At(NoOp, <<high>>)' /\ GotTwo'
      BY <1>2, <2>3, <3>3, <3>4 DEF At, GotTwo, NoOp, Bus!NoOp
    <3> QED
      BY <3>2, <3>5 DEF ReadInv
  <2>4. CASE At(high, <<>>) /\ GotTwo
    <3>1. PICK t \in since .. mtime : \E u \in t .. mtime : got = <<High(t), Low(u)>>
      BY <2>4 DEF GotTwo
    <3>2. PICK u \in t .. mtime : got = <<High(t), Low(u)>>
      BY <3>1
    <3>3. regs' = regs /\ got' = Append(<<High(t), Low(u)>>, High(mtime))
      BY <1>4, <1>5, <2>4, <3>2 DEF At, ReadOnlyReg
    <3>4. got' = <<High(t), Low(u), High(mtime)>>
      BY <3>3, ThirdWord
    <3>5. t \in since .. mtime' /\ u \in t .. mtime' /\ mtime \in u .. mtime'
      BY <1>1
    <3>6. At(NoOp, <<>>)' /\ GotAll'
      BY <1>2, <2>4, <3>4, <3>5 DEF At, GotAll, NoOp, Bus!NoOp
    <3> QED
      BY <3>3, <3>6 DEF ReadInv
  <2> QED
    BY <1>2, <1>7, <2>2, <2>3, <2>4 DEF ReadInv, At
<1>8. ASSUME IpiInv PROVE IpiInv' /\ regs' = regs
  <2>1. PICK n \in 0 .. Half - 1 : At(Write("msip", n), <<>>)
    BY <1>2, <1>8 DEF IpiInv, At
  <2>2. regs' = regs
    BY <1>6, <2>1 DEF At, ClintReg
  <2> QED
    BY <1>2, <2>1, <2>2 DEF IpiInv, At, NoOp, Bus!NoOp
<1>9. ASSUME ArmInv PROVE ArmInv'
  <2> DEFINE first == Write("mtimecmp_h", Half - 1)
             second == Write("mtimecmp_l", Low(armed.new))
             third == Write("mtimecmp_h", High(armed.new))
  <2>1. second' = second /\ third' = third /\ NoOp' = NoOp
    BY <1>2 DEF NoOp, Bus!NoOp
  <2>2. CASE At(first, <<second, third>>) /\ (Stands(armed.old) \/ Parked)
    <3>1. At(NoOp, <<second, third>>)' /\ Parked'
      BY <1>2, <1>3, <1>6, <2>1, <2>2, Words DEF At, ClintReg, Parked
    <3> QED
      BY <3>1 DEF ArmInv
  <2>3. CASE At(second, <<third>>) /\ Parked
    <3>1. At(NoOp, <<third>>)' /\ Parked' /\ LowIsNew'
      BY <1>2, <1>3, <1>6, <2>1, <2>3, Words DEF At, ClintReg, Parked, LowIsNew
    <3> QED
      BY <3>1 DEF ArmInv
  <2>4. CASE At(third, <<>>) /\ LowIsNew /\ (Parked \/ Stands(armed.new))
    <3>1. At(NoOp, <<>>)' /\ Stands(armed.new)'
      BY <1>2, <1>3, <1>6, <2>1, <2>4, Words DEF At, ClintReg, Stands, LowIsNew
    <3> QED
      BY <3>1 DEF ArmInv
  <2> QED
    BY <1>2, <1>9, <2>2, <2>3, <2>4 DEF ArmInv, At
<1>10. task # "none"
  BY <1>2, <1>3 DEF CallInv, At
<1> QED
  BY <1>1, <1>2, <1>3, <1>7, <1>8, <1>9, <1>10
  DEF Served, TimesInv, CallInv, Stands, TimeReadIsCurrent

-----------------------------------------------------------------------------
LEMMA ClintInitially == Init => ClintInv
<1> SUFFICES ASSUME Init PROVE ClintInv
  OBVIOUS
<1>1. Slave!Init
  BY SameInit DEF Init
<1>2. BusInv
  BY <1>1, SlaveAssumption, Slave!InitInv DEF BusInv, Slave!WrittenBeforeAnswer, Slave!Init
<1>3. 0 \in 0 .. Half * Half - 1 /\ 0 \in 0 .. MaxTime
  BY Bounds
<1>4. Low(0) = 0 /\ High(0) = 0
  BY Halves, Bounds DEF Low, High
<1>5. Stands(armed.old)
  BY <1>1, <1>4 DEF Init, Stands, Slave!Init, Slave!ZeroWord, Wrd, ClintReg
<1>6. CallInv
  BY <1>1, <1>5 DEF Init, CallInv, At, NoOp, Bus!NoOp, Slave!Init, Slave!NoOp
<1> QED
  BY <1>2, <1>3, <1>6 DEF Init, ClintInv, TimesInv, TimeReadIsCurrent

LEMMA ClintStep == ClintInv /\ [Next]_vars => ClintInv'
<1> SUFFICES ASSUME ClintInv, [Next]_vars PROVE ClintInv'
  OBVIOUS
<1>1. CASE Next
  <2>1. PICK BREADY \in BOOLEAN, RREADY \in BOOLEAN :
           Bus!BusCycle(BREADY, RREADY, View)
    BY <1>1 DEF Next
  <2>2. Edge(BREADY, RREADY)
    BY <1>1, <2>1, SameCycle DEF Edge, Next
  <2>3. Served
    BY <1>1, <2>2, ThinkStep, IssueStep, BlockedStep, CollectStep DEF Next, Program
  <2>4. BusInv'
    BY <2>1, BusStep DEF ClintInv
  <2>5. mtime' \in 0 .. MaxTime
    BY <2>2, ClockAhead
  <2> QED
    BY <2>3, <2>4, <2>5 DEF ClintInv, Served, TimesInv
<1>2. CASE UNCHANGED vars
  <2>1. BusInv'
    BY <1>2 DEF ClintInv, BusInv, vars, Bus!vars, Bus!writeVars, Bus!readVars,
       Bus!masterVars, Slave!Inv, Slave!TypeOK, Slave!WriteTracksAccess,
       Slave!ReadTracksAccess, Slave!BeatsBelongToAccess, Slave!WrittenBeforeAnswer
  <2>2. UNCHANGED <<mtime, op, regs, softVars>>
    BY <1>2 DEF vars, Bus!vars, Bus!masterVars
  <2>3. TimesInv' /\ TimeReadIsCurrent'
    BY <2>2 DEF ClintInv, TimesInv, TimeReadIsCurrent, softVars
  <2>4. CallInv'
    BY <2>2 DEF ClintInv, CallInv, ReadInv, IpiInv, ArmInv, At, Stands, Parked,
       LowIsNew, GotOne, GotTwo, GotAll, softVars
  <2> QED
    BY <2>1, <2>3, <2>4 DEF ClintInv
<1> QED
  BY <1>1, <1>2

(* Bus, program and deadline stay in step (clint.v and its software).       *)
THEOREM Invariance == Spec => []ClintInv
BY ClintInitially, ClintStep, PTL DEF Spec

(* A time read returns a time of the call, for halves of any width and      *)
(* accesses of any length.                                                  *)
THEOREM TimeReadWhole == Spec => []TimeReadIsCurrent
<1>1. ClintInv => TimeReadIsCurrent
  BY DEF ClintInv
<1> QED
  BY <1>1, Invariance, PTL

(* mtimecmp as a number, where it stands.                                   *)
LEMMA Compare ==
  ASSUME ClintInv
  PROVE  /\ Parked => ~timer_irq
         /\ \A d \in 0 .. Half * Half - 1 : Stands(d) => (timer_irq <=> mtime >= d)
<1>1. mtime \in Nat /\ mtime < (Half - 1) * Half
  BY Bounds DEF ClintInv, TimesInv
<1>2. ASSUME Parked PROVE ~timer_irq
  <2>1. Num(regs["mtimecmp_h"]) = Half - 1
    BY <1>2 DEF Parked, Num, Wrd, Lane
  <2>2. Num(regs["mtimecmp_l"]) \in Nat
    <3>1. regs["mtimecmp_l"] \in [Lane -> 0 .. Half - 1]
      BY DEF ClintInv, BusInv, Slave!Inv, Slave!TypeOK, Slave!Word, ClintReg
    <3> QED
      BY <3>1, Bounds DEF Num, Lane
  <2> QED
    BY <1>1, <2>1, <2>2, Bounds DEF timer_irq, mtimecmp
<1>3. ASSUME NEW d \in 0 .. Half * Half - 1, Stands(d)
      PROVE  timer_irq <=> mtime >= d
  <2>1. Num(regs["mtimecmp_h"]) = High(d) /\ Num(regs["mtimecmp_l"]) = Low(d)
    BY <1>3 DEF Stands, Num, Wrd, Lane
  <2> QED
    BY <2>1, Halves DEF timer_irq, mtimecmp
<1> QED
  BY <1>2, <1>3

(* The line is never high before a deadline that may be meant, while its    *)
(* halves are replaced one by one.                                          *)
THEOREM NeverEarly == Spec => []NoEarlyTimer
<1>1. ClintInv => NoEarlyTimer
  <2> SUFFICES ASSUME ClintInv PROVE NoEarlyTimer
    OBVIOUS
  <2>1. Stands(armed.old) \/ Stands(armed.new) \/ Parked
    BY DEF ClintInv, TimesInv, CallInv, ArmInv
  <2>2. armed.old \in 0 .. Half * Half - 1 /\ armed.new \in 0 .. Half * Half - 1
    BY DEF ClintInv, TimesInv
  <2> QED
    BY <2>1, <2>2, Compare DEF NoEarlyTimer
<1> QED
  BY <1>1, Invariance, PTL

(* Once a call has set a deadline, the line is high exactly from then on.   *)
THEOREM OnTime == Spec => []TimerKeepsDeadline
<1>1. ClintInv => TimerKeepsDeadline
  <2> SUFFICES ASSUME ClintInv, task # "arm" PROVE timer_irq <=> mtime >= armed.old
    BY DEF TimerKeepsDeadline
  <2>1. Stands(armed.old) /\ armed.old \in 0 .. Half * Half - 1
    BY DEF ClintInv, TimesInv, CallInv
  <2> QED
    BY <2>1, Compare
<1> QED
  BY <1>1, Invariance, PTL
=============================================================================
