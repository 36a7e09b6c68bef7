------------------------------- MODULE Pmc_proof -------------------------------
(***************************************************************************)
(* Proofs about the power management controller of Pmc, for synchronisers  *)
(* of any depth.                                                           *)
(***************************************************************************)
EXTENDS Pmc, Integers, TLAPS

(* What the low byte of pmc_state holds; the other bytes stay zero.         *)
Low == regs["pmc_state"]["low"]
Plain == {{}} \cup NOTHING

(* A write of b to pmc_state is in flight.                                  *)
Writing(b) == op \in {Write(b, Lane), Write(b, {"low"})}
Reading == op = [kind |-> "read", addr |-> "pmc_state"]

(* The request line is low in no stage; in the first stages only; in the    *)
(* last stages only; in one run of stages.                                  *)
Quiet == \A i \in Stage : reboot_sync[i]
Rising == \A i, j \in Stage : i < j /\ reboot_sync[i] => reboot_sync[j]
Falling == \A i, j \in Stage : i < j /\ reboot_sync[j] => reboot_sync[i]
OneRun ==
  \A i, j, k \in Stage :
    i < j /\ j < k /\ reboot_sync[j] => reboot_sync[i] \/ reboot_sync[k]

(* How far the processor has come, and what its commands have done so far.  *)
Resetting == phase = "reset" /\ op = RF!NoOp /\ Low = {} /\ Falling
Starting == phase = "init" /\ op = RF!NoOp /\ Low = {} /\ Quiet
Running ==
  /\ phase = "run" /\ Quiet /\ Low \in Plain
  /\ op = RF!NoOp \/ Reading \/ \E b \in Plain : Writing(b)
PoweringOff ==
  /\ phase = "halted" /\ cmd = "poweroff" /\ Quiet /\ Low # REBOOT
  /\ op = RF!NoOp \/ Writing(POWEROFF)
Commanded ==
  /\ phase = "halted" /\ cmd \in {"panic", "reboot"} /\ Quiet
  /\ Low \in Plain /\ Writing(REBOOT)
Rebooting ==
  /\ phase = "halted" /\ cmd \in {"panic", "reboot"} /\ Rising /\ Low = REBOOT
  /\ op = RF!NoOp \/ Writing(REBOOT) \/ (fallsThrough /\ cmd = "panic" /\ Writing(POWEROFF))
Overtaken ==
  /\ phase = "halted" /\ cmd = "panic" /\ OneRun /\ Low = POWEROFF
  /\ fallsThrough
  /\ op = RF!NoOp \/ Writing(POWEROFF)

Course ==
  \/ (Resetting \/ Starting \/ Running) /\ cmd = "none"
  \/ PoweringOff \/ Commanded \/ Rebooting \/ Overtaken

(* Without a power-off command nothing of one is on its way.                *)
PowerKept ==
  ~fallsThrough /\ cmd # "poweroff" =>
    /\ ~power_down
    /\ \A i \in Stage : poweroff_sync[i]

Types ==
  /\ regs \in [{"pmc_state"} -> RF!Word]
  /\ regs["pmc_state"]["high"] = {}
  /\ poweroff_sync \in [Stage -> BOOLEAN] /\ reboot_sync \in [Stage -> BOOLEAN]
  /\ power_down \in BOOLEAN
  /\ fallsThrough \in BOOLEAN

IInv == Types /\ Course /\ PowerKept

-----------------------------------------------------------------------------
LEMMA Commands ==
  /\ POWEROFF # REBOOT /\ POWEROFF \notin Plain /\ REBOOT \notin Plain
  <1>1. 7 \in POWEROFF /\ 0 \notin POWEROFF /\ 3 \notin POWEROFF /\ 1 \in POWEROFF
    BY DEF POWEROFF
  <1>2. 0 \in REBOOT /\ 6 \in REBOOT /\ 7 \in REBOOT
    BY DEF REBOOT
  <1>3. \A b \in Plain : 6 \notin b /\ (7 \in b => 0 \in b)
    BY DEF Plain, NOTHING
  <1> QED  BY <1>1, <1>2, <1>3

(* Words are told apart by their bytes.                                     *)
LEMMA Words ==
  ASSUME NEW w \in RF!Word, w["high"] = {}, NEW b
  PROVE  w = Word(b) <=> w["low"] = b
  <1>1. Word(b) = [l \in Lane |-> IF l = "low" THEN b ELSE {}]
    BY DEF Word, Lane
  <1>2. DOMAIN w = Lane /\ w = [l \in Lane |-> w[l]]
    BY DEF RF!Word
  <1>3. Word(b)["low"] = b /\ Word(b)["high"] = {}
    BY DEF Word
  <1> QED  BY <1>1, <1>2, <1>3 DEF Lane

LEMMA Lines ==
  ASSUME Types
  PROVE  /\ poweroff = (Low # POWEROFF)
         /\ reboot = (Low # REBOOT)
  <1>1. regs["pmc_state"] \in RF!Word
    BY DEF Types
  <1> QED  BY <1>1, Words DEF Types, poweroff, reboot, Low

LEMMA Kinds ==
  /\ RF!NoOp.kind = "none"
  /\ \A b, s : /\ Write(b, s).kind = "write" /\ Write(b, s).addr = "pmc_state"
               /\ Write(b, s).data = Word(b) /\ Write(b, s).strb = s
  BY DEF RF!NoOp, Write

LEMMA InitIInv == Init => IInv
  <1> SUFFICES ASSUME Init PROVE IInv
    OBVIOUS
  <1>1. Types /\ Low = {}
    BY DEF Init, Types, Low, Cleared, RF!ZeroWord, RF!Word, Idle, Lane
  <1>2. Quiet /\ \A i \in Stage : poweroff_sync[i]
    BY DEF Init, Idle, Quiet
  <1> QED
    BY <1>1, <1>2 DEF Init, IInv, Course, Starting, PowerKept

-----------------------------------------------------------------------------
(* A system clock edge shifts the synchronisers and leaves the bus alone.   *)
LEMMA SysEdgeShifts ==
  ASSUME Types, SysEdge
  PROVE  /\ Types'
         /\ (reboot_sync'[0] <=> Low # REBOOT)
         /\ \A i \in Stage : i > 0 => (reboot_sync'[i] <=> reboot_sync[i - 1])
         /\ (poweroff_sync'[0] <=> Low # POWEROFF)
         /\ \A i \in Stage : i > 0 => (poweroff_sync'[i] <=> poweroff_sync[i - 1])
         /\ (power_down' <=> (power_down \/ ~poweroff_sync[Depth - 1]))
         /\ UNCHANGED <<regs, op, phase, cmd, fallsThrough, Low>>
  <1>1. \A i \in Stage : i > 0 => i - 1 \in Stage
    BY PmcAssumption DEF Stage
  <1>2. 0 \in Stage /\ Depth - 1 \in Stage
    BY PmcAssumption DEF Stage
  <1>3. /\ poweroff_sync' = [i \in Stage |-> IF i = 0 THEN Low # POWEROFF ELSE poweroff_sync[i - 1]]
        /\ reboot_sync' = [i \in Stage |-> IF i = 0 THEN Low # REBOOT ELSE reboot_sync[i - 1]]
    BY Lines DEF SysEdge, Shift
  <1>4. \A i \in Stage : i = 0 \/ i > 0
    BY PmcAssumption DEF Stage
  <1>5. /\ (power_down' <=> (power_down \/ ~poweroff_sync[Depth - 1]))
        /\ UNCHANGED <<regs, op, phase, cmd, fallsThrough, Low>>
    BY DEF SysEdge, regVars, Low
  <1>6. poweroff_sync' \in [Stage -> BOOLEAN]
    <2>1. \A i \in Stage : poweroff_sync'[i] \in BOOLEAN
      BY <1>1, <1>3, <1>4 DEF Types
    <2> QED  BY <1>3, <2>1
  <1>7. reboot_sync' \in [Stage -> BOOLEAN]
    <2>1. \A i \in Stage : reboot_sync'[i] \in BOOLEAN
      BY <1>1, <1>3, <1>4 DEF Types
    <2> QED  BY <1>3, <2>1
  <1>8. power_down' \in BOOLEAN
    BY <1>5, <1>2 DEF Types
  <1> QED
    BY <1>2, <1>3, <1>4, <1>5, <1>6, <1>7, <1>8 DEF Types

LEMMA SysEdgeInv == ASSUME IInv, SysEdge PROVE IInv'
  <1>1. \A i \in Stage : /\ i \in Int /\ i >= 0
                         /\ i > 0 => i - 1 \in Stage
    BY PmcAssumption DEF Stage
  <1>2. Types
    BY DEF IInv
  <1>3. /\ Types'
        /\ (reboot_sync'[0] <=> Low # REBOOT)
        /\ \A i \in Stage : i > 0 => (reboot_sync'[i] <=> reboot_sync[i - 1])
        /\ UNCHANGED <<op, phase, cmd, fallsThrough, Low>>
    BY <1>2, SysEdgeShifts
  <1>4. Quiet /\ Low # REBOOT => Quiet'
    BY <1>1, <1>3 DEF Quiet
  <1>5. Falling /\ Low # REBOOT => Falling'
    BY <1>1, <1>3 DEF Falling
  <1>6. Rising /\ Low = REBOOT => Rising'
    BY <1>1, <1>3 DEF Rising
  <1>7. OneRun /\ Low # REBOOT => OneRun'
    BY <1>1, <1>3 DEF OneRun
  <1>8. Course'
    <2>1. CASE (Resetting \/ Starting \/ Running) /\ cmd = "none"
      <3>1. Low # REBOOT
        BY <2>1, Commands DEF Resetting, Starting, Running, Plain
      <3> QED
        BY <2>1, <3>1, <1>3, <1>4, <1>5
        DEF Course, Resetting, Starting, Running, Writing, Reading
    <2>2. CASE PoweringOff
      BY <2>2, <1>3, <1>4 DEF Course, PoweringOff, Writing
    <2>3. CASE Commanded
      BY <2>3, <1>3, <1>4, Commands DEF Course, Commanded, Writing
    <2>4. CASE Rebooting
      BY <2>4, <1>3, <1>6 DEF Course, Rebooting, Writing
    <2>5. CASE Overtaken
      BY <2>5, <1>3, <1>7, Commands DEF Course, Overtaken, Writing
    <2> QED  BY <2>1, <2>2, <2>3, <2>4, <2>5 DEF IInv, Course
  <1>9. PowerKept'
    <2> SUFFICES ASSUME ~fallsThrough, cmd # "poweroff"
                 PROVE  ~power_down' /\ \A i \in Stage : poweroff_sync'[i]
      BY <1>3 DEF PowerKept
    <2>1. Low # POWEROFF
      BY Commands DEF IInv, Course, Resetting, Starting, Running, PoweringOff,
                      Commanded, Rebooting, Overtaken, Plain
    <2>2. /\ ~power_down /\ \A i \in Stage : poweroff_sync[i]
      BY DEF IInv, PowerKept
    <2>3. Depth - 1 \in Stage
      BY PmcAssumption DEF Stage
    <2> QED  BY <1>1, <1>2, <2>1, <2>2, <2>3, SysEdgeShifts
  <1> QED  BY <1>3, <1>8, <1>9 DEF IInv

-----------------------------------------------------------------------------
(* The software's accesses.                                                 *)
LEMMA IssueInv ==
  ASSUME IInv,
         \/ init_pmc \/ Access \/ FallThrough
         \/ Command("panic", REBOOT, {"low"}) \/ Command("reboot", REBOOT, Lane)
         \/ Command("poweroff", POWEROFF, Lane)
  PROVE  IInv'
  <1>1. /\ UNCHANGED <<regs, syncVars, fallsThrough, Low>>
    BY DEF init_pmc, Access, FallThrough, Command, Low
  <1>2. /\ Types' /\ UNCHANGED <<Quiet, Rising, Falling, OneRun>>
    BY <1>1 DEF IInv, Types, syncVars, Quiet, Rising, Falling, OneRun
  <1>3. CASE init_pmc
    <2>1. Running' /\ cmd' = "none"
      BY <1>1, <1>2, <1>3
      DEF init_pmc, IInv, Course, Resetting, Starting, Running, PoweringOff,
          Commanded, Rebooting, Overtaken, Writing, Plain
    <2> QED  BY <1>1, <1>2, <1>3, <2>1 DEF IInv, Course, PowerKept, syncVars, init_pmc
  <1>4. CASE Access
    <2>1. Running' /\ cmd' = "none"
      BY <1>1, <1>2, <1>4
      DEF Access, IInv, Course, Resetting, Starting, Running, PoweringOff,
          Commanded, Rebooting, Overtaken, Writing, Reading, Plain
    <2> QED  BY <1>1, <1>2, <1>4, <2>1 DEF IInv, Course, PowerKept, syncVars, Access
  <1>5. CASE FallThrough
    <2>1. Rebooting' \/ Overtaken'
      BY <1>1, <1>2, <1>5, Kinds
      DEF FallThrough, IInv, Course, Resetting, Starting, Running, PoweringOff,
          Commanded, Rebooting, Overtaken, Writing
    <2> QED  BY <1>1, <1>2, <1>5, <2>1 DEF IInv, Course, PowerKept, syncVars, FallThrough
  <1>6. CASE Command("panic", REBOOT, {"low"}) \/ Command("reboot", REBOOT, Lane)
    <2>1. Commanded'
      BY <1>1, <1>2, <1>6
      DEF Command, IInv, Course, Resetting, Starting, Running, PoweringOff,
          Commanded, Rebooting, Overtaken, Writing
    <2>2. cmd = "none"
      BY <1>6
      DEF Command, IInv, Course, PoweringOff, Commanded, Rebooting, Overtaken
    <2> QED  BY <1>1, <1>2, <1>6, <2>1, <2>2 DEF IInv, Course, PowerKept, syncVars
  <1>7. CASE Command("poweroff", POWEROFF, Lane)
    <2>1. PoweringOff'
      BY <1>1, <1>2, <1>7, Commands
      DEF Command, IInv, Course, Resetting, Starting, Running, PoweringOff,
          Commanded, Rebooting, Overtaken, Writing
    <2> QED  BY <1>1, <1>2, <1>7, <2>1 DEF IInv, Course, PowerKept, Command
  <1> QED  BY <1>3, <1>4, <1>5, <1>6, <1>7

(* A write of b leaves b in the low byte and nothing in the others.         *)
LEMMA ApplyWrites ==
  ASSUME Types, NEW b \in Plain \cup {POWEROFF, REBOOT}, Writing(b), Apply
  PROVE  Types' /\ Low' = b
  <1>1. PICK s \in {Lane, {"low"}} : op = Write(b, s)
    BY DEF Writing
  <1>2. regs' = [regs EXCEPT !["pmc_state"] = RF!Merge(@, Word(b), s)]
    BY ZenonT(60), <1>1, Kinds DEF Apply, RF!Apply
  <1>3. RF!Merge(regs["pmc_state"], Word(b), s)
          = [l \in Lane |-> IF l = "low" THEN b ELSE {}]
    BY <1>1 DEF RF!Merge, Word, Lane, Types
  <1>4. b \in {{}, POWEROFF, REBOOT} \cup NOTHING
    BY DEF Plain
  <1>5. regs'["pmc_state"] = [l \in Lane |-> IF l = "low" THEN b ELSE {}]
    BY <1>2, <1>3 DEF Types
  <1>6. regs' \in [{"pmc_state"} -> RF!Word]
    BY <1>2, <1>3, <1>4 DEF Types, RF!Word
  <1>7. regs'["pmc_state"]["high"] = {} /\ regs'["pmc_state"]["low"] = b
    BY <1>5 DEF Lane
  <1> QED
    BY <1>6, <1>7 DEF Types, Apply, syncVars, Low

LEMMA ApplyInv == ASSUME IInv, Apply PROVE IInv'
  <1>1. UNCHANGED <<op, syncVars, phase, cmd, fallsThrough>>
    BY DEF Apply, RF!Apply
  <1>2. UNCHANGED <<Quiet, Rising, Falling, OneRun>> /\ PowerKept'
    BY <1>1 DEF syncVars, Quiet, Rising, Falling, OneRun, IInv, PowerKept
  <1>3. op.kind = "write"
    BY DEF Apply, RF!Apply
  <1>4. \A b \in Plain \cup {POWEROFF, REBOOT} : Writing(b) => Types' /\ Low' = b
    BY ApplyWrites DEF IInv
  <1>5. Quiet => Rising
    BY DEF Quiet, Rising
  <1>6. Rising => OneRun
    BY DEF Rising, OneRun
  <1>7. CASE (Resetting \/ Starting \/ Running) /\ cmd = "none"
    <2>1. PICK b \in Plain : Writing(b)
      BY <1>3, <1>7, Kinds DEF Resetting, Starting, Running, Reading
    <2>2. Types' /\ Low' = b
      BY <1>4, <2>1
    <2>3. Running
      BY <1>3, <1>7, Kinds DEF Resetting, Starting
    <2>4. Running'
      BY <1>1, <1>2, <2>1, <2>2, <2>3 DEF Running, Writing, Reading
    <2> QED  BY <1>1, <1>2, <1>7, <2>2, <2>4 DEF IInv, Course
  <1>8. CASE PoweringOff
    <2>1. Writing(POWEROFF)
      BY <1>3, <1>8, Kinds DEF PoweringOff
    <2>2. PoweringOff'
      BY <1>1, <1>2, <1>4, <1>8, <2>1, Commands DEF PoweringOff, Writing
    <2> QED  BY <1>2, <1>4, <2>1, <2>2 DEF IInv, Course
  <1>9. CASE Commanded
    <2>1. Rebooting'
      BY <1>1, <1>2, <1>4, <1>5, <1>9 DEF Commanded, Rebooting, Writing
    <2> QED  BY <1>2, <1>4, <1>9, <2>1 DEF IInv, Course, Commanded
  <1>10. CASE Rebooting
    <2>1. CASE Writing(REBOOT)
      <3>1. Rebooting'
        BY <1>1, <1>2, <1>4, <1>10, <2>1 DEF Rebooting, Writing
      <3> QED  BY <1>2, <1>4, <2>1, <3>1 DEF IInv, Course
    <2>2. CASE fallsThrough /\ cmd = "panic" /\ Writing(POWEROFF)
      <3>1. Overtaken'
        BY <1>1, <1>2, <1>4, <1>6, <1>10, <2>2 DEF Rebooting, Overtaken, Writing
      <3> QED  BY <1>2, <1>4, <2>2, <3>1 DEF IInv, Course
    <2> QED  BY <1>3, <1>10, <2>1, <2>2, Kinds DEF Rebooting
  <1>11. CASE Overtaken
    <2>1. Writing(POWEROFF)
      BY <1>3, <1>11, Kinds DEF Overtaken
    <2>2. Overtaken'
      BY <1>1, <1>2, <1>4, <1>11, <2>1 DEF Overtaken, Writing
    <2> QED  BY <1>2, <1>4, <2>1, <2>2 DEF IInv, Course
  <1> QED  BY <1>7, <1>8, <1>9, <1>10, <1>11 DEF IInv, Course

(* A response closes the access; that of a write waits until the write has  *)
(* taken effect.                                                            *)
LEMMA RespondInv == ASSUME IInv, Respond PROVE IInv'
  <1>1. UNCHANGED <<regs, Low, syncVars, phase, cmd, fallsThrough>> /\ op' = RF!NoOp
    BY DEF Respond, RF!WriteResponse, RF!ReadResponse, Low
  <1>2. /\ UNCHANGED <<Types, Quiet, Rising, Falling, OneRun>>
        /\ PowerKept'
    BY <1>1 DEF syncVars, Types, Quiet, Rising, Falling, OneRun, IInv, PowerKept
  <1>3. ~Commanded
    <2> SUFFICES ASSUME Commanded PROVE FALSE
      OBVIOUS
    <2>1. PICK s \in {Lane, {"low"}} : op = Write(REBOOT, s)
      BY DEF Commanded, Writing
    <2>2. regs["pmc_state"] = RF!Merge(regs["pmc_state"], Word(REBOOT), s)
      BY <2>1, Kinds DEF Respond, RF!WriteResponse, RF!ReadResponse
    <2>3. RF!Merge(regs["pmc_state"], Word(REBOOT), s)["low"] = REBOOT
      BY <2>1 DEF RF!Merge, Word, Lane
    <2> QED  BY <2>2, <2>3, Commands DEF Commanded, Low
  <1>4. Course'
    BY <1>1, <1>2, <1>3
    DEF IInv, Course, Resetting, Starting, Running, PoweringOff, Commanded,
        Rebooting, Overtaken
  <1> QED  BY <1>2, <1>4 DEF IInv

-----------------------------------------------------------------------------
(* The resets.                                                              *)
LEMMA ClearedType ==
  /\ Cleared \in [{"pmc_state"} -> RF!Word]
  /\ Cleared["pmc_state"]["low"] = {} /\ Cleared["pmc_state"]["high"] = {}
  BY DEF Cleared, RF!ZeroWord, RF!Word, Lane

LEMMA BusResetInv == ASSUME IInv, BusReset PROVE IInv'
  <1>1. Depth - 1 \in Stage /\ \A i \in Stage : i \in Int /\ i <= Depth - 1
    BY PmcAssumption DEF Stage
  <1>2. ~reboot_sync[Depth - 1]
    BY DEF BusReset, sys_reboot
  <1>3. Rising => Falling
    BY <1>1, <1>2 DEF Rising, Falling
  <1>4. OneRun => Falling
    <2> SUFFICES ASSUME OneRun, NEW i \in Stage, NEW j \in Stage, i < j, reboot_sync[j]
                 PROVE  reboot_sync[i]
      BY DEF Falling
    <2>1. j < Depth - 1
      BY <1>1, <1>2
    <2> QED  BY <1>1, <1>2, <2>1 DEF OneRun
  <1>5. ~Quiet
    BY <1>1, <1>2 DEF Quiet
  <1>6. Falling /\ cmd # "poweroff"
    BY <1>3, <1>4, <1>5
    DEF IInv, Course, Resetting, Starting, Running, PoweringOff, Commanded,
        Rebooting, Overtaken
  <1>7. Resetting' /\ cmd' = "none" /\ Types'
    BY <1>6, ClearedType DEF BusReset, syncVars, Resetting, Falling, Low, IInv, Types
  <1>8. PowerKept'
    BY <1>6 DEF BusReset, syncVars, IInv, PowerKept
  <1> QED  BY <1>7, <1>8 DEF IInv, Course

LEMMA ReleaseInv == ASSUME IInv, Release PROVE IInv'
  <1>1. Depth - 1 \in Stage /\ \A i \in Stage : i \in Int /\ i <= Depth - 1
    BY PmcAssumption DEF Stage
  <1>2. reboot_sync[Depth - 1] /\ Resetting /\ cmd = "none"
    BY DEF Release, sys_reboot, IInv, Course, Resetting, Starting, Running,
           PoweringOff, Commanded, Rebooting, Overtaken
  <1>3. Quiet
    BY <1>1, <1>2 DEF Resetting, Falling, Quiet
  <1>4. Starting' /\ cmd' = "none" /\ Types'
    BY <1>2, <1>3
    DEF Release, regVars, syncVars, Resetting, Starting, Quiet, Low, IInv, Types
  <1>5. PowerKept'
    BY DEF Release, syncVars, IInv, PowerKept
  <1> QED  BY <1>4, <1>5 DEF IInv, Course

LEMMA PowerCycleInv == ASSUME IInv, PowerCycle PROVE IInv'
  <1>1. Types' /\ Low' = {}
    BY ClearedType DEF PowerCycle, IInv, Types, Low, Idle
  <1>2. Quiet' /\ \A i \in Stage : poweroff_sync'[i]
    BY DEF PowerCycle, Idle, Quiet
  <1>3. Starting' /\ PowerKept' /\ cmd' = "none"
    BY <1>1, <1>2 DEF PowerCycle, Starting, PowerKept
  <1> QED  BY <1>1, <1>3 DEF IInv, Course

-----------------------------------------------------------------------------
LEMMA NextIInv == IInv /\ [Next]_vars => IInv'
  <1> SUFFICES ASSUME IInv, [Next]_vars PROVE IInv'
    OBVIOUS
  <1>1. CASE Next
    BY <1>1, SysEdgeInv, IssueInv, ApplyInv, RespondInv, BusResetInv, ReleaseInv,
       PowerCycleInv
    DEF Next
  <1>2. CASE UNCHANGED vars
    BY <1>2
    DEF vars, regVars, syncVars, IInv, Types, Course, PowerKept, Resetting, Starting,
        Running, PoweringOff, Commanded, Rebooting, Overtaken, Quiet, Rising,
        Falling, OneRun, Low, Writing, Reading
  <1> QED  BY <1>1, <1>2

(* Where the processor is, the registers and both synchronisers agree in    *)
(* every reachable state.                                                   *)
THEOREM Invariance == Spec => []IInv
  BY InitIInv, NextIInv, PTL DEF Spec

(* The registers, the synchronisers and the software have their types.      *)
THEOREM TypeCorrect == Spec => []TypeOK
<1>1. \A b \in Plain \cup {POWEROFF, REBOOT} : \A s \in {Lane, {"low"}} :
        Write(b, s) \in RF!WriteOp
  <2> SUFFICES ASSUME NEW b \in Plain \cup {POWEROFF, REBOOT},
                      NEW s \in {Lane, {"low"}}
               PROVE  Write(b, s) \in RF!WriteOp
    OBVIOUS
  <2>1. Word(b) = [l \in Lane |-> IF l = "low" THEN b ELSE {}]
    BY DEF Word, Lane
  <2>2. Word(b) \in RF!Word
    BY <2>1 DEF RF!Word, Plain
  <2>3. s \in SUBSET Lane
    BY DEF Lane
  <2> QED  BY <2>2, <2>3 DEF Write, RF!WriteOp
<1>2. [kind |-> "read", addr |-> "pmc_state"] \in RF!ReadOp
  BY DEF RF!ReadOp
<1>3. ASSUME IInv PROVE TypeOK
  <2>1. op \in {RF!NoOp} \cup RF!WriteOp \cup RF!ReadOp
    BY <1>1, <1>2, <1>3
    DEF IInv, Course, Resetting, Starting, Running, PoweringOff, Commanded,
        Rebooting, Overtaken, Writing, Reading
  <2>2. /\ phase \in {"reset", "init", "run", "halted"}
        /\ cmd \in {"none", "panic", "reboot", "poweroff"}
    BY <1>3 DEF IInv, Course, Resetting, Starting, Running, PoweringOff, Commanded,
                Rebooting, Overtaken
  <2> QED  BY <1>3, <2>1, <2>2 DEF IInv, Types, TypeOK
<1> QED
  BY <1>3, Invariance, PTL

(* A build that does not fall through loses power only on command.          *)
THEOREM PowerSafe == Spec => []PowerOffOnCommand
<1>1. IInv => PowerOffOnCommand
  BY DEF IInv, PowerKept, PowerOffOnCommand, NoUnaskedPowerOff
<1> QED
  BY <1>1, Invariance, PTL

(* Software that runs again after a reboot is not reset a second time.      *)
THEOREM NoTail == Spec => []NoRebootTail
<1>1. IInv => NoRebootTail
  BY DEF IInv, Course, Resetting, Starting, Running, PoweringOff, Commanded,
         Rebooting, Overtaken, Quiet, NoRebootTail
<1> QED
  BY <1>1, Invariance, PTL
=============================================================================
