--------------------------------- MODULE Pmc ---------------------------------
(***************************************************************************)
(* The power management controller of rtl/pmc.v, with the software that    *)
(* commands it (firmware/dev.c and the syscon nodes of len-fpga.dts).      *)
(*                                                                         *)
(* pmc_state lives on the bus clock; its decoded commands are shifted      *)
(* through Depth registers on the system clock.  The two clocks are        *)
(* interleaved edge by edge: both come from one board clock, and the tools *)
(* time the paths between them, so no edge sees pmc_state half changed.    *)
(*                                                                         *)
(* The register itself is the register file that AxiLiteSlave implements.  *)
(* In the block design (docs/images/soc.png) sys_reboot drives the reset   *)
(* generator, which holds the bus side in reset while it is low, and       *)
(* sys_poweroff stops the clock generator of the bus side.                 *)
(***************************************************************************)
EXTENDS Naturals

CONSTANT Depth  \* stages of each synchroniser (4)

ASSUME PmcAssumption == Depth \in Nat \ {0}

VARIABLES
  regs, op, rsp,   \* the register file: pmc_state, the access, the last read
  poweroff_sync, reboot_sync, \* stage |-> the (active low) request in it
  power_down,
  phase,           \* what the processor does: "reset", "init", "run", "halted"
  cmd,             \* the command it has given since it came out of reset
  fallsThrough     \* does this build run on from reboot into poweroff?

regVars == <<regs, op, rsp>>
syncVars == <<poweroff_sync, reboot_sync, power_down>>
vars == <<regVars, syncVars, phase, cmd, fallsThrough>>

-----------------------------------------------------------------------------
(* A byte is the set of its bits that are one.                              *)
POWEROFF == {1, 4, 5, 7}            \* 0xB2
REBOOT == {0, 1, 2, 4, 5, 6, 7}     \* 0xF7
NOTHING == {{4, 5}, {0, 1, 4, 5, 7}}  \* 0x30 and 0xB3, which command nothing
Lane == {"low", "high"}             \* byte 0, and the three others

RF == INSTANCE RegFile WITH
        Reg <- {"pmc_state"}, Other <- {}, Lane <- Lane,
        Byte <- {{}, POWEROFF, REBOOT} \cup NOTHING, ZeroByte <- {},
        mem <- regs, call <- op

(* The command word for a byte: every other byte is zero.                   *)
Word(b) == [low |-> b, high |-> {}]

Cleared == [r \in {"pmc_state"} |-> RF!ZeroWord]

(* Wrong: the bits of the command, whatever the others are; the other       *)
(* command's word.                                                          *)
poweroff_Mask == ~(POWEROFF \subseteq regs["pmc_state"]["low"])
poweroff_Swap == regs["pmc_state"] # Word(REBOOT)

(* The request lines, low when pmc_state is exactly the command.            *)
poweroff == regs["pmc_state"] # Word(POWEROFF)
reboot == regs["pmc_state"] # Word(REBOOT)

Stage == 0 .. Depth - 1

(* A shift register takes a value at stage 0 and moves the others up.       *)
Shift(sync, value) ==
  [i \in Stage |-> IF i = 0 THEN value ELSE sync[i - 1]]

sys_poweroff == power_down
sys_reboot_Slip == reboot_sync[0] \* wrong: the first stage

sys_reboot == reboot_sync[Depth - 1]

-----------------------------------------------------------------------------
(* One edge of the system clock.                                            *)
SysEdge ==
  /\ poweroff_sync' = Shift(poweroff_sync, poweroff)
  /\ reboot_sync' = Shift(reboot_sync, reboot)
  /\ power_down' = (power_down \/ ~poweroff_sync[Depth - 1])
  /\ UNCHANGED <<regVars, phase, cmd, fallsThrough>>

-----------------------------------------------------------------------------
(* The bus side: the software's accesses and what becomes of them.          *)
BusClock == ~sys_poweroff

Write(byte, strb) ==
  [kind |-> "write", addr |-> "pmc_state", data |-> Word(byte), strb |-> strb]

init_pmc ==
  /\ BusClock
  /\ phase = "init" /\ op = RF!NoOp
  /\ op' = Write({}, Lane)
  /\ phase' = "run"
  /\ UNCHANGED <<regs, rsp, syncVars, cmd, fallsThrough>>

(* Software that owns the register reads it, or writes what is no command.  *)
Access ==
  /\ BusClock
  /\ phase = "run" /\ op = RF!NoOp
  /\ op' \in {Write(byte, Lane) : byte \in NOTHING}
            \cup {[kind |-> "read", addr |-> "pmc_state"]}
  /\ UNCHANGED <<regs, rsp, syncVars, phase, cmd, fallsThrough>>

(* The firmware's panic writes the command byte alone (reboot, writeb), the *)
(* kernel's syscon driver the whole word.  Neither expects to go on.        *)
Command(name, byte, strb) ==
  /\ BusClock
  /\ phase = "run" /\ op = RF!NoOp
  /\ op' = Write(byte, strb)
  /\ phase' = "halted"
  /\ cmd' = name
  /\ UNCHANGED <<regs, rsp, syncVars, fallsThrough>>

(* But the firmware's processor does: behind the store of reboot there is   *)
(* only __builtin_unreachable, so a build may place nothing between it and  *)
(* the store of poweroff, the next function of the file.                    *)
FallThrough ==
  /\ BusClock
  /\ fallsThrough
  /\ phase = "halted" /\ cmd = "panic" /\ op = RF!NoOp
  /\ op' = Write(POWEROFF, {"low"})
  /\ UNCHANGED <<regs, rsp, syncVars, phase, cmd, fallsThrough>>

Apply ==
  /\ BusClock
  /\ RF!Apply
  /\ UNCHANGED <<syncVars, phase, cmd, fallsThrough>>

Respond ==
  /\ BusClock
  /\ RF!WriteResponse \/ RF!ReadResponse
  /\ UNCHANGED <<syncVars, phase, cmd, fallsThrough>>

(* Wrong: pmc_state survives the reset.                                     *)
BusReset_Slip ==
  /\ BusClock
  /\ ~sys_reboot
  /\ op' = RF!NoOp /\ rsp' = RF!ZeroWord
  /\ phase' = "reset" /\ cmd' = "none"
  /\ UNCHANGED <<regs, syncVars, fallsThrough>>

(* The reset generator.                                                     *)
BusReset ==
  /\ BusClock
  /\ ~sys_reboot
  /\ regs' = Cleared
  /\ op' = RF!NoOp /\ rsp' = RF!ZeroWord
  /\ phase' = "reset" /\ cmd' = "none"
  /\ UNCHANGED <<syncVars, fallsThrough>>

Release ==
  /\ BusClock
  /\ phase = "reset" /\ sys_reboot
  /\ phase' = "init"
  /\ UNCHANGED <<regVars, syncVars, cmd, fallsThrough>>

Idle == [i \in Stage |-> TRUE]

Init ==
  /\ regs = Cleared /\ op = RF!NoOp /\ rsp = RF!ZeroWord
  /\ poweroff_sync = Idle /\ reboot_sync = Idle /\ power_down = FALSE
  /\ phase = "init" /\ cmd = "none"
  /\ fallsThrough \in BOOLEAN

(* The reset button turns the board on again: both domains are reset.       *)
PowerCycle ==
  /\ sys_poweroff
  /\ regs' = Cleared /\ op' = RF!NoOp /\ rsp' = RF!ZeroWord
  /\ poweroff_sync' = Idle /\ reboot_sync' = Idle /\ power_down' = FALSE
  /\ phase' = "init" /\ cmd' = "none"
  /\ UNCHANGED fallsThrough

-----------------------------------------------------------------------------
Next ==
  \/ SysEdge
  \/ init_pmc
  \/ Command("panic", REBOOT, {"low"})
  \/ Command("reboot", REBOOT, Lane)
  \/ Command("poweroff", POWEROFF, Lane)
  \/ Access
  \/ FallThrough
  \/ Apply
  \/ Respond
  \/ BusReset
  \/ Release
  \/ PowerCycle

(* Both clocks run, and the reset generator does its work.                  *)
Fairness ==
  /\ WF_vars(SysEdge)
  /\ WF_vars(init_pmc)
  /\ WF_vars(Apply)
  /\ WF_vars(Respond)
  /\ WF_vars(BusReset)
  /\ WF_vars(Release)

Spec == Init /\ [][Next]_vars
FairSpec == Spec /\ Fairness

-----------------------------------------------------------------------------
TypeOK ==
  /\ regs \in [{"pmc_state"} -> RF!Word]
  /\ op \in {RF!NoOp} \cup RF!WriteOp \cup RF!ReadOp
  /\ poweroff_sync \in [Stage -> BOOLEAN] /\ reboot_sync \in [Stage -> BOOLEAN]
  /\ power_down \in BOOLEAN
  /\ phase \in {"reset", "init", "run", "halted"}
  /\ cmd \in {"none", "panic", "reboot", "poweroff"}
  /\ fallsThrough \in BOOLEAN

(* The power goes off only when the software has said so.                   *)
NoUnaskedPowerOff == power_down => cmd = "poweroff"

(* In a build that does not fall through, a reboot request, from a panic or *)
(* from the kernel, never removes the power (the decoded comparisons, the   *)
(* synchronisers and the power_down latch).                                 *)
PowerOffOnCommand == ~fallsThrough => NoUnaskedPowerOff

(* When the software runs again after a reboot no stage still holds the old *)
(* request, so it is not reset a second time.                               *)
NoRebootTail == phase \in {"init", "run"} => \A i \in Stage : reboot_sync[i]

(* A power-off command takes effect.                                        *)
PowerOffHappens == (phase = "halted" /\ cmd = "poweroff") ~> power_down

(* A reboot command takes effect, and the software starts again, in a build *)
(* that does not fall through.                                              *)
RebootHappens ==
  (~fallsThrough /\ phase = "halted" /\ cmd \in {"panic", "reboot"})
    ~> (phase = "init")
=============================================================================
