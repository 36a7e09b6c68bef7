------------------------------- MODULE AudioPwm -------------------------------
(***************************************************************************)
(* How audio_pwm.v paces its samples: a counter reloaded from              *)
(* audio_clk_div at every request pops the sample FIFO, while software     *)
(* rewrites the divider and the two control bits at any cycle.  The        *)
(* register block in front of it is the one AxiLiteSlave models; here an   *)
(* access is what it does to the registers.                                *)
(*                                                                         *)
(* One step is one bus clock cycle.                                        *)
(***************************************************************************)
EXTENDS Naturals

CONSTANTS Width,    \* values of the 32-bit counter: 0 .. Width - 1
          ResetDiv, \* audio_clk_div after reset (2268)
          Divs      \* the dividers that software writes

ASSUME AudioAssumption ==
  /\ Width \in Nat /\ Width > 2
  /\ ResetDiv \in 2 .. Width - 1
  /\ Divs \subseteq 0 .. Width - 1

VARIABLES
  audio_clk_div, intr_state, chip_state,  \* the registers
  sample_counter, sample_request,
  loaded,   \* history: the divider the counter was last loaded with
  elapsed,  \* history: cycles since that request
  missed    \* history: was audio off in a cycle since that request?

registers == <<audio_clk_div, intr_state, chip_state>>
vars == <<registers, sample_counter, sample_request, loaded, elapsed, missed>>

Count == 0 .. Width - 1

(* The cycles between two requests for a divider: the counter that is       *)
(* loaded with 0 first runs through all its values.                         *)
Period(d) == IF d = 0 THEN Width + 1 ELSE d + 1

Init ==
  /\ audio_clk_div = ResetDiv
  /\ intr_state = FALSE /\ chip_state = FALSE
  /\ sample_counter = ResetDiv
  /\ sample_request = FALSE
  /\ loaded = ResetDiv /\ elapsed = 1 /\ missed = FALSE

(* One register access at most reaches a register in a cycle.               *)
Access ==
  \/ UNCHANGED registers
  \/ audio_clk_div' \in Divs /\ UNCHANGED <<intr_state, chip_state>>
  \/ /\ intr_state' \in BOOLEAN /\ chip_state' \in BOOLEAN
     /\ UNCHANGED audio_clk_div

Request == sample_counter = 1 /\ intr_state /\ chip_state

Less_Stop(n) == IF n = 0 THEN 0 ELSE n - 1 \* wrong: stays at 0

(* The counter, one less: below 0 it starts again from its largest value.   *)
Less(n) == IF n = 0 THEN Width - 1 ELSE n - 1

(* Wrong: reloaded as soon as it has run out.                               *)
Counter_Early ==
  IF sample_counter = 1 THEN audio_clk_div ELSE Less(sample_counter)

(* Wrong: a new divider is loaded at once.                                  *)
Counter_Follow ==
  IF sample_request \/ audio_clk_div' # audio_clk_div
  THEN audio_clk_div' ELSE Less(sample_counter)

Counter == IF sample_request THEN audio_clk_div ELSE Less(sample_counter)

Capped(n) == IF n > Width + 1 THEN Width + 2 ELSE n

History ==
  IF sample_request
  THEN loaded' = audio_clk_div /\ elapsed' = 1
       /\ missed' = ~(intr_state /\ chip_state)
  ELSE /\ UNCHANGED loaded
       /\ elapsed' = Capped(elapsed + 1)
       /\ missed' = (missed \/ ~(intr_state /\ chip_state))

Tick ==
  /\ Access
  /\ sample_request' = Request
  /\ sample_counter' = Counter
  /\ History

Next == Tick

Spec == Init /\ [][Next]_vars
FairSpec == Spec /\ WF_vars(Tick)

-----------------------------------------------------------------------------
TypeOK ==
  /\ audio_clk_div \in Count /\ loaded \in Count /\ sample_counter \in Count
  /\ intr_state \in BOOLEAN /\ chip_state \in BOOLEAN
  /\ sample_request \in BOOLEAN /\ missed \in BOOLEAN
  /\ elapsed \in 1 .. Width + 2

(* While audio stays on, the next sample is asked for exactly one period    *)
(* after the last, and the period is that of the divider in force at the    *)
(* last request: neither a write of the divider nor the turn of the counter *)
(* shifts it.                                                               *)
SampleOnTime ==
  ~missed => /\ elapsed <= Period(loaded)
             /\ sample_request <=> elapsed = Period(loaded)

(* However software switches audio off and on and rewrites the divider, two *)
(* samples are never closer together than the divider asks for.             *)
NeverTooSoon == sample_request => elapsed >= Period(loaded)

(* Audio that stays on asks for samples for ever, also when it was switched *)
(* on just after the counter had passed 1.                                  *)
SamplesFlow ==
  <>[](intr_state /\ chip_state) => []<>sample_request
=============================================================================
