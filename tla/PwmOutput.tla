------------------------------ MODULE PwmOutput ------------------------------
(***************************************************************************)
(* How audio_pwm.v turns a sample into pulses: current_sample is compared  *)
(* in every bus clock cycle with a free-running counter read backwards.    *)
(* Audio puts it behind the pacing of AudioPwm.                            *)
(***************************************************************************)
EXTENDS Integers

CONSTANT Bits  \* of a sample (16)

VARIABLES
  current_sample, pwm_counter, audio_pwm_r,
  played,   \* history: the signed sample current_sample was made from
  steady,   \* history: the blocks in which the sample has not changed
  high      \* history: block |-> its high cycles so far, 0 unless steady

vars == <<current_sample, pwm_counter, audio_pwm_r, played, steady, high>>

Pow2(n) ==
  LET power[j \in 0 .. n] == IF j = 0 THEN 1 ELSE 2 * power[j - 1] IN power[n]

Word == 0 .. Pow2(Bits) - 1
Half == Pow2(Bits - 1)
Signed == -Half .. Half - 1

Bit(n, i) == (n \div Pow2(i)) % 2

(* The word with its bits in reverse order.                                 *)
Reversed(n) ==
  LET sum[k \in 0 .. Bits] ==
        IF k = 0 THEN 0 ELSE sum[k - 1] + Pow2(k - 1) * Bit(n, Bits - k)
  IN sum[Bits]

Forwards == pwm_counter  \* wrong: the counter as it is

pwm_reversed_counter == Reversed(pwm_counter)

(* The bus carries a signed sample in two's complement.                     *)
TDATA(sample) == sample % Pow2(Bits)

(* The word with its top bit inverted.                                      *)
FlipTop_Keep(word) == word         \* wrong: as it comes
FlipTop(word) == (word + Half) % Pow2(Bits)

Level == current_sample >= pwm_reversed_counter

(* Block k is a run of 2^k cycles that begins at a multiple of 2^k.         *)
Block == 0 .. Bits
Begins(k, count) == count % Pow2(k) = 0

Init ==
  /\ current_sample = 0 /\ played = -Half
  /\ pwm_counter = 0
  /\ audio_pwm_r = FALSE
  /\ steady = Block
  /\ high = [k \in Block |-> 0]

(* A sample arrives when it was asked for and the FIFO has one              *)
(* (M_AXIS_TREADY and M_AXIS_TVALID), or none does.                         *)
Arrive(request) ==
  \/ UNCHANGED <<current_sample, played>>
  \/ /\ request
     /\ \E s \in Signed : current_sample' = FlipTop(TDATA(s)) /\ played' = s

History ==
  /\ steady' = {k \in Block : Begins(k, pwm_counter')
                             \/ (k \in steady /\ played' = played)}
  /\ high' = [k \in Block |->
       IF k \in steady
       THEN (IF Begins(k, pwm_counter) THEN 0 ELSE high[k])
            + (IF Level THEN 1 ELSE 0)
       ELSE 0]

Tick(request) ==
  /\ Arrive(request)
  /\ pwm_counter' = (pwm_counter + 1) % Pow2(Bits)
  /\ audio_pwm_r' = Level
  /\ History

-----------------------------------------------------------------------------
TypeOK ==
  /\ current_sample \in Word /\ pwm_counter \in Word
  /\ played \in Signed
  /\ audio_pwm_r \in BOOLEAN
  /\ steady \subseteq Block
  /\ high \in [Block -> 0 .. Pow2(Bits)]

(* Over a full turn of the counter the output is high for as many cycles    *)
(* as the signed sample lies above the lowest one, and one more: the level  *)
(* rises with the sample over its whole range.                              *)
DutyFollowsSample ==
  [][(Begins(Bits, pwm_counter') /\ Bits \in steady)
       => high'[Bits] = played + Half + 1]_vars

(* Every aligned block of 2^k cycles gets its share of the high cycles, to  *)
(* within one cycle: this is what reading the counter backwards is for.     *)
PulsesSpread ==
  [][\A k \in steady :
       Begins(k, pwm_counter') =>
         LET blocks == Pow2(Bits - k)
             share == played + Half + 1
         IN /\ high'[k] * blocks > share - blocks
            /\ high'[k] * blocks < share + blocks]_vars
=============================================================================
