-------------------------------- MODULE Audio --------------------------------
(***************************************************************************)
(* The audio device of audio_pwm.v: the pacing of AudioPwm asks for the    *)
(* samples, PwmOutput plays them, both on the bus clock.  A request is the *)
(* registered sample_request, so a sample is taken in the cycle after the  *)
(* counter has run out, and only then.                                     *)
(***************************************************************************)
EXTENDS AudioPwm

CONSTANT Bits  \* of a sample (16)

ASSUME BitsAssumption == Bits \in Nat \ {0}

VARIABLES current_sample, pwm_counter, audio_pwm_r, played, steady, high

Pwm == INSTANCE PwmOutput

audioVars == <<vars, Pwm!vars>>

AudioInit == Init /\ Pwm!Init

AudioNext == Tick /\ Pwm!Tick(sample_request)

AudioSpec ==
  AudioInit /\ [][AudioNext]_audioVars /\ WF_audioVars(AudioNext)

-----------------------------------------------------------------------------
(* The level of the output follows the sample over its whole range, also    *)
(* when the divider paces the samples faster than the counter turns.        *)
DutyFollowsSample == Pwm!DutyFollowsSample

(* The pulses of a sample are spread evenly over the turn of the counter.   *)
PulsesSpread == Pwm!PulsesSpread
=============================================================================
