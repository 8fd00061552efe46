-------------------------------- MODULE MCPit --------------------------------
(***************************************************************************)
(* frequency_set for every IRQ0_FREQUENCY whose count fits in 16 bits.     *)
(***************************************************************************)
EXTENDS Pit

MCFrequencies == 19 .. 400

(* After frequency_set, the 8253 counts down from COUNTER0_VALUE, so IRQ0  *)
(* comes IRQ0_FREQUENCY times a second (timer.c:8-10 and the 10 ms tick   *)
(* that mil_seconds_per_intr and mtime_sleep assume).                      *)
CountIsCounterValue == step = "done" => count = counter_value
=============================================================================
