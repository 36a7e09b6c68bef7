---------------------------- MODULE MCSerialBoot ----------------------------
(* The small instance of SerialBoot for TLC. *)
EXTENDS SerialBoot

(* Images that leave each other and the device tree alone. *)
Fitting == [x \in Image |-> IF x = "kernel" THEN 3 ELSE 2]
=============================================================================
