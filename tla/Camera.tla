-------------------------------- MODULE Camera --------------------------------
(***************************************************************************)
(* What a WebCamera object promises whoever uses it, without its threads,  *)
(* its statements and its pointers.  It is opened once, captures and stops *)
(* capturing any number of times, and is closed once and for good.  A rate *)
(* that is asked for while it captures is given to the device while it     *)
(* does not, and it captures again only at the rate that was asked for     *)
(* last.                                                                   *)
(*                                                                         *)
(* The promise ends when the camera breaks: when a system call fails, when *)
(* two calls overlap, or when the program misuses the object.              *)
(***************************************************************************)
EXTENDS Integers

CONSTANTS
  Rates,        \* the frame rates that may be asked for
  InitialRate   \* the one asked for when the camera was made; 0 asks for none

VARIABLES
  phase,    \* "unopened", "off", "on", "closed", or "broken"
  wanted,   \* the rate asked for last
  rate      \* the rate of the device

vars == <<phase, wanted, rate>>

NoRate == 0

Init ==
  \/ phase = "unopened" /\ wanted = InitialRate /\ rate = NoRate
  \/ phase = "broken" /\ wanted = NoRate /\ rate = NoRate

Agreed == wanted > 0 => rate = wanted

Open ==
  /\ phase = "unopened" /\ phase' = "off"
  /\ rate' = IF wanted > 0 THEN wanted ELSE rate
  /\ UNCHANGED wanted

Start ==
  /\ phase = "off" /\ phase' = "on"
  /\ Agreed
  /\ UNCHANGED <<wanted, rate>>

Stop == phase = "on" /\ phase' = "off" /\ UNCHANGED <<wanted, rate>>

Ask ==
  /\ phase = "on" /\ Agreed
  /\ wanted' \in Rates \ {wanted}
  /\ UNCHANGED <<phase, rate>>

SetRate == phase = "off" /\ rate' = wanted /\ UNCHANGED <<phase, wanted>>

Close == phase = "off" /\ phase' = "closed" /\ UNCHANGED <<wanted, rate>>

Break == phase' = "broken" /\ wanted' = NoRate /\ rate' = NoRate

Next == Open \/ Start \/ Stop \/ Ask \/ SetRate \/ Close \/ Break

Spec == Init /\ [][Next]_vars
=============================================================================
