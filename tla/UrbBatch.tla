------------------------------ MODULE UrbBatch ------------------------------
(* What a queue test of the usbtest driver promises to the rest of the     *)
(* kernel: it owns a batch of URBs whose buffers and context are its own,  *)
(* and it does not return before the last of them has been given back and  *)
(* its completion handler has said so.                                     *)
EXTENDS Naturals

VARIABLES
    phase,   \* "idle", or "running" while a test owns the batch
    busy     \* URBs submitted, or being completed, and not yet finished

vars == <<phase, busy>>

Init == phase = "idle" /\ busy = 0

Begin == phase = "idle" /\ busy = 0 /\ phase' = "running" /\ busy' = 0

Submit == phase = "running" /\ busy' = busy + 1 /\ UNCHANGED phase

Finish == phase = "running" /\ busy > 0 /\ busy' = busy - 1 /\ UNCHANGED phase

End == phase = "running" /\ busy = 0 /\ phase' = "idle" /\ UNCHANGED busy

Next == Begin \/ Submit \/ Finish \/ End

Spec == Init /\ [][Next]_vars
=============================================================================
