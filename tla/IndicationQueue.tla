--------------------------- MODULE IndicationQueue ---------------------------
(***************************************************************************)
(* What the agent promises to the RAN functions about aperiodic            *)
(* indications: each one that a RAN thread hands over is sent once, in the *)
(* order of the handovers, however many are handed over while others are   *)
(* being sent.  E2Agent shows that its queue, the batches taken from it    *)
(* and the pipe that announces them keep this promise.                     *)
(***************************************************************************)
EXTENDS Naturals, Sequences

CONSTANT Ids       \* request ids of subscriptions

VARIABLES
    waiting,       \* the indications handed over and not yet sent, oldest first
    unsent         \* how many they are

vars == <<waiting, unsent>>

Init == waiting = <<>> /\ unsent = 0

HandOver(id) == waiting' = Append(waiting, id) /\ unsent' = unsent + 1

Send == waiting # <<>> /\ waiting' = Tail(waiting) /\ unsent' = unsent - 1

Next == Send \/ \E id \in Ids : HandOver(id)

Spec == Init /\ [][Next]_vars
=============================================================================
