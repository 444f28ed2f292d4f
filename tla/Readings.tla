------------------------------ MODULE Readings ------------------------------
(***************************************************************************)
(* The two stages of a reading, from the device to MQTT: how the gateway   *)
(* reads a reply (Frames) and what it makes of what it has read            *)
(* (Processing).  They share no state but the value that passes from one   *)
(* to the other, and DeviceCollector._collect_point() makes None of a      *)
(* frame that is refused, so each stage is observed by itself.             *)
(***************************************************************************)
EXTENDS Processing, Frames

VARIABLE observed   \* the stage whose steps are taken

ReadingsInit ==
  \/ observed = "frames" /\ FramesInit /\ ProcessingInit /\ setup = (CHOOSE s \in Setups : TRUE) /\ batching = FALSE
  \/ observed = "processing" /\ ProcessingInit /\ FramesInit /\ link = (CHOOSE k \in Links : TRUE)

ReadingsNext ==
  /\ UNCHANGED observed
  /\ \/ observed = "frames" /\ FramesNext /\ UNCHANGED processingVars
     \/ observed = "processing" /\ ProcessingNext /\ UNCHANGED framesVars

ReadingsSpec == ReadingsInit /\ [][ReadingsNext]_<<observed, processingVars, framesVars>>

=============================================================================
