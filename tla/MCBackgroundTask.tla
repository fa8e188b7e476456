-------------------------- MODULE MCBackgroundTask --------------------------
(* Instances of BackgroundTask for TLC.                                    *)
EXTENDS BackgroundTask

MCOutcomes == {"completed", "awaiting_approval", "parked"}
=============================================================================
