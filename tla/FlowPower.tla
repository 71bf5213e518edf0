------------------------------ MODULE FlowPower ------------------------------
(***************************************************************************)
(* FlowSensor and the configuration of its chip.  A chip that loses its    *)
(* power comes back with its identity and without its configuration, and   *)
(* the firmware's health check reads the identity (pmw3901.c:82-87).       *)
(***************************************************************************)
EXTENDS FlowSensor

VARIABLE intact    \* what was written since the power-up write is still there

powerVars == <<vars, intact>>

PowerInit == Init /\ intact = FALSE

\* The write at the end of RELEASE_WAIT (pmw3901.c:62) is made.
PowerUpWritten == init_state = "RELEASE_WAIT" /\ init_state' = "ID_WAIT"

\* A chip keeps what it is told from its power-up write on, until its reset line
\* is asserted (pmw3901.c:55) or its supply fails.
Configuration ==
  intact' = (connected' /\ ~inReset' /\ (intact \/ PowerUpWritten))

PowerNext == Next /\ Configuration

PowerSpec ==
  /\ PowerInit /\ [][PowerNext]_powerVars
  /\ WF_powerVars(Main /\ Configuration) /\ WF_powerVars(Tick /\ Configuration)

\* docs/bringup-checklist.md:13, "Disconnect/reconnect SPI and I2C sensors: Invalid
\* data is published; ... retry every ~1 s": once the chip is back for good, one
\* that has lost its configuration is taken out of service.
LossOfPowerIsNoticed ==
  <>[]connected => ((initialized /\ ~intact) ~> ~initialized)
=============================================================================
