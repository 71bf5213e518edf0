------------------------------ MODULE MCCanTx ------------------------------
(***************************************************************************)
(* CanTx with a pool of six blocks and a reserve of four: an answer and a  *)
(* flow measurement of two frames each, a range measurement and a status   *)
(* of one.  As in the firmware, after telemetry has been admitted for the  *)
(* last time there is still room for an answer and a status, and a burst   *)
(* of answers does not fit; nor does a long request.  The liveness run has *)
(* single-frame answers, a smaller pool and polls of one frame, and the    *)
(* run of AnswerHasBlocks a second requester.                              *)
(***************************************************************************)
EXTENDS CanTx, FirmwareConfig

MCFrames == [info |-> 2, status |-> 1, range |-> 1, flow |-> 2]

\* The instance keeps the ties of the firmware's pool.
ASSUME MCKeepsTies ==
  Frames = MCFrames => PoolTies(Frames["info"], Frames["status"], Frames["flow"], RESERVE)

MCLiveFrames == [info |-> 1, status |-> 1, range |-> 1, flow |-> 2]
=============================================================================
