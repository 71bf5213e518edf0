----------------------------- MODULE MCUartLink -----------------------------
(***************************************************************************)
(* UartLink on rings of three slots: a flow frame of two bytes fills one,  *)
(* so indices wrap, frames are refused and received bytes are dropped      *)
(* within a few steps.  Byte values differ enough to show a byte lost,     *)
(* repeated or out of order.                                               *)
(***************************************************************************)
EXTENDS UartLink

MCFlowFrames  == {<<1, 2>>}
MCRangeFrames == {<<2>>}
=============================================================================
