------------------------------- MODULE MCMsp -------------------------------
(***************************************************************************)
(* The MSP codec for TLC: an empty frame and one that fills the payload,   *)
(* and noise made of the marks, lengths in range and one out of it.        *)
(***************************************************************************)
EXTENDS Msp

MCFrames == {[command |-> 1, payload |-> <<>>], [command |-> 258, payload |-> <<1, LESS>>]}
MCNoise == {DOLLAR, LETTER_X, LESS, 1, 3}

\* PlaceIsFound asks this of the frames.
ASSUME MarkIsFirst ==
  \A frame \in MCFrames :
    LET bytes == msp_encode_v2(frame.command, frame.payload)
    IN  \A i \in 2 .. Len(bytes) : bytes[i] # DOLLAR
=============================================================================
