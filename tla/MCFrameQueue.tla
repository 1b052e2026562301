---------------------------- MODULE MCFrameQueue ----------------------------
(* FrameQueue for TLC, with five AVFrame objects: a full queue of three,  *)
(* the one on screen and the one the decoder fills.                        *)
EXTENDS FrameQueue
=============================================================================
