------------------------------- MODULE MCPort -------------------------------
(* A small instance of Port: three sniffers one after the other, so that    *)
(* the loops of two failed starts may be left, and three descriptors.       *)
EXTENDS Port

CONSTANTS p1, p2, p3

MCSniffer == {p1, p2, p3}
MCFd == 0..2
=============================================================================
