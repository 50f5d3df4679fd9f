---------------------------- MODULE MCDmaDriver ----------------------------
\* Instances of DmaDriver for TLC.
EXTENDS DmaDriver

\* Encoder values on both sides of zero, in and out of the store: indices 1, 2 and 3.
MCEncoderCounts == {-1, 2, 4}
=============================================================================
