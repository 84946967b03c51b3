------------------------------ MODULE MCStartup ------------------------------
EXTENDS Startup

MCThreadCounts == 0..2 \cup {None}
MCBufferSizes == {0, 1, 2, 3, 7, 8, 9, 11, None}
MCQueueDepths == {0, 2, 15, None}
MCFileSizes == 0..15
=============================================================================
