---------------------------- MODULE MCConsumerLoop --------------------------
EXTENDS ConsumerLoop, TLC
=============================================================================
