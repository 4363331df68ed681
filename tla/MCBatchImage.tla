---------------------------- MODULE MCBatchImage ----------------------------
EXTENDS BatchImage
=============================================================================
