-------------------------- MODULE MCCheckpointStore ---------------------------
EXTENDS CheckpointStore

\* A fresh state, an older and a newer one.
MCCursors == 0..2
=============================================================================
