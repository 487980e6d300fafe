---------------------------- MODULE MCReplicator ----------------------------
\* Two requests for one chunk: the second replaces the first.
EXTENDS Replicator
=============================================================================
