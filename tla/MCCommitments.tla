---------------------------- MODULE MCCommitments ----------------------------
EXTENDS Commitments
=============================================================================
