---------------------------- MODULE MCMirroring ----------------------------
EXTENDS Mirroring
=============================================================================
