---------------------------- MODULE MCMediaFetch ----------------------------
EXTENDS MediaFetch
=============================================================================
