---------------------------- MODULE MCNativePort ----------------------------
EXTENDS NativePort
=============================================================================
