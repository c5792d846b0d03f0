----------------------------- MODULE MCRecording -----------------------------
EXTENDS Recording
=============================================================================
