--------------------------- MODULE MCSessionLock ---------------------------
\* With two chat slots a third message waits for the lane; with three, two
\* messages can wait for the lock of one session.
EXTENDS SessionLock
=============================================================================
