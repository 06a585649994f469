------------------------------ MODULE MCPolling ------------------------------
EXTENDS Polling
SomeTimeouts == {-1, 0, 1}
=============================================================================
