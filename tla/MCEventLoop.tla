----------------------------- MODULE MCEventLoop -----------------------------
EXTENDS EventLoop
CONSTANTS p1, p2
=============================================================================
