----------------------------- MODULE MCEventLoop -----------------------------
EXTENDS EventLoop

MCLimits == {{"RTIMEOUT"}}
==============================================================================
