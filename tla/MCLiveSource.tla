---------------------------- MODULE MCLiveSource ----------------------------
\* Instances of LiveSource: both sources in both kinds of tool, and the raw socket
\* under the engine.
EXTENDS LiveSource

AllSetups == {"raw", "serial"} \X {"engine", "direct"}
RawEngine == {<<"raw", "engine">>}
Second == {2}
=============================================================================
