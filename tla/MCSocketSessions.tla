--------------------------- MODULE MCSocketSessions --------------------------
\* TLC instance of SocketSessions.
EXTENDS SocketSessions
=============================================================================
