-------------------------- MODULE MCServiceThreads ---------------------------
\* TLC instance of ServiceThreads.
EXTENDS ServiceThreads
=============================================================================
