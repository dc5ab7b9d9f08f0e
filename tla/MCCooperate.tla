----------------------------- MODULE MCCooperate -----------------------------
\* TLC instance of Cooperate.
EXTENDS Cooperate
=============================================================================
