---------------------------- MODULE MCStationary -----------------------------
\* TLC instance of Stationary: one type of the algorithms, two of the mock library.
\* Callbacks are interchangeable, and so are binder threads; the runs with
\* liveness do not use that.
EXTENDS Stationary, TLC

CONSTANTS absolute_still, still, relative_still

MCEnabledType == <<still, relative_still>>

Symmetry == Permutations(Callback) \cup Permutations(Binder)
=============================================================================
