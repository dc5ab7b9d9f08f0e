---------------------------- MODULE MCDragManager ----------------------------
\* TLC instance of DragManager.
EXTENDS DragManager
=============================================================================
