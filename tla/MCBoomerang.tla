---------------------------- MODULE MCBoomerang ------------------------------
\* TLC instance of Boomerang: every link belongs to its own bundle.
EXTENDS Boomerang

CONSTANTS bun1, bun2, link1, link2, sub1, req1, req2, dec1

MCApplink == [metadata \in {link1, link2} |-> IF metadata = link1 THEN bun1 ELSE bun2]
=============================================================================
