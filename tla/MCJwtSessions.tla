---------------------------- MODULE MCJwtSessions ----------------------------
EXTENDS JwtSessions, TLC

CONSTANTS r1, r2, r3, first, e1, e2

\* Requests differ in nothing but their names.
RequestSymmetry == Permutations({r1, r2, r3})
=============================================================================
