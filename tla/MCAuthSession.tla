--------------------------- MODULE MCAuthSession ----------------------------
EXTENDS AuthSession

CONSTANTS t1, t2, u1, u2, s1
=============================================================================
