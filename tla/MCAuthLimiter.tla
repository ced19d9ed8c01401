--------------------------- MODULE MCAuthLimiter ----------------------------
EXTENDS AuthLimiter
CONSTANTS ip1, ip2, em1, em2, em3, q1, q2
=============================================================================
