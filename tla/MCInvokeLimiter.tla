--------------------------- MODULE MCInvokeLimiter ---------------------------
EXTENDS InvokeLimiter
CONSTANTS a1, a2
=============================================================================
