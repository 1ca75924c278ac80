--------------------------- MODULE MCSignerClient ---------------------------
EXTENDS SignerClient, TLC

CONSTANTS c1, c2, c3

=============================================================================
