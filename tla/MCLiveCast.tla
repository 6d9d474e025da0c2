----------------------------- MODULE MCLiveCast -----------------------------
EXTENDS LiveCast
=============================================================================
