--------------------------- MODULE MCAuthManager ---------------------------
(* AuthManager for TLC: callers and tokens as model values.                *)
EXTENDS AuthManager, TLC

\* Entries that expire at once, and entries that live for two ticks.
TtlValues == {0, 2}
=============================================================================
