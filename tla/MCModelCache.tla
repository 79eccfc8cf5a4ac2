---------------------------- MODULE MCModelCache ----------------------------
(* ModelCache for TLC: users and timer tasks as small sets.                *)
EXTENDS ModelCache, TLC

\* One timer task per thread that may be draining, and the armed one.
TaskIds == 1..(Cardinality(Users) + 1)

\* Keep for ever, unload at once, and a timer of two ticks.
TtlValues == {-1, 0, 2}
=============================================================================
