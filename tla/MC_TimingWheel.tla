--------------------------- MODULE MC_TimingWheel ---------------------------
(* Model-checking instance of TimingWheel: the constants are bound in the   *)
(* .cfg files; this module adds the state bound used by every run.          *)
EXTENDS TimingWheel

\* Each timer is added to a bucket at most once per level on its way down,
\* plus re-adds caused by races; this names that bound.
MaxAddsPerTimer == 2 * MaxLevels + 2

AddBound == \A t \in Timers : adds[t] <= MaxAddsPerTimer
=============================================================================
