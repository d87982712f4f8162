--------------------------- MODULE MCDriverStream ---------------------------
EXTENDS DriverStream

(* What the theorem about the end of a stream supposes of the clock.        *)
ASSUME ClockIsRead == LagBelowBuffer
=============================================================================
