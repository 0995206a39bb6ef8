-------------------------- MODULE MCLiveStreaming --------------------------
(***************************************************************************)
(* Model checking of LiveStreaming: two streams of the same object.        *)
(***************************************************************************)
EXTENDS LiveStreaming

CONSTANTS s1, s2, t1, t2

MCStream == {s1, s2}
MCThread == {t1, t2}
MCLimits == {Absent, 1}
=============================================================================
