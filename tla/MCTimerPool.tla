----------------------------- MODULE MCTimerPool -----------------------------
(* A timer of its own for every thread and one that they all use. *)
EXTENDS TimerPool

OwnAndCommon(t) == {<<t, "work">>, <<"all", "work">>}

=============================================================================
