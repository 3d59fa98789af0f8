---------------------------- MODULE MCDialRace ----------------------------
(* Small instances of DialRace: v4 addresses a, b and d (denied), v6 x. *)
EXTENDS DialRace

CONSTANTS a, b, d, x

MCAddr4 == {a, b, d}
MCAddr6 == {x}
MCAllowed == {a, b, x}

\* A denied address, a repetition, addresses of the other family.
MCAnswers == {<<d>>, <<a, b>>, <<x, x>>}

\* For liveness: at most one candidate of each family.
MCFewAnswers == {<<d>>, <<a>>, <<x>>}
===========================================================================
