------------------------------- MODULE Lists -------------------------------
(***************************************************************************)
(* Two operators on lists that the streams of a tunnel and the rules of a  *)
(* configuration need.  SequencesExt has both, but it brings Bags into     *)
(* every proof that uses it, which makes each of them ten times slower.    *)
(***************************************************************************)
EXTENDS Integers, Sequences

\* The sequences of ss, one after the other.
Concat(ss) == LET c[i \in 0..Len(ss)] == IF i = 0 THEN <<>> ELSE c[i - 1] \o ss[i] IN c[Len(ss)]

\* s is the beginning of t, or all of it.
Starts(s, t) == Len(s) <= Len(t) /\ \A i \in 1..Len(s) : s[i] = t[i]
=============================================================================
