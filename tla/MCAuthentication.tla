------------------------- MODULE MCAuthentication -------------------------
(***************************************************************************)
(* Instances of Authentication for TLC: two requests at a time, so that    *)
(* any two steps of two handlers can be in either order, and two           *)
(* enrolments, so that one can replace the other.                          *)
(***************************************************************************)
EXTENDS Authentication, TLC

\* Goroutines are interchangeable, and so are the random values that name
\* sessions and enrolments.
Symmetry ==
  Permutations(Worker) \cup Permutations(Session) \cup Permutations(Enrolment)
=============================================================================
