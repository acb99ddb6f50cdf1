------------------------------ MODULE MCPanel ------------------------------
(***************************************************************************)
(* Instances of Panel for TLC.                                             *)
(***************************************************************************)
EXTENDS Panel

\* Whatever the control plane can answer to anything.
AnyAnswer == [c \in Credential |-> Outcome]

\* The panel's address, its login page, pages of the dashboard in two spellings,
\* and paths without a page.
MCLanding ==
  {Exactly("/"), Exactly("/login"), Exactly("/dashboard"), Exactly("/other"),
   [path |-> "/dashboard/websites", exact |-> FALSE], Exactly("/dashboard/other")}
=============================================================================
