---------------------------- MODULE MCDispatcher ----------------------------
(***************************************************************************)
(* Instances of Dispatcher for TLC: two requests in one session of the     *)
(* provider, and one that names no session.                                *)
(***************************************************************************)
EXTENDS Dispatcher, TLC

CONSTANTS r1, r2, r3, s1, s2

SharedSession == (r1 :> s1) @@ (r2 :> s1) @@ (r3 :> None)

OneSession == (r1 :> s1) @@ (r2 :> s1)

\* The first two requests are alike, and so are the status requests.
Symmetry == Permutations({r1, r2}) \cup Permutations(Polls)
=============================================================================
