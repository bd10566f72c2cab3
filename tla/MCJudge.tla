------------------------------ MODULE MCJudge ------------------------------
(***************************************************************************)
(* A small instance of Judge: one user and one problem, attempts that end  *)
(* in an acceptance or in a system error.                                  *)
(***************************************************************************)
EXTENDS Judge

CONSTANTS u1, p1, v1, alice, mail1, h1, l1, w1, w2

Seeded ==
  [EmptyDatabase EXCEPT !.users[u1] = [handle |-> alice, email |-> mail1],
                        !.problems[p1] = v1]
=============================================================================
