-------------------------- MODULE MCAuthSessions --------------------------
(* AuthSessions with model values for requests, users and token pairs.     *)
EXTENDS AuthSessions, TLC

CONSTANTS r1, r2, u1, u2, p1, p2

\* The members of each set are interchangeable; users only if they are all
\* active.
Symmetry ==
    Permutations(Requests) \cup Permutations(Pairs) \cup
    (IF ActiveUsers = Users THEN Permutations(Users) ELSE {})
=============================================================================
