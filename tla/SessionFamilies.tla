-------------------------- MODULE SessionFamilies --------------------------
(***************************************************************************)
(* What the session requests promise together about the refresh tokens,    *)
(* without requests, clocks and the blacklist: a login starts a family of  *)
(* tokens, a refresh continues it for the same user from a token that has  *)
(* been revoked, and a logout revokes tokens of one user.  No token is     *)
(* issued twice, changes its user or becomes valid again.  AuthSessions is *)
(* shown to implement this module, whatever requests overlap.              *)
(***************************************************************************)
CONSTANTS Users, Pairs, NotIssued, NoToken

VARIABLE token      \* the refresh token of each pair

Token == [uid : Users, valid : BOOLEAN, parent : Pairs \cup {NoToken}]

Init == token = [p \in Pairs |-> NotIssued]

Login(p, user) ==
    /\ token[p] = NotIssued
    /\ token' = [token EXCEPT ![p] = [uid |-> user, valid |-> TRUE, parent |-> NoToken]]

\* A token that two requests present at the same time gets two successors.
Rotate(p, from) ==
    /\ token[p] = NotIssued
    /\ token[from] # NotIssued /\ ~token[from].valid
    /\ token' = [token EXCEPT ![p] = [uid |-> token[from].uid, valid |-> TRUE,
                                      parent |-> from]]

Revoke(user, S) ==
    /\ \A p \in S : token[p] # NotIssued /\ token[p].uid = user
    /\ token' = [p \in Pairs |->
                    IF p \in S
                    THEN [uid |-> user, valid |-> FALSE, parent |-> token[p].parent]
                    ELSE token[p]]

Next ==
    \/ \E p \in Pairs, user \in Users : Login(p, user)
    \/ \E p, from \in Pairs : Rotate(p, from)
    \/ \E user \in Users, S \in SUBSET Pairs : Revoke(user, S)

Spec == Init /\ [][Next]_token
=============================================================================
