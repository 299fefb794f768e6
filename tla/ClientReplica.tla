--------------------------- MODULE ClientReplica ---------------------------
(***************************************************************************)
(* What the client requests promise together, without requests, reads and  *)
(* versions: each client is a log of patches that belongs to one user, and *)
(* the cache is a replica that may lag behind.  A log only grows, until    *)
(* the client is deleted.  The replica is filled with any prefix of a log, *)
(* and only under the key of its owner.  ClientCache is shown to implement *)
(* this module, whatever requests overlap.                                 *)
(***************************************************************************)
EXTENDS Sequences, Integers

CONSTANTS Users, ClientIds, Patches, NotInserted, Nil

VARIABLES
    log,        \* the clients
    copy        \* copy[<<u, c>>]: the replica of client c for user u

vars == <<log, copy>>

Entry == [owner : Users, content : Seq(Patches), live : BOOLEAN]

Init ==
    /\ log = [c \in ClientIds |-> NotInserted]
    /\ copy = [k \in Users \X ClientIds |-> Nil]

Create(uid, c) ==
    /\ log[c] = NotInserted
    /\ log' = [log EXCEPT ![c] = [owner |-> uid, content |-> <<>>, live |-> TRUE]]
    /\ UNCHANGED copy

Alive(c) == log[c] # NotInserted /\ log[c].live

Patch(c, patch) ==
    /\ Alive(c)
    /\ log' = [log EXCEPT ![c] = [owner |-> @.owner, content |-> Append(@.content, patch),
                               live |-> TRUE]]
    /\ UNCHANGED copy

Delete(c) ==
    /\ Alive(c)
    /\ log' = [log EXCEPT ![c] = [owner |-> @.owner, content |-> @.content, live |-> FALSE]]
    /\ UNCHANGED copy

\* How far the replica lags behind is decided below this level.
Copy(uid, c) ==
    /\ log[c] # NotInserted /\ log[c].owner = uid
    /\ \E n \in 0 .. Len(log[c].content) :
          copy' = [copy EXCEPT ![<<uid, c>>] = SubSeq(log[c].content, 1, n)]
    /\ UNCHANGED log

Drop(uid, c) ==
    /\ copy' = [copy EXCEPT ![<<uid, c>>] = Nil]
    /\ UNCHANGED log

Next ==
    \/ \E uid \in Users, c \in ClientIds : Create(uid, c) \/ Copy(uid, c) \/ Drop(uid, c)
    \/ \E c \in ClientIds : Delete(c) \/ \E patch \in Patches : Patch(c, patch)

Spec == Init /\ [][Next]_vars
=============================================================================
