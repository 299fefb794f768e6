---------------------------- MODULE CacheOverlap ----------------------------
(***************************************************************************)
(* ClientCache with one history variable: the clients whose cached copies  *)
(* may be out of date because two requests on the client overlapped.  What *)
(* an overlap can leave behind is an entry of the cache and nothing else,  *)
(* so a client is undisturbed again as soon as none of its entries is left *)
(* and no request on it is in flight.                                      *)
(***************************************************************************)
EXTENDS ClientCache

VARIABLE
    disturbed       \* the clients that an overlap may still be felt on

watched == <<vars, disturbed>>

-----------------------------------------------------------------------------

\* The slot has a request on client c in flight.
On(r, c) == task[r] \in InFlight /\ task[r].id = c

Overlapping(c) == \E r, s \in Requests : r # s /\ On(r, c) /\ On(s, c)

Quiet(c) ==
    /\ \A r \in Requests : ~On(r, c)
    /\ \A uid \in Users : cache[<<uid, c>>] = Nil

WatchedInit == Init /\ disturbed = {}

Watch ==
    disturbed' = {c \in ClientIds : \/ Overlapping(c)'
                                    \/ c \in disturbed /\ ~Quiet(c)'}

WatchedNext == Next /\ Watch

WatchedSpec == WatchedInit /\ [][WatchedNext]_watched

FairWatchedSpec == WatchedSpec /\ Fairness

-----------------------------------------------------------------------------
(* README: "cache invalidation on update".                                 *)

\* A GET that starts now sees every update that has been answered with 200:
\* if the cache answers, its copy has the patches of the acknowledged writes.
\* Overlapping requests on the client can break this, but not for longer than
\* an entry they have left lives.
ReadYourWrites ==
    \A uid \in Users, c \in ClientIds \ disturbed :
        cache[<<uid, c>>] # Nil => Len(cache[<<uid, c>>]) >= acked[c]

\* Nor does the cache answer for a client whose deletion was answered with 204.
DeletedNotFound ==
    \A uid \in Users, c \in gone \ disturbed : cache[<<uid, c>>] = Nil
=============================================================================
