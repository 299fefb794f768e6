---------------------------- MODULE ClientCache ----------------------------
(***************************************************************************)
(* The client requests of the service and the copy of a client they keep   *)
(* in Redis: GET reads through the cache, POST and PATCH write the client  *)
(* to the database and then to the cache, DELETE removes it from both.     *)
(* The two stores are written in separate steps, and requests interleave   *)
(* between them.                                                           *)
(*                                                                         *)
(* What a client contains is abstracted to the sequence of the PATCH       *)
(* bodies that made it: two contents are equal if they were patched in the *)
(* same way.  The row also has its version column, which the cached copy   *)
(* does not have.                                                          *)
(***************************************************************************)
EXTENDS SequencesExt

CONSTANTS
    Requests,       \* slots: the requests that are in flight at the same time
    Users,          \* tenants, named by the subject of the access token
    ClientIds,      \* primary keys of the table clients; none is used twice
    Patches,        \* bodies of PATCH that change the client
    NoChange,       \* a body of PATCH that changes nothing
    MaxUpdates,     \* bound: no PATCH starts on a client patched that often
    NotInserted,    \* the primary key has not been handed out yet
    Nil             \* the cache has no entry for the key

ASSUME MaxUpdatesAssumption == MaxUpdates \in Nat
ASSUME NoChangeAssumption == NoChange \notin Patches

Content == Seq(Patches)

\* A row of the table clients.  "live" is FALSE once it has been deleted; what
\* it contained is kept here for the properties, nothing reads it any more.
Row == [owner : Users, version : Nat, content : Content, live : BOOLEAN]

ASSUME MarkersAssumption == NotInserted \notin Row /\ Nil \notin Content

VARIABLES
    rows,           \* the table clients
    cache,          \* cache[<<u, c>>]: the value of the key user_{u}:clients:{c}
    task,           \* for each slot, where its request is and what it has read
    acked,          \* the number of patches the owner of the client knows of:
                    \* those of the latest write that was answered 200 or 201
    gone            \* the clients whose deletion was answered 204

vars == <<rows, cache, task, acked, gone>>

Keys == Users \X ClientIds

-----------------------------------------------------------------------------
(* The database.                                                           *)

Live(c) == rows[c] \in Row /\ rows[c].live

\* A variant: the owner is not in the WHERE clause.
VisibleToAll(uid, c) == Live(c)

\* get_one_client: SELECT ... WHERE id = c AND owner_id = uid.
Visible(uid, c) == Live(c) /\ rows[c].owner = uid

\* The row ClientRepo.create_client adds.
NewRow(uid) == [owner |-> uid, version |-> 1, content |-> <<>>, live |-> TRUE]

\* A variant: no version_id_col.
AnyVersion(t) == Live(t.id)

\* version_id_col: an UPDATE or DELETE adds AND version = <the version read>.
\* When no row matches, SQLAlchemy raises StaleDataError.
SameVersion(t) == Live(t.id) /\ rows[t.id].version = t.version

\* UPDATE sets the columns the body names, and the next version.
Patched(row, patch) ==
    [owner |-> row.owner, version |-> row.version + 1,
     content |-> Append(row.content, patch), live |-> row.live]

-----------------------------------------------------------------------------
(* The cache.                                                              *)

\* A variant: an entry that is there is not replaced.
SetIfAbsent(uid, c, value) ==
    cache' = [cache EXCEPT ![<<uid, c>>] = IF @ = Nil THEN value ELSE @]

\* client_cache_setter; the entry expires after 600 seconds.
SetCache(uid, c, value) == cache' = [cache EXCEPT ![<<uid, c>>] = value]

\* A variant: the entry is left to expire.
KeepCache(uid, c) == cache' = cache

\* delete_cache.
DropCache(uid, c) == cache' = [cache EXCEPT ![<<uid, c>>] = Nil]

-----------------------------------------------------------------------------
(* Requests.                                                               *)

Idle == [pc |-> "idle"]

\* The request has been answered.  500 also stands for no answer at all.
Done(code) == [pc |-> "done", code |-> code]

Codes == {200, 201, 204, 404, 409, 500}

InFlight ==
    [pc : {"get_select", "create_refresh", "delete_cache"}, uid : Users, id : ClientIds]
        \cup
    [pc : {"get_fill", "create_fill", "update_fill"}, uid : Users, id : ClientIds,
     content : Content]
        \cup
    [pc : {"update_commit"}, uid : Users, id : ClientIds, version : Nat,
     content : Content, patch : Patches \cup {NoChange}]
        \cup
    [pc : {"delete_commit"}, uid : Users, id : ClientIds, version : Nat]

Tasks == {Idle} \cup [pc : {"done"}, code : Codes] \cup InFlight

\* The slot can take another request.
Free(r) == task[r].pc \in {"idle", "done"}

Continue(r, next) == task' = [task EXCEPT ![r] = next]

Init ==
    /\ rows = [c \in ClientIds |-> NotInserted]
    /\ cache = [k \in Keys |-> Nil]
    /\ task = [r \in Requests |-> Idle]
    /\ acked = [c \in ClientIds |-> 0]
    /\ gone = {}

-----------------------------------------------------------------------------
(* GET /clients/{client_id}                                                *)

\* client_cache_getter: a hit is the answer.
GetCache(r, uid, c) ==
    /\ Free(r)
    /\ IF cache[<<uid, c>>] # Nil
       THEN Continue(r, Done(200))
       ELSE Continue(r, [pc |-> "get_select", uid |-> uid, id |-> c])
    /\ UNCHANGED <<rows, cache, acked, gone>>

GetSelect(r) ==
    LET t == task[r] IN
    /\ t.pc = "get_select"
    /\ IF Visible(t.uid, t.id)
       THEN Continue(r, [pc |-> "get_fill", uid |-> t.uid, id |-> t.id,
                         content |-> rows[t.id].content])
       ELSE Continue(r, Done(404))
    /\ UNCHANGED <<rows, cache, acked, gone>>

GetFill(r) ==
    LET t == task[r] IN
    /\ t.pc = "get_fill"
    /\ SetCache(t.uid, t.id, t.content)
    /\ Continue(r, Done(200))
    /\ UNCHANGED <<rows, acked, gone>>

-----------------------------------------------------------------------------
(* POST /clients/                                                          *)

CreateCommit(r, uid) ==
    /\ Free(r)
    /\ \E c \in ClientIds :
          /\ rows[c] = NotInserted
          /\ rows' = [rows EXCEPT ![c] = NewRow(uid)]
          /\ Continue(r, [pc |-> "create_refresh", uid |-> uid, id |-> c])
    /\ UNCHANGED <<cache, acked, gone>>

\* refresh reads the row in a new transaction; it raises when another request
\* of the same user has deleted the client in between.
CreateRefresh(r) ==
    LET t == task[r] IN
    /\ t.pc = "create_refresh"
    /\ IF Live(t.id)
       THEN Continue(r, [pc |-> "create_fill", uid |-> t.uid, id |-> t.id,
                         content |-> rows[t.id].content])
       ELSE Continue(r, Done(500))
    /\ UNCHANGED <<rows, cache, acked, gone>>

\* The answer tells the caller of a client with these patches.
Acknowledge(t) ==
    acked' = [acked EXCEPT ![t.id] = IF @ < Len(t.content) THEN Len(t.content) ELSE @]

CreateFill(r) ==
    LET t == task[r] IN
    /\ t.pc = "create_fill"
    /\ SetCache(t.uid, t.id, t.content)
    /\ Acknowledge(t)
    /\ Continue(r, Done(201))
    /\ UNCHANGED <<rows, gone>>

-----------------------------------------------------------------------------
(* PATCH /clients/{client_id}                                              *)

\* client_getter.
UpdateLoad(r, uid, c, patch) ==
    /\ Free(r)
    /\ IF Visible(uid, c)
       THEN /\ patch = NoChange \/ Len(rows[c].content) < MaxUpdates
            /\ Continue(r, [pc |-> "update_commit", uid |-> uid, id |-> c,
                            version |-> rows[c].version,
                            content |-> rows[c].content, patch |-> patch])
       ELSE Continue(r, Done(404))
    /\ UNCHANGED <<rows, cache, acked, gone>>

\* update_client: the session holds the client as it was read, with the patch
\* applied, and that is what the answer and the cache get.  A body that
\* changes nothing emits no UPDATE, so nothing is compared.  StaleDataError
\* becomes VersionDeprecationError.
UpdateCommit(r) ==
    LET t == task[r]
        Fill(content) == Continue(r, [pc |-> "update_fill", uid |-> t.uid,
                                      id |-> t.id, content |-> content])
    IN
    /\ t.pc = "update_commit"
    /\ \/ /\ t.patch = NoChange
          /\ Fill(t.content)
          /\ UNCHANGED rows
       \/ /\ t.patch # NoChange
          /\ SameVersion(t)
          /\ rows' = [rows EXCEPT ![t.id] = Patched(@, t.patch)]
          /\ Fill(Append(t.content, t.patch))
       \/ /\ t.patch # NoChange
          /\ ~SameVersion(t)
          /\ Continue(r, Done(409))
          /\ UNCHANGED rows
    /\ UNCHANGED <<cache, acked, gone>>

UpdateFill(r) ==
    LET t == task[r] IN
    /\ t.pc = "update_fill"
    /\ SetCache(t.uid, t.id, t.content)
    /\ Acknowledge(t)
    /\ Continue(r, Done(200))
    /\ UNCHANGED <<rows, gone>>

-----------------------------------------------------------------------------
(* DELETE /clients/{client_id}                                             *)

\* client_getter.
DeleteLoad(r, uid, c) ==
    /\ Free(r)
    /\ IF Visible(uid, c)
       THEN Continue(r, [pc |-> "delete_commit", uid |-> uid, id |-> c,
                         version |-> rows[c].version])
       ELSE Continue(r, Done(404))
    /\ UNCHANGED <<rows, cache, acked, gone>>

\* delete_client; here StaleDataError is not caught.  That invoices of the
\* client make the commit fail is one of the outcomes of Fail.
DeleteCommit(r) ==
    LET t == task[r] IN
    /\ t.pc = "delete_commit"
    /\ \/ /\ SameVersion(t)
          /\ rows' = [rows EXCEPT ![t.id] = [@ EXCEPT !.live = FALSE]]
          /\ Continue(r, [pc |-> "delete_cache", uid |-> t.uid, id |-> t.id])
       \/ /\ ~SameVersion(t)
          /\ Continue(r, Done(500))
          /\ UNCHANGED rows
    /\ UNCHANGED <<cache, acked, gone>>

DeleteCache(r) ==
    LET t == task[r] IN
    /\ t.pc = "delete_cache"
    /\ DropCache(t.uid, t.id)
    /\ gone' = gone \cup {t.id}
    /\ Continue(r, Done(204))
    /\ UNCHANGED <<rows, acked>>

-----------------------------------------------------------------------------
(* The database or Redis fails, or the pool has no connection: what has    *)
(* been committed stays, the rest of the request does not happen.          *)

Fail(r) ==
    /\ task[r] \in InFlight
    /\ Continue(r, Done(500))
    /\ UNCHANGED <<rows, cache, acked, gone>>

\* A variant: the key is set without "ex".
NeverExpires(uid, c) == FALSE /\ UNCHANGED vars

\* Redis drops the entry: at the end of its time to live, or earlier, when it
\* is short of memory or restarted.
Expire(uid, c) ==
    /\ cache[<<uid, c>>] # Nil
    /\ cache' = [cache EXCEPT ![<<uid, c>>] = Nil]
    /\ UNCHANGED <<rows, task, acked, gone>>

Start(r) ==
    \E uid \in Users :
        \/ CreateCommit(r, uid)
        \/ \E c \in ClientIds : GetCache(r, uid, c) \/ DeleteLoad(r, uid, c)
        \/ \E c \in ClientIds, p \in Patches \cup {NoChange} : UpdateLoad(r, uid, c, p)

Proceed(r) ==
    \/ GetSelect(r) \/ GetFill(r)
    \/ CreateRefresh(r) \/ CreateFill(r)
    \/ UpdateCommit(r) \/ UpdateFill(r)
    \/ DeleteCommit(r) \/ DeleteCache(r)

Next ==
    \/ \E r \in Requests : Start(r) \/ Proceed(r) \/ Fail(r)
    \/ \E uid \in Users, c \in ClientIds : Expire(uid, c)

Spec == Init /\ [][Next]_vars

\* The fill of an entry starts its time to live anew.
Refill(uid, c) ==
    \E r \in Requests :
        /\ task[r] \in InFlight
        /\ task[r].uid = uid /\ task[r].id = c
        /\ GetFill(r) \/ CreateFill(r) \/ UpdateFill(r)

\* Every request comes to an end: a statement or a Redis command that is
\* awaited returns or raises.  An entry that is not filled again expires.
Fairness ==
    /\ \A r \in Requests : WF_vars(Proceed(r) \/ Fail(r))
    /\ \A uid \in Users, c \in ClientIds : WF_vars(Expire(uid, c) \/ Refill(uid, c))

FairSpec == Spec /\ Fairness

-----------------------------------------------------------------------------
(* What holds under every interleaving.                                    *)

\* Every variable has its type.
TypeOK ==
    /\ rows \in [ClientIds -> Row \cup {NotInserted}]
    /\ cache \in [Keys -> Content \cup {Nil}]
    /\ task \in [Requests -> Tasks]
    /\ acked \in [ClientIds -> Nat]
    /\ gone \in SUBSET ClientIds

\* Whatever order the fills arrive in, an entry of the cache is a content the
\* row has had, and it is in the cache of the owner only.  The copy a PATCH
\* caches is put together in the session, not read back from the database.
CommittedOnce(uid, c, content) ==
    /\ rows[c] # NotInserted
    /\ rows[c].owner = uid
    /\ IsPrefix(content, rows[c].content)

CachedWasCommitted ==
    \A uid \in Users, c \in ClientIds :
        cache[<<uid, c>>] # Nil => CommittedOnce(uid, c, cache[<<uid, c>>])

\* ClientReplica: the table is the log, without its versions, and the cache is
\* the replica.  That a PATCH applies to the content it has read, and that a
\* fill writes under the key of the owner, rests on what was read steps before.
LogEntry(row) ==
    IF row = NotInserted THEN NotInserted
    ELSE [owner |-> row.owner, content |-> row.content, live |-> row.live]

Replica ==
    INSTANCE ClientReplica
        WITH log <- [c \in ClientIds |-> LogEntry(rows[c])], copy <- cache

ASSUME EntryAssumption == NotInserted \notin Replica!Entry

ImplementsReplica == Replica!Spec

\* What a request has read may be old, but it was committed, by the user of
\* the request, and a version that is still the one of the row means that the
\* content is too.
ReadSound(t) ==
    /\ t.pc = "create_refresh" =>
            rows[t.id] # NotInserted /\ rows[t.id].owner = t.uid
    /\ t.pc \in {"get_fill", "create_fill", "update_fill", "update_commit"} =>
            CommittedOnce(t.uid, t.id, t.content)
    /\ t.pc = "update_commit" =>
            /\ t.version <= rows[t.id].version
            /\ t.version = rows[t.id].version => t.content = rows[t.id].content

ReadsSound == \A r \in Requests : ReadSound(task[r])

\* No update is lost: a PATCH changes the row only while the row has the
\* content the PATCH has read (VersionDeprecationError otherwise).
UpdatesBuildOnWhatWasRead ==
    [][\A r \in Requests :
            /\ task[r].pc = "update_commit"
            /\ task'[r] # task[r]
            /\ rows'[task[r].id] # rows[task[r].id]
            => rows[task[r].id].content = task[r].content]_vars

\* Once the clients are no longer written, the cache is right from some point
\* on: a late fill may bring back an old content, but its entry expires.
Coherent(uid, c) ==
    cache[<<uid, c>>] # Nil => Live(c) /\ cache[<<uid, c>>] = rows[c].content

EventuallyCoherent == <>[](\A uid \in Users, c \in ClientIds : Coherent(uid, c))

=============================================================================
