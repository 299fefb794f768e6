------------------------ MODULE ClientCache_proofs ------------------------
(***************************************************************************)
(* Proofs about ClientCache, and at the end about CacheOverlap, for any    *)
(* number of slots, users, clients and patches.                            *)
(***************************************************************************)
EXTENDS CacheOverlap, TLAPS

-----------------------------------------------------------------------------
(* Prefixes of contents.                                                   *)

LEMMA PrefixReflexive ==
    ASSUME NEW s \in Content
    PROVE  IsPrefix(s, s)
BY DEF IsPrefix, Content

LEMMA PrefixOfAppend ==
    ASSUME NEW s \in Content, NEW t \in Content, NEW p \in Patches, IsPrefix(s, t)
    PROVE  IsPrefix(s, Append(t, p))
BY DEF IsPrefix, Content

LEMMA PrefixTransitive ==
    ASSUME NEW s \in Content, NEW t \in Content, NEW u \in Content,
           IsPrefix(s, t), IsPrefix(t, u)
    PROVE  IsPrefix(s, u)
BY DEF IsPrefix, Content

-----------------------------------------------------------------------------
(* Lemmas about the operators of the model.                                *)

LEMMA ContinueType ==
    ASSUME TypeOK, NEW r \in Requests, NEW next \in Tasks, Continue(r, next)
    PROVE  task' \in [Requests -> Tasks]
BY DEF TypeOK, Continue

LEMMA DoneType ==
    ASSUME NEW code \in Codes
    PROVE  Done(code) \in Tasks
BY DEF Done, Tasks

LEMMA TaskFields ==
    ASSUME NEW t \in Tasks
    PROVE  /\ t.pc \in {"get_select", "create_refresh", "delete_cache"} =>
                t.uid \in Users /\ t.id \in ClientIds
           /\ t.pc \in {"get_fill", "create_fill", "update_fill"} =>
                t.uid \in Users /\ t.id \in ClientIds /\ t.content \in Content
           /\ t.pc = "update_commit" =>
                /\ t.uid \in Users /\ t.id \in ClientIds
                /\ t.version \in Nat /\ t.content \in Content
                /\ t.patch \in Patches \cup {NoChange}
           /\ t.pc = "delete_commit" =>
                t.uid \in Users /\ t.id \in ClientIds /\ t.version \in Nat
BY DEF Tasks, InFlight, Idle

LEMMA PatchedType ==
    ASSUME NEW row \in Row, NEW p \in Patches
    PROVE  LET new == Patched(row, p)
           IN  /\ new \in Row
               /\ new.owner = row.owner
               /\ new.version = row.version + 1
               /\ new.content = Append(row.content, p)
               /\ new.content \in Content
<1>1. /\ row.owner \in Users
      /\ row.version \in Nat
      /\ row.content \in Content
      /\ row.live \in BOOLEAN
  BY DEF Row
<1>2. Append(row.content, p) \in Content
  BY <1>1 DEF Content
<1> QED BY <1>1, <1>2 DEF Patched, Row

LEMMA UnlivedType ==
    ASSUME NEW row \in Row
    PROVE  LET new == [row EXCEPT !.live = FALSE]
           IN  /\ new \in Row
               /\ new.owner = row.owner
               /\ new.version = row.version
               /\ new.content = row.content
BY DEF Row

\* An entry of the cache that is set to a content, or emptied.
LEMMA CacheType ==
    ASSUME TypeOK, NEW uid \in Users, NEW c \in ClientIds, NEW value \in Content \cup {Nil},
           cache' = [cache EXCEPT ![<<uid, c>>] = value]
    PROVE  cache' \in [Keys -> Content \cup {Nil}]
BY DEF TypeOK, Keys

-----------------------------------------------------------------------------
(* Type correctness.                                                       *)

\* Every step of the client requests keeps every variable in its type.
THEOREM TypeCorrect == Spec => []TypeOK
<1>1. Init => TypeOK
  BY DEF Init, TypeOK, Tasks
<1>2. TypeOK /\ [Next]_vars => TypeOK'
  <2> SUFFICES ASSUME TypeOK, [Next]_vars
               PROVE  TypeOK'
    OBVIOUS
  <2>1. \A code \in Codes : Done(code) \in Tasks
    BY DoneType
  <2>2. 200 \in Codes /\ 201 \in Codes /\ 204 \in Codes /\ 404 \in Codes /\ 409 \in Codes
          /\ 500 \in Codes
    BY DEF Codes
  <2>3. ASSUME NEW r \in Requests, NEW uid \in Users, CreateCommit(r, uid)
        PROVE  TypeOK'
    <3>1. NewRow(uid) \in Row
      BY DEF NewRow, Row, Content
    <3>2. PICK c \in ClientIds :
            /\ rows' = [rows EXCEPT ![c] = NewRow(uid)]
            /\ Continue(r, [pc |-> "create_refresh", uid |-> uid, id |-> c])
      BY <2>3 DEF CreateCommit
    <3>3. [pc |-> "create_refresh", uid |-> uid, id |-> c] \in Tasks
      BY DEF Tasks, InFlight
    <3>4. task' \in [Requests -> Tasks]
      BY <3>2, <3>3, ContinueType
    <3> QED BY <2>3, <3>1, <3>2, <3>4 DEF TypeOK, CreateCommit
  <2>4. ASSUME NEW r \in Requests, NEW uid \in Users, NEW c \in ClientIds, GetCache(r, uid, c)
        PROVE  TypeOK'
    <3>1. [pc |-> "get_select", uid |-> uid, id |-> c] \in Tasks
      BY DEF Tasks, InFlight
    <3>2. task' \in [Requests -> Tasks]
      BY <2>1, <2>2, <2>4, <3>1, ContinueType DEF GetCache
    <3> QED BY <2>4, <3>2 DEF TypeOK, GetCache
  <2>5. ASSUME NEW r \in Requests, NEW uid \in Users, NEW c \in ClientIds, DeleteLoad(r, uid, c)
        PROVE  TypeOK'
    <3>1. Visible(uid, c) => rows[c].version \in Nat
      BY DEF Visible, Live, Row
    <3>2. Visible(uid, c) => [pc |-> "delete_commit", uid |-> uid, id |-> c,
                              version |-> rows[c].version] \in Tasks
      BY <3>1 DEF Tasks, InFlight
    <3>3. task' \in [Requests -> Tasks]
      BY <2>1, <2>2, <2>5, <3>2, ContinueType DEF DeleteLoad
    <3> QED BY <2>5, <3>3 DEF TypeOK, DeleteLoad
  <2>6. ASSUME NEW r \in Requests, NEW uid \in Users, NEW c \in ClientIds,
               NEW p \in Patches \cup {NoChange}, UpdateLoad(r, uid, c, p)
        PROVE  TypeOK'
    <3>1. Visible(uid, c) => rows[c].version \in Nat /\ rows[c].content \in Content
      BY DEF Visible, Live, Row
    <3>2. Visible(uid, c) => [pc |-> "update_commit", uid |-> uid, id |-> c,
                              version |-> rows[c].version,
                              content |-> rows[c].content, patch |-> p] \in Tasks
      BY <3>1 DEF Tasks, InFlight
    <3>3. task' \in [Requests -> Tasks]
      BY <2>1, <2>2, <2>6, <3>2, ContinueType DEF UpdateLoad
    <3> QED BY <2>6, <3>3 DEF TypeOK, UpdateLoad
  <2>7. ASSUME NEW r \in Requests, GetSelect(r)
        PROVE  TypeOK'
    <3> DEFINE t == task[r]
    <3>1. t.uid \in Users /\ t.id \in ClientIds
      BY <2>7, TaskFields DEF TypeOK, GetSelect
    <3>2. Visible(t.uid, t.id) => rows[t.id].content \in Content
      BY DEF Visible, Live, Row
    <3>3. Visible(t.uid, t.id) => [pc |-> "get_fill", uid |-> t.uid, id |-> t.id,
                                   content |-> rows[t.id].content] \in Tasks
      BY <3>1, <3>2 DEF Tasks, InFlight
    <3>4. task' \in [Requests -> Tasks]
      BY <2>1, <2>2, <2>7, <3>3, ContinueType DEF GetSelect
    <3> QED BY <2>7, <3>4 DEF TypeOK, GetSelect
  <2>8. ASSUME NEW r \in Requests, CreateRefresh(r)
        PROVE  TypeOK'
    <3> DEFINE t == task[r]
    <3>1. t.uid \in Users /\ t.id \in ClientIds
      BY <2>8, TaskFields DEF TypeOK, CreateRefresh
    <3>2. Live(t.id) => rows[t.id].content \in Content
      BY DEF Live, Row
    <3>3. Live(t.id) => [pc |-> "create_fill", uid |-> t.uid, id |-> t.id,
                         content |-> rows[t.id].content] \in Tasks
      BY <3>1, <3>2 DEF Tasks, InFlight
    <3>4. task' \in [Requests -> Tasks]
      BY <2>1, <2>2, <2>8, <3>3, ContinueType DEF CreateRefresh
    <3> QED BY <2>8, <3>4 DEF TypeOK, CreateRefresh
  <2>9. ASSUME NEW r \in Requests, GetFill(r) \/ CreateFill(r) \/ UpdateFill(r)
        PROVE  TypeOK'
    <3> DEFINE t == task[r]
    <3>1. t.uid \in Users /\ t.id \in ClientIds /\ t.content \in Content
      BY <2>9, TaskFields DEF TypeOK, GetFill, CreateFill, UpdateFill
    <3>2. cache' \in [Keys -> Content \cup {Nil}]
      BY <2>9, <3>1, CacheType DEF GetFill, CreateFill, UpdateFill, SetCache
    <3>3. task' \in [Requests -> Tasks]
      BY <2>1, <2>2, <2>9, ContinueType DEF GetFill, CreateFill, UpdateFill
    <3>4. Len(t.content) \in Nat
      BY <3>1 DEF Content
    <3>5. acked' \in [ClientIds -> Nat]
      BY <2>9, <3>1, <3>4 DEF GetFill, CreateFill, UpdateFill, Acknowledge, TypeOK
    <3> QED BY <2>9, <3>2, <3>3, <3>5 DEF TypeOK, GetFill, CreateFill, UpdateFill
  <2>10. ASSUME NEW r \in Requests, UpdateCommit(r)
         PROVE  TypeOK'
    <3> DEFINE t == task[r]
               Filling(content) == [pc |-> "update_fill", uid |-> t.uid, id |-> t.id,
                                    content |-> content]
    <3>1. /\ t.uid \in Users /\ t.id \in ClientIds
          /\ t.content \in Content /\ t.patch \in Patches \cup {NoChange}
      BY <2>10, TaskFields DEF TypeOK, UpdateCommit
    <3>2. t.patch # NoChange => Append(t.content, t.patch) \in Content
      BY <3>1 DEF Content
    <3>3. \A content \in Content : Filling(content) \in Tasks
      BY <3>1 DEF Tasks, InFlight
    <3>4. task' \in [Requests -> Tasks]
      BY <2>1, <2>2, <2>10, <3>1, <3>2, <3>3, ContinueType DEF UpdateCommit
    <3>5. rows' \in [ClientIds -> Row \cup {NotInserted}]
      <4>1. t.patch # NoChange /\ SameVersion(t) => Patched(rows[t.id], t.patch) \in Row
        BY <3>1, PatchedType DEF SameVersion, Live
      <4> QED BY <2>10, <3>1, <4>1 DEF UpdateCommit, TypeOK
    <3> QED BY <2>10, <3>4, <3>5 DEF TypeOK, UpdateCommit
  <2>11. ASSUME NEW r \in Requests, DeleteCommit(r)
         PROVE  TypeOK'
    <3> DEFINE t == task[r]
    <3>1. t.uid \in Users /\ t.id \in ClientIds
      BY <2>11, TaskFields DEF TypeOK, DeleteCommit
    <3>2. [pc |-> "delete_cache", uid |-> t.uid, id |-> t.id] \in Tasks
      BY <3>1 DEF Tasks, InFlight
    <3>3. task' \in [Requests -> Tasks]
      BY <2>1, <2>2, <2>11, <3>2, ContinueType DEF DeleteCommit
    <3>4. rows' \in [ClientIds -> Row \cup {NotInserted}]
      <4>1. SameVersion(t) => [rows[t.id] EXCEPT !.live = FALSE] \in Row
        BY UnlivedType DEF SameVersion, Live
      <4> QED BY <2>11, <3>1, <4>1 DEF DeleteCommit, TypeOK
    <3> QED BY <2>11, <3>3, <3>4 DEF TypeOK, DeleteCommit
  <2>12. ASSUME NEW r \in Requests, DeleteCache(r)
         PROVE  TypeOK'
    <3>1. task[r].uid \in Users /\ task[r].id \in ClientIds
      BY <2>12, TaskFields DEF TypeOK, DeleteCache
    <3>2. cache' \in [Keys -> Content \cup {Nil}]
      BY <2>12, <3>1, CacheType DEF DeleteCache, DropCache
    <3>3. task' \in [Requests -> Tasks]
      BY <2>1, <2>2, <2>12, ContinueType DEF DeleteCache
    <3> QED BY <2>12, <3>1, <3>2, <3>3 DEF TypeOK, DeleteCache
  <2>13. ASSUME NEW r \in Requests, Fail(r)
         PROVE  TypeOK'
    <3>1. task' \in [Requests -> Tasks]
      BY <2>1, <2>2, <2>13, ContinueType DEF Fail
    <3> QED BY <2>13, <3>1 DEF TypeOK, Fail
  <2>14. ASSUME NEW uid \in Users, NEW c \in ClientIds, Expire(uid, c)
         PROVE  TypeOK'
    <3>1. cache' \in [Keys -> Content \cup {Nil}]
      BY <2>14, CacheType DEF Expire
    <3> QED BY <2>14, <3>1 DEF TypeOK, Expire
  <2>15. CASE UNCHANGED vars
    BY <2>15 DEF TypeOK, vars
  <2> QED
    BY <2>3, <2>4, <2>5, <2>6, <2>7, <2>8, <2>9, <2>10, <2>11, <2>12, <2>13, <2>14, <2>15
       DEF Next, Start, Proceed
<1> QED BY <1>1, <1>2, PTL DEF Spec

-----------------------------------------------------------------------------
(* How the rows change.                                                    *)

\* A primary key is used for one client only, the owner stays, patches are
\* only added, and never without a new version.
RowGrows(c) ==
    rows[c] # NotInserted =>
        /\ rows'[c] # NotInserted
        /\ rows'[c].owner = rows[c].owner
        /\ IsPrefix(rows[c].content, rows'[c].content)
        /\ rows[c].version <= rows'[c].version
        /\ rows[c].version = rows'[c].version => rows[c].content = rows'[c].content

LEMMA RowsGrow ==
    ASSUME TypeOK, [Next]_vars, NEW c \in ClientIds
    PROVE  RowGrows(c)
<1> USE DEF RowGrows
<1>1. CASE rows[c] = NotInserted
  BY <1>1
<1>2. CASE rows[c] # NotInserted
  <2>1. /\ rows[c] \in Row
        /\ rows[c].content \in Content
        /\ rows[c].version \in Nat
    BY <1>2 DEF TypeOK, Row
  <2>2. IsPrefix(rows[c].content, rows[c].content)
    BY <2>1, PrefixReflexive
  <2>3. CASE rows'[c] = rows[c]
    BY <1>2, <2>1, <2>2, <2>3
  <2>4. ASSUME NEW r \in Requests, UpdateCommit(r), rows'[c] # rows[c]
        PROVE  RowGrows(c)
    <3> DEFINE t == task[r]
    <3>1. t.id \in ClientIds /\ t.patch \in Patches \cup {NoChange}
      BY <2>4, TaskFields DEF UpdateCommit, TypeOK
    <3>2. t.id = c /\ t.patch \in Patches /\ rows'[c] = Patched(rows[c], t.patch)
      BY <2>4, <3>1 DEF UpdateCommit, TypeOK
    <3>3. /\ rows'[c] \in Row
          /\ rows'[c].owner = rows[c].owner
          /\ rows'[c].version = rows[c].version + 1
          /\ rows'[c].content = Append(rows[c].content, t.patch)
      BY <2>1, <3>2, PatchedType
    <3>4. IsPrefix(rows[c].content, rows'[c].content)
      BY <2>1, <2>2, <3>2, <3>3, PrefixOfAppend
    <3>5. rows'[c] # NotInserted
      BY <3>3, MarkersAssumption
    <3> QED BY <2>1, <3>3, <3>4, <3>5
  <2>5. ASSUME NEW r \in Requests, DeleteCommit(r), rows'[c] # rows[c]
        PROVE  RowGrows(c)
    <3>1. rows'[c] = [rows[c] EXCEPT !.live = FALSE]
      BY <2>5 DEF DeleteCommit, TypeOK
    <3>2. /\ rows'[c] \in Row
          /\ rows'[c].owner = rows[c].owner
          /\ rows'[c].version = rows[c].version
          /\ rows'[c].content = rows[c].content
      BY <2>1, <3>1, UnlivedType
    <3> QED BY <2>1, <2>2, <3>2, MarkersAssumption
  <2>6. ASSUME NEW r \in Requests, NEW uid \in Users, CreateCommit(r, uid)
        PROVE  rows'[c] = rows[c]
    BY <1>2, <2>6 DEF CreateCommit, TypeOK
  <2>7. ASSUME NEW r \in Requests, Start(r)
        PROVE  rows'[c] = rows[c]
    BY <2>6, <2>7 DEF Start, GetCache, DeleteLoad, UpdateLoad
  <2>8. ASSUME NEW r \in Requests, Proceed(r), rows'[c] # rows[c]
        PROVE  UpdateCommit(r) \/ DeleteCommit(r)
    BY <2>8 DEF Proceed, GetSelect, GetFill, CreateRefresh, CreateFill, UpdateFill, DeleteCache
  <2>9. ASSUME NEW r \in Requests, Fail(r)
        PROVE  rows'[c] = rows[c]
    BY <2>9 DEF Fail
  <2>10. ASSUME NEW uid \in Users, NEW k \in ClientIds, Expire(uid, k)
         PROVE  rows'[c] = rows[c]
    BY <2>10 DEF Expire
  <2>11. CASE UNCHANGED vars
    BY <2>3, <2>11 DEF vars
  <2> QED BY <2>3, <2>4, <2>5, <2>7, <2>8, <2>9, <2>10, <2>11 DEF Next
<1> QED BY <1>1, <1>2

\* A content the row has had remains one.
LEMMA CommittedForever ==
    ASSUME TypeOK, TypeOK', [Next]_vars, NEW uid \in Users, NEW c \in ClientIds,
           NEW content \in Content, CommittedOnce(uid, c, content)
    PROVE  CommittedOnce(uid, c, content)'
<1>1. RowGrows(c)
  BY RowsGrow
<1>2. rows[c] # NotInserted /\ rows'[c] # NotInserted
  BY <1>1 DEF CommittedOnce, RowGrows
<1>3. rows[c].content \in Content /\ rows'[c].content \in Content
  BY <1>2 DEF TypeOK, Row
<1>4. IsPrefix(content, rows[c].content) /\ IsPrefix(rows[c].content, rows'[c].content)
  BY <1>1, <1>2 DEF CommittedOnce, RowGrows
<1>5. IsPrefix(content, rows'[c].content)
  BY <1>3, <1>4, PrefixTransitive
<1> QED BY <1>1, <1>2, <1>5 DEF CommittedOnce, RowGrows

\* What the row of a client contains has been committed, by its owner.
LEMMA VisibleIsCommitted ==
    ASSUME NEW c \in ClientIds, Live(c)
    PROVE  CommittedOnce(rows[c].owner, c, rows[c].content)
<1>1. rows[c] \in Row /\ rows[c].content \in Content
  BY DEF Live, Row
<1> QED BY <1>1, PrefixReflexive, MarkersAssumption DEF CommittedOnce

-----------------------------------------------------------------------------
(* What the requests have read.                                            *)

\* A request that does not move keeps what is known of its reads.
LEMMA ReadFrame ==
    ASSUME TypeOK, TypeOK', [Next]_vars, NEW q \in Requests, ReadSound(task[q]),
           task'[q] = task[q]
    PROVE  ReadSound(task[q])'
<1> DEFINE t == task[q]
<1>1. t \in Tasks
  BY DEF TypeOK
<1>2. ASSUME t.pc = "create_refresh"
      PROVE  ReadSound(task[q])'
  <2>1. t.id \in ClientIds
    BY <1>1, <1>2, TaskFields
  <2>2. RowGrows(t.id)
    BY <2>1, RowsGrow
  <2> QED BY <1>2, <2>2 DEF ReadSound, RowGrows
<1>3. ASSUME t.pc \in {"get_fill", "create_fill", "update_fill", "update_commit"}
      PROVE  CommittedOnce(t.uid, t.id, t.content)'
  <2>1. t.uid \in Users /\ t.id \in ClientIds /\ t.content \in Content
    BY <1>1, <1>3, TaskFields
  <2>2. CommittedOnce(t.uid, t.id, t.content)
    BY <1>3 DEF ReadSound
  <2>3. \A uid \in Users, c \in ClientIds, content \in Content :
          CommittedOnce(uid, c, content) => /\ rows'[c] # NotInserted
                                            /\ rows'[c].owner = uid
                                            /\ IsPrefix(content, rows'[c].content)
    BY CommittedForever DEF CommittedOnce
  <2> QED BY <2>1, <2>2, <2>3 DEF CommittedOnce
<1>4. ASSUME t.pc = "update_commit"
      PROVE  /\ t.version <= rows'[t.id].version
             /\ t.version = rows'[t.id].version => t.content = rows'[t.id].content
  <2>1. t.id \in ClientIds /\ t.version \in Nat
    BY <1>1, <1>4, TaskFields
  <2>2. RowGrows(t.id)
    BY <2>1, RowsGrow
  <2>3. /\ rows[t.id] # NotInserted
        /\ t.version <= rows[t.id].version
        /\ t.version = rows[t.id].version => t.content = rows[t.id].content
    BY <1>4 DEF ReadSound, CommittedOnce
  <2>4. rows[t.id].version \in Nat /\ rows'[t.id].version \in Nat
    BY <2>1, <2>2, <2>3 DEF RowGrows, TypeOK, Row
  <2>5. rows[t.id].version <= rows'[t.id].version
    BY <2>2, <2>3 DEF RowGrows
  <2>6. ASSUME t.version = rows'[t.id].version
        PROVE  t.content = rows'[t.id].content
    <3>1. t.version = rows[t.id].version /\ rows[t.id].version = rows'[t.id].version
      BY <2>1, <2>3, <2>4, <2>5, <2>6
    <3> QED BY <2>2, <2>3, <3>1 DEF RowGrows
  <2> QED BY <2>1, <2>3, <2>4, <2>5, <2>6
<1> QED BY <1>2, <1>3, <1>4 DEF ReadSound, CommittedOnce

\* Only the request that takes a step changes its task.
LEMMA MoverActs ==
    ASSUME TypeOK, [Next]_vars, NEW q \in Requests, task'[q] # task[q]
    PROVE  Start(q) \/ Proceed(q) \/ Fail(q)
<1>1. ASSUME NEW r \in Requests, NEW next, Continue(r, next)
      PROVE  r = q
  BY <1>1 DEF Continue, TypeOK
<1>2. ASSUME NEW r \in Requests, Start(r)
      PROVE  r = q
  BY <1>1, <1>2 DEF Start, CreateCommit, GetCache, DeleteLoad, UpdateLoad
<1>3. ASSUME NEW r \in Requests, Proceed(r)
      PROVE  r = q
  <2>1. CASE GetSelect(r) \/ GetFill(r) \/ CreateRefresh(r) \/ CreateFill(r)
    BY <1>1, <2>1 DEF GetSelect, GetFill, CreateRefresh, CreateFill
  <2>2. CASE UpdateCommit(r) \/ UpdateFill(r) \/ DeleteCommit(r) \/ DeleteCache(r)
    BY <1>1, <2>2 DEF UpdateCommit, UpdateFill, DeleteCommit, DeleteCache
  <2> QED BY <1>3, <2>1, <2>2 DEF Proceed
<1>4. ASSUME NEW r \in Requests, Fail(r)
      PROVE  r = q
  BY <1>1, <1>4 DEF Fail
<1>5. ~UNCHANGED vars /\ \A uid \in Users, c \in ClientIds : ~Expire(uid, c)
  BY DEF vars, Expire
<1> QED BY <1>2, <1>3, <1>4, <1>5 DEF Next

\* Under every interleaving the contents that requests hold were committed by
\* their user, and an unchanged version means an unchanged content.
THEOREM ReadsAreSound == Spec => []ReadsSound
<1>1. Init => ReadsSound
  BY DEF Init, ReadsSound, ReadSound, Idle
<1>2. TypeOK /\ TypeOK' /\ ReadsSound /\ [Next]_vars => ReadsSound'
  <2> SUFFICES ASSUME TypeOK, TypeOK', ReadsSound, [Next]_vars, NEW q \in Requests
               PROVE  ReadSound(task[q])'
    BY DEF ReadsSound
  <2>1. ReadSound(task[q])
    BY DEF ReadsSound
  <2>2. CASE task'[q] = task[q]
    BY <2>1, <2>2, ReadFrame
  <2>3. ASSUME NEW code, Continue(q, Done(code))
        PROVE  ReadSound(task[q])'
    BY <2>3 DEF Continue, TypeOK, Done, ReadSound
  <2>4. ASSUME Start(q)
        PROVE  ReadSound(task[q])'
    <3>1. ASSUME NEW uid \in Users, CreateCommit(q, uid)
          PROVE  ReadSound(task[q])'
      <4>1. PICK c \in ClientIds :
              /\ rows' = [rows EXCEPT ![c] = NewRow(uid)]
              /\ Continue(q, [pc |-> "create_refresh", uid |-> uid, id |-> c])
        BY <3>1 DEF CreateCommit
      <4>2. task'[q] = [pc |-> "create_refresh", uid |-> uid, id |-> c]
        BY <4>1 DEF Continue, TypeOK
      <4>3. NewRow(uid) \in Row
        BY DEF NewRow, Row, Content
      <4>4. rows'[c] = NewRow(uid) /\ rows'[c] # NotInserted /\ rows'[c].owner = uid
        BY <4>1, <4>3, MarkersAssumption DEF TypeOK, NewRow
      <4> QED BY <4>2, <4>4 DEF ReadSound
    <3>2. ASSUME NEW uid \in Users, NEW c \in ClientIds, GetCache(q, uid, c)
          PROVE  ReadSound(task[q])'
      BY <2>3, <3>2 DEF GetCache, Continue, TypeOK, ReadSound
    <3>3. ASSUME NEW uid \in Users, NEW c \in ClientIds, DeleteLoad(q, uid, c)
          PROVE  ReadSound(task[q])'
      BY <2>3, <3>3 DEF DeleteLoad, Continue, TypeOK, ReadSound
    <3>4. ASSUME NEW uid \in Users, NEW c \in ClientIds, NEW p \in Patches \cup {NoChange},
                 UpdateLoad(q, uid, c, p)
          PROVE  ReadSound(task[q])'
      <4>1. CASE ~Visible(uid, c)
        BY <2>3, <3>4, <4>1 DEF UpdateLoad
      <4>2. CASE Visible(uid, c)
        <5>1. CommittedOnce(uid, c, rows[c].content)
          BY <4>2, VisibleIsCommitted DEF Visible
        <5>2. rows' = rows
          BY <3>4 DEF UpdateLoad
        <5>3. task'[q] = [pc |-> "update_commit", uid |-> uid, id |-> c,
                          version |-> rows[c].version, content |-> rows[c].content,
                          patch |-> p]
          BY <3>4, <4>2 DEF UpdateLoad, Continue, TypeOK
        <5>4. rows[c].version \in Nat
          BY <4>2 DEF Visible, Live, Row
        <5>5. rows[c].version <= rows'[c].version
          BY <5>2, <5>4
        <5> QED BY <5>1, <5>2, <5>3, <5>5 DEF ReadSound, CommittedOnce
      <4> QED BY <4>1, <4>2
    <3> QED BY <2>4, <3>1, <3>2, <3>3, <3>4 DEF Start
  <2>5. ASSUME GetSelect(q)
        PROVE  ReadSound(task[q])'
    <3> DEFINE t == task[q]
    <3>1. t.uid \in Users /\ t.id \in ClientIds
      BY <2>5, TaskFields DEF TypeOK, GetSelect
    <3>2. CASE ~Visible(t.uid, t.id)
      BY <2>3, <2>5, <3>2 DEF GetSelect
    <3>3. CASE Visible(t.uid, t.id)
      <4>1. CommittedOnce(t.uid, t.id, rows[t.id].content)
        BY <3>1, <3>3, VisibleIsCommitted DEF Visible
      <4>2. task'[q] = [pc |-> "get_fill", uid |-> t.uid, id |-> t.id,
                        content |-> rows[t.id].content]
        BY <2>5, <3>3 DEF GetSelect, Continue, TypeOK
      <4>3. rows' = rows
        BY <2>5 DEF GetSelect
      <4> QED BY <4>1, <4>2, <4>3 DEF ReadSound, CommittedOnce
    <3> QED BY <3>2, <3>3
  <2>6. ASSUME CreateRefresh(q)
        PROVE  ReadSound(task[q])'
    <3> DEFINE t == task[q]
    <3>1. t.uid \in Users /\ t.id \in ClientIds
      BY <2>6, TaskFields DEF TypeOK, CreateRefresh
    <3>2. CASE ~Live(t.id)
      BY <2>3, <2>6, <3>2 DEF CreateRefresh
    <3>3. CASE Live(t.id)
      <4>1. rows[t.id].owner = t.uid
        BY <2>1, <2>6 DEF ReadSound, CreateRefresh
      <4>2. CommittedOnce(t.uid, t.id, rows[t.id].content)
        BY <3>1, <3>3, <4>1, VisibleIsCommitted
      <4>3. task'[q] = [pc |-> "create_fill", uid |-> t.uid, id |-> t.id,
                        content |-> rows[t.id].content]
        BY <2>6, <3>3 DEF CreateRefresh, Continue, TypeOK
      <4>4. rows' = rows
        BY <2>6 DEF CreateRefresh
      <4> QED BY <4>2, <4>3, <4>4 DEF ReadSound, CommittedOnce
    <3> QED BY <3>2, <3>3
  <2>7. ASSUME UpdateCommit(q)
        PROVE  ReadSound(task[q])'
    <3> DEFINE t == task[q]
    <3>1. /\ t.pc = "update_commit"
          /\ t.uid \in Users /\ t.id \in ClientIds
          /\ t.content \in Content /\ t.patch \in Patches \cup {NoChange}
      BY <2>7, TaskFields DEF TypeOK, UpdateCommit
    <3>2. CommittedOnce(t.uid, t.id, t.content)
      BY <2>1, <3>1 DEF ReadSound
    <3>3. CASE t.patch = NoChange
      <4>1. task'[q] = [pc |-> "update_fill", uid |-> t.uid, id |-> t.id,
                        content |-> t.content]
        BY <2>7, <3>3 DEF UpdateCommit, Continue, TypeOK
      <4>2. rows' = rows
        BY <2>7, <3>3 DEF UpdateCommit
      <4> QED BY <3>2, <4>1, <4>2 DEF ReadSound, CommittedOnce
    <3>4. CASE t.patch # NoChange /\ SameVersion(t)
      <4>1. t.content = rows[t.id].content
        BY <2>1, <3>1, <3>4 DEF ReadSound, SameVersion
      <4>2. task'[q] = [pc |-> "update_fill", uid |-> t.uid, id |-> t.id,
                        content |-> Append(t.content, t.patch)]
        BY <2>7, <3>4 DEF UpdateCommit, Continue, TypeOK
      <4>3. rows'[t.id] = Patched(rows[t.id], t.patch)
        BY <2>7, <3>1, <3>4 DEF UpdateCommit, TypeOK
      <4>4. /\ rows'[t.id] \in Row
            /\ rows'[t.id].owner = t.uid
            /\ rows'[t.id].content = Append(t.content, t.patch)
            /\ rows'[t.id].content \in Content
        BY <3>1, <3>2, <3>4, <4>1, <4>3, PatchedType DEF SameVersion, Live, CommittedOnce
      <4>5. IsPrefix(rows'[t.id].content, rows'[t.id].content)
        BY <4>4, PrefixReflexive
      <4>6. /\ task'[q].pc = "update_fill"
            /\ task'[q].uid = t.uid
            /\ task'[q].id = t.id
            /\ task'[q].content = rows'[t.id].content
        BY <4>2, <4>4
      <4>7. rows'[t.id] # NotInserted
        BY <4>4, MarkersAssumption
      <4> QED BY <4>4, <4>5, <4>6, <4>7 DEF ReadSound, CommittedOnce
    <3>5. CASE t.patch # NoChange /\ ~SameVersion(t)
      BY <2>3, <2>7, <3>5 DEF UpdateCommit
    <3> QED BY <3>3, <3>4, <3>5
  <2>8. ASSUME DeleteCommit(q)
        PROVE  ReadSound(task[q])'
    BY <2>3, <2>8 DEF DeleteCommit, Continue, TypeOK, ReadSound
  <2>9. ASSUME GetFill(q) \/ CreateFill(q) \/ UpdateFill(q) \/ DeleteCache(q) \/ Fail(q)
        PROVE  ReadSound(task[q])'
    BY <2>3, <2>9 DEF GetFill, CreateFill, UpdateFill, DeleteCache, Fail
  <2> QED BY <2>2, <2>4, <2>5, <2>6, <2>7, <2>8, <2>9, MoverActs DEF Proceed
<1> QED BY <1>1, <1>2, TypeCorrect, PTL DEF Spec

-----------------------------------------------------------------------------
(* The cache.                                                              *)

\* In whatever order fills, deletions and expiries reach Redis, an entry is a
\* content its client has had, and lies under a key of the owner.
THEOREM CacheIsCommitted == Spec => []CachedWasCommitted
<1>1. Init => CachedWasCommitted
  BY DEF Init, CachedWasCommitted, Keys
<1>2. TypeOK /\ TypeOK' /\ ReadsSound /\ CachedWasCommitted /\ [Next]_vars
        => CachedWasCommitted'
  <2> SUFFICES ASSUME TypeOK, TypeOK', ReadsSound, CachedWasCommitted, [Next]_vars,
                      NEW uid \in Users, NEW c \in ClientIds, cache'[<<uid, c>>] # Nil
               PROVE  CommittedOnce(uid, c, cache[<<uid, c>>])'
    BY DEF CachedWasCommitted
  <2> DEFINE key == <<uid, c>>
  <2>1. key \in Keys
    BY DEF Keys
  <2>2. CASE cache'[key] = cache[key]
    <3>1. cache[key] \in Content
      BY <2>1, <2>2 DEF TypeOK
    <3>2. CommittedOnce(uid, c, cache[key])
      BY <2>2 DEF CachedWasCommitted
    <3>3. \A content \in Content :
            CommittedOnce(uid, c, content) => /\ rows'[c] # NotInserted
                                              /\ rows'[c].owner = uid
                                              /\ IsPrefix(content, rows'[c].content)
      BY CommittedForever DEF CommittedOnce
    <3> QED BY <2>2, <3>1, <3>2, <3>3 DEF CommittedOnce
  <2>3. CASE cache'[key] # cache[key]
    <3>1. PICK r \in Requests : GetFill(r) \/ CreateFill(r) \/ UpdateFill(r)
      <4>1. ASSUME NEW r \in Requests, Start(r) \/ Fail(r)
            PROVE  cache' = cache
        BY <4>1 DEF Start, CreateCommit, GetCache, DeleteLoad, UpdateLoad, Fail
      <4>2. ASSUME NEW r \in Requests, DeleteCache(r)
            PROVE  FALSE
        BY <2>1, <2>3, <4>2 DEF DeleteCache, DropCache, TypeOK
      <4>3. ASSUME NEW r \in Requests,
                   GetSelect(r) \/ CreateRefresh(r) \/ UpdateCommit(r) \/ DeleteCommit(r)
            PROVE  cache' = cache
        BY <4>3 DEF GetSelect, CreateRefresh, UpdateCommit, DeleteCommit
      <4>4. ASSUME NEW u \in Users, NEW k \in ClientIds, Expire(u, k)
            PROVE  FALSE
        BY <2>1, <2>3, <4>4 DEF Expire, TypeOK
      <4>5. ~UNCHANGED vars
        BY <2>3 DEF vars
      <4> QED BY <2>3, <4>1, <4>2, <4>3, <4>4, <4>5 DEF Next, Proceed
    <3> DEFINE t == task[r]
    <3>2. /\ t.pc \in {"get_fill", "create_fill", "update_fill"}
          /\ cache' = [cache EXCEPT ![<<t.uid, t.id>>] = t.content]
          /\ rows' = rows
      BY <3>1 DEF GetFill, CreateFill, UpdateFill, SetCache
    <3>3. <<t.uid, t.id>> = key
      BY <2>1, <2>3, <3>2 DEF TypeOK
    <3>4. t.uid = uid /\ t.id = c /\ cache'[key] = t.content
      BY <2>1, <3>2, <3>3 DEF TypeOK
    <3>5. CommittedOnce(t.uid, t.id, t.content)
      BY <3>2 DEF ReadsSound, ReadSound
    <3> QED BY <3>2, <3>4, <3>5 DEF CommittedOnce
  <2> QED BY <2>2, <2>3
<1> QED BY <1>1, <1>2, TypeCorrect, ReadsAreSound, PTL DEF Spec

\* A PATCH changes the row only while it has the content the PATCH has read:
\* the version column lets no concurrent update be overwritten.
THEOREM NoLostUpdate == Spec => UpdatesBuildOnWhatWasRead
<1> DEFINE Step ==
      \A r \in Requests :
            /\ task[r].pc = "update_commit"
            /\ task'[r] # task[r]
            /\ rows'[task[r].id] # rows[task[r].id]
            => rows[task[r].id].content = task[r].content
<1>1. TypeOK /\ ReadsSound /\ [Next]_vars => [Step]_vars
  <2> SUFFICES ASSUME TypeOK, ReadsSound, [Next]_vars, NEW r \in Requests,
                      task[r].pc = "update_commit", task'[r] # task[r],
                      rows'[task[r].id] # rows[task[r].id]
               PROVE  rows[task[r].id].content = task[r].content
    OBVIOUS
  <2>1. Start(r) \/ Proceed(r) \/ Fail(r)
    BY MoverActs
  <2>2. ~Start(r)
    BY DEF Start, CreateCommit, GetCache, DeleteLoad, UpdateLoad, Free
  <2>3. ~Fail(r)
    BY DEF Fail
  <2>4. UpdateCommit(r)
    BY <2>1, <2>2, <2>3
       DEF Proceed, GetSelect, GetFill, CreateRefresh, CreateFill, UpdateFill, DeleteCommit,
           DeleteCache
  <2>5. SameVersion(task[r])
    BY <2>4 DEF UpdateCommit
  <2>6. ReadSound(task[r])
    BY DEF ReadsSound
  <2> QED BY <2>5, <2>6 DEF ReadSound, SameVersion
<1> QED BY <1>1, TypeCorrect, ReadsAreSound, PTL DEF Spec, UpdatesBuildOnWhatWasRead

-----------------------------------------------------------------------------
(* ClientReplica.                                                          *)

\* A prefix is the part of a content up to its length.
LEMMA PrefixIsPart ==
    ASSUME NEW s \in Content, NEW t \in Content, IsPrefix(s, t)
    PROVE  \E n \in 0 .. Len(t) : s = SubSeq(t, 1, n)
<1>1. Len(s) \in 0 .. Len(t) /\ \A i \in 1 .. Len(s) : s[i] = t[i]
  BY DEF IsPrefix, Content
<1>2. s = SubSeq(t, 1, Len(s))
  BY <1>1 DEF Content
<1> QED BY <1>1, <1>2

\* The entries of the log, and the marker of those that do not exist.
LEMMA LogEntries ==
    ASSUME NEW row \in Row \cup {NotInserted}
    PROVE  /\ LogEntry(NotInserted) = NotInserted
           /\ row \in Row => /\ LogEntry(row) # NotInserted
                             /\ LogEntry(row).owner = row.owner
                             /\ LogEntry(row).content = row.content
                             /\ LogEntry(row).live = row.live
<1>1. ASSUME row \in Row
      PROVE  LogEntry(row) = [owner |-> row.owner, content |-> row.content, live |-> row.live]
  BY <1>1, MarkersAssumption DEF LogEntry
<1>2. ASSUME row \in Row
      PROVE  LogEntry(row) \in Replica!Entry
  BY <1>1, <1>2 DEF Row, Content, Replica!Entry
<1> QED BY <1>1, <1>2, EntryAssumption DEF LogEntry

\* A fill with a committed content copies a part of the log.
LEMMA FillRefines ==
    ASSUME TypeOK, NEW uid \in Users, NEW c \in ClientIds, NEW content \in Content,
           CommittedOnce(uid, c, content), SetCache(uid, c, content), rows' = rows
    PROVE  Replica!Next
<1> DEFINE bar == [k \in ClientIds |-> LogEntry(rows[k])]
<1>1. rows[c] \in Row /\ rows[c].owner = uid /\ rows[c].content \in Content
  BY DEF CommittedOnce, TypeOK, Row
<1>2. bar[c] # NotInserted /\ bar[c].owner = uid /\ bar[c].content = rows[c].content
  BY <1>1, LogEntries
<1>3. PICK n \in 0 .. Len(rows[c].content) : content = SubSeq(rows[c].content, 1, n)
  BY <1>1, PrefixIsPart DEF CommittedOnce
<1>4. n \in 0 .. Len(bar[c].content)
        /\ cache' = [cache EXCEPT ![<<uid, c>>] = SubSeq(bar[c].content, 1, n)]
  BY <1>2, <1>3 DEF SetCache
<1>5. bar' = bar
  OBVIOUS
<1>6. Replica!Copy(uid, c)
  BY <1>2, <1>4, <1>5 DEF Replica!Copy
<1> QED BY <1>6 DEF Replica!Next

\* Whatever requests overlap, fail or are overtaken by the expiry of an entry,
\* ClientCache implements the lagging replica of ClientReplica: every commit
\* and every Redis command of a handler is one step of it, every read none.
THEOREM ReplicaRefinement == Spec => ImplementsReplica
<1> DEFINE bar == [c \in ClientIds |-> LogEntry(rows[c])]
<1>1. Init => Replica!Init
  BY DEF Init, Replica!Init, LogEntry, Keys
<1>2. TypeOK /\ TypeOK' /\ ReadsSound /\ [Next]_vars => [Replica!Next]_<<bar, cache>>
  <2> SUFFICES ASSUME TypeOK, TypeOK', ReadsSound, [Next]_vars
               PROVE  Replica!Next \/ UNCHANGED <<bar, cache>>
    OBVIOUS
  <2>1. ASSUME rows' = rows
        PROVE  bar' = bar
    BY <2>1
  <2>2. ASSUME NEW c \in ClientIds, NEW row \in Row, rows' = [rows EXCEPT ![c] = row]
        PROVE  bar' = [bar EXCEPT ![c] = LogEntry(row)]
    BY <2>2 DEF TypeOK
  <2>3. ASSUME NEW r \in Requests, NEW uid \in Users, CreateCommit(r, uid)
        PROVE  Replica!Next
    <3>1. PICK c \in ClientIds : rows[c] = NotInserted /\ rows' = [rows EXCEPT ![c] = NewRow(uid)]
      BY <2>3 DEF CreateCommit
    <3>2. NewRow(uid) \in Row
      BY DEF NewRow, Row, Content
    <3>3. LogEntry(NewRow(uid)) = [owner |-> uid, content |-> <<>>, live |-> TRUE]
      BY <3>2, MarkersAssumption DEF LogEntry, NewRow
    <3>4. bar[c] = NotInserted
      BY <3>1, LogEntries
    <3>5. bar' = [bar EXCEPT ![c] = [owner |-> uid, content |-> <<>>, live |-> TRUE]]
      BY <2>2, <3>1, <3>2, <3>3
    <3>6. Replica!Create(uid, c)
      BY <2>3, <3>4, <3>5 DEF Replica!Create, CreateCommit
    <3> QED BY <3>6 DEF Replica!Next
  <2>4. ASSUME NEW r \in Requests, UpdateCommit(r)
        PROVE  Replica!Next \/ UNCHANGED <<bar, cache>>
    <3> DEFINE t == task[r]
    <3>1. CASE rows' = rows
      BY <2>1, <2>4, <3>1 DEF UpdateCommit
    <3>2. CASE rows' # rows
      <4>1. /\ t.id \in ClientIds /\ t.patch \in Patches /\ SameVersion(t)
            /\ rows' = [rows EXCEPT ![t.id] = Patched(rows[t.id], t.patch)] /\ cache' = cache
        BY <2>4, <3>2, TaskFields DEF UpdateCommit, TypeOK
      <4>2. rows[t.id] \in Row /\ rows[t.id].live
        BY <4>1 DEF SameVersion, Live
      <4> DEFINE row == Patched(rows[t.id], t.patch)
      <4>3. row \in Row /\ row.owner = rows[t.id].owner /\ row.live
            /\ row.content = Append(rows[t.id].content, t.patch)
        BY <4>1, <4>2, PatchedType DEF Patched
      <4>4. row.live = TRUE
        BY <4>3 DEF Row
      <4>5. LogEntry(row) = [owner |-> rows[t.id].owner,
                             content |-> Append(rows[t.id].content, t.patch), live |-> TRUE]
        BY <4>3, <4>4, MarkersAssumption DEF LogEntry
      <4>6. /\ bar[t.id] # NotInserted /\ bar[t.id].live
            /\ bar[t.id].owner = rows[t.id].owner /\ bar[t.id].content = rows[t.id].content
        BY <4>1, <4>2, LogEntries
      <4>7. bar' = [bar EXCEPT ![t.id] =
                        [owner |-> bar[t.id].owner,
                         content |-> Append(bar[t.id].content, t.patch), live |-> TRUE]]
        <5>1. bar' = [bar EXCEPT ![t.id] = LogEntry(row)]
          BY <2>2, <4>1, <4>3
        <5>2. LogEntry(row) = [owner |-> bar[t.id].owner,
                           content |-> Append(bar[t.id].content, t.patch), live |-> TRUE]
          BY <4>5, <4>6
        <5> QED BY <5>1, <5>2
      <4>8. Replica!Patch(t.id, t.patch)
        BY <4>1, <4>6, <4>7 DEF Replica!Patch, Replica!Alive
      <4> QED BY <4>1, <4>8 DEF Replica!Next
    <3> QED BY <3>1, <3>2
  <2>5. ASSUME NEW r \in Requests, DeleteCommit(r)
        PROVE  Replica!Next \/ UNCHANGED <<bar, cache>>
    <3> DEFINE t == task[r]
    <3>1. CASE rows' = rows
      BY <2>1, <2>5, <3>1 DEF DeleteCommit
    <3>2. CASE rows' # rows
      <4> DEFINE row == [rows[t.id] EXCEPT !.live = FALSE]
      <4>1. /\ t.id \in ClientIds /\ SameVersion(t)
            /\ rows' = [rows EXCEPT ![t.id] = row] /\ cache' = cache
        BY <2>5, <3>2, TaskFields DEF DeleteCommit, TypeOK
      <4>2. rows[t.id] \in Row /\ rows[t.id].live
        BY <4>1 DEF SameVersion, Live
      <4>3. /\ row \in Row /\ row.owner = rows[t.id].owner
            /\ row.content = rows[t.id].content
        BY <4>2, UnlivedType
      <4>4. row.live = FALSE
        BY <4>2 DEF Row
      <4>5. LogEntry(row) = [owner |-> rows[t.id].owner, content |-> rows[t.id].content,
                             live |-> FALSE]
        BY <4>3, <4>4, MarkersAssumption DEF LogEntry
      <4>6. /\ bar[t.id] # NotInserted /\ bar[t.id].live
            /\ bar[t.id].owner = rows[t.id].owner /\ bar[t.id].content = rows[t.id].content
        BY <4>1, <4>2, LogEntries
      <4>7. bar' = [bar EXCEPT ![t.id] =
                        [owner |-> bar[t.id].owner, content |-> bar[t.id].content,
                         live |-> FALSE]]
        <5>1. bar' = [bar EXCEPT ![t.id] = LogEntry(row)]
          BY <2>2, <4>1, <4>3
        <5>2. LogEntry(row) = [owner |-> bar[t.id].owner, content |-> bar[t.id].content,
                           live |-> FALSE]
          BY <4>5, <4>6
        <5> QED BY <5>1, <5>2
      <4>8. Replica!Delete(t.id)
        BY <4>1, <4>6, <4>7 DEF Replica!Delete, Replica!Alive
      <4> QED BY <4>1, <4>8 DEF Replica!Next
    <3> QED BY <3>1, <3>2
  <2>6. ASSUME NEW r \in Requests, GetFill(r) \/ CreateFill(r) \/ UpdateFill(r)
        PROVE  Replica!Next
    <3> DEFINE t == task[r]
    <3>1. /\ t.pc \in {"get_fill", "create_fill", "update_fill"}
          /\ SetCache(t.uid, t.id, t.content) /\ rows' = rows
      BY <2>6 DEF GetFill, CreateFill, UpdateFill
    <3>2. t.uid \in Users /\ t.id \in ClientIds /\ t.content \in Content
      BY <3>1, TaskFields DEF TypeOK
    <3>3. CommittedOnce(t.uid, t.id, t.content)
      BY <3>1 DEF ReadsSound, ReadSound
    <3> QED BY <3>1, <3>2, <3>3, FillRefines
  <2>7. ASSUME NEW uid \in Users, NEW c \in ClientIds, DropCache(uid, c), rows' = rows
        PROVE  Replica!Next
    <3>1. Replica!Drop(uid, c)
      BY <2>1, <2>7 DEF Replica!Drop, DropCache
    <3> QED BY <3>1 DEF Replica!Next
  <2>8. ASSUME NEW r \in Requests, DeleteCache(r)
        PROVE  Replica!Next
    BY <2>7, <2>8, TaskFields DEF DeleteCache, TypeOK
  <2>9. ASSUME NEW uid \in Users, NEW c \in ClientIds, Expire(uid, c)
        PROVE  Replica!Next
    BY <2>7, <2>9 DEF Expire, DropCache
  <2>10. ASSUME NEW r \in Requests, Start(r)
         PROVE  (\E uid \in Users : CreateCommit(r, uid)) \/ (rows' = rows /\ cache' = cache)
    BY <2>10 DEF Start, GetCache, DeleteLoad, UpdateLoad
  <2>11. ASSUME NEW r \in Requests, GetSelect(r) \/ CreateRefresh(r) \/ Fail(r)
         PROVE  rows' = rows /\ cache' = cache
    BY <2>11 DEF GetSelect, CreateRefresh, Fail
  <2>12. CASE UNCHANGED vars
    BY <2>1, <2>12 DEF vars
  <2> QED BY <2>1, <2>3, <2>4, <2>5, <2>6, <2>8, <2>9, <2>10, <2>11, <2>12 DEF Next, Proceed
<1> QED
  BY <1>1, <1>2, TypeCorrect, ReadsAreSound, PTL
     DEF Spec, ImplementsReplica, Replica!Spec, Replica!vars

-----------------------------------------------------------------------------
(* CacheOverlap: what the cache answers for a client on which no requests  *)
(* overlap, whatever overlaps on other clients.                            *)

\* A behaviour of CacheOverlap is one of ClientCache.
LEMMA WatchedIsClientCache == WatchedSpec => Spec
<1>1. WatchedInit => Init
  BY DEF WatchedInit
<1>2. [WatchedNext]_watched => [Next]_vars
  BY DEF WatchedNext, watched
<1> QED BY <1>1, <1>2, PTL DEF WatchedSpec, Spec

\* The tasks that hold a content.
Fills == {"get_fill", "create_fill", "update_fill"}

Holding == Fills \cup {"update_commit"}

LEMMA BusyIsInFlight ==
    ASSUME NEW t \in Tasks, t.pc \notin {"idle", "done"}
    PROVE  t \in InFlight
  BY DEF Tasks, Idle

-----------------------------------------------------------------------------
(* What a step may do to each variable.                                    *)

\* A key is emptied, or filled with what a request on it holds.
LEMMA CacheStep ==
    ASSUME TypeOK, [Next]_vars, NEW uid \in Users, NEW c \in ClientIds
    PROVE  \/ cache'[<<uid, c>>] \in {cache[<<uid, c>>], Nil}
           \/ \E r \in Requests :
                /\ task[r].pc \in Fills
                /\ task[r].uid = uid /\ task[r].id = c
                /\ cache'[<<uid, c>>] = task[r].content
<1> DEFINE key == <<uid, c>>
<1>1. key \in Keys
  BY DEF Keys
<1>2. ASSUME NEW r \in Requests, Start(r) \/ Fail(r)
      PROVE  cache' = cache
  BY <1>2 DEF Start, CreateCommit, GetCache, DeleteLoad, UpdateLoad, Fail
<1>3. ASSUME NEW r \in Requests,
             GetSelect(r) \/ CreateRefresh(r) \/ UpdateCommit(r) \/ DeleteCommit(r)
      PROVE  cache' = cache
  BY <1>3 DEF GetSelect, CreateRefresh, UpdateCommit, DeleteCommit
<1>4. ASSUME NEW r \in Requests, DeleteCache(r)
      PROVE  cache'[key] \in {cache[key], Nil}
  BY <1>1, <1>4 DEF DeleteCache, DropCache, TypeOK
<1>5. ASSUME NEW u \in Users, NEW k \in ClientIds, Expire(u, k)
      PROVE  cache'[key] \in {cache[key], Nil}
  BY <1>1, <1>5 DEF Expire, TypeOK
<1>6. ASSUME NEW r \in Requests, GetFill(r) \/ CreateFill(r) \/ UpdateFill(r)
      PROVE  \/ cache'[key] = cache[key]
             \/ /\ task[r].pc \in Fills
                /\ task[r].uid = uid /\ task[r].id = c
                /\ cache'[key] = task[r].content
  <2>1. /\ task[r].pc \in Fills
        /\ cache' = [cache EXCEPT ![<<task[r].uid, task[r].id>>] = task[r].content]
    BY <1>6 DEF GetFill, CreateFill, UpdateFill, SetCache, Fills
  <2>2. CASE <<task[r].uid, task[r].id>> = key
    BY <1>1, <2>1, <2>2 DEF TypeOK
  <2>3. CASE <<task[r].uid, task[r].id>> # key
    BY <1>1, <2>1, <2>3 DEF TypeOK
  <2> QED BY <2>2, <2>3
<1>7. CASE UNCHANGED vars
  BY <1>7 DEF vars
<1> QED BY <1>2, <1>3, <1>4, <1>5, <1>6, <1>7 DEF Next, Proceed

\* Only a request that goes on answers a write.
LEMMA QuietSteps ==
    /\ \A r \in Requests : Start(r) \/ Fail(r) => acked' = acked /\ gone' = gone
    /\ \A uid \in Users, c \in ClientIds : Expire(uid, c) => acked' = acked /\ gone' = gone
<1>1. ASSUME NEW r \in Requests, Start(r)
      PROVE  acked' = acked /\ gone' = gone
  BY <1>1 DEF Start, CreateCommit, GetCache, DeleteLoad, UpdateLoad
<1> QED BY <1>1 DEF Fail, Expire

\* The caller learns of more patches from a request that has just filled the
\* cache with them.
LEMMA AckStep ==
    ASSUME TypeOK, [Next]_vars, NEW c \in ClientIds, acked'[c] # acked[c]
    PROVE  \E r \in Requests :
              /\ task[r].pc \in Fills /\ task[r].id = c
              /\ task[r].uid \in Users /\ task[r].content \in Content
              /\ acked'[c] = Len(task[r].content)
              /\ cache'[<<task[r].uid, c>>] = task[r].content
              /\ task'[r] \notin InFlight
              /\ UNCHANGED <<rows, gone>>
<1>1. PICK r \in Requests : CreateFill(r) \/ UpdateFill(r)
  <2>1. PICK r \in Requests : Proceed(r)
    BY QuietSteps DEF Next, vars
  <2> QED BY <2>1 DEF Proceed, GetSelect, GetFill, CreateRefresh, UpdateCommit,
                      DeleteCommit, DeleteCache
<1>2. /\ task[r].pc \in Fills /\ task[r] \in Tasks
      /\ SetCache(task[r].uid, task[r].id, task[r].content)
      /\ Acknowledge(task[r])
      /\ UNCHANGED <<rows, gone>>
  BY <1>1 DEF CreateFill, UpdateFill, Fills, TypeOK
<1>3. task[r].uid \in Users /\ task[r].id \in ClientIds /\ task[r].content \in Content
  BY <1>2, TaskFields DEF Fills
<1>4. task[r].id = c /\ acked'[c] = Len(task[r].content)
  BY <1>2, <1>3 DEF Acknowledge, TypeOK
<1>5. cache'[<<task[r].uid, c>>] = task[r].content
  BY <1>2, <1>3, <1>4 DEF SetCache, TypeOK, Keys
<1>6. task'[r].pc = "done"
  BY <1>1 DEF CreateFill, UpdateFill, Continue, Done, TypeOK
<1>7. task'[r] \notin InFlight
  BY <1>6 DEF InFlight
<1> QED BY <1>2, <1>3, <1>4, <1>5, <1>7

\* A deletion is answered after the entry of the caller has been dropped.
LEMMA GoneStep ==
    ASSUME TypeOK, [Next]_vars, NEW c \in ClientIds
    PROVE  /\ c \in gone => c \in gone'
           /\ c \in gone' \ gone =>
                \E r \in Requests :
                    /\ task[r].pc = "delete_cache" /\ task[r].id = c
                    /\ task[r].uid \in Users
                    /\ cache' = [cache EXCEPT ![<<task[r].uid, c>>] = Nil]
                    /\ task'[r] \notin InFlight
                    /\ UNCHANGED <<rows, acked>>
<1>1. gone' = gone \/ \E r \in Requests : DeleteCache(r)
  <2>1. ASSUME NEW r \in Requests, Proceed(r), ~DeleteCache(r)
        PROVE  gone' = gone
    BY <2>1 DEF Proceed, GetSelect, GetFill, CreateRefresh, CreateFill, UpdateCommit,
                UpdateFill, DeleteCommit
  <2> QED BY <2>1, QuietSteps DEF Next, vars
<1>2. ASSUME NEW r \in Requests, DeleteCache(r)
      PROVE  /\ gone' = gone \cup {task[r].id}
             /\ task[r].pc = "delete_cache"
             /\ task[r].uid \in Users
             /\ cache' = [cache EXCEPT ![<<task[r].uid, task[r].id>>] = Nil]
             /\ task'[r] \notin InFlight
             /\ UNCHANGED <<rows, acked>>
  <2>1. task[r].pc = "delete_cache" /\ task[r] \in Tasks
    BY <1>2 DEF DeleteCache, TypeOK
  <2>2. task'[r].pc = "done"
    BY <1>2 DEF DeleteCache, Continue, Done, TypeOK
  <2> QED BY <1>2, <2>1, <2>2, TaskFields DEF DeleteCache, DropCache, InFlight
<1> QED BY <1>1, <1>2

\* A content is read from a live row, or put together from one that is held.
LEMMA TaskStep ==
    ASSUME TypeOK, [Next]_vars, NEW r \in Requests, task'[r] # task[r], task'[r].pc \in Holding
    PROVE  \/ /\ Live(task'[r].id) /\ task'[r].content = rows[task'[r].id].content
              /\ UNCHANGED <<rows, cache, acked, gone>>
           \/ /\ task[r].pc = "update_commit" /\ task'[r].id = task[r].id
              /\ \/ task'[r].content = task[r].content
                 \/ \E p \in Patches : task'[r].content = Append(task[r].content, p)
              /\ UNCHANGED <<cache, acked, gone>>
<1>1. task[r] \in Tasks
  BY DEF TypeOK
<1>2. ASSUME NEW code, Continue(r, Done(code))
      PROVE  FALSE
  BY <1>2 DEF Continue, Done, TypeOK, Holding, Fills
<1>3. CASE Start(r)
  <2>1. PICK uid \in Users : \/ CreateCommit(r, uid)
                             \/ \E c \in ClientIds : GetCache(r, uid, c) \/ DeleteLoad(r, uid, c)
                             \/ \E c \in ClientIds, p \in Patches \cup {NoChange} :
                                    UpdateLoad(r, uid, c, p)
    BY <1>3 DEF Start
  <2>2. CASE CreateCommit(r, uid)
    BY <2>2 DEF CreateCommit, Continue, TypeOK, Holding, Fills
  <2>4. ASSUME NEW c \in ClientIds, GetCache(r, uid, c) \/ DeleteLoad(r, uid, c)
        PROVE  FALSE
    <3>1. task'[r].pc \in {"get_select", "delete_commit"}
      BY <1>2, <2>4 DEF GetCache, DeleteLoad, Continue, TypeOK
    <3> QED BY <3>1 DEF Holding, Fills
  <2>3. ASSUME NEW c \in ClientIds, NEW p \in Patches \cup {NoChange}, UpdateLoad(r, uid, c, p)
        PROVE  /\ Live(task'[r].id) /\ task'[r].content = rows[task'[r].id].content
               /\ UNCHANGED <<rows, cache, acked, gone>>
    BY <1>2, <2>3 DEF UpdateLoad, Visible, Continue, TypeOK
  <2> QED BY <2>1, <2>2, <2>3, <2>4
<1>4. CASE GetSelect(r) \/ CreateRefresh(r)
  BY <1>2, <1>4 DEF GetSelect, CreateRefresh, Visible, Continue, TypeOK
<1>5. CASE UpdateCommit(r)
  <2>1. task[r].pc = "update_commit" /\ task[r].patch \in Patches \cup {NoChange}
    BY <1>1, <1>5, TaskFields DEF UpdateCommit
  <2>2. PICK content :
            /\ Continue(r, [pc |-> "update_fill", uid |-> task[r].uid,
                            id |-> task[r].id, content |-> content])
            /\ content = task[r].content \/ \E p \in Patches : content = Append(task[r].content, p)
            /\ UNCHANGED <<cache, acked, gone>>
    BY <1>2, <1>5, <2>1 DEF UpdateCommit
  <2>3. task'[r] = [pc |-> "update_fill", uid |-> task[r].uid,
                    id |-> task[r].id, content |-> content]
    BY <2>2 DEF Continue, TypeOK
  <2> QED BY <2>1, <2>2, <2>3
<1>6. CASE \/ GetFill(r) \/ CreateFill(r) \/ UpdateFill(r) \/ DeleteCache(r) \/ Fail(r)
  BY <1>2, <1>6 DEF GetFill, CreateFill, UpdateFill, DeleteCache, Fail
<1>7. CASE DeleteCommit(r)
  BY <1>2, <1>7 DEF DeleteCommit, Continue, TypeOK, Holding, Fills
<1> QED BY <1>3, <1>4, <1>5, <1>6, <1>7, MoverActs DEF Proceed

\* A deleted client stays as it is.
LEMMA DeadRowsStay ==
    ASSUME TypeOK, [Next]_vars, NEW c \in ClientIds, rows[c] # NotInserted, ~Live(c)
    PROVE  rows'[c] = rows[c]
<1>1. ASSUME NEW r \in Requests, Start(r)
      PROVE  rows'[c] = rows[c]
  BY <1>1 DEF Start, CreateCommit, GetCache, DeleteLoad, UpdateLoad, TypeOK
<1>2. ASSUME NEW r \in Requests, UpdateCommit(r) \/ DeleteCommit(r)
      PROVE  rows'[c] = rows[c]
  BY <1>2 DEF UpdateCommit, DeleteCommit, SameVersion, TypeOK
<1>3. ASSUME NEW r \in Requests, Proceed(r), ~UpdateCommit(r), ~DeleteCommit(r)
      PROVE  rows'[c] = rows[c]
  BY <1>3 DEF Proceed, GetSelect, GetFill, CreateRefresh, CreateFill, UpdateFill, DeleteCache
<1> QED BY <1>1, <1>2, <1>3 DEF Next, vars, Fail, Expire

-----------------------------------------------------------------------------
(* What the answers and the deletions in flight say of the rows.           *)

\* A request that deletes owns the client, and answers for a dead one.
DeleterSound(t) ==
    /\ t.pc \in {"delete_commit", "delete_cache"} =>
            rows[t.id] # NotInserted /\ rows[t.id].owner = t.uid
    /\ t.pc = "delete_cache" => ~Live(t.id)

DeletersSound == \A r \in Requests : DeleterSound(task[r])

\* Nobody has been told of more than the row has had.
KnownSound(c) ==
    /\ rows[c] = NotInserted => acked[c] = 0
    /\ rows[c] # NotInserted => acked[c] <= Len(rows[c].content)
    /\ c \in gone => rows[c] # NotInserted /\ ~Live(c)

AnswersSound == \A c \in ClientIds : KnownSound(c)

LEMMA DeletersStaySound ==
    ASSUME TypeOK, TypeOK', DeletersSound, [Next]_vars
    PROVE  DeletersSound'
<1> SUFFICES ASSUME NEW q \in Requests
             PROVE  DeleterSound(task[q])'
  BY DEF DeletersSound
<1>1. task[q] \in Tasks /\ DeleterSound(task[q])
  BY DEF TypeOK, DeletersSound
<1>2. CASE task'[q] = task[q]
  <2>1. CASE task[q].pc \notin {"delete_commit", "delete_cache"}
    BY <1>2, <2>1 DEF DeleterSound
  <2>2. CASE task[q].pc \in {"delete_commit", "delete_cache"}
    <3>1. task[q].id \in ClientIds
      BY <1>1, <2>2, TaskFields
    <3>2. RowGrows(task[q].id)
      BY <3>1, RowsGrow
    <3>3. ~Live(task[q].id) => rows'[task[q].id] = rows[task[q].id]
      BY <1>1, <2>2, <3>1, DeadRowsStay DEF DeleterSound
    <3> QED BY <1>1, <1>2, <2>2, <3>2, <3>3 DEF DeleterSound, RowGrows, Live
  <2> QED BY <2>1, <2>2
<1>3. CASE task'[q] # task[q] /\ task'[q].pc = "delete_commit"
  <2>1. PICK uid \in Users, c \in ClientIds : DeleteLoad(q, uid, c)
    <3>1. Start(q) \/ Proceed(q) \/ Fail(q)
      BY <1>3, MoverActs
    <3>2. ~Fail(q)
      BY <1>3 DEF Fail, Continue, Done, TypeOK
    <3>3. ~(GetSelect(q) \/ GetFill(q) \/ CreateRefresh(q) \/ CreateFill(q))
      BY <1>3 DEF GetSelect, GetFill, CreateRefresh, CreateFill, Continue, Done, TypeOK
    <3>4. ~(UpdateCommit(q) \/ UpdateFill(q) \/ DeleteCommit(q) \/ DeleteCache(q))
      BY <1>3 DEF UpdateCommit, UpdateFill, DeleteCommit, DeleteCache, Continue, Done, TypeOK
    <3>5. ASSUME NEW uid \in Users, CreateCommit(q, uid)
          PROVE  FALSE
      BY <1>3, <3>5 DEF CreateCommit, Continue, TypeOK
    <3>6. ASSUME NEW uid \in Users, NEW c \in ClientIds, GetCache(q, uid, c)
          PROVE  FALSE
      BY <1>3, <3>6 DEF GetCache, Continue, Done, TypeOK
    <3>7. ASSUME NEW uid \in Users, NEW c \in ClientIds, NEW p \in Patches \cup {NoChange},
                 UpdateLoad(q, uid, c, p)
          PROVE  FALSE
      BY <1>3, <3>7 DEF UpdateLoad, Continue, Done, TypeOK
    <3> QED BY <3>1, <3>2, <3>3, <3>4, <3>5, <3>6, <3>7 DEF Start, Proceed
  <2>2. Visible(uid, c) /\ rows' = rows
    BY <1>3, <2>1 DEF DeleteLoad, Continue, Done, TypeOK
  <2>3. task'[q].uid = uid /\ task'[q].id = c
    BY <2>1, <2>2 DEF DeleteLoad, Continue, TypeOK
  <2>4. rows[c] # NotInserted /\ rows[c].owner = uid
    BY <2>2, MarkersAssumption DEF Visible, Live
  <2> QED BY <1>3, <2>2, <2>3, <2>4 DEF DeleterSound
<1>4. CASE task'[q] # task[q] /\ task'[q].pc = "delete_cache"
  <2>1. DeleteCommit(q)
    <3>1. Start(q) \/ Proceed(q) \/ Fail(q)
      BY <1>4, MoverActs
    <3>2. ~Fail(q)
      BY <1>4 DEF Fail, Continue, Done, TypeOK
    <3>3. ~(GetSelect(q) \/ GetFill(q) \/ CreateRefresh(q) \/ CreateFill(q))
      BY <1>4 DEF GetSelect, GetFill, CreateRefresh, CreateFill, Continue, Done, TypeOK
    <3>4. ~(UpdateCommit(q) \/ UpdateFill(q) \/ DeleteCache(q))
      BY <1>4 DEF UpdateCommit, UpdateFill, DeleteCache, Continue, Done, TypeOK
    <3>5. ASSUME NEW uid \in Users, CreateCommit(q, uid)
          PROVE  FALSE
      BY <1>4, <3>5 DEF CreateCommit, Continue, TypeOK
    <3>6. ASSUME NEW uid \in Users, NEW c \in ClientIds,
                 GetCache(q, uid, c) \/ DeleteLoad(q, uid, c)
          PROVE  FALSE
      BY <1>4, <3>6 DEF GetCache, DeleteLoad, Continue, Done, TypeOK
    <3>7. ASSUME NEW uid \in Users, NEW c \in ClientIds, NEW p \in Patches \cup {NoChange},
                 UpdateLoad(q, uid, c, p)
          PROVE  FALSE
      BY <1>4, <3>7 DEF UpdateLoad, Continue, Done, TypeOK
    <3> QED BY <3>1, <3>2, <3>3, <3>4, <3>5, <3>6, <3>7 DEF Start, Proceed
  <2>2. task[q].pc = "delete_commit" /\ task[q].id \in ClientIds
    BY <1>1, <2>1, TaskFields DEF DeleteCommit
  <2>3. /\ rows' = [rows EXCEPT ![task[q].id] = [@ EXCEPT !.live = FALSE]]
        /\ task'[q] = [pc |-> "delete_cache", uid |-> task[q].uid, id |-> task[q].id]
    BY <1>4, <2>1 DEF DeleteCommit, Continue, Done, TypeOK
  <2>4. rows[task[q].id] \in Row /\ rows[task[q].id].owner = task[q].uid
    BY <1>1, <2>2 DEF DeleterSound, TypeOK
  <2>5. rows'[task[q].id] = [rows[task[q].id] EXCEPT !.live = FALSE]
    BY <2>2, <2>3 DEF TypeOK
  <2>6. rows'[task[q].id] \in Row /\ rows'[task[q].id].owner = task[q].uid
    BY <2>4, <2>5, UnlivedType
  <2>7. PICK c \in ClientIds : c = task[q].id
    BY <2>2
  <2>8. ~Live(c)'
    <3>1. rows[c] \in Row
      BY <2>4, <2>7
    <3>2. rows'[c] = [rows[c] EXCEPT !.live = FALSE]
      BY <2>5, <2>7
    <3> QED BY <3>1, <3>2 DEF Row, Live
  <2>9. rows'[c] # NotInserted /\ rows'[c].owner = task'[q].uid /\ task'[q].id = c
    <3>1. task'[q].uid = task[q].uid /\ task'[q].id = c
      BY <2>3, <2>7
    <3>2. rows'[c] \in Row /\ rows'[c].owner = task[q].uid
      BY <2>6, <2>7
    <3>3. rows'[c] # NotInserted
      BY <3>2, MarkersAssumption
    <3> QED BY <3>1, <3>2, <3>3
  <2> QED BY <2>8, <2>9 DEF DeleterSound, Live
<1>5. CASE task'[q].pc \notin {"delete_commit", "delete_cache"}
  BY <1>5 DEF DeleterSound
<1> QED BY <1>2, <1>3, <1>4, <1>5

LEMMA AnswersStaySound ==
    ASSUME TypeOK, TypeOK', ReadsSound, ReadsSound', DeletersSound, AnswersSound, [Next]_vars
    PROVE  AnswersSound'
<1> SUFFICES ASSUME NEW c \in ClientIds
             PROVE  KnownSound(c)'
  BY DEF AnswersSound
<1>1. KnownSound(c) /\ RowGrows(c)
  BY RowsGrow DEF AnswersSound
<1>2. rows[c] # NotInserted =>
        /\ rows[c].content \in Content /\ rows'[c].content \in Content
        /\ Len(rows[c].content) <= Len(rows'[c].content)
  BY <1>1 DEF RowGrows, TypeOK, Row, Content, IsPrefix
<1>3. rows'[c] # NotInserted => rows'[c].content \in Content
  BY DEF TypeOK, Row
<1>4. CASE acked'[c] = acked[c]
  <2>1. (rows'[c] = NotInserted => acked'[c] = 0)
        /\ (rows'[c] # NotInserted => acked'[c] <= Len(rows'[c].content))
    <3>1. acked[c] \in Nat
      BY DEF TypeOK
    <3>2. rows'[c] # NotInserted => Len(rows'[c].content) \in Nat
      BY <1>3 DEF Content
    <3>3. rows[c] # NotInserted => Len(rows[c].content) \in Nat
      BY <1>2 DEF Content
    <3> QED BY <1>1, <1>2, <1>4, <3>1, <3>2, <3>3 DEF KnownSound, RowGrows
  <2>2. CASE c \in gone
    <3>1. rows'[c] = rows[c]
      BY <1>1, <2>2, DeadRowsStay DEF KnownSound
    <3> QED BY <1>1, <2>1, <2>2, <3>1 DEF KnownSound, Live
  <2>3. CASE c \in gone' \ gone
    <3>1. PICK r \in Requests : /\ task[r].pc = "delete_cache" /\ task[r].id = c
                                /\ rows' = rows
      BY <2>3, GoneStep
    <3>2. rows[c] # NotInserted /\ ~Live(c)
      BY <3>1 DEF DeletersSound, DeleterSound
    <3> QED BY <2>1, <3>1, <3>2 DEF KnownSound, Live
  <2>4. CASE c \notin gone'
    BY <2>1, <2>4 DEF KnownSound
  <2> QED BY <2>1, <2>2, <2>3, <2>4
<1>5. CASE acked'[c] # acked[c]
  <2>1. PICK r \in Requests :
          /\ task[r].pc \in Fills /\ task[r].id = c
          /\ task[r].uid \in Users /\ task[r].content \in Content
          /\ acked'[c] = Len(task[r].content)
          /\ rows' = rows /\ gone' = gone
    BY <1>5, AckStep
  <2>2. CommittedOnce(task[r].uid, c, task[r].content)
    BY <2>1 DEF ReadsSound, ReadSound, Fills
  <2>3. rows[c] # NotInserted /\ acked'[c] <= Len(rows[c].content)
    BY <1>2, <2>1, <2>2 DEF CommittedOnce, IsPrefix, Content
  <2> QED BY <1>1, <2>1, <2>3 DEF KnownSound, Live
<1> QED BY <1>4, <1>5

-----------------------------------------------------------------------------
(* Where nothing overlaps, neither the cache nor a request holds less than *)
(* the caller has been told of.                                            *)

UpToDate(content, c) == Len(content) >= acked[c] /\ c \notin gone

CalmCache(c) ==
    \A uid \in Users : cache[<<uid, c>>] # Nil => UpToDate(cache[<<uid, c>>], c)

CalmReads(c) ==
    \A r \in Requests : task[r].pc \in Holding /\ task[r].id = c => UpToDate(task[r].content, c)

OverlapInv ==
    \A c \in ClientIds :
        /\ Overlapping(c) => c \in disturbed
        /\ c \notin disturbed => CalmCache(c) /\ CalmReads(c)

\* Requests on a client overlap only while it is disturbed; a second request
\* that starts on it disturbs it at once.
LEMMA CalmStays ==
    ASSUME TypeOK, TypeOK', ReadsSound, CachedWasCommitted', DeletersSound, AnswersSound,
           OverlapInv, [Next]_vars, NEW c \in ClientIds,
           c \notin disturbed, ~Overlapping(c)'
    PROVE  CalmCache(c)' /\ CalmReads(c)'
<1>1. /\ CalmCache(c) /\ CalmReads(c) /\ ~Overlapping(c) /\ KnownSound(c)
  BY DEF OverlapInv, AnswersSound
<1>2. ASSUME NEW r \in Requests, task[r] \in InFlight, task[r].id = c,
             task'[r] \notin InFlight, ~UNCHANGED <<acked, gone>>,
             NEW q \in Requests, task'[q].pc \in Holding, task'[q].id = c
      PROVE  FALSE
  <2>1. task'[q] \in InFlight
    BY <1>2, BusyIsInFlight DEF Holding, Fills, TypeOK
  <2>2. q # r
    BY <1>2, <2>1
  <2>3. task'[q] # task[q]
    BY <1>1, <1>2, <2>1, <2>2 DEF Overlapping, On
  <2> QED BY <1>2, <2>3, TaskStep
<1>3. ASSUME NEW uid \in Users, rows'[c].owner = uid, NEW u \in Users, cache'[<<u, c>>] # Nil
      PROVE  u = uid
  BY <1>3 DEF CachedWasCommitted, CommittedOnce
<1>4. CASE acked'[c] # acked[c]
  <2>1. PICK r \in Requests :
          /\ task[r].pc \in Fills /\ task[r].id = c
          /\ task[r].uid \in Users /\ task[r].content \in Content
          /\ acked'[c] = Len(task[r].content)
          /\ cache'[<<task[r].uid, c>>] = task[r].content
          /\ task'[r] \notin InFlight
          /\ UNCHANGED <<rows, gone>>
    BY <1>4, AckStep
  <2>2. task[r] \in InFlight /\ task[r].pc \in Holding
    BY <2>1, BusyIsInFlight DEF Holding, Fills, TypeOK
  <2>3. rows'[c].owner = task[r].uid
    BY <2>1 DEF ReadsSound, ReadSound, CommittedOnce, Fills
  <2>4. c \notin gone'
    BY <1>1, <2>1, <2>2 DEF CalmReads, UpToDate
  <2>5. CalmReads(c)'
    BY <1>2, <1>4, <2>1, <2>2 DEF CalmReads
  <2>6. Len(task[r].content) >= acked'[c]
    BY <2>1 DEF Content
  <2>7. CalmCache(c)'
    BY <1>3, <2>1, <2>3, <2>4, <2>6 DEF CalmCache, UpToDate
  <2> QED BY <2>5, <2>7
<1>5. CASE acked'[c] = acked[c] /\ c \in gone' \ gone
  <2>1. PICK r \in Requests :
          /\ task[r].pc = "delete_cache" /\ task[r].id = c
          /\ task[r].uid \in Users
          /\ cache' = [cache EXCEPT ![<<task[r].uid, c>>] = Nil]
          /\ task'[r] \notin InFlight
          /\ UNCHANGED <<rows, acked>>
    BY <1>5, GoneStep
  <2>2. task[r] \in InFlight
    BY <2>1, BusyIsInFlight DEF TypeOK
  <2>3. rows'[c].owner = task[r].uid
    BY <2>1 DEF DeletersSound, DeleterSound
  <2>4. cache'[<<task[r].uid, c>>] = Nil
    BY <2>1 DEF TypeOK, Keys
  <2>5. CalmCache(c)'
    BY <1>3, <2>1, <2>3, <2>4 DEF CalmCache
  <2>6. CalmReads(c)'
    BY <1>2, <1>5, <2>1, <2>2 DEF CalmReads
  <2> QED BY <2>5, <2>6
<1>6. CASE acked'[c] = acked[c] /\ c \notin gone' \ gone
  <2>1. ASSUME NEW content, UpToDate(content, c)
        PROVE  Len(content) >= acked'[c] /\ c \notin gone'
    BY <1>6, <2>1 DEF UpToDate
  <2>2. CalmCache(c)'
    <3> SUFFICES ASSUME NEW uid \in Users, cache'[<<uid, c>>] # Nil
                 PROVE  Len(cache'[<<uid, c>>]) >= acked'[c] /\ c \notin gone'
      BY DEF CalmCache, UpToDate
    <3>1. CASE cache'[<<uid, c>>] \in {cache[<<uid, c>>], Nil}
      BY <1>1, <2>1, <3>1 DEF CalmCache
    <3>2. CASE \E r \in Requests : /\ task[r].pc \in Fills
                                   /\ task[r].uid = uid /\ task[r].id = c
                                   /\ cache'[<<uid, c>>] = task[r].content
      BY <1>1, <2>1, <3>2 DEF CalmReads, Holding
    <3> QED BY <3>1, <3>2, CacheStep
  <2>3. CalmReads(c)'
    <3> SUFFICES ASSUME NEW r \in Requests, task'[r].pc \in Holding, task'[r].id = c
                 PROVE  Len(task'[r].content) >= acked'[c] /\ c \notin gone'
      BY DEF CalmReads, UpToDate
    <3>1. CASE task'[r] = task[r]
      BY <1>1, <2>1, <3>1 DEF CalmReads
    <3>2. CASE task'[r] # task[r] /\ Live(c) /\ task'[r].content = rows[c].content
      <4>1. acked[c] <= Len(rows[c].content) /\ c \notin gone
        BY <1>1, <3>2, MarkersAssumption DEF KnownSound, Live
      <4>2. acked[c] \in Nat /\ Len(rows[c].content) \in Nat
        BY <3>2 DEF TypeOK, Live, Row, Content
      <4>3. UpToDate(rows[c].content, c)
        BY <4>1, <4>2 DEF UpToDate
      <4> QED BY <2>1, <3>2, <4>3
    <3>3. CASE /\ task[r].pc = "update_commit" /\ task[r].id = c
               /\ \/ task'[r].content = task[r].content
                  \/ \E p \in Patches : task'[r].content = Append(task[r].content, p)
      <4>1. UpToDate(task[r].content, c)
        BY <1>1, <3>3 DEF CalmReads, Holding
      <4>2. task[r].content \in Content /\ acked[c] \in Nat
        BY <3>3, TaskFields DEF TypeOK
      <4>3. ASSUME NEW p \in Patches
            PROVE  UpToDate(Append(task[r].content, p), c)
        <5>1. /\ Len(task[r].content) \in Nat
              /\ Len(Append(task[r].content, p)) = Len(task[r].content) + 1
          BY <4>2 DEF Content
        <5> QED BY <4>1, <4>2, <5>1 DEF UpToDate
      <4> QED BY <2>1, <3>3, <4>1, <4>3
    <3> QED BY <3>1, <3>2, <3>3, TaskStep
  <2> QED BY <2>2, <2>3
<1> QED BY <1>4, <1>5, <1>6

\* When the last entry and the last request are gone there is nothing to hold.
LEMMA QuietIsCalm ==
    ASSUME TypeOK, NEW c \in ClientIds, Quiet(c)
    PROVE  CalmCache(c) /\ CalmReads(c)
<1>1. CalmCache(c)
  BY DEF CalmCache, Quiet
<1>2. ASSUME NEW r \in Requests, task[r].pc \in Holding, task[r].id = c
      PROVE  FALSE
  <2>1. task[r] \in InFlight
    BY <1>2, BusyIsInFlight DEF TypeOK, Holding, Fills
  <2> QED BY <1>2, <2>1 DEF Quiet, On
<1> QED BY <1>1, <1>2 DEF CalmReads

LEMMA OverlapStep ==
    ASSUME TypeOK, TypeOK', ReadsSound, CachedWasCommitted', DeletersSound, AnswersSound,
           OverlapInv, [WatchedNext]_watched
    PROVE  OverlapInv'
<1>1. CASE UNCHANGED watched
  BY <1>1 DEF watched, vars, OverlapInv, Overlapping, On, CalmCache, CalmReads, UpToDate
<1>2. CASE WatchedNext
  <2> SUFFICES ASSUME NEW c \in ClientIds
               PROVE  /\ Overlapping(c)' => c \in disturbed'
                      /\ c \notin disturbed' => CalmCache(c)' /\ CalmReads(c)'
    BY DEF OverlapInv
  <2>1. c \in disturbed' <=> Overlapping(c)' \/ (c \in disturbed /\ ~Quiet(c)')
    BY <1>2 DEF WatchedNext, Watch
  <2>2. CASE Quiet(c)'
    <3>1. CalmCache(c)' /\ CalmReads(c)'
      BY <2>2, QuietIsCalm, PTL
    <3> QED BY <2>1, <3>1
  <2>3. CASE c \notin disturbed /\ ~Overlapping(c)'
    BY <1>2, <2>1, <2>3, CalmStays DEF WatchedNext
  <2> QED BY <2>1, <2>2, <2>3
<1> QED BY <1>1, <1>2

-----------------------------------------------------------------------------
(* The theorems.                                                           *)

LEMMA AnswersAreSound == WatchedSpec => [](DeletersSound /\ AnswersSound)
<1>1. Init => DeletersSound /\ AnswersSound
  BY DEF Init, DeletersSound, DeleterSound, Idle, AnswersSound, KnownSound
<1>2. /\ TypeOK /\ TypeOK' /\ ReadsSound /\ ReadsSound' /\ [Next]_vars
      /\ DeletersSound /\ AnswersSound
      => DeletersSound' /\ AnswersSound'
  BY DeletersStaySound, AnswersStaySound
<1> QED BY <1>1, <1>2, WatchedIsClientCache, TypeCorrect, ReadsAreSound, PTL DEF Spec

LEMMA OverlapsAreWatched == WatchedSpec => []OverlapInv
<1>1. WatchedInit => OverlapInv
  BY DEF WatchedInit, Init, Keys, Idle, OverlapInv, Overlapping, On, InFlight, CalmCache,
         CalmReads, Holding, Fills
<1>2. [WatchedNext]_watched => [Next]_vars
  BY DEF WatchedNext, watched
<1>3. /\ TypeOK /\ TypeOK' /\ ReadsSound /\ CachedWasCommitted' /\ DeletersSound
      /\ AnswersSound /\ OverlapInv /\ [WatchedNext]_watched
      => OverlapInv'
  BY OverlapStep
<1> QED BY <1>1, <1>3, WatchedIsClientCache, AnswersAreSound, TypeCorrect, ReadsAreSound,
           CacheIsCommitted, PTL DEF WatchedSpec

\* For any number of slots, users and clients: where no requests on the client
\* overlap, a hit in the cache (client_cache_getter) has every patch of the
\* writes that were answered, whatever overlaps on other clients, fails, or
\* expires.
THEOREM QuietReadYourWrites == WatchedSpec => []ReadYourWrites
<1>1. OverlapInv => ReadYourWrites
  BY DEF OverlapInv, CalmCache, UpToDate, ReadYourWrites
<1> QED BY <1>1, OverlapsAreWatched, PTL

\* Nor is there an entry for a client whose deletion was answered with 204
\* (delete_cache): the only fill that could come later is one that overlaps.
THEOREM QuietDeletedNotFound == WatchedSpec => []DeletedNotFound
<1>1. ASSUME OverlapInv, TypeOK
      PROVE  DeletedNotFound
  BY <1>1 DEF OverlapInv, TypeOK, CalmCache, UpToDate, DeletedNotFound
<1> QED BY <1>1, OverlapsAreWatched, WatchedIsClientCache, TypeCorrect, PTL
=============================================================================
