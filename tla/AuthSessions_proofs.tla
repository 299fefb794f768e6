------------------------ MODULE AuthSessions_proofs ------------------------
(***************************************************************************)
(* Proofs about AuthSessions, for any number of slots, users and token     *)
(* pairs, any resolution of the clock and any life of the tokens.          *)
(***************************************************************************)
EXTENDS AuthSessions, TLAPS

-----------------------------------------------------------------------------
(* Lemmas about the operators of the model.                                *)

\* A slot continues with a well typed task.
LEMMA ContinueType ==
    ASSUME TypeOK, NEW r \in Requests, NEW next \in Tasks, Continue(r, next)
    PROVE  task' \in [Requests -> Tasks]
BY DEF TypeOK, Continue

\* The answers of the service are tasks.
LEMMA DoneType ==
    \A code \in {200, 401, 404, 423, 500} : Done(code) \in Tasks
BY DEF Done, Tasks, Codes

\* The fields of a task, by its program counter.
LEMMA TaskFields ==
    ASSUME NEW t \in Tasks
    PROVE  /\ t.pc = "post_token" => t.from \in MaybePairs /\ t.session \in Session
           /\ t.pc = "revoke_cookie" => t.id \in Pairs
           /\ t.pc = "blacklist" =>
                t.access \in Pairs /\ t.ttl \in Nat /\ t.refresh \in MaybePairs
           /\ t.pc = "list_tokens" => t.uid \in Users /\ t.before \in SUBSET Pairs
           /\ t.pc = "bulk_revoke" =>
                t.uid \in Users /\ t.before \in SUBSET Pairs /\ t.ids \in SUBSET Pairs
           /\ t.pc \in {"rotate", "find_device", "revoke_device"} => t.uid \in Users /\ t.id \in Pairs
BY DEF Tasks, InFlight, Idle, Done

\* The whole part of a quotient.
LEMMA Quotient ==
    ASSUME NEW n \in Int, NEW k \in Nat \ {0}
    PROVE  /\ n \div k \in Int
           /\ n \in Nat => n \div k \in Nat
           /\ (n \div k) * k <= n
           /\ n < (n \div k) * k + k
<1>1. n \div k \in Int
  OBVIOUS
<1>2. n = k * (n \div k) + (n % k) /\ 0 <= (n % k) /\ (n % k) < k
  OBVIOUS
<1> QED BY <1>1, <1>2

\* A freshly signed pair.
LEMMA MintType ==
    ASSUME TypeOK, NEW uid \in Users
    PROVE  Mint(uid) \in Session /\ Mint(uid).uid = uid
<1>1. Second \in Nat
  BY Quotient, TicksAssumption DEF TypeOK, Second
<1> QED BY <1>1, LivesAssumption DEF Mint, Session

\* Revoking changes the flag and nothing else.
LEMMA RevokeType ==
    ASSUME TypeOK, NEW ids, Revoke(ids)
    PROVE  /\ sessions' \in [Pairs -> Session \cup {NotIssued}]
           /\ \A p \in Pairs :
                /\ sessions'[p] # sessions[p] => p \in ids /\ Issued(p)
                /\ p \in ids /\ Issued(p) => sessions'[p].revoked
                /\ Issued(p) => /\ sessions'[p] \in Session
                                /\ sessions'[p].uid = sessions[p].uid
                                /\ sessions'[p].exp = sessions[p].exp
                                /\ sessions'[p].access_exp = sessions[p].access_exp
                                /\ sessions[p].revoked => sessions'[p].revoked
                /\ ~Issued(p) => sessions'[p] = sessions[p]
<1>1. \A s \in Session :
        LET new == [uid |-> s.uid, exp |-> s.exp, access_exp |-> s.access_exp,
                    revoked |-> TRUE]
        IN  /\ new \in Session
            /\ new.uid = s.uid /\ new.exp = s.exp /\ new.access_exp = s.access_exp
            /\ new.revoked = TRUE
  BY DEF Session
<1> QED BY <1>1 DEF Revoke, Issued, TypeOK

\* The end of a logout.
LEMMA RevokeCookieType ==
    ASSUME TypeOK, NEW r \in Requests, NEW refresh \in MaybePairs, RevokeCookie(r, refresh)
    PROVE  task' \in [Requests -> Tasks]
<1>1. refresh # NoToken => [pc |-> "revoke_cookie", id |-> refresh] \in Tasks
  BY DEF Tasks, InFlight, MaybePairs
<1> QED BY <1>1, DoneType, ContinueType DEF RevokeCookie

-----------------------------------------------------------------------------
(* Type correctness.                                                       *)

\* Every step of the session requests keeps every variable in its type.
THEOREM TypeCorrect == Spec => []TypeOK
<1>1. Init => TypeOK
  BY DEF Init, TypeOK, Tasks, MaybePairs
<1>2. TypeOK /\ [Next]_vars => TypeOK'
  <2> SUFFICES ASSUME TypeOK, [Next]_vars
               PROVE  TypeOK'
    OBVIOUS
  <2>1. ASSUME NEW r \in Requests, NEW uid \in Users, LoginMint(r, uid)
        PROVE  TypeOK'
    <3>1. [pc |-> "post_token", from |-> NoToken, session |-> Mint(uid)] \in Tasks
      BY MintType DEF Tasks, InFlight, MaybePairs
    <3>2. task' \in [Requests -> Tasks]
      BY <2>1, <3>1, ContinueType DEF LoginMint
    <3> QED BY <2>1, <3>2 DEF TypeOK, LoginMint, ghosts
  <2>2. ASSUME NEW r \in Requests, NEW p \in MaybePairs, RefreshLoad(r, p)
        PROVE  TypeOK'
    <3>1. p # NoToken /\ Issued(p) =>
            [pc |-> "rotate", uid |-> sessions[p].uid, id |-> p] \in Tasks
      BY DEF Tasks, InFlight, MaybePairs, Issued, Session
    <3>2. task' \in [Requests -> Tasks]
      BY <2>2, <3>1, ContinueType, DoneType DEF RefreshLoad
    <3> QED BY <2>2, <3>2 DEF TypeOK, RefreshLoad, ghosts
  <2>3. ASSUME NEW r \in Requests, NEW access \in MaybePairs, NEW refresh \in MaybePairs,
               LogoutStart(r, access, refresh)
        PROVE  TypeOK'
    <3>1. CASE access # NoToken /\ AccessDecodes(access) /\ Ttl(access) > 0
      <4>1. access \in Pairs /\ Issued(access)
        BY <3>1 DEF MaybePairs, AccessDecodes
      <4>2. Ttl(access) \in Nat
        BY <3>1, <4>1, Quotient, TicksAssumption DEF Ttl, Issued, Session, TypeOK
      <4>3. [pc |-> "blacklist", access |-> access, ttl |-> Ttl(access),
             refresh |-> refresh] \in Tasks
        BY <4>1, <4>2 DEF Tasks, InFlight
      <4>4. task' \in [Requests -> Tasks]
        BY <2>3, <3>1, <4>3, ContinueType DEF LogoutStart
      <4> QED BY <2>3, <3>1, <4>4 DEF TypeOK, LogoutStart
    <3>2. CASE ~(access # NoToken /\ AccessDecodes(access) /\ Ttl(access) > 0)
      <4>1. task' \in [Requests -> Tasks]
        BY <2>3, <3>2, RevokeCookieType DEF LogoutStart
      <4> QED BY <2>3, <3>2, <4>1 DEF TypeOK, LogoutStart, MaybePairs
    <3> QED BY <3>1, <3>2
  <2>4. ASSUME NEW r \in Requests, NEW access \in Pairs, AllAuthenticate(r, access)
        PROVE  TypeOK'
    <3> DEFINE uid == sessions[access].uid
    <3>1. uid \in Users
      BY <2>4 DEF AllAuthenticate, Issued, Session
    <3>2. [pc |-> "list_tokens", uid |-> uid,
           before |-> {p \in Pairs : Owned(uid, p)}] \in Tasks
      BY <3>1 DEF Tasks, InFlight
    <3>3. task' \in [Requests -> Tasks]
      BY <2>4, <3>2, ContinueType, DoneType DEF AllAuthenticate, Refusal
    <3> QED BY <2>4, <3>3 DEF TypeOK, AllAuthenticate, ghosts
  <2>5. ASSUME NEW r \in Requests, NEW access \in Pairs, NEW id \in Pairs,
               DeviceAuthenticate(r, access, id)
        PROVE  TypeOK'
    <3>1. sessions[access].uid \in Users
      BY <2>5 DEF DeviceAuthenticate, Issued, Session
    <3>2. [pc |-> "find_device", uid |-> sessions[access].uid, id |-> id] \in Tasks
      BY <3>1 DEF Tasks, InFlight
    <3>3. task' \in [Requests -> Tasks]
      BY <2>5, <3>2, ContinueType, DoneType DEF DeviceAuthenticate, Refusal
    <3> QED BY <2>5, <3>3 DEF TypeOK, DeviceAuthenticate, ghosts
  <2>6. ASSUME NEW r \in Requests, PostToken(r)
        PROVE  TypeOK'
    <3>1. task[r].from \in MaybePairs /\ task[r].session \in Session
      BY <2>6, TaskFields DEF TypeOK, PostToken
    <3>2. task' \in [Requests -> Tasks]
      BY <2>6, ContinueType, DoneType DEF PostToken
    <3> QED BY <2>6, <3>1, <3>2 DEF TypeOK, PostToken
  <2>7. ASSUME NEW r \in Requests, RotateRevoke(r)
        PROVE  TypeOK'
    <3> DEFINE t == task[r]
    <3>1. t.uid \in Users /\ t.id \in Pairs
      BY <2>7, TaskFields DEF TypeOK, RotateRevoke
    <3>2. [pc |-> "post_token", from |-> t.id, session |-> Mint(t.uid)] \in Tasks
      BY <3>1, MintType DEF Tasks, InFlight, MaybePairs
    <3>3. task' \in [Requests -> Tasks]
      BY <2>7, <3>2, ContinueType DEF RotateRevoke
    <3> QED BY <2>7, <3>3, RevokeType DEF TypeOK, RotateRevoke, ghosts
  <2>8. ASSUME NEW r \in Requests, Blacklist(r)
        PROVE  TypeOK'
    <3> DEFINE t == task[r]
    <3>1. t.access \in Pairs /\ t.ttl \in Nat /\ t.refresh \in MaybePairs
      BY <2>8, TaskFields DEF TypeOK, Blacklist
    <3>2. task' \in [Requests -> Tasks]
      BY <2>8, <3>1, RevokeCookieType DEF Blacklist
    <3>3. now + t.ttl * TicksPerSecond \in Nat
      BY <3>1, TicksAssumption DEF TypeOK
    <3> QED BY <2>8, <3>1, <3>2, <3>3 DEF TypeOK, Blacklist
  <2>9. ASSUME NEW r \in Requests, CookieRevoke(r) \/ AllRevoke(r) \/ DeviceRevoke(r)
        PROVE  TypeOK'
    <3>1. task' \in [Requests -> Tasks]
      BY <2>9, ContinueType, DoneType DEF CookieRevoke, AllRevoke, DeviceRevoke
    <3>2. sessions' \in [Pairs -> Session \cup {NotIssued}]
      BY <2>9, RevokeType DEF CookieRevoke, AllRevoke, DeviceRevoke
    <3> QED BY <2>9, <3>1, <3>2 DEF TypeOK, CookieRevoke, AllRevoke, DeviceRevoke, ghosts
  <2>10. ASSUME NEW r \in Requests, AllList(r)
         PROVE  TypeOK'
    <3> DEFINE t == task[r]
    <3>1. t.uid \in Users /\ t.before \in SUBSET Pairs
      BY <2>10, TaskFields DEF TypeOK, AllList
    <3>2. ActualTokens(t.uid) \in SUBSET Pairs
      BY DEF ActualTokens
    <3>3. [pc |-> "bulk_revoke", uid |-> t.uid, before |-> t.before,
           ids |-> ActualTokens(t.uid)] \in Tasks
      BY <3>1, <3>2 DEF Tasks, InFlight
    <3>4. task' \in [Requests -> Tasks]
      BY <2>10, <3>3, ContinueType, DoneType DEF AllList
    <3> QED BY <2>10, <3>4 DEF TypeOK, AllList, ghosts
  <2>11. ASSUME NEW r \in Requests, DeviceFind(r)
         PROVE  TypeOK'
    <3> DEFINE t == task[r]
    <3>1. t.uid \in Users /\ t.id \in Pairs
      BY <2>11, TaskFields DEF TypeOK, DeviceFind
    <3>2. [pc |-> "revoke_device", uid |-> t.uid, id |-> t.id] \in Tasks
      BY <3>1 DEF Tasks, InFlight
    <3>3. task' \in [Requests -> Tasks]
      BY <2>11, <3>2, ContinueType, DoneType DEF DeviceFind
    <3> QED BY <2>11, <3>3 DEF TypeOK, DeviceFind, ghosts
  <2>12. ASSUME NEW r \in Requests, Fail(r)
         PROVE  TypeOK'
    <3>1. task' \in [Requests -> Tasks]
      BY <2>12, ContinueType, DoneType DEF Fail
    <3> QED BY <2>12, <3>1 DEF TypeOK, Fail, ghosts
  <2>13. ASSUME NEW p \in Pairs, Lose(p)
         PROVE  TypeOK'
    BY <2>13 DEF TypeOK, Lose
  <2>14. CASE Tick
    BY <2>14 DEF TypeOK, Tick, ghosts
  <2>15. CASE UNCHANGED vars
    BY <2>15 DEF TypeOK, vars
  <2> QED
    BY <2>1, <2>2, <2>3, <2>4, <2>5, <2>6, <2>7, <2>8, <2>9, <2>10, <2>11, <2>12, <2>13,
       <2>14, <2>15 DEF Next, Start, Proceed
<1> QED BY <1>1, <1>2, PTL DEF Spec

-----------------------------------------------------------------------------
(* How the sessions change.                                                *)

\* A pair is issued once; its user and its lives stay, and it is not revived.
SessionGrows(p) ==
    Issued(p) => /\ sessions'[p] \in Session
                 /\ sessions'[p].uid = sessions[p].uid
                 /\ sessions'[p].exp = sessions[p].exp
                 /\ sessions'[p].access_exp = sessions[p].access_exp
                 /\ sessions[p].revoked => sessions'[p].revoked

\* Every step lets every pair grow only, and the clock never goes back.
LEMMA SessionsGrow ==
    ASSUME TypeOK, [Next]_vars
    PROVE  (\A p \in Pairs : SessionGrows(p)) /\ now' \in Nat /\ now <= now'
<1>1. sessions' = sessions => \A p \in Pairs : SessionGrows(p)
  BY DEF SessionGrows, Issued
<1>2. ASSUME NEW r \in Requests, Start(r)
      PROVE  sessions' = sessions /\ now' = now
  BY <1>2 DEF Start, LoginMint, RefreshLoad, LogoutStart, AllAuthenticate, DeviceAuthenticate
<1>3. ASSUME NEW r \in Requests, PostToken(r)
      PROVE  (\A p \in Pairs : SessionGrows(p)) /\ now' = now
  BY <1>3, NotIssuedAssumption DEF PostToken, SessionGrows, Issued, TypeOK
<1>4. ASSUME NEW r \in Requests,
             RotateRevoke(r) \/ CookieRevoke(r) \/ AllRevoke(r) \/ DeviceRevoke(r)
      PROVE  (\A p \in Pairs : SessionGrows(p)) /\ now' = now
  <2>1. PICK ids : Revoke(ids)
    BY <1>4 DEF RotateRevoke, CookieRevoke, AllRevoke, DeviceRevoke
  <2>2. \A p \in Pairs : SessionGrows(p)
    BY <2>1, RevokeType DEF SessionGrows
  <2> QED BY <1>4, <2>2 DEF RotateRevoke, CookieRevoke, AllRevoke, DeviceRevoke
<1>5. ASSUME NEW r \in Requests, Blacklist(r) \/ AllList(r) \/ DeviceFind(r) \/ Fail(r)
      PROVE  sessions' = sessions /\ now' = now
  BY <1>5 DEF Blacklist, AllList, DeviceFind, Fail
<1>6. ASSUME NEW p \in Pairs, Lose(p)
      PROVE  sessions' = sessions /\ now' = now
  BY <1>6 DEF Lose
<1>7. Tick => sessions' = sessions /\ now' = now + 1
  BY DEF Tick
<1>8. UNCHANGED vars => sessions' = sessions /\ now' = now
  BY DEF vars
<1> QED BY <1>1, <1>2, <1>3, <1>4, <1>5, <1>6, <1>7, <1>8 DEF Next, Proceed, TypeOK

\* Only the request that takes a step changes its task.
LEMMA MoverActs ==
    ASSUME TypeOK, [Next]_vars, NEW q \in Requests, task'[q] # task[q]
    PROVE  Start(q) \/ Proceed(q) \/ Fail(q)
<1>1. ASSUME NEW r \in Requests, NEW next, Continue(r, next)
      PROVE  r = q
  BY <1>1 DEF Continue, TypeOK
<1>2. ASSUME NEW r \in Requests, Start(r)
      PROVE  r = q
  BY <1>1, <1>2 DEF Start, LoginMint, RefreshLoad, LogoutStart, AllAuthenticate,
                    DeviceAuthenticate, RevokeCookie
<1>3. ASSUME NEW r \in Requests, Proceed(r)
      PROVE  r = q
  <2>1. CASE PostToken(r) \/ RotateRevoke(r) \/ Blacklist(r) \/ CookieRevoke(r)
    BY <1>1, <2>1 DEF PostToken, RotateRevoke, Blacklist, CookieRevoke, RevokeCookie
  <2>2. CASE AllList(r) \/ AllRevoke(r) \/ DeviceFind(r) \/ DeviceRevoke(r)
    BY <1>1, <2>2 DEF AllList, AllRevoke, DeviceFind, DeviceRevoke
  <2> QED BY <1>3, <2>1, <2>2 DEF Proceed
<1>4. ASSUME NEW r \in Requests, Fail(r)
      PROVE  r = q
  BY <1>1, <1>4 DEF Fail
<1>5. ~UNCHANGED vars /\ ~Tick /\ \A p \in Pairs : ~Lose(p)
  BY DEF vars, Tick, Lose
<1> QED BY <1>2, <1>3, <1>4, <1>5 DEF Next

-----------------------------------------------------------------------------
(* What the requests have read.                                            *)

\* A request that does not move keeps what is known of its reads.
LEMMA WorkFrame ==
    ASSUME TypeOK, [Next]_vars, NEW q \in Requests, WorkSound(task[q]), task'[q] = task[q]
    PROVE  WorkSound(task[q])'
<1> DEFINE t == task[q]
<1>1. t \in Tasks
  BY DEF TypeOK
<1>2. \A uid \in Users, p \in Pairs :
        Owned(uid, p) => sessions'[p] \in Session /\ sessions'[p].uid = uid
  BY SessionsGrow DEF SessionGrows, Owned
<1>3. ASSUME t.pc = "post_token", t.from # NoToken
      PROVE  /\ sessions'[t.from] \in Session
             /\ sessions'[t.from].revoked
             /\ sessions'[t.from].uid = t.session.uid
  <2>1. t.from \in Pairs
    BY <1>1, <1>3, TaskFields DEF MaybePairs
  <2> QED BY <1>3, <2>1, SessionsGrow DEF WorkSound, SessionGrows
<1>4. ASSUME t.pc \in {"rotate", "revoke_device"}
      PROVE  sessions'[t.id] \in Session /\ sessions'[t.id].uid = t.uid
  BY <1>1, <1>2, <1>4, TaskFields DEF WorkSound
<1>5. ASSUME t.pc \in {"list_tokens", "bulk_revoke"}
      PROVE  \A p \in t.before : sessions'[p] \in Session /\ sessions'[p].uid = t.uid
  BY <1>1, <1>2, <1>5, TaskFields DEF WorkSound
<1>6. ASSUME t.pc = "bulk_revoke"
      PROVE  /\ \A p \in t.ids : sessions'[p] \in Session /\ sessions'[p].uid = t.uid
             /\ \A p \in t.before \ t.ids :
                    sessions'[p].revoked \/ sessions'[p].exp * TicksPerSecond <= now'
  <2>1. t.ids \in SUBSET Pairs /\ t.before \in SUBSET Pairs /\ t.uid \in Users
    BY <1>1, <1>6, TaskFields
  <2>2. ASSUME NEW p \in t.before \ t.ids
        PROVE  sessions'[p].revoked \/ sessions'[p].exp * TicksPerSecond <= now'
    <3>1. /\ Issued(p) /\ p \in Pairs
          /\ sessions[p].revoked \/ sessions[p].exp * TicksPerSecond <= now
      BY <1>6, <2>1, <2>2 DEF WorkSound, Owned
    <3>2. SessionGrows(p) /\ now' \in Nat /\ now <= now'
      BY <3>1, SessionsGrow
    <3> DEFINE end == sessions[p].exp * TicksPerSecond
    <3>3. end \in Nat /\ now \in Nat
      BY <3>1, TicksAssumption DEF TypeOK, Issued, Session
    <3> QED BY <3>1, <3>2, <3>3 DEF SessionGrows
  <2> QED BY <1>2, <1>6, <2>1, <2>2 DEF WorkSound
<1>7. ASSUME t.pc = "blacklist"
      PROVE  /\ sessions'[t.access] \in Session
             /\ LastSecond(t.access)' < now' + t.ttl * TicksPerSecond
  <2>1. t.access \in Pairs /\ t.ttl \in Nat
    BY <1>1, <1>7, TaskFields
  <2>2. Issued(t.access) /\ LastSecond(t.access) < now + t.ttl * TicksPerSecond
    BY <1>7 DEF WorkSound
  <2>3. SessionGrows(t.access) /\ now' \in Nat /\ now <= now'
    BY <2>1, SessionsGrow
  <2>4. LastSecond(t.access)' = LastSecond(t.access)
    BY <2>2, <2>3 DEF SessionGrows, LastSecond
  <2>5. /\ LastSecond(t.access) \in Int
        /\ t.ttl * TicksPerSecond \in Int
        /\ now \in Int
    BY <2>1, <2>2, TicksAssumption DEF LastSecond, Issued, Session, TypeOK
  <2>6. LastSecond(t.access) < now' + t.ttl * TicksPerSecond
    BY <2>2, <2>3, <2>5
  <2> QED BY <2>2, <2>3, <2>4, <2>6 DEF SessionGrows
<1> QED BY <1>3, <1>4, <1>5, <1>6, <1>7 DEF WorkSound, Owned, Issued

\* A slot that continues has the new task.
LEMMA ContinueTask ==
    ASSUME TypeOK, NEW r \in Requests, NEW next, Continue(r, next)
    PROVE  task'[r] = next
BY DEF TypeOK, Continue

\* A request that starts has read nothing it may not rely on.
LEMMA StartSound ==
    ASSUME TypeOK, [Next]_vars, PendingWorkSound, NEW q \in Requests, Start(q)
    PROVE  WorkSound(task[q])'
<1>1. ASSUME NEW code, task'[q] = Done(code)
      PROVE  WorkSound(task[q])'
  BY <1>1 DEF WorkSound, Done
<1>2. ASSUME NEW uid \in Users, LoginMint(q, uid)
      PROVE  WorkSound(task[q])'
  <2>1. task'[q] = [pc |-> "post_token", from |-> NoToken, session |-> Mint(uid)]
    BY <1>2, ContinueTask DEF LoginMint
  <2> QED BY <2>1 DEF WorkSound
<1>3. ASSUME NEW p \in MaybePairs, RefreshLoad(q, p)
      PROVE  WorkSound(task[q])'
  <2>1. CASE task'[q] = [pc |-> "rotate", uid |-> sessions[p].uid, id |-> p] /\ Issued(p)
    BY <1>3, <2>1 DEF WorkSound, RefreshLoad, Owned, Issued
  <2>2. \/ task'[q] = [pc |-> "rotate", uid |-> sessions[p].uid, id |-> p] /\ Issued(p)
        \/ \E code : task'[q] = Done(code)
    BY <1>3, ContinueTask DEF RefreshLoad
  <2> QED BY <1>1, <2>1, <2>2
<1>4. ASSUME NEW access \in MaybePairs, NEW refresh \in MaybePairs,
             LogoutStart(q, access, refresh)
      PROVE  WorkSound(task[q])'
  <2>1. CASE access # NoToken /\ AccessDecodes(access) /\ Ttl(access) > 0
    <3>1. task'[q] = [pc |-> "blacklist", access |-> access, ttl |-> Ttl(access),
                      refresh |-> refresh]
      BY <1>4, <2>1, ContinueTask DEF LogoutStart
    <3>2. sessions' = sessions /\ now' = now /\ Issued(access) /\ access \in Pairs
      BY <1>4, <2>1 DEF LogoutStart, AccessDecodes, MaybePairs
    <3>3. LastSecond(access) < now + Ttl(access) * TicksPerSecond
      <4> DEFINE end == sessions[access].access_exp * TicksPerSecond
                 left == end - now
      <4>1. sessions[access].access_exp \in Nat /\ now \in Nat
        BY <3>2 DEF Issued, Session, TypeOK
      <4>2. end \in Int /\ left \in Int
        BY <4>1, TicksAssumption
      <4>3. left < Ttl(access) * TicksPerSecond + TicksPerSecond
        BY <4>2, Quotient, TicksAssumption DEF Ttl
      <4>4. LastSecond(access) = end - TicksPerSecond
        BY <4>1, TicksAssumption DEF LastSecond
      <4>5. Ttl(access) * TicksPerSecond \in Int
        BY <4>2, Quotient, TicksAssumption DEF Ttl
      <4> HIDE DEF end
      <4> QED BY <4>1, <4>2, <4>3, <4>4, <4>5, TicksAssumption
    <3> QED BY <3>1, <3>2, <3>3 DEF WorkSound, LastSecond, Issued
  <2>2. CASE ~(access # NoToken /\ AccessDecodes(access) /\ Ttl(access) > 0)
    <3>1. RevokeCookie(q, refresh)
      BY <1>4, <2>2 DEF LogoutStart
    <3>2. \/ task'[q] = [pc |-> "revoke_cookie", id |-> refresh]
          \/ task'[q] = Done(200)
      BY <3>1, ContinueTask DEF RevokeCookie
    <3> QED BY <1>1, <3>2 DEF WorkSound
  <2> QED BY <2>1, <2>2
<1>5. ASSUME NEW access \in Pairs, AllAuthenticate(q, access)
      PROVE  WorkSound(task[q])'
  <2> DEFINE uid == sessions[access].uid
  <2>1. \/ task'[q] = [pc |-> "list_tokens", uid |-> uid,
                       before |-> {p \in Pairs : Owned(uid, p)}]
        \/ task'[q] = Done(Refusal(access))
    BY <1>5, ContinueTask DEF AllAuthenticate
  <2>2. sessions' = sessions
    BY <1>5 DEF AllAuthenticate
  <2>3. CASE task'[q] = [pc |-> "list_tokens", uid |-> uid,
                         before |-> {p \in Pairs : Owned(uid, p)}]
    BY <2>2, <2>3 DEF WorkSound, Owned, Issued
  <2> QED BY <1>1, <2>1, <2>3
<1>6. ASSUME NEW access \in Pairs, NEW id \in Pairs, DeviceAuthenticate(q, access, id)
      PROVE  WorkSound(task[q])'
  <2>1. \/ task'[q] = [pc |-> "find_device", uid |-> sessions[access].uid, id |-> id]
        \/ task'[q] = Done(Refusal(access))
    BY <1>6, ContinueTask DEF DeviceAuthenticate
  <2> QED BY <1>1, <2>1 DEF WorkSound
<1> QED BY <1>2, <1>3, <1>4, <1>5, <1>6 DEF Start

\* Nor does a request that proceeds come to rely on a read it may not.
LEMMA ProceedSound ==
    ASSUME TypeOK, [Next]_vars, PendingWorkSound, NEW q \in Requests, Proceed(q) \/ Fail(q)
    PROVE  WorkSound(task[q])'
<1> DEFINE t == task[q]
<1>1. t \in Tasks /\ WorkSound(t)
  BY DEF TypeOK, PendingWorkSound
<1>2. ASSUME NEW code, task'[q] = Done(code)
      PROVE  WorkSound(task[q])'
  BY <1>2 DEF WorkSound, Done
<1>3. ASSUME PostToken(q) \/ CookieRevoke(q) \/ AllRevoke(q) \/ DeviceRevoke(q) \/ Fail(q)
      PROVE  WorkSound(task[q])'
  <2>1. task'[q] = Done(200) \/ task'[q] = Done(500)
    BY <1>3, ContinueTask DEF PostToken, CookieRevoke, AllRevoke, DeviceRevoke, Fail
  <2> QED BY <1>2, <2>1
<1>4. ASSUME RotateRevoke(q)
      PROVE  WorkSound(task[q])'
  <2>1. task'[q] = [pc |-> "post_token", from |-> t.id, session |-> Mint(t.uid)]
    BY <1>4, ContinueTask DEF RotateRevoke
  <2>2. t.uid \in Users /\ t.id \in Pairs /\ Owned(t.uid, t.id)
    BY <1>1, <1>4, TaskFields DEF RotateRevoke, WorkSound
  <2>3. Mint(t.uid).uid = t.uid
    BY <2>2, MintType
  <2>4. /\ sessions'[t.id] \in Session
        /\ sessions'[t.id].revoked
        /\ sessions'[t.id].uid = t.uid
    BY <1>4, <2>2, RevokeType DEF RotateRevoke, Owned
  <2> QED BY <2>1, <2>3, <2>4 DEF WorkSound, Issued
<1>5. ASSUME Blacklist(q)
      PROVE  WorkSound(task[q])'
  <2>1. \/ task'[q] = [pc |-> "revoke_cookie", id |-> t.refresh]
        \/ task'[q] = Done(200)
    BY <1>5, ContinueTask DEF Blacklist, RevokeCookie
  <2> QED BY <1>2, <2>1 DEF WorkSound
<1>6. ASSUME AllList(q)
      PROVE  WorkSound(task[q])'
  <2>1. \/ task'[q] = [pc |-> "bulk_revoke", uid |-> t.uid, before |-> t.before,
                       ids |-> ActualTokens(t.uid)]
        \/ task'[q] = Done(423)
    BY <1>6, ContinueTask DEF AllList
  <2>2. /\ sessions' = sessions /\ now' = now
        /\ t.before \in SUBSET Pairs
        /\ \A p \in t.before : Owned(t.uid, p)
    BY <1>1, <1>6, TaskFields DEF AllList, WorkSound
  <2>3. \A p \in ActualTokens(t.uid) : Owned(t.uid, p)
    BY DEF ActualTokens
  <2>4. ASSUME NEW p \in t.before \ ActualTokens(t.uid)
        PROVE  sessions[p].revoked \/ sessions[p].exp * TicksPerSecond <= now
    <3>1. p \in Pairs /\ Owned(t.uid, p)
      BY <2>2
    <3>2. sessions[p].revoked \/ ~(sessions[p].exp * TicksPerSecond > now)
      BY <2>4, <3>1 DEF ActualTokens
    <3> DEFINE end == sessions[p].exp * TicksPerSecond
    <3>3. end \in Nat /\ now \in Nat
      BY <3>1, TicksAssumption DEF TypeOK, Owned, Issued, Session
    <3> QED BY <3>2, <3>3
  <2>5. CASE task'[q] = [pc |-> "bulk_revoke", uid |-> t.uid, before |-> t.before,
                         ids |-> ActualTokens(t.uid)]
    BY <2>2, <2>3, <2>4, <2>5 DEF WorkSound, Owned, Issued
  <2> QED BY <1>2, <2>1, <2>5
<1>7. ASSUME DeviceFind(q)
      PROVE  WorkSound(task[q])'
  <2>1. \/ task'[q] = [pc |-> "revoke_device", uid |-> t.uid, id |-> t.id]
           /\ Owned(t.uid, t.id)
        \/ \E code : task'[q] = Done(code)
    BY <1>7, ContinueTask DEF DeviceFind, OwnDevice
  <2>2. sessions' = sessions
    BY <1>7 DEF DeviceFind
  <2> QED BY <1>2, <2>1, <2>2 DEF WorkSound, Owned, Issued
<1> QED BY <1>3, <1>4, <1>5, <1>6, <1>7 DEF Proceed

\* Under every interleaving, what a request of AuthSessions has read before
\* its next write stays true in the points that write relies on.
THEOREM WorkIsSound == Spec => []PendingWorkSound
<1>1. Init => PendingWorkSound
  BY DEF Init, PendingWorkSound, WorkSound, Idle
<1>2. TypeOK /\ PendingWorkSound /\ [Next]_vars => PendingWorkSound'
  <2> SUFFICES ASSUME TypeOK, PendingWorkSound, [Next]_vars, NEW q \in Requests
               PROVE  WorkSound(task[q])'
    BY DEF PendingWorkSound
  <2>1. CASE task'[q] = task[q]
    BY <2>1, WorkFrame DEF PendingWorkSound
  <2>2. CASE task'[q] # task[q]
    BY <2>2, MoverActs, StartSound, ProceedSound
  <2> QED BY <2>1, <2>2
<1> QED BY <1>1, <1>2, TypeCorrect, PTL DEF Spec

-----------------------------------------------------------------------------
(* Rotation.                                                               *)

\* A refresh token that has a successor is revoked, under every interleaving
\* of refreshes and logouts and whatever fails.
THEOREM RotationRevokes == Spec => []RotatedIsRevoked
<1>1. Init => RotatedIsRevoked
  BY DEF Init, RotatedIsRevoked
<1>2. TypeOK /\ PendingWorkSound /\ RotatedIsRevoked /\ [Next]_vars => RotatedIsRevoked'
  <2> SUFFICES ASSUME TypeOK, PendingWorkSound, RotatedIsRevoked, [Next]_vars,
                      NEW p \in Pairs, parent'[p] # NoToken
               PROVE  sessions'[parent'[p]] \in Session /\ sessions'[parent'[p]].revoked
    BY DEF RotatedIsRevoked, Issued
  <2>1. \A q \in Pairs : Issued(q) /\ sessions[q].revoked =>
            sessions'[q] \in Session /\ sessions'[q].revoked
    BY SessionsGrow DEF SessionGrows
  <2>2. CASE parent'[p] = parent[p]
    BY <2>1, <2>2 DEF RotatedIsRevoked, TypeOK, MaybePairs
  <2>3. ASSUME NEW r \in Requests, PostToken(r), parent'[p] # parent[p]
        PROVE  sessions'[parent'[p]] \in Session /\ sessions'[parent'[p]].revoked
    <3>1. parent'[p] = task[r].from /\ task[r].pc = "post_token"
      BY <2>3 DEF PostToken, TypeOK
    <3>2. parent'[p] \in Pairs
      BY <3>1, TaskFields DEF TypeOK, MaybePairs
    <3>3. Issued(parent'[p]) /\ sessions[parent'[p]].revoked
      BY <3>1 DEF PendingWorkSound, WorkSound
    <3> QED BY <2>1, <3>2, <3>3
  <2>4. CASE \A r \in Requests : ~PostToken(r)
    <3>1. ASSUME NEW r \in Requests, Start(r)
          PROVE  parent' = parent
      BY <3>1 DEF Start, LoginMint, RefreshLoad, LogoutStart, AllAuthenticate,
                  DeviceAuthenticate, ghosts
    <3>2. ASSUME NEW r \in Requests, Proceed(r) \/ Fail(r)
          PROVE  parent' = parent
      BY <2>4, <3>2 DEF Proceed, RotateRevoke, Blacklist, CookieRevoke, AllList, AllRevoke,
                        DeviceFind, DeviceRevoke, Fail, ghosts
    <3>3. (Tick \/ UNCHANGED vars \/ \E q \in Pairs : Lose(q)) => parent' = parent
      BY DEF Tick, vars, Lose, ghosts
    <3>4. parent' = parent
      BY <3>1, <3>2, <3>3 DEF Next
    <3> QED BY <2>2, <3>4
  <2> QED BY <2>2, <2>3, <2>4
<1> QED BY <1>1, <1>2, TypeCorrect, WorkIsSound, PTL DEF Spec

-----------------------------------------------------------------------------
(* Logout.                                                                 *)

\* Why a logout holds: the entry of the blacklist outlives the last second of
\* the token, or that second has come.
Covered(p) ==
    /\ Issued(p)
    /\ \/ p \in lost
       \/ LastSecond(p) < blacklist[p]
       \/ LastSecond(p) < now

LogoutsCovered == \A p \in loggedOut : Covered(p)

\* The last second of a token is a point of time that does not move.
LEMMA LastSecondStays ==
    ASSUME TypeOK, [Next]_vars, NEW p \in Pairs, Issued(p)
    PROVE  LastSecond(p) \in Int /\ LastSecond(p)' = LastSecond(p)
BY SessionsGrow, TicksAssumption DEF SessionGrows, LastSecond, Issued, Session

\* A token that is covered stays covered: its entry is only ever replaced by
\* one that reaches as far, or lost.
LEMMA CoveredStays ==
    ASSUME TypeOK, PendingWorkSound, [Next]_vars, NEW p \in Pairs, Covered(p)
    PROVE  Covered(p)'
<1>1. /\ LastSecond(p) \in Int /\ LastSecond(p)' = LastSecond(p)
      /\ now \in Nat /\ now' \in Nat /\ now <= now'
      /\ Issued(p)'
  BY LastSecondStays, SessionsGrow DEF SessionGrows, Covered, Issued, TypeOK
<1>2. ASSUME lost \subseteq lost', blacklist'[p] = blacklist[p]
      PROVE  Covered(p)'
  BY <1>1, <1>2 DEF Covered
<1>3. ASSUME NEW r \in Requests, Start(r)
      PROVE  lost' = lost /\ blacklist' = blacklist
  BY <1>3 DEF Start, LoginMint, RefreshLoad, LogoutStart, AllAuthenticate, DeviceAuthenticate,
              ghosts
<1>4. ASSUME NEW r \in Requests, Blacklist(r)
      PROVE  Covered(p)'
  <2>1. CASE task[r].access = p
    <3>1. LastSecond(p) < now + task[r].ttl * TicksPerSecond
      BY <1>4, <2>1 DEF Blacklist, PendingWorkSound, WorkSound
    <3>2. blacklist'[p] = now + task[r].ttl * TicksPerSecond
      BY <1>4, <2>1 DEF Blacklist, TypeOK
    <3> QED BY <1>1, <3>1, <3>2 DEF Covered
  <2>2. CASE task[r].access # p
    BY <1>2, <1>4, <2>2 DEF Blacklist, TypeOK
  <2> QED BY <2>1, <2>2
<1>5. ASSUME NEW r \in Requests, Proceed(r) \/ Fail(r), ~Blacklist(r)
      PROVE  lost' = lost /\ blacklist' = blacklist
  BY <1>5 DEF Proceed, PostToken, RotateRevoke, CookieRevoke, AllList, AllRevoke, DeviceFind,
              DeviceRevoke, Fail, ghosts
<1>6. ASSUME NEW q \in Pairs, Lose(q)
      PROVE  Covered(p)'
  <2>1. CASE q = p
    BY <1>1, <1>6, <2>1 DEF Lose, Covered
  <2>2. CASE q # p
    BY <1>2, <1>6, <2>2 DEF Lose, TypeOK
  <2> QED BY <2>1, <2>2
<1>7. (Tick \/ UNCHANGED vars) => lost' = lost /\ blacklist' = blacklist
  BY DEF Tick, vars, ghosts
<1> QED BY <1>2, <1>3, <1>4, <1>5, <1>6, <1>7 DEF Next

\* A token that a logout is done with is covered.
LEMMA LogoutCovers ==
    ASSUME TypeOK, PendingWorkSound, [Next]_vars, NEW p \in loggedOut' \ loggedOut
    PROVE  Covered(p)'
<1>1. ASSUME NEW r \in Requests, NEW access \in MaybePairs, NEW refresh \in MaybePairs,
             LogoutStart(r, access, refresh)
      PROVE  Covered(p)'
  <2>1. p = access /\ access # NoToken /\ AccessDecodes(access) /\ ~(Ttl(access) > 0)
    BY <1>1 DEF LogoutStart
  <2>2. p \in Pairs /\ Issued(p) /\ ~(Ttl(p) > 0)
    BY <2>1 DEF AccessDecodes, MaybePairs
  <2>3. /\ LastSecond(p) \in Int /\ LastSecond(p)' = LastSecond(p)
        /\ now' = now /\ now \in Nat /\ Issued(p)'
    BY <1>1, <2>2, LastSecondStays DEF LogoutStart, TypeOK, Issued
  <2>4. LastSecond(p) < now
    <3> DEFINE end == sessions[p].access_exp * TicksPerSecond
               left == end - now
    <3>1. sessions[p].access_exp \in Nat
      BY <2>2 DEF Issued, Session
    <3>2. end \in Int /\ left \in Int
      BY <2>3, <3>1, TicksAssumption
    <3>3. left < Ttl(p) * TicksPerSecond + TicksPerSecond /\ Ttl(p) \in Int
      BY <3>2, Quotient, TicksAssumption DEF Ttl
    <3>4. LastSecond(p) = end - TicksPerSecond
      BY <3>1, TicksAssumption DEF LastSecond
    <3>5. Ttl(p) * TicksPerSecond <= 0
      BY <2>2, <3>3, TicksAssumption
    <3>6. Ttl(p) * TicksPerSecond \in Int
      BY <3>3, TicksAssumption
    <3> HIDE DEF end
    <3> QED BY <2>3, <3>2, <3>3, <3>4, <3>5, <3>6, TicksAssumption
  <2> QED BY <2>3, <2>4 DEF Covered
<1>2. ASSUME NEW r \in Requests, Blacklist(r)
      PROVE  Covered(p)'
  <2>1. p = task[r].access /\ task[r].pc = "blacklist"
    BY <1>2 DEF Blacklist
  <2>2. p \in Pairs /\ Issued(p) /\ LastSecond(p) < now + task[r].ttl * TicksPerSecond
    BY <2>1, TaskFields DEF TypeOK, PendingWorkSound, WorkSound
  <2>3. blacklist'[p] = now + task[r].ttl * TicksPerSecond /\ sessions' = sessions
    BY <1>2, <2>1, <2>2 DEF Blacklist, TypeOK
  <2> QED BY <2>2, <2>3 DEF Covered, LastSecond, Issued
<1>3. ASSUME NEW r \in Requests, Start(r),
             ~\E access, refresh \in MaybePairs : LogoutStart(r, access, refresh)
      PROVE  loggedOut' = loggedOut
  BY <1>3 DEF Start, LoginMint, RefreshLoad, AllAuthenticate, DeviceAuthenticate, ghosts
<1>4. ASSUME NEW r \in Requests, Proceed(r) \/ Fail(r), ~Blacklist(r)
      PROVE  loggedOut' = loggedOut
  BY <1>4 DEF Proceed, PostToken, RotateRevoke, CookieRevoke, AllList, AllRevoke, DeviceFind,
              DeviceRevoke, Fail, ghosts
<1>5. (Tick \/ UNCHANGED vars \/ \E q \in Pairs : Lose(q)) => loggedOut' = loggedOut
  BY DEF Tick, vars, Lose, ghosts
<1> QED BY <1>1, <1>2, <1>3, <1>4, <1>5 DEF Next

\* After a logout the access token is refused until its last second, whatever
\* the rounding of the three clocks and the delay of the blacklist entry.
THEOREM LogoutIsFinal == Spec => []LogoutHolds
<1>1. Init => LogoutsCovered
  BY DEF Init, LogoutsCovered
<1>2. TypeOK /\ PendingWorkSound /\ LogoutsCovered /\ [Next]_vars => LogoutsCovered'
  <2> SUFFICES ASSUME TypeOK, PendingWorkSound, LogoutsCovered, [Next]_vars,
                      NEW p \in loggedOut'
               PROVE  Covered(p)'
    BY DEF LogoutsCovered
  <2>1. CASE p \in loggedOut
    BY <2>1, CoveredStays DEF LogoutsCovered, TypeOK
  <2>2. CASE p \notin loggedOut
    BY <2>2, LogoutCovers
  <2> QED BY <2>1, <2>2
<1>3. TypeOK /\ LogoutsCovered => LogoutHolds
  <2> SUFFICES ASSUME TypeOK, LogoutsCovered, NEW p \in loggedOut \ lost, Accepts(p)
               PROVE  LastSecond(p) < now
    BY DEF LogoutHolds
  <2>1. Covered(p) /\ p \in Pairs /\ ~(now < blacklist[p])
    BY DEF LogoutsCovered, Accepts, InBlacklist, TypeOK
  <2>2. LastSecond(p) \in Int /\ now \in Int /\ blacklist[p] \in Int
    BY <2>1, TicksAssumption DEF LastSecond, Covered, Issued, Session, TypeOK
  <2> QED BY <2>1, <2>2 DEF Covered
<1> QED BY <1>1, <1>2, <1>3, TypeCorrect, WorkIsSound, PTL DEF Spec

-----------------------------------------------------------------------------
(* Logout of other devices.                                                *)

\* A request that revokes sessions revokes those of the user it was
\* authenticated as: the ids it has read belong to that user for good.
THEOREM OnlyOwnSessionsRevoked == Spec => OnlyOwnDevices
<1>1. TypeOK /\ PendingWorkSound /\ [Next]_vars =>
        \A r \in Requests, p \in Pairs :
            /\ task[r].pc \in {"bulk_revoke", "revoke_device"}
            /\ task'[r] # task[r]
            /\ sessions'[p] # sessions[p]
            => sessions[p].uid = task[r].uid
  <2> SUFFICES ASSUME TypeOK, PendingWorkSound, [Next]_vars,
                      NEW r \in Requests, NEW p \in Pairs,
                      task[r].pc \in {"bulk_revoke", "revoke_device"},
                      task'[r] # task[r], sessions'[p] # sessions[p]
               PROVE  sessions[p].uid = task[r].uid
    OBVIOUS
  <2>1. AllRevoke(r) \/ DeviceRevoke(r) \/ sessions' = sessions
    <3>1. Start(r) => sessions' = sessions
      BY DEF Start, LoginMint, RefreshLoad, LogoutStart, AllAuthenticate, DeviceAuthenticate
    <3>2. Proceed(r) => AllRevoke(r) \/ DeviceRevoke(r)
      BY DEF Proceed, PostToken, RotateRevoke, Blacklist, CookieRevoke, AllList, DeviceFind
    <3>3. Fail(r) => sessions' = sessions
      BY DEF Fail
    <3> QED BY <3>1, <3>2, <3>3, MoverActs
  <2>2. CASE AllRevoke(r)
    BY <2>2, RevokeType DEF AllRevoke, PendingWorkSound, WorkSound, Owned
  <2>3. CASE DeviceRevoke(r)
    BY <2>3, RevokeType DEF DeviceRevoke, PendingWorkSound, WorkSound, Owned
  <2> QED BY <2>1, <2>2, <2>3
<1> QED BY <1>1, TypeCorrect, WorkIsSound, PTL DEF Spec, OnlyOwnDevices

\* When logout_device/all is answered, no session the user had when the
\* request was authenticated is left usable.
THEOREM LogoutAllIsComplete == Spec => LogoutAllCovers
<1>1. TypeOK /\ PendingWorkSound /\ [Next]_vars =>
        \A r \in Requests :
            task[r].pc = "bulk_revoke" /\ task'[r] = Done(200)
            => \A p \in task[r].before :
                    \/ sessions'[p].revoked
                    \/ sessions[p].exp * TicksPerSecond <= now
  <2> SUFFICES ASSUME TypeOK, PendingWorkSound, [Next]_vars, NEW r \in Requests,
                      task[r].pc = "bulk_revoke", task'[r] = Done(200),
                      NEW p \in task[r].before
               PROVE  \/ sessions'[p].revoked
                      \/ sessions[p].exp * TicksPerSecond <= now
    OBVIOUS
  <2>1. p \in Pairs /\ Issued(p)
    BY TaskFields DEF TypeOK, PendingWorkSound, WorkSound, Owned
  <2>2. task'[r] # task[r]
    BY DEF Done
  <2>3. AllRevoke(r)
    <3>1. ~Start(r)
      BY DEF Start, LoginMint, RefreshLoad, LogoutStart, AllAuthenticate, DeviceAuthenticate,
             Free
    <3>2. ~Fail(r)
      BY ContinueTask DEF Fail, Done
    <3>3. Proceed(r) => AllRevoke(r)
      BY DEF Proceed, PostToken, RotateRevoke, Blacklist, CookieRevoke, AllList, DeviceFind,
             DeviceRevoke
    <3> QED BY <2>2, <3>1, <3>2, <3>3, MoverActs
  <2>4. CASE p \in task[r].ids
    BY <2>1, <2>3, <2>4, RevokeType DEF AllRevoke
  <2>5. CASE p \notin task[r].ids
    <3>1. sessions[p].revoked \/ sessions[p].exp * TicksPerSecond <= now
      BY <2>5 DEF PendingWorkSound, WorkSound
    <3> QED BY <2>1, <3>1, SessionsGrow DEF SessionGrows
  <2> QED BY <2>4, <2>5
<1> QED BY <1>1, TypeCorrect, WorkIsSound, PTL DEF Spec, LogoutAllCovers
-----------------------------------------------------------------------------
(* SessionFamilies.                                                        *)

\* A pair that a request is about to insert has not been revoked yet.
NewPairsValid ==
    \A r \in Requests : task[r].pc = "post_token" => task[r].session.revoked = FALSE

\* Only a pair that was just signed is inserted.
LEMMA NewPairsAreValid == Spec => []NewPairsValid
<1>1. Init => NewPairsValid
  BY DEF Init, NewPairsValid, Idle
<1>2. TypeOK /\ NewPairsValid /\ [Next]_vars => NewPairsValid'
  <2> SUFFICES ASSUME TypeOK, NewPairsValid, [Next]_vars, NEW q \in Requests,
                      task'[q].pc = "post_token", task'[q] # task[q]
               PROVE  task'[q].session.revoked = FALSE
    BY DEF NewPairsValid
  <2>1. \A code : task'[q] # Done(code)
    BY DEF Done
  <2>2. ASSUME Start(q)
        PROVE  \E uid \in Users : LoginMint(q, uid)
    <3>1. ASSUME NEW p \in MaybePairs, RefreshLoad(q, p)
          PROVE  FALSE
      BY <2>1, <3>1, ContinueTask DEF RefreshLoad
    <3>2. ASSUME NEW access \in MaybePairs, NEW refresh \in MaybePairs,
                 LogoutStart(q, access, refresh)
          PROVE  FALSE
      BY <2>1, <3>2, ContinueTask DEF LogoutStart, RevokeCookie
    <3>3. ASSUME NEW access \in Pairs, AllAuthenticate(q, access)
          PROVE  FALSE
      BY <2>1, <3>3, ContinueTask DEF AllAuthenticate
    <3>4. ASSUME NEW access \in Pairs, NEW id \in Pairs, DeviceAuthenticate(q, access, id)
          PROVE  FALSE
      BY <2>1, <3>4, ContinueTask DEF DeviceAuthenticate
    <3> QED BY <2>2, <3>1, <3>2, <3>3, <3>4 DEF Start
  <2>3. ASSUME Proceed(q) \/ Fail(q)
        PROVE  RotateRevoke(q)
    <3>1. ~PostToken(q) /\ ~CookieRevoke(q) /\ ~AllRevoke(q) /\ ~DeviceRevoke(q) /\ ~Fail(q)
      BY <2>1, ContinueTask DEF PostToken, CookieRevoke, AllRevoke, DeviceRevoke, Fail
    <3>2. ~Blacklist(q)
      BY <2>1, ContinueTask DEF Blacklist, RevokeCookie
    <3>3. ~AllList(q) /\ ~DeviceFind(q)
      BY <2>1, ContinueTask DEF AllList, DeviceFind
    <3> QED BY <2>3, <3>1, <3>2, <3>3 DEF Proceed
  <2>4. \A uid : Mint(uid).revoked = FALSE
    BY DEF Mint
  <2>5. ASSUME NEW uid \in Users, LoginMint(q, uid)
        PROVE  task'[q].session.revoked = FALSE
    BY <2>4, <2>5, ContinueTask DEF LoginMint
  <2>6. ASSUME RotateRevoke(q)
        PROVE  task'[q].session.revoked = FALSE
    BY <2>4, <2>6, ContinueTask DEF RotateRevoke
  <2> QED BY <2>2, <2>3, <2>5, <2>6, MoverActs
<1> QED BY <1>1, <1>2, TypeCorrect, PTL DEF Spec

\* The tokens of the pairs, and the marker of those that do not exist.
LEMMA FamilyTokens ==
    ASSUME TypeOK, NEW p \in Pairs
    PROVE  /\ Issued(p) <=> sessions[p] # NotIssued
           /\ Issued(p) <=> FamilyToken(p) # NotIssued
           /\ ~Issued(p) => FamilyToken(p) = NotIssued
           /\ Issued(p) => FamilyToken(p) = [uid |-> sessions[p].uid,
                                             valid |-> ~sessions[p].revoked,
                                             parent |-> parent[p]]
<1>1. Issued(p) <=> sessions[p] # NotIssued
  BY NotIssuedAssumption DEF Issued, TypeOK
<1>2. ASSUME Issued(p)
      PROVE  [uid |-> sessions[p].uid, valid |-> ~sessions[p].revoked,
              parent |-> parent[p]] # NotIssued
  <2>1. /\ sessions[p].uid \in Users /\ (~sessions[p].revoked) \in BOOLEAN
        /\ parent[p] \in Pairs \cup {NoToken}
    BY <1>2 DEF Issued, Session, TypeOK, MaybePairs
  <2>2. [uid |-> sessions[p].uid, valid |-> ~sessions[p].revoked,
         parent |-> parent[p]] \in Families!Token
    BY <2>1 DEF Families!Token
  <2> QED BY <2>2, TokenAssumption
<1> QED BY <1>1, <1>2 DEF FamilyToken

\* Revoking pairs of one user is a Revoke of the families; pairs that do not
\* exist are not touched.
LEMMA RevokeRefines ==
    ASSUME TypeOK, TypeOK', NEW uid \in Users, NEW ids \in SUBSET Pairs,
           \A p \in ids : Issued(p) => sessions[p].uid = uid,
           Revoke(ids), parent' = parent
    PROVE  Families!Next
<1> DEFINE S == {p \in ids : Issued(p)}
           bar == [p \in Pairs |-> FamilyToken(p)]
<1>1. \A p \in S : bar[p] # NotIssued /\ bar[p].uid = uid
  BY FamilyTokens
<1>2. ASSUME NEW p \in Pairs
      PROVE  FamilyToken(p)' = IF p \in S
                               THEN [uid |-> uid, valid |-> FALSE, parent |-> bar[p].parent]
                               ELSE bar[p]
  <2>1. CASE p \notin S
    <3>1. sessions'[p] = sessions[p]
      BY <2>1, RevokeType
    <3> QED BY <2>1, <3>1 DEF FamilyToken
  <2>2. CASE p \in S
    <3>1. /\ bar[p] = [uid |-> sessions[p].uid, valid |-> ~sessions[p].revoked,
                       parent |-> parent[p]]
          /\ sessions'[p] \in Session /\ sessions'[p].uid = sessions[p].uid
          /\ sessions'[p].revoked
      BY <2>2, RevokeType, FamilyTokens
    <3>2. sessions'[p] # NotIssued /\ (~sessions'[p].revoked) = FALSE
      BY <3>1, NotIssuedAssumption
    <3>3. FamilyToken(p)' = [uid |-> sessions[p].uid, valid |-> FALSE, parent |-> parent[p]]
      BY <3>1, <3>2 DEF FamilyToken
    <3>4. sessions[p].uid = uid /\ bar[p].parent = parent[p]
      BY <2>2, <3>1
    <3> QED BY <2>2, <3>3, <3>4
  <2> QED BY <2>1, <2>2
<1>3. bar' = [p \in Pairs |->
                IF p \in S
                THEN [uid |-> uid, valid |-> FALSE, parent |-> bar[p].parent]
                ELSE bar[p]]
  BY <1>2
<1>4. Families!Revoke(uid, S)
  BY <1>1, <1>3 DEF Families!Revoke
<1> QED BY <1>4 DEF Families!Next

\* Whatever requests overlap and whatever fails, AuthSessions implements the
\* token families of SessionFamilies: every commit of a handler is one step of
\* it, everything else none.
THEOREM FamiliesRefinement == Spec => ImplementsFamilies
<1> DEFINE bar == [p \in Pairs |-> FamilyToken(p)]
<1>1. Init => Families!Init
  BY DEF Init, Families!Init, FamilyToken
<1>2. TypeOK /\ TypeOK' /\ PendingWorkSound /\ NewPairsValid /\ [Next]_vars
        => [Families!Next]_bar
  <2> SUFFICES ASSUME TypeOK, TypeOK', PendingWorkSound, NewPairsValid, [Next]_vars
               PROVE  Families!Next \/ UNCHANGED bar
    OBVIOUS
  <2>1. ASSUME sessions' = sessions, parent' = parent
        PROVE  UNCHANGED bar
    BY <2>1 DEF FamilyToken
  <2>2. ASSUME NEW r \in Requests, PostToken(r)
        PROVE  Families!Next
    <3> DEFINE t == task[r]
    <3>1. /\ t.from \in MaybePairs /\ t.session \in Session /\ t.session.revoked = FALSE
          /\ t.from # NoToken => /\ Issued(t.from) /\ sessions[t.from].revoked
                                 /\ sessions[t.from].uid = t.session.uid
      BY <2>2, TaskFields DEF PostToken, TypeOK, PendingWorkSound, WorkSound, NewPairsValid
    <3>2. PICK p \in Pairs : /\ sessions[p] = NotIssued
                             /\ sessions' = [sessions EXCEPT ![p] = t.session]
                             /\ parent' = [parent EXCEPT ![p] = t.from]
      BY <2>2 DEF PostToken
    <3> DEFINE new == [uid |-> t.session.uid, valid |-> TRUE, parent |-> t.from]
    <3>3. bar[p] = NotIssued
      BY <3>2 DEF FamilyToken
    <3>4. FamilyToken(p)' = new
      <4>1. sessions'[p] = t.session /\ parent'[p] = t.from
        BY <3>2 DEF TypeOK
      <4>2. sessions'[p] # NotIssued /\ (~sessions'[p].revoked) = TRUE
        BY <3>1, <4>1, NotIssuedAssumption
      <4> QED BY <4>1, <4>2 DEF FamilyToken
    <3>5. \A q \in Pairs : q # p => FamilyToken(q)' = bar[q]
      BY <3>2 DEF FamilyToken, TypeOK
    <3>6. bar' = [bar EXCEPT ![p] = new]
      BY <3>4, <3>5
    <3>7. CASE t.from = NoToken
      <4>1. t.session.uid \in Users
        BY <3>1 DEF Session
      <4>2. Families!Login(p, t.session.uid)
        BY <3>3, <3>6, <3>7 DEF Families!Login
      <4> QED BY <4>1, <4>2 DEF Families!Next
    <3>8. CASE t.from # NoToken
      <4>1. t.from \in Pairs
        BY <3>1, <3>8 DEF MaybePairs
      <4>2. /\ bar[t.from] = FamilyToken(t.from)
            /\ Issued(t.from) /\ sessions[t.from].revoked
            /\ sessions[t.from].uid = t.session.uid
        BY <3>1, <3>8, <4>1
      <4>3. /\ bar[t.from] # NotIssued /\ ~bar[t.from].valid
            /\ bar[t.from].uid = t.session.uid
        <5>1. FamilyToken(t.from) # NotIssued
          BY <4>1, <4>2, FamilyTokens
        <5>2. ~FamilyToken(t.from).valid /\ FamilyToken(t.from).uid = t.session.uid
          BY ONLY <4>2, <5>1 DEF FamilyToken
        <5> QED BY <4>2, <5>1, <5>2
      <4>4. Families!Rotate(p, t.from)
        BY <3>3, <3>6, <4>1, <4>3 DEF Families!Rotate
      <4> QED BY <4>1, <4>4 DEF Families!Next
    <3> QED BY <3>7, <3>8
  <2>3. ASSUME NEW r \in Requests, RotateRevoke(r) \/ DeviceRevoke(r)
        PROVE  Families!Next
    <3>1. /\ task[r].uid \in Users /\ task[r].id \in Pairs
          /\ Owned(task[r].uid, task[r].id)
          /\ Revoke({task[r].id}) /\ parent' = parent
      BY <2>3, TaskFields DEF RotateRevoke, DeviceRevoke, TypeOK, PendingWorkSound, WorkSound,
                              ghosts
    <3> QED BY <3>1, RevokeRefines DEF Owned
  <2>4. ASSUME NEW r \in Requests, AllRevoke(r)
        PROVE  Families!Next
    <3>1. /\ task[r].uid \in Users /\ task[r].ids \in SUBSET Pairs
          /\ \A p \in task[r].ids : Owned(task[r].uid, p)
          /\ Revoke(task[r].ids) /\ parent' = parent
      BY <2>4, TaskFields DEF AllRevoke, TypeOK, PendingWorkSound, WorkSound, ghosts
    <3> QED BY <3>1, RevokeRefines DEF Owned
  <2>5. ASSUME NEW r \in Requests, CookieRevoke(r)
        PROVE  Families!Next \/ UNCHANGED bar
    <3>1. task[r].id \in Pairs /\ Revoke({task[r].id}) /\ parent' = parent
      BY <2>5, TaskFields DEF CookieRevoke, TypeOK, ghosts
    <3>2. CASE Issued(task[r].id)
      <4>1. sessions[task[r].id].uid \in Users
        BY <3>2 DEF Issued, Session
      <4> QED BY <3>1, <4>1, RevokeRefines
    <3>3. CASE ~Issued(task[r].id)
      <4>1. \A p \in Pairs : sessions'[p] = sessions[p]
        BY <3>1, <3>3, RevokeType
      <4>2. sessions' = sessions
        BY <4>1 DEF TypeOK
      <4> QED BY <2>1, <3>1, <4>2
    <3> QED BY <3>2, <3>3
  <2>6. ASSUME NEW r \in Requests, Start(r)
        PROVE  sessions' = sessions /\ parent' = parent
    BY <2>6 DEF Start, LoginMint, RefreshLoad, LogoutStart, AllAuthenticate,
                DeviceAuthenticate, ghosts
  <2>7. ASSUME NEW r \in Requests, Blacklist(r) \/ AllList(r) \/ DeviceFind(r) \/ Fail(r)
        PROVE  sessions' = sessions /\ parent' = parent
    BY <2>7 DEF Blacklist, AllList, DeviceFind, Fail, ghosts
  <2>8. (Tick \/ UNCHANGED vars \/ \E p \in Pairs : Lose(p))
            => sessions' = sessions /\ parent' = parent
    BY DEF Tick, vars, Lose, ghosts
  <2> QED BY <2>1, <2>2, <2>3, <2>4, <2>5, <2>6, <2>7, <2>8 DEF Next, Proceed
<1> QED
  BY <1>1, <1>2, TypeCorrect, WorkIsSound, NewPairsAreValid, PTL
     DEF Spec, ImplementsFamilies, Families!Spec
=============================================================================
