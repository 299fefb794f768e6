---------------------------- MODULE AuthSessions ----------------------------
(***************************************************************************)
(* Sessions: login, refresh, logout of this device, of another device and  *)
(* of all devices.  A login or a refresh issues a pair of tokens: an       *)
(* access token, which is only signed, and a refresh token, which also has *)
(* a row in refresh_tokens.  A logout puts the access token on a blacklist *)
(* in Redis for the rest of its life and revokes the refresh token.        *)
(*                                                                         *)
(* Tokens know whole seconds, the clock of the process does not: time is   *)
(* counted in ticks, TicksPerSecond of which make a second.  Passwords and *)
(* the login rate limit are left out (RateLimit has the latter).           *)
(***************************************************************************)
EXTENDS Integers, FiniteSets

CONSTANTS
    Requests,       \* slots: the requests that are in flight at the same time
    Users,          \* rows of users; none is ever deleted
    ActiveUsers,    \* those with is_active, which no request changes
    Pairs,          \* token pairs, named by their jti; none is issued twice
    TicksPerSecond,
    AccessLife,     \* seconds an access token is valid (30 minutes)
    RefreshLife,    \* seconds a refresh token is valid (15 days)
    MaxTime,        \* bound: the clock stops at this tick
    MaxLost,        \* bound: the blacklist entries that Redis loses
    NotIssued,      \* the pair does not exist yet
    NoToken         \* a request without that token

ASSUME TicksAssumption == TicksPerSecond \in Nat \ {0}
ASSUME LivesAssumption == AccessLife \in Nat /\ RefreshLife \in Nat
ASSUME BoundsAssumption == MaxTime \in Nat /\ MaxLost \in Nat
ASSUME ActiveAssumption == ActiveUsers \subseteq Users
ASSUME NoTokenAssumption == NoToken \notin Pairs

\* A row of refresh_tokens, with the exp claim of the access token that was
\* signed together with it.  Both exp are in seconds.
Session == [uid : Users, exp : Nat, access_exp : Nat, revoked : BOOLEAN]

ASSUME NotIssuedAssumption == NotIssued \notin Session

VARIABLES
    sessions,       \* the pairs that have been issued
    blacklist,      \* blacklist[p]: the tick at which the key blacklist:{jti} expires
    now,            \* the clock, in ticks
    task,           \* for each slot, where its request is and what it has read
    parent,         \* the pair whose refresh token a pair was refreshed with
    loggedOut,      \* the pairs whose access token a logout was done with
    lost            \* the pairs whose blacklist entry Redis has lost

vars == <<sessions, blacklist, now, task, parent, loggedOut, lost>>

Second == now \div TicksPerSecond

Issued(p) == sessions[p] \in Session

-----------------------------------------------------------------------------
(* Tokens.                                                                 *)

\* create_access_token and create_refresh_token; the encoder cuts exp to
\* whole seconds.
Mint(uid) ==
    [uid |-> uid, exp |-> Second + RefreshLife, access_exp |-> Second + AccessLife,
     revoked |-> FALSE]

\* decode_jwt_token: the library cuts the current time to whole seconds too.
AccessDecodes(p) == Issued(p) /\ Second <= sessions[p].access_exp
RefreshDecodes(p) == Issued(p) /\ Second <= sessions[p].exp

\* A variant: a second is taken off to be on the safe side.
TtlWithMargin(p) ==
    ((sessions[p].access_exp * TicksPerSecond - now) \div TicksPerSecond) - 1

\* add_token_to_blacklist: int(exp - time.time()).
Ttl(p) == (sessions[p].access_exp * TicksPerSecond - now) \div TicksPerSecond

\* is_token_in_blacklist.
InBlacklist(p) == now < blacklist[p]

\* get_current_user lets a request with this access token pass.
Accepts(p) == AccessDecodes(p) /\ ~InBlacklist(p)

\* check_refresh_token.
Usable(p) == ~(sessions[p].exp * TicksPerSecond < now) /\ ~sessions[p].revoked

\* The pair exists and its row has this user_id.
Owned(uid, p) == Issued(p) /\ sessions[p].uid = uid

\* Variants: the comparison with now is the wrong way round; the user is not
\* in the WHERE clause.
ExpiredTokens(uid) ==
    {p \in Pairs : /\ Owned(uid, p)
                   /\ ~sessions[p].revoked
                   /\ sessions[p].exp * TicksPerSecond < now}
TokensOfAnyone(uid) ==
    {p \in Pairs : /\ Issued(p)
                   /\ ~sessions[p].revoked
                   /\ sessions[p].exp * TicksPerSecond > now}

\* get_actual_tokens.
ActualTokens(uid) ==
    {p \in Pairs : /\ Owned(uid, p)
                   /\ ~sessions[p].revoked
                   /\ sessions[p].exp * TicksPerSecond > now}

\* The condition of logout_by_jti.
OwnDevice(uid, p) == Owned(uid, p)

\* A variant: the flag is set and the commit is forgotten.
RevokeUncommitted(ids) == sessions' = sessions

\* revoke_token and bulk_revoke_tokens: UPDATE ... SET revoked WHERE id = ...
Revoke(ids) ==
    sessions' = [p \in Pairs |->
                    IF p \in ids /\ Issued(p)
                    THEN [uid |-> sessions[p].uid, exp |-> sessions[p].exp,
                          access_exp |-> sessions[p].access_exp, revoked |-> TRUE]
                    ELSE sessions[p]]

-----------------------------------------------------------------------------
(* Requests.                                                               *)

Idle == [pc |-> "idle"]

\* The request has been answered.  500 also stands for no answer at all.
Done(code) == [pc |-> "done", code |-> code]

Codes == {200, 401, 404, 423, 500}

MaybePairs == Pairs \cup {NoToken}

InFlight ==
    [pc : {"post_token"}, from : MaybePairs, session : Session]
        \cup
    [pc : {"revoke_cookie"}, id : Pairs]
        \cup
    [pc : {"blacklist"}, access : Pairs, ttl : Nat, refresh : MaybePairs]
        \cup
    [pc : {"list_tokens"}, uid : Users, before : SUBSET Pairs]
        \cup
    [pc : {"bulk_revoke"}, uid : Users, before : SUBSET Pairs, ids : SUBSET Pairs]
        \cup
    [pc : {"rotate", "find_device", "revoke_device"}, uid : Users, id : Pairs]

Tasks == {Idle} \cup [pc : {"done"}, code : Codes] \cup InFlight

\* The slot can take another request.
Free(r) == task[r].pc \in {"idle", "done"}

Continue(r, next) == task' = [task EXCEPT ![r] = next]

Init ==
    /\ sessions = [p \in Pairs |-> NotIssued]
    /\ blacklist = [p \in Pairs |-> 0]
    /\ now = 0
    /\ task = [r \in Requests |-> Idle]
    /\ parent = [p \in Pairs |-> NoToken]
    /\ loggedOut = {}
    /\ lost = {}

ghosts == <<parent, loggedOut, lost>>

-----------------------------------------------------------------------------
(* POST /auth/login                                                        *)

\* The credentials are right: create_token_tuple signs the tokens ...
LoginMint(r, uid) ==
    /\ Free(r)
    /\ Continue(r, [pc |-> "post_token", from |-> NoToken, session |-> Mint(uid)])
    /\ UNCHANGED <<sessions, blacklist, now, ghosts>>

\* A variant: a refresh renews the row of the token that was presented.
RenewToken(r) ==
    LET t == task[r] IN
    /\ t.pc = "post_token"
    /\ \E p \in Pairs :
          /\ IF t.from = NoToken THEN sessions[p] = NotIssued ELSE p = t.from
          /\ sessions' = [sessions EXCEPT ![p] = t.session]
    /\ Continue(r, Done(200))
    /\ UNCHANGED <<blacklist, now, ghosts>>

\* ... and post_refresh_token commits the row; then the pair is handed out.
PostToken(r) ==
    LET t == task[r] IN
    /\ t.pc = "post_token"
    /\ \E p \in Pairs :
          /\ sessions[p] = NotIssued
          /\ sessions' = [sessions EXCEPT ![p] = t.session]
          /\ parent' = [parent EXCEPT ![p] = t.from]
    /\ Continue(r, Done(200))
    /\ UNCHANGED <<blacklist, now, loggedOut, lost>>

-----------------------------------------------------------------------------
(* POST /auth/refresh                                                      *)

\* get_refresh_token_payload, get_refresh_token and check_refresh_token, for
\* the refresh token in the cookie.
RefreshLoad(r, p) ==
    /\ Free(r)
    /\ \/ /\ p = NoToken
          /\ Continue(r, Done(404))
       \/ /\ p # NoToken
          /\ Issued(p)
          /\ IF ~RefreshDecodes(p)
             THEN Continue(r, Done(401))
             ELSE IF Usable(p)
             THEN Continue(r, [pc |-> "rotate", uid |-> sessions[p].uid, id |-> p])
             ELSE Continue(r, Done(IF sessions[p].revoked THEN 423 ELSE 401))
    /\ UNCHANGED <<sessions, blacklist, now, ghosts>>

\* revoke_token commits before token_sender signs the next pair.
RotateRevoke(r) ==
    LET t == task[r] IN
    /\ t.pc = "rotate"
    /\ Revoke({t.id})
    /\ Continue(r, [pc |-> "post_token", from |-> t.id,
                    session |-> Mint(t.uid)])
    /\ UNCHANGED <<blacklist, now, ghosts>>

-----------------------------------------------------------------------------
(* POST /auth/logout                                                       *)

\* get_refresh_token_instance: without a refresh token that decodes the
\* logout is over.
RevokeCookie(r, refresh) ==
    Continue(r, IF refresh # NoToken /\ RefreshDecodes(refresh)
                THEN [pc |-> "revoke_cookie", id |-> refresh]
                ELSE Done(200))

\* blacklist_access_token: nothing is done for a token that does not decode,
\* nor for one with less than a second to go.
LogoutStart(r, access, refresh) ==
    /\ Free(r)
    /\ \A token \in {access, refresh} \ {NoToken} : Issued(token)
    /\ IF access # NoToken /\ AccessDecodes(access)
       THEN IF Ttl(access) > 0
            THEN /\ Continue(r, [pc |-> "blacklist", access |-> access,
                                 ttl |-> Ttl(access), refresh |-> refresh])
                 /\ UNCHANGED loggedOut
            ELSE /\ RevokeCookie(r, refresh)
                 /\ loggedOut' = loggedOut \cup {access}
       ELSE /\ RevokeCookie(r, refresh)
            /\ UNCHANGED loggedOut
    /\ UNCHANGED <<sessions, blacklist, now, parent, lost>>

\* set_cache with ex=ttl: the time to live starts when Redis gets the command.
Blacklist(r) ==
    LET t == task[r] IN
    /\ t.pc = "blacklist"
    /\ blacklist' = [blacklist EXCEPT ![t.access] = now + t.ttl * TicksPerSecond]
    /\ loggedOut' = loggedOut \cup {t.access}
    /\ RevokeCookie(r, t.refresh)
    /\ UNCHANGED <<sessions, now, parent, lost>>

CookieRevoke(r) ==
    LET t == task[r] IN
    /\ t.pc = "revoke_cookie"
    /\ Revoke({t.id})
    /\ Continue(r, Done(200))
    /\ UNCHANGED <<blacklist, now, ghosts>>

-----------------------------------------------------------------------------
(* POST /auth/logout_device/all and /auth/logout_device/{jti}              *)

\* get_current_user: the code of a refusal.
Refusal(access) == IF AccessDecodes(access) THEN 423 ELSE 401

\* "before" is not read by the code: the sessions the user had when the
\* request was authenticated.
AllAuthenticate(r, access) ==
    /\ Free(r)
    /\ Issued(access)
    /\ IF Accepts(access)
       THEN LET uid == sessions[access].uid IN
            Continue(r, [pc |-> "list_tokens", uid |-> uid,
                         before |-> {p \in Pairs : Owned(uid, p)}])
       ELSE Continue(r, Done(Refusal(access)))
    /\ UNCHANGED <<sessions, blacklist, now, ghosts>>

\* get_current_user_active and get_actual_tokens.
AllList(r) ==
    LET t == task[r] IN
    /\ t.pc = "list_tokens"
    /\ IF t.uid \in ActiveUsers
       THEN Continue(r, [pc |-> "bulk_revoke", uid |-> t.uid, before |-> t.before,
                         ids |-> ActualTokens(t.uid)])
       ELSE Continue(r, Done(423))
    /\ UNCHANGED <<sessions, blacklist, now, ghosts>>

AllRevoke(r) ==
    LET t == task[r] IN
    /\ t.pc = "bulk_revoke"
    /\ Revoke(t.ids)
    /\ Continue(r, Done(200))
    /\ UNCHANGED <<blacklist, now, ghosts>>

DeviceAuthenticate(r, access, id) ==
    /\ Free(r)
    /\ Issued(access)
    /\ IF Accepts(access)
       THEN Continue(r, [pc |-> "find_device", uid |-> sessions[access].uid, id |-> id])
       ELSE Continue(r, Done(Refusal(access)))
    /\ UNCHANGED <<sessions, blacklist, now, ghosts>>

\* get_current_user_active and get_refresh_token.
DeviceFind(r) ==
    LET t == task[r] IN
    /\ t.pc = "find_device"
    /\ IF t.uid \notin ActiveUsers
       THEN Continue(r, Done(423))
       ELSE IF OwnDevice(t.uid, t.id)
       THEN Continue(r, [pc |-> "revoke_device", uid |-> t.uid, id |-> t.id])
       ELSE Continue(r, Done(404))
    /\ UNCHANGED <<sessions, blacklist, now, ghosts>>

DeviceRevoke(r) ==
    LET t == task[r] IN
    /\ t.pc = "revoke_device"
    /\ Revoke({t.id})
    /\ Continue(r, Done(200))
    /\ UNCHANGED <<blacklist, now, ghosts>>

-----------------------------------------------------------------------------
(* The rest of the world.                                                  *)

\* The database or Redis fails: what has been committed stays, the rest of
\* the request does not happen.
Fail(r) ==
    /\ task[r] \in InFlight
    /\ Continue(r, Done(500))
    /\ UNCHANGED <<sessions, blacklist, now, ghosts>>

Tick ==
    /\ now < MaxTime
    /\ now' = now + 1
    /\ UNCHANGED <<sessions, blacklist, task, ghosts>>

\* Redis restarts without the entry.
Lose(p) ==
    /\ InBlacklist(p)
    /\ Cardinality(lost) < MaxLost
    /\ blacklist' = [blacklist EXCEPT ![p] = 0]
    /\ lost' = lost \cup {p}
    /\ UNCHANGED <<sessions, now, task, parent, loggedOut>>

Start(r) ==
    \/ \E uid \in Users : LoginMint(r, uid)
    \/ \E p \in MaybePairs : RefreshLoad(r, p)
    \/ \E access, refresh \in MaybePairs : LogoutStart(r, access, refresh)
    \/ \E access \in Pairs : AllAuthenticate(r, access)
    \/ \E access, id \in Pairs : DeviceAuthenticate(r, access, id)

Proceed(r) ==
    \/ PostToken(r) \/ RotateRevoke(r)
    \/ Blacklist(r) \/ CookieRevoke(r)
    \/ AllList(r) \/ AllRevoke(r)
    \/ DeviceFind(r) \/ DeviceRevoke(r)

Next ==
    \/ \E r \in Requests : Start(r) \/ Proceed(r) \/ Fail(r)
    \/ \E p \in Pairs : Lose(p)
    \/ Tick

Spec == Init /\ [][Next]_vars

-----------------------------------------------------------------------------
(* What holds under every interleaving.                                    *)

\* Every variable has its type.
TypeOK ==
    /\ sessions \in [Pairs -> Session \cup {NotIssued}]
    /\ blacklist \in [Pairs -> Nat]
    /\ now \in Nat
    /\ task \in [Requests -> Tasks]
    /\ parent \in [Pairs -> MaybePairs]
    /\ loggedOut \in SUBSET Pairs
    /\ lost \in SUBSET Pairs

\* The tick one second before the access token expires.
LastSecond(p) == (sessions[p].access_exp - 1) * TicksPerSecond

\* What a request has read may be stale, but not in these points: the token
\* a new pair continues is revoked; the sessions it is about to revoke are
\* those of its user; a session it has not listed needs no revocation; and the
\* time to live it has computed reaches the last second of the token.
WorkSound(t) ==
    /\ t.pc = "post_token" /\ t.from # NoToken =>
            /\ Issued(t.from)
            /\ sessions[t.from].revoked
            /\ sessions[t.from].uid = t.session.uid
    /\ t.pc \in {"rotate", "revoke_device"} => Owned(t.uid, t.id)
    /\ t.pc \in {"list_tokens", "bulk_revoke"} =>
            \A p \in t.before : Owned(t.uid, p)
    /\ t.pc = "bulk_revoke" =>
            /\ \A p \in t.ids : Owned(t.uid, p)
            /\ \A p \in t.before \ t.ids :
                    sessions[p].revoked \/ sessions[p].exp * TicksPerSecond <= now
    /\ t.pc = "blacklist" =>
            /\ Issued(t.access)
            /\ LastSecond(t.access) < now + t.ttl * TicksPerSecond

PendingWorkSound == \A r \in Requests : WorkSound(task[r])

\* Rotation: a refresh token that has a successor is revoked, also when the
\* request that was to issue the successor failed half way, and whatever
\* other refreshes and logouts do to the same row.
RotatedIsRevoked ==
    \A p \in Pairs :
        parent[p] # NoToken => Issued(parent[p]) /\ sessions[parent[p]].revoked

\* SessionFamilies: a row of refresh_tokens, without its lives, and the token it
\* was refreshed from.  That the token a refresh continues is revoked by then,
\* and that a logout revokes tokens of one user, rests on what was read steps
\* before.
FamilyToken(p) ==
    IF sessions[p] = NotIssued THEN NotIssued
    ELSE [uid |-> sessions[p].uid, valid |-> ~sessions[p].revoked, parent |-> parent[p]]

Families ==
    INSTANCE SessionFamilies WITH token <- [p \in Pairs |-> FamilyToken(p)]

ASSUME TokenAssumption == NotIssued \notin Families!Token

ImplementsFamilies == Families!Spec

\* After a logout the access token is refused for all of its life but the
\* last second, unless Redis has lost the entry: exp, the clock of the decoder
\* and the time to live are cut to whole seconds in three places, and the
\* entry is written some time after its time to live was computed.
LogoutHolds ==
    \A p \in loggedOut \ lost :
        Accepts(p) => LastSecond(p) < now

\* A request revokes sessions of the user it was authenticated as, and no
\* others.
OnlyOwnDevices ==
    [][\A r \in Requests, p \in Pairs :
            /\ task[r].pc \in {"bulk_revoke", "revoke_device"}
            /\ task'[r] # task[r]
            /\ sessions'[p] # sessions[p]
            => sessions[p].uid = task[r].uid]_vars

\* Once logout_device/all has been answered, every session the user had when
\* the request was authenticated is revoked or expired: none is missed
\* because another request used or revoked it in between.
LogoutAllCovers ==
    [][\A r \in Requests :
            task[r].pc = "bulk_revoke" /\ task'[r] = Done(200)
            => \A p \in task[r].before :
                    \/ sessions'[p].revoked
                    \/ sessions[p].exp * TicksPerSecond <= now]_vars
=============================================================================
