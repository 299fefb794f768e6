----------------------------- MODULE RateLimit -----------------------------
(***************************************************************************)
(* The limit on failed logins of one IP address.  A dictionary in the      *)
(* memory of the one server process has a LoginAttempt per address; after  *)
(* two failures each further one closes the address for 2^n seconds.       *)
(*                                                                         *)
(* get_la_inst and check_timeout are plain functions, so FastAPI runs them *)
(* in a pool of threads; login is a coroutine and counts on the event      *)
(* loop, after it has awaited the database.                                *)
(***************************************************************************)
EXTENDS Integers, FiniteSets

CONSTANTS
    Requests,       \* slots: the logins that are in flight at the same time
    IPs,
    Instances,      \* LoginAttempt objects, by identity
    FreeAttempts,   \* failures that do not close the address (2)
    Horizon,        \* the largest n for which now + 2^n seconds is a date (37)
    Backoff,        \* Backoff[n]: seconds an address is closed by failure n
    MaxTime,        \* bound: the clock stops here
    NoInstance

ASSUME RequestsAssumption == IsFiniteSet(Requests)
ASSUME HorizonAssumption == FreeAttempts \in Nat /\ Horizon \in Nat /\ FreeAttempts < Horizon
ASSUME BackoffAssumption ==
    /\ Backoff \in [0..Horizon -> Nat]
    /\ \A m, n \in 0..Horizon : m <= n => Backoff[m] <= Backoff[n]
ASSUME MaxTimeAssumption == MaxTime \in Nat
ASSUME NoInstanceAssumption == NoInstance \notin Instances

LoginAttempt == [attempt_count : Nat, timeout_to : Nat]

ASSUME NotAnAttemptAssumption == NoInstance \notin LoginAttempt

VARIABLES
    attempt_logger, \* attempt_logger[ip]: the LoginAttempt of the address
    attempts,       \* the state of every LoginAttempt object
    now,            \* the clock, in seconds since the process started
    task            \* for each slot, where its login is

vars == <<attempt_logger, attempts, now, task>>

Created(i) == attempts[i] \in LoginAttempt

-----------------------------------------------------------------------------
(* LoginAttempt.                                                           *)

\* __init__ and clear_attempt leave the object in this state.
NewAttempt == [attempt_count |-> 0, timeout_to |-> now]

\* Variants: every failure closes the address for the same time; a date that
\* is out of range is replaced by the current one.
LoggedFlat(a) ==
    LET n == a.attempt_count + 1 IN
    [attempt_count |-> n,
     timeout_to |-> IF n > FreeAttempts THEN now + Backoff[0] ELSE a.timeout_to]
LoggedInRange(a) ==
    LET n == a.attempt_count + 1 IN
    [attempt_count |-> n,
     timeout_to |-> IF n <= FreeAttempts THEN a.timeout_to
                    ELSE IF n <= Horizon THEN now + Backoff[n] ELSE now]

\* The date would be out of range: OverflowError, after the count was raised.
Overflows(a) == a.attempt_count + 1 > Horizon

\* logging_attempt.
Logged(a) ==
    LET n == a.attempt_count + 1 IN
    [attempt_count |-> n,
     timeout_to |-> IF n > FreeAttempts /\ n <= Horizon
                    THEN now + Backoff[n] ELSE a.timeout_to]

\* LoginAttempt.check_timeout.
Open(a) == a.timeout_to < now

\* A variant: the dictionary is not asked.
AlwaysMissing(ip) == TRUE

\* ip not in attempt_logger.
Missing(ip) == attempt_logger[ip] = NoInstance

-----------------------------------------------------------------------------
(* POST /auth/login                                                        *)

Idle == [pc |-> "idle"]
Done(code) == [pc |-> "done", code |-> code]
Codes == {200, 401, 429, 500}

InFlight ==
    [pc : {"create", "lookup"}, ip : IPs] \cup
    [pc : {"check", "login"}, inst : Instances]

Tasks == {Idle} \cup [pc : {"done"}, code : Codes] \cup InFlight

Continue(r, next) == task' = [task EXCEPT ![r] = next]

Init ==
    /\ attempt_logger = [ip \in IPs |-> NoInstance]
    /\ attempts = [i \in Instances |-> NoInstance]
    /\ now = 0
    /\ task = [r \in Requests |-> Idle]

\* get_la_inst looks whether the address is known ...
Arrive(r, ip) ==
    /\ task[r].pc \in {"idle", "done"}
    /\ Continue(r, [pc |-> IF Missing(ip) THEN "create" ELSE "lookup", ip |-> ip])
    /\ UNCHANGED <<attempt_logger, attempts, now>>

\* ... stores a LoginAttempt if it was not, whoever has stored one since ...
Create(r) ==
    LET ip == task[r].ip IN
    /\ task[r].pc = "create"
    /\ \E i \in Instances :
          /\ attempts[i] = NoInstance
          /\ attempts' = [attempts EXCEPT ![i] = NewAttempt]
          /\ attempt_logger' = [attempt_logger EXCEPT ![ip] = i]
    /\ Continue(r, [pc |-> "lookup", ip |-> ip])
    /\ UNCHANGED now

\* ... and returns the one that is stored now.
Lookup(r) ==
    LET ip == task[r].ip IN
    /\ task[r].pc = "lookup"
    /\ Continue(r, [pc |-> "check", inst |-> attempt_logger[ip]])
    /\ UNCHANGED <<attempt_logger, attempts, now>>

\* The dependency check_timeout.
Check(r) ==
    LET i == task[r].inst IN
    /\ task[r].pc = "check"
    /\ Continue(r, IF Open(attempts[i]) THEN [pc |-> "login", inst |-> i] ELSE Done(429))
    /\ UNCHANGED <<attempt_logger, attempts, now>>

\* The user is unknown or the password is wrong.
Refuse(r) ==
    LET i == task[r].inst IN
    /\ task[r].pc = "login"
    /\ attempts' = [attempts EXCEPT ![i] = Logged(attempts[i])]
    /\ Continue(r, Done(IF Overflows(attempts[i]) THEN 500 ELSE 401))
    /\ UNCHANGED <<attempt_logger, now>>

\* The credentials are right: clear_attempt; AuthSessions has the rest.
Grant(r) ==
    LET i == task[r].inst IN
    /\ task[r].pc = "login"
    /\ attempts' = [attempts EXCEPT ![i] = NewAttempt]
    /\ Continue(r, Done(200))
    /\ UNCHANGED <<attempt_logger, now>>

\* The database does not give the user: nothing is counted.
Fail(r) ==
    /\ task[r].pc = "login"
    /\ Continue(r, Done(500))
    /\ UNCHANGED <<attempt_logger, attempts, now>>

Tick ==
    /\ now < MaxTime
    /\ now' = now + 1
    /\ UNCHANGED <<attempt_logger, attempts, task>>

Proceed(r) == Create(r) \/ Lookup(r) \/ Check(r) \/ Refuse(r) \/ Grant(r) \/ Fail(r)

Next ==
    \/ \E r \in Requests : Proceed(r) \/ \E ip \in IPs : Arrive(r, ip)
    \/ Tick

Spec == Init /\ [][Next]_vars

-----------------------------------------------------------------------------
(* What holds under every interleaving.                                    *)

\* Every variable has its type.
TypeOK ==
    /\ attempt_logger \in [IPs -> Instances \cup {NoInstance}]
    /\ attempts \in [Instances -> LoginAttempt \cup {NoInstance}]
    /\ now \in Nat
    /\ task \in [Requests -> Tasks]

\* The logins that have passed the check of this object and have not counted.
Pending(i) == {r \in Requests : task[r].pc = "login" /\ task[r].inst = i}

\* Failure n closes the address for this long; past the horizon it keeps what
\* it has.
Delay(n) == IF n <= Horizon THEN Backoff[n] ELSE Backoff[Horizon]

\* Back-off: however many logins overlap, a count that is more than one login
\* per slot beyond n has been given the seconds that n failures cost.  The
\* check and the count are an await apart, so the logins in flight may all
\* pass before the first of them is counted; they can do so once, not over and
\* over, and what is in flight is counted here as if it had failed.
GuessesAreBounded ==
    \A i \in Instances :
        LET n == attempts[i].attempt_count + Cardinality(Pending(i)) - Cardinality(Requests)
        IN  Created(i) /\ n > FreeAttempts => Delay(n) < now

\* A lock is shortened by a login that succeeds, never by one that fails:
\* failures that are counted late only move it further away.
OnlySuccessShortens ==
    [][\A i \in Instances :
            Created(i) /\ attempts'[i].timeout_to < attempts[i].timeout_to
            => \E r \in Requests : task[r].pc = "login" /\ task'[r] = Done(200)]_vars

\* An address is given at most one counter for each slot: only logins that
\* all overlap the very first one can replace each other's.
CountersAreFew ==
    Cardinality({i \in Instances : Created(i)})
        <= Cardinality({ip \in IPs : attempt_logger[ip] # NoInstance}) * Cardinality(Requests)
=============================================================================
