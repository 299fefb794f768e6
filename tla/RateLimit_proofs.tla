-------------------------- MODULE RateLimit_proofs --------------------------
(***************************************************************************)
(* Proofs about RateLimit, for any number of slots, addresses and objects, *)
(* any back-off that does not decrease and any horizon.                    *)
(***************************************************************************)
EXTENDS RateLimit, FiniteSetTheorems, TLAPS

-----------------------------------------------------------------------------
(* The objects that logins hold.                                           *)

\* A login never meets a missing entry or an object that was not constructed.
Found ==
    /\ \A ip \in IPs : attempt_logger[ip] # NoInstance => Created(attempt_logger[ip])
    /\ \A r \in Requests :
          /\ task[r].pc = "lookup" => attempt_logger[task[r].ip] # NoInstance
          /\ task[r].pc \in {"check", "login"} => Created(task[r].inst)

\* A slot continues with the new task, the others keep theirs.
LEMMA ContinueTask ==
    ASSUME TypeOK, NEW r \in Requests, NEW next, Continue(r, next)
    PROVE  /\ task'[r] = next
           /\ \A q \in Requests \ {r} : task'[q] = task[q]
           /\ next \in Tasks => task' \in [Requests -> Tasks]
BY DEF TypeOK, Continue

\* The fields of a task, by its program counter.
LEMMA TaskFields ==
    ASSUME NEW t \in Tasks
    PROVE  /\ t.pc \in {"create", "lookup"} => t.ip \in IPs
           /\ t.pc \in {"check", "login"} => t.inst \in Instances
BY DEF Tasks, InFlight, Idle, Done

\* The answers of the service are tasks.
LEMMA DoneType ==
    \A code \in {200, 401, 429, 500} : Done(code) \in Tasks /\ Done(code).pc = "done"
BY DEF Done, Tasks, Codes

\* The states a LoginAttempt gets into are states of a LoginAttempt.
LEMMA AttemptType ==
    ASSUME TypeOK
    PROVE  /\ NewAttempt \in LoginAttempt
           /\ NewAttempt.attempt_count = 0 /\ NewAttempt.timeout_to = now
           /\ \A a \in LoginAttempt :
                /\ Logged(a) \in LoginAttempt
                /\ Logged(a).attempt_count = a.attempt_count + 1
                /\ Logged(a).timeout_to =
                      IF a.attempt_count + 1 > FreeAttempts /\ a.attempt_count + 1 <= Horizon
                      THEN now + Backoff[a.attempt_count + 1] ELSE a.timeout_to
<1>1. now \in Nat
  BY DEF TypeOK
<1>2. ASSUME NEW a \in LoginAttempt
      PROVE  Logged(a) \in LoginAttempt
  <2> DEFINE n == a.attempt_count + 1
  <2>1. n \in Nat /\ a.timeout_to \in Nat
    BY DEF LoginAttempt
  <2>2. n > FreeAttempts /\ n <= Horizon => Backoff[n] \in Nat
    BY <2>1, HorizonAssumption, BackoffAssumption
  <2> HIDE DEF n
  <2>3. (IF n > FreeAttempts /\ n <= Horizon THEN now + Backoff[n] ELSE a.timeout_to) \in Nat
    BY <1>1, <2>1, <2>2
  <2> USE DEF n
  <2> QED BY <2>1, <2>3 DEF Logged, LoginAttempt
<1> QED BY <1>1, <1>2 DEF NewAttempt, Logged, LoginAttempt

\* A well typed state in which every object a login holds is found.
LEMMA FoundInductive ==
    ASSUME TypeOK, Found, [Next]_vars
    PROVE  TypeOK' /\ Found'
<1>1. ASSUME NEW r \in Requests, NEW ip \in IPs, Arrive(r, ip)
      PROVE  TypeOK' /\ Found'
  <2> DEFINE next == [pc |-> IF Missing(ip) THEN "create" ELSE "lookup", ip |-> ip]
  <2>1. next \in Tasks
    BY DEF Tasks, InFlight
  <2>2. TypeOK' /\ task'[r] = next /\ \A q \in Requests \ {r} : task'[q] = task[q]
    BY <1>1, <2>1, ContinueTask DEF Arrive, TypeOK
  <2> QED BY <1>1, <2>2 DEF Arrive, Found, Missing, Created
<1>2. ASSUME NEW r \in Requests, Create(r)
      PROVE  TypeOK' /\ Found'
  <2> DEFINE ip == task[r].ip
  <2>1. ip \in IPs
    BY <1>2, TaskFields DEF Create, TypeOK
  <2>2. PICK i \in Instances :
            /\ attempts[i] = NoInstance
            /\ attempts' = [attempts EXCEPT ![i] = NewAttempt]
            /\ attempt_logger' = [attempt_logger EXCEPT ![ip] = i]
    BY <1>2 DEF Create
  <2>3. [pc |-> "lookup", ip |-> ip] \in Tasks
    BY <2>1 DEF Tasks, InFlight
  <2>4. /\ TypeOK'
        /\ task'[r] = [pc |-> "lookup", ip |-> ip]
        /\ \A q \in Requests \ {r} : task'[q] = task[q]
    BY <1>2, <2>1, <2>2, <2>3, ContinueTask, AttemptType DEF Create, TypeOK
  <2>5. \A j \in Instances : Created(j) \/ j = i => attempts'[j] \in LoginAttempt
    BY <2>2, AttemptType DEF TypeOK, Created
  <2>6. \A a \in IPs : attempt_logger'[a] # NoInstance => attempts'[attempt_logger'[a]] \in LoginAttempt
    BY <2>1, <2>2, <2>5 DEF Found, Created, TypeOK
  <2>7. ASSUME NEW q \in Requests
        PROVE  /\ task'[q].pc = "lookup" => attempt_logger'[task'[q].ip] # NoInstance
               /\ task'[q].pc \in {"check", "login"} => attempts'[task'[q].inst] \in LoginAttempt
    <3>1. task[q] \in Tasks
      BY DEF TypeOK
    <3> QED BY <2>1, <2>2, <2>4, <2>5, <3>1, TaskFields, NoInstanceAssumption
            DEF Found, Created, TypeOK
  <2> QED BY <2>4, <2>6, <2>7 DEF Found, Created
<1>3. ASSUME NEW r \in Requests, Lookup(r)
      PROVE  TypeOK' /\ Found'
  <2> DEFINE i == attempt_logger[task[r].ip]
  <2>1. i \in Instances /\ Created(i)
    BY <1>3, TaskFields DEF Lookup, TypeOK, Found
  <2>2. [pc |-> "check", inst |-> i] \in Tasks
    BY <2>1 DEF Tasks, InFlight
  <2>3. /\ TypeOK'
        /\ task'[r] = [pc |-> "check", inst |-> i]
        /\ \A q \in Requests \ {r} : task'[q] = task[q]
    BY <1>3, <2>2, ContinueTask DEF Lookup, TypeOK
  <2> QED BY <1>3, <2>1, <2>3 DEF Lookup, Found, Created
<1>4. ASSUME NEW r \in Requests, Check(r)
      PROVE  TypeOK' /\ Found'
  <2> DEFINE i == task[r].inst
  <2>1. i \in Instances /\ Created(i)
    BY <1>4, TaskFields DEF Check, TypeOK, Found
  <2>2. [pc |-> "login", inst |-> i] \in Tasks
    BY <2>1 DEF Tasks, InFlight
  <2>3. /\ TypeOK'
        /\ task'[r] = [pc |-> "login", inst |-> i] \/ task'[r] = Done(429)
        /\ \A q \in Requests \ {r} : task'[q] = task[q]
    BY <1>4, <2>2, ContinueTask, DoneType DEF Check, TypeOK
  <2> QED BY <1>4, <2>1, <2>3, DoneType DEF Check, Found, Created
<1>5. ASSUME NEW r \in Requests, Refuse(r) \/ Grant(r) \/ Fail(r)
      PROVE  TypeOK' /\ Found'
  <2> DEFINE i == task[r].inst
  <2>1. i \in Instances /\ Created(i)
    BY <1>5, TaskFields DEF Refuse, Grant, Fail, TypeOK, Found
  <2>2. /\ task' \in [Requests -> Tasks]
        /\ task'[r].pc = "done"
        /\ \A q \in Requests \ {r} : task'[q] = task[q]
    BY <1>5, ContinueTask, DoneType DEF Refuse, Grant, Fail
  <2>3. \/ attempts' = [attempts EXCEPT ![i] = Logged(attempts[i])]
        \/ attempts' = [attempts EXCEPT ![i] = NewAttempt]
        \/ attempts' = attempts
    BY <1>5 DEF Refuse, Grant, Fail
  <2>4. /\ attempts' \in [Instances -> LoginAttempt \cup {NoInstance}]
        /\ \A j \in Instances : Created(j) => Created(j)'
    BY <2>1, <2>3, AttemptType DEF TypeOK, Created
  <2>5. attempt_logger' = attempt_logger /\ now' = now
    BY <1>5 DEF Refuse, Grant, Fail
  <2>6. TypeOK'
    BY <2>2, <2>4, <2>5 DEF TypeOK
  <2>7. \A a \in IPs : attempt_logger'[a] # NoInstance => attempts'[attempt_logger'[a]] \in LoginAttempt
    BY <2>4, <2>5 DEF Found, TypeOK, Created
  <2>8. ASSUME NEW q \in Requests
        PROVE  /\ task'[q].pc = "lookup" => attempt_logger'[task'[q].ip] # NoInstance
               /\ task'[q].pc \in {"check", "login"} => attempts'[task'[q].inst] \in LoginAttempt
    <3>1. task[q] \in Tasks
      BY DEF TypeOK
    <3> QED BY <2>2, <2>4, <2>5, <3>1, TaskFields DEF Found, Created
  <2> QED BY <2>6, <2>7, <2>8 DEF Found, Created
<1>6. CASE Tick \/ UNCHANGED vars
  BY <1>6 DEF Tick, vars, TypeOK, Found, Created
<1> QED BY <1>1, <1>2, <1>3, <1>4, <1>5, <1>6 DEF Next, Proceed

\* Every login of RateLimit keeps every variable in its type, and finds the
\* object it was promised.
THEOREM TypeCorrect == Spec => [](TypeOK /\ Found)
<1>1. Init => TypeOK /\ Found
  BY DEF Init, TypeOK, Found, Tasks, Idle
<1> QED BY <1>1, FoundInductive, PTL DEF Spec

\* The state of an object changes in one of these ways, and no other.
Stays(i) == attempts'[i] = attempts[i]
Counts(i) == attempts'[i] = Logged(attempts[i]) /\ now' = now
Starts(i) == attempts'[i] = NewAttempt /\ now' = now

\* Who changes an object, and how.
LEMMA AttemptSteps ==
    ASSUME TypeOK, Found, [Next]_vars, NEW i \in Instances
    PROVE  /\ now' \in Nat /\ now <= now'
           /\ \/ Stays(i)
              \/ (\E r \in Requests : Create(r)) /\ Starts(i) /\ ~Created(i)
              \/ \E r \in Requests : Refuse(r) /\ task[r].inst = i /\ Counts(i)
              \/ \E r \in Requests : Grant(r) /\ task[r].inst = i /\ Starts(i)
<1>1. ASSUME NEW r \in Requests, Create(r)
      PROVE  now' = now /\ (Stays(i) \/ (Starts(i) /\ ~Created(i)))
  BY <1>1, NotAnAttemptAssumption DEF Create, TypeOK, Stays, Starts, Created
<1>2. ASSUME NEW r \in Requests, Refuse(r)
      PROVE  now' = now /\ (Stays(i) \/ (task[r].inst = i /\ Counts(i)))
  BY <1>2 DEF Refuse, TypeOK, Stays, Counts
<1>3. ASSUME NEW r \in Requests, Grant(r)
      PROVE  now' = now /\ (Stays(i) \/ (task[r].inst = i /\ Starts(i)))
  BY <1>3 DEF Grant, TypeOK, Stays, Starts
<1>4. ASSUME NEW r \in Requests, Lookup(r) \/ Check(r) \/ Fail(r)
      PROVE  now' = now /\ Stays(i)
  BY <1>4 DEF Lookup, Check, Fail, Stays
<1>5. ASSUME NEW r \in Requests, NEW ip \in IPs, Arrive(r, ip)
      PROVE  now' = now /\ Stays(i)
  BY <1>5 DEF Arrive, Stays
<1>6. Tick => now' = now + 1 /\ Stays(i)
  BY DEF Tick, Stays
<1>7. UNCHANGED vars => now' = now /\ Stays(i)
  BY DEF vars, Stays
<1>8. now \in Nat
  BY DEF TypeOK
<1> QED BY <1>1, <1>2, <1>3, <1>4, <1>5, <1>6, <1>7, <1>8 DEF Next, Proceed

-----------------------------------------------------------------------------
(* Locks.                                                                  *)

\* Delay does not decrease.
LEMMA DelayGrows ==
    ASSUME NEW m \in Nat, NEW n \in Nat, m <= n
    PROVE  Delay(m) \in Nat /\ Delay(m) <= Delay(n)
<1>1. m <= Horizon => m \in 0..Horizon
  BY HorizonAssumption
<1>2. n <= Horizon => n \in 0..Horizon
  BY HorizonAssumption
<1>3. Horizon \in 0..Horizon
  BY HorizonAssumption
<1> QED BY <1>1, <1>2, <1>3, HorizonAssumption, BackoffAssumption DEF Delay

\* The lock of an object reaches as far as its count asks for, and no further
\* from now.
Lock(i) ==
    LET a == attempts[i]
        d == IF a.attempt_count > FreeAttempts THEN Delay(a.attempt_count) ELSE 0
    IN  Created(i) => d <= a.timeout_to /\ a.timeout_to <= now + d

Locks == \A i \in Instances : Lock(i)

\* One more failure moves the lock on, or leaves it at the horizon.
LEMMA CountLocks ==
    ASSUME TypeOK, NEW i \in Instances, Created(i), Lock(i), Counts(i)
    PROVE  /\ Lock(i)'
           /\ attempts[i].timeout_to <= attempts'[i].timeout_to
<1> DEFINE a == attempts[i]
           n == a.attempt_count + 1
           d == IF a.attempt_count > FreeAttempts THEN Delay(a.attempt_count) ELSE 0
<1>1. a \in LoginAttempt /\ a.attempt_count \in Nat /\ a.timeout_to \in Nat /\ now \in Nat
  BY DEF Created, LoginAttempt, TypeOK
<1>2. /\ d \in Nat /\ d <= a.timeout_to /\ a.timeout_to <= now + d
      /\ d <= Delay(n) /\ Delay(n) \in Nat
  BY <1>1, DelayGrows DEF Lock
<1>3. /\ attempts'[i] \in LoginAttempt
      /\ attempts'[i].attempt_count = n
      /\ attempts'[i].timeout_to =
            IF n > FreeAttempts /\ n <= Horizon THEN now + Backoff[n] ELSE a.timeout_to
      /\ now' = now
  BY <1>1, AttemptType DEF Counts
<1>4. CASE n > FreeAttempts /\ n <= Horizon
  <2>1. attempts'[i].timeout_to = now + Delay(n)
    BY <1>3, <1>4 DEF Delay
  <2>2. Delay(n) <= attempts'[i].timeout_to /\ a.timeout_to <= attempts'[i].timeout_to
    BY <1>1, <1>2, <2>1
  <2>3. Delay(n) = Backoff[n] /\ Backoff[n] \in Nat
    BY <1>2, <1>4 DEF Delay
  <2> HIDE DEF n
  <2>4. Lock(i)'
    BY <1>1, <1>3, <1>4, <2>1, <2>2, <2>3 DEF Lock, Delay
  <2> QED BY <2>2, <2>4
<1>5. CASE n > Horizon
  <2>1. Delay(n) = Backoff[Horizon] /\ a.attempt_count >= Horizon
    BY <1>1, <1>5, HorizonAssumption DEF Delay
  <2>2. Delay(a.attempt_count) = Backoff[Horizon]
    BY <1>1, <2>1, HorizonAssumption DEF Delay
  <2>3. d = Delay(n)
    BY <1>1, <2>1, <2>2, HorizonAssumption
  <2>4. n > FreeAttempts /\ attempts'[i].timeout_to = a.timeout_to
    BY <1>1, <1>3, <1>5, HorizonAssumption
  <2> HIDE DEF d, n
  <2>5. Delay(n) <= attempts'[i].timeout_to /\ attempts'[i].timeout_to <= now + Delay(n)
    BY <1>2, <2>3, <2>4
  <2> QED BY <1>1, <1>3, <2>4, <2>5 DEF Lock, Delay
<1>6. CASE n <= FreeAttempts
  <2>1. d = 0 /\ attempts'[i].timeout_to = a.timeout_to /\ ~(n > FreeAttempts)
    BY <1>1, <1>3, <1>6, HorizonAssumption
  <2> HIDE DEF d, n
  <2> QED BY <1>1, <1>2, <1>3, <2>1 DEF Lock
<1> QED BY <1>1, <1>4, <1>5, <1>6, HorizonAssumption

\* A new or cleared object is not locked.
LEMMA StartLocks ==
    ASSUME TypeOK, NEW i \in Instances, Starts(i)
    PROVE  Lock(i)'
<1>1. attempts'[i].attempt_count = 0 /\ attempts'[i].timeout_to = now /\ now' = now
  BY AttemptType DEF Starts
<1>2. now \in Nat
  BY DEF TypeOK
<1>3. ~(attempts'[i].attempt_count > FreeAttempts)
  BY <1>1, HorizonAssumption
<1> QED BY <1>1, <1>2, <1>3 DEF Lock

\* Every step keeps every lock in its place.
LEMMA LocksInductive ==
    ASSUME TypeOK, Found, Locks, [Next]_vars
    PROVE  Locks'
<1> SUFFICES ASSUME NEW i \in Instances
             PROVE  Lock(i)'
  BY DEF Locks
<1>1. CASE Stays(i)
  <2> DEFINE a == attempts[i]
             d == IF a.attempt_count > FreeAttempts THEN Delay(a.attempt_count) ELSE 0
  <2>1. SUFFICES ASSUME Created(i)
                 PROVE  d <= a.timeout_to /\ a.timeout_to <= now' + d
    BY <1>1 DEF Stays, Lock, Created, Delay
  <2>2. d \in Nat /\ a.timeout_to \in Nat /\ now \in Nat /\ now' \in Nat /\ now <= now'
    BY <2>1, AttemptSteps, DelayGrows DEF Created, LoginAttempt, TypeOK
  <2>3. d <= a.timeout_to /\ a.timeout_to <= now + d
    BY <2>1 DEF Locks, Lock
  <2> HIDE DEF d
  <2> QED BY <2>2, <2>3
<1>2. CASE \E r \in Requests : Refuse(r) /\ task[r].inst = i /\ Counts(i)
  BY <1>2, CountLocks DEF Locks, Found, Refuse
<1> QED BY <1>1, <1>2, AttemptSteps, StartLocks

\* After every step, the lock of a LoginAttempt reaches as far as its count
\* asks for and no further.
THEOREM LocksHold == Spec => []Locks
<1>1. Init => Locks
  BY NotAnAttemptAssumption DEF Init, Locks, Lock, Created
<1> QED BY <1>1, LocksInductive, TypeCorrect, PTL DEF Spec

\* Failures that are counted late move a lock further away; only a login that
\* succeeds shortens it.
THEOREM OnlySuccessOpens == Spec => OnlySuccessShortens
<1>1. TypeOK /\ Found /\ Locks /\ [Next]_vars =>
        \A i \in Instances :
            Created(i) /\ attempts'[i].timeout_to < attempts[i].timeout_to
            => \E r \in Requests : task[r].pc = "login" /\ task'[r] = Done(200)
  <2> SUFFICES ASSUME TypeOK, Found, Locks, [Next]_vars, NEW i \in Instances,
                      Created(i), attempts'[i].timeout_to < attempts[i].timeout_to
               PROVE  \E r \in Requests : task[r].pc = "login" /\ task'[r] = Done(200)
    OBVIOUS
  <2>1. attempts[i].timeout_to \in Nat
    BY DEF Created, LoginAttempt
  <2>2. ~Stays(i)
    BY <2>1 DEF Stays
  <2>3. ASSUME NEW r \in Requests, Refuse(r), Counts(i)
        PROVE  FALSE
    <3>1. attempts'[i].timeout_to \in Nat
      BY <2>3, AttemptType DEF Counts, Created, LoginAttempt
    <3> QED BY <2>1, <2>3, <3>1, CountLocks DEF Locks
  <2>4. PICK r \in Requests : Grant(r)
    BY <2>2, <2>3, AttemptSteps
  <2> QED BY <2>4, ContinueTask DEF Grant
<1> QED BY <1>1, TypeCorrect, LocksHold, PTL DEF Spec, OnlySuccessShortens

-----------------------------------------------------------------------------
(* Back-off.                                                               *)

\* There is no more in flight than there are slots.
LEMMA PendingCount ==
    ASSUME NEW S \in SUBSET Requests
    PROVE  /\ IsFiniteSet(S)
           /\ Cardinality(S) \in Nat /\ Cardinality(Requests) \in Nat
           /\ Cardinality(S) <= Cardinality(Requests)
BY RequestsAssumption, FS_Subset, FS_CardinalityType

\* The failures of an object beyond one for each slot, those in flight included.
Excess(i) == attempts[i].attempt_count + Cardinality(Pending(i)) - Cardinality(Requests)

\* However many logins overlap, a count that is more than one login per slot
\* beyond n has been given the seconds that n failures cost.
THEOREM BackoffHolds == Spec => []GuessesAreBounded
<1> DEFINE Waited(i) == Created(i) /\ Excess(i) > FreeAttempts => Delay(Excess(i)) < now
<1>1. GuessesAreBounded <=> \A i \in Instances : Waited(i)
  BY DEF GuessesAreBounded, Excess
<1>2. Init => GuessesAreBounded
  BY NotAnAttemptAssumption DEF Init, GuessesAreBounded, Created
<1>3. TypeOK /\ Found /\ Locks /\ GuessesAreBounded /\ [Next]_vars => GuessesAreBounded'
  <2> SUFFICES ASSUME TypeOK, Found, Locks, GuessesAreBounded, [Next]_vars,
                      NEW i \in Instances, Created(i)', Excess(i)' > FreeAttempts
               PROVE  Delay(Excess(i)') < now'
    BY DEF GuessesAreBounded, Excess, Delay
  <2> DEFINE a == attempts[i]
  <2>1. Pending(i) \in SUBSET Requests /\ Pending(i)' \in SUBSET Requests
    BY DEF Pending
  <2>2. /\ Cardinality(Pending(i)) \in Nat /\ Cardinality(Pending(i)') \in Nat
        /\ Cardinality(Requests) \in Nat
        /\ Cardinality(Pending(i)') <= Cardinality(Requests)
        /\ IsFiniteSet(Pending(i))
    BY <2>1, PendingCount
  <2>3. now \in Nat /\ now' \in Nat /\ now <= now'
    BY AttemptSteps DEF TypeOK
  <2>4. ~Starts(i)
    <3>1. Starts(i) => attempts'[i].attempt_count = 0
      BY AttemptType DEF Starts
    <3>2. Starts(i) => Excess(i)' <= 0
      BY <2>2, <3>1 DEF Excess
    <3>3. Starts(i) => Excess(i)' \in Int
      BY <2>2, <3>1 DEF Excess
    <3> QED BY <3>2, <3>3, HorizonAssumption
  <2>5. Created(i)
    BY <2>4, AttemptSteps DEF Stays, Created, Found, Refuse
  <2>6. a.attempt_count \in Nat /\ a.timeout_to \in Nat
    BY <2>5 DEF Created, LoginAttempt
  <2>7. Excess(i) \in Int
    BY <2>2, <2>6 DEF Excess
  <2>8. Excess(i) > FreeAttempts => Delay(Excess(i)) < now
    BY <2>5 DEF GuessesAreBounded, Excess
  <2>9. ASSUME Excess(i)' <= Excess(i), Excess(i)' \in Int
        PROVE  Delay(Excess(i)') < now'
    <3>1. Excess(i)' \in Nat /\ Excess(i) \in Nat /\ Excess(i) > FreeAttempts
      BY <2>7, <2>9, HorizonAssumption
    <3>2. /\ Delay(Excess(i)') \in Nat /\ Delay(Excess(i)) \in Nat
          /\ Delay(Excess(i)') <= Delay(Excess(i))
      BY <2>9, <3>1, DelayGrows
    <3> QED BY <2>3, <2>8, <3>1, <3>2
  <2>10. CASE \E r \in Requests : Refuse(r) /\ task[r].inst = i /\ Counts(i)
    <3>1. PICK r \in Requests : Refuse(r) /\ task[r].inst = i /\ Counts(i)
      BY <2>10
    <3>2. attempts'[i].attempt_count = a.attempt_count + 1
      BY <2>5, <3>1, AttemptType DEF Counts, Created
    <3>3. r \in Pending(i) /\ Pending(i)' = Pending(i) \ {r}
      <4>1. task'[r].pc = "done" /\ \A q \in Requests \ {r} : task'[q] = task[q]
        BY <3>1, ContinueTask, DoneType DEF Refuse
      <4> QED BY <3>1, <4>1 DEF Pending, Refuse
    <3>4. Cardinality(Pending(i)') = Cardinality(Pending(i)) - 1
      BY <2>2, <3>3, FS_RemoveElement
    <3>5. Excess(i)' = Excess(i)
      BY <2>2, <2>6, <3>2, <3>4 DEF Excess
    <3> QED BY <2>7, <2>9, <3>5
  <2>11. CASE Stays(i)
    <3>1. attempts'[i].attempt_count = a.attempt_count
      BY <2>11 DEF Stays
    <3>2. CASE Pending(i)' \in SUBSET Pending(i)
      <4>1. Cardinality(Pending(i)') <= Cardinality(Pending(i))
        BY <2>2, <3>2, FS_Subset
      <4>2. Excess(i)' <= Excess(i) /\ Excess(i)' \in Int
        BY <2>2, <2>6, <3>1, <4>1 DEF Excess
      <4> QED BY <2>9, <4>2
    <3>3. CASE \E r \in Requests : Check(r) /\ task[r].inst = i /\ Open(a)
      <4>1. a.timeout_to < now
        BY <3>3 DEF Open
      <4>2. Excess(i)' <= a.attempt_count /\ Excess(i)' \in Int
        BY <2>2, <2>6, <3>1 DEF Excess
      <4>3. Excess(i)' \in Nat /\ a.attempt_count > FreeAttempts
        BY <2>6, <4>2, HorizonAssumption
      <4>4. Delay(a.attempt_count) <= a.timeout_to
        BY <2>5, <4>3 DEF Locks, Lock
      <4>5. /\ Delay(Excess(i)') <= Delay(a.attempt_count)
            /\ Delay(Excess(i)') \in Nat /\ Delay(a.attempt_count) \in Nat
        BY <2>6, <4>2, <4>3, DelayGrows
      <4> QED BY <2>3, <2>6, <4>1, <4>4, <4>5
    <3>4. \/ Pending(i)' \in SUBSET Pending(i)
          \/ \E r \in Requests : Check(r) /\ task[r].inst = i /\ Open(a)
      <4> SUFFICES ASSUME NEW q \in Requests, task'[q].pc = "login", task'[q].inst = i,
                          task'[q] # task[q]
                   PROVE  Check(q) /\ task[q].inst = i /\ Open(a)
        BY DEF Pending
      <4>1. ASSUME NEW r \in Requests, NEW next, Continue(r, next), next.pc # "login"
            PROVE  FALSE
        BY <4>1, ContinueTask
      <4>2. ASSUME NEW r \in Requests, NEW ip \in IPs, Arrive(r, ip)
            PROVE  FALSE
        BY <4>1, <4>2 DEF Arrive
      <4>3. ASSUME NEW r \in Requests, Create(r) \/ Lookup(r)
            PROVE  FALSE
        BY <4>1, <4>3 DEF Create, Lookup
      <4>4. ASSUME NEW r \in Requests, Refuse(r) \/ Grant(r) \/ Fail(r)
            PROVE  FALSE
        BY <4>1, <4>4, DoneType DEF Refuse, Grant, Fail
      <4>5. ~Tick /\ ~UNCHANGED vars
        BY DEF Tick, vars
      <4>6. PICK r \in Requests : Check(r)
        BY <4>2, <4>3, <4>4, <4>5 DEF Next, Proceed
      <4>7. r = q
        BY <4>6, ContinueTask DEF Check
      <4> QED BY <4>6, <4>7, ContinueTask, DoneType DEF Check
    <3> QED BY <3>2, <3>3, <3>4
  <2> QED BY <2>4, <2>10, <2>11, AttemptSteps
<1> QED BY <1>2, <1>3, TypeCorrect, LocksHold, PTL DEF Spec

-----------------------------------------------------------------------------
(* The number of objects.                                                  *)

Known == {ip \in IPs : attempt_logger[ip] # NoInstance}

Constructed == {i \in Instances : Created(i)}

\* The logins that found their address unknown, though it is known by now:
\* each of them is going to construct one more object.
Late == {r \in Requests : task[r].pc = "create" /\ task[r].ip \in Known}

\* CountersAreFew with the objects that are still to come.
FewInv ==
    /\ IsFiniteSet(Known)
    /\ IsFiniteSet(Constructed)
    /\ Cardinality(Constructed) + Cardinality(Late) <= Cardinality(Known) * Cardinality(Requests)

\* Only the construction of an object makes more of them, or more addresses
\* known; and a login is late from the start only if its address is unknown.
LEMMA NothingNew ==
    ASSUME TypeOK, Found, [Next]_vars, ~(\E r \in Requests : Create(r))
    PROVE  Known' = Known /\ Constructed' = Constructed /\ Late' \subseteq Late
<1>1. attempt_logger' = attempt_logger
  BY DEF Next, Proceed, Arrive, Lookup, Check, Refuse, Grant, Fail, Tick, vars
<1>2. Known' = Known
  BY <1>1 DEF Known
<1>3. \A i \in Instances : Created(i)' <=> Created(i)
  <2>1. ASSUME NEW i \in Instances
        PROVE  Created(i)' <=> Created(i)
    <3>1. CASE Stays(i)
      BY <3>1 DEF Stays, Created
    <3>2. CASE \E r \in Requests : Refuse(r) /\ task[r].inst = i /\ Counts(i)
      BY <3>2, AttemptType DEF Refuse, Found, Counts, Created
    <3>3. CASE \E r \in Requests : Grant(r) /\ task[r].inst = i /\ Starts(i)
      BY <3>3, AttemptType DEF Grant, Found, Starts, Created
    <3> QED BY <3>1, <3>2, <3>3, AttemptSteps
  <2> QED BY <2>1
<1>4. Constructed' = Constructed
  BY <1>3 DEF Constructed
<1>5. ASSUME NEW q \in Requests, q \in Late'
      PROVE  q \in Late
  <2> SUFFICES ASSUME task'[q] # task[q]
               PROVE  FALSE
    BY <1>2, <1>5 DEF Late
  <2>1. task'[q].pc = "create" /\ task'[q].ip \in Known
    BY <1>2, <1>5 DEF Late
  <2>2. ASSUME NEW r \in Requests, NEW next, Continue(r, next), next.pc # "create"
        PROVE  FALSE
    BY <2>1, <2>2, ContinueTask
  <2>3. ASSUME NEW r \in Requests, NEW ip \in IPs, Arrive(r, ip)
        PROVE  FALSE
    <3>1. task'[q] = [pc |-> IF Missing(ip) THEN "create" ELSE "lookup", ip |-> ip]
      BY <2>3, ContinueTask DEF Arrive
    <3> QED BY <2>1, <3>1 DEF Known, Missing
  <2>4. ASSUME NEW r \in Requests, Lookup(r)
        PROVE  FALSE
    BY <2>2, <2>4 DEF Lookup
  <2>5. ASSUME NEW r \in Requests, Check(r) \/ Refuse(r) \/ Grant(r) \/ Fail(r)
        PROVE  FALSE
    BY <2>2, <2>5, DoneType DEF Check, Refuse, Grant, Fail
  <2> QED BY <2>3, <2>4, <2>5 DEF Next, Proceed, Tick, vars
<1> QED BY <1>2, <1>4, <1>5 DEF Late

\* The object that a login constructs is new, and the login is not late any
\* more; those that overlap it may have become late.
LEMMA OneMore ==
    ASSUME TypeOK, NEW r \in Requests, Create(r)
    PROVE  /\ task[r].ip \in IPs
           /\ Known' = Known \cup {task[r].ip}
           /\ \E i \in Instances : i \notin Constructed /\ Constructed' = Constructed \cup {i}
           /\ task[r].ip \in Known => r \in Late /\ Late' = Late \ {r}
           /\ Late' \subseteq Requests \ {r}
           /\ Late \subseteq Late' \cup {r}
<1> DEFINE ip == task[r].ip
<1>1. ip \in IPs /\ task[r].pc = "create"
  BY TaskFields DEF Create, TypeOK
<1>2. PICK i \in Instances :
          /\ attempts[i] = NoInstance
          /\ attempts' = [attempts EXCEPT ![i] = NewAttempt]
          /\ attempt_logger' = [attempt_logger EXCEPT ![ip] = i]
  BY DEF Create
<1>3. task'[r].pc = "lookup" /\ \A q \in Requests \ {r} : task'[q] = task[q]
  BY ContinueTask DEF Create
<1>4. Known' = Known \cup {ip}
  BY <1>1, <1>2, NoInstanceAssumption DEF Known, TypeOK
<1>5. i \notin Constructed /\ Constructed' = Constructed \cup {i}
  BY <1>2, AttemptType, NotAnAttemptAssumption DEF Constructed, Created, TypeOK
<1> QED BY <1>1, <1>3, <1>4, <1>5 DEF Late

\* However many logins overlap, no address is given more counters than there
\* are slots: a failure can be counted on a counter that nobody asks any more
\* only while the very first logins of an address overlap.
THEOREM FewCounters == Spec => []CountersAreFew
<1> DEFINE n == Cardinality(Requests)
<1>1. n \in Nat
  BY PendingCount
<1>2. Init => FewInv
  <2> SUFFICES ASSUME Init
               PROVE  FewInv
    OBVIOUS
  <2>1. Known = {} /\ Constructed = {} /\ Late = {}
    BY NotAnAttemptAssumption DEF Init, Known, Constructed, Created, Late, Idle
  <2> QED BY <1>1, <2>1, FS_EmptySet DEF FewInv
<1>3. TypeOK /\ Found /\ FewInv /\ [Next]_vars => FewInv'
  <2> SUFFICES ASSUME TypeOK, Found, FewInv, [Next]_vars
               PROVE  FewInv'
    OBVIOUS
  <2> DEFINE k == Cardinality(Known)
             c == Cardinality(Constructed)
             l == Cardinality(Late)
  <2>1. k \in Nat /\ c \in Nat /\ l \in Nat /\ IsFiniteSet(Late) /\ c + l <= k * n
    BY FS_CardinalityType, PendingCount DEF FewInv, Late
  <2>2. CASE ~\E r \in Requests : Create(r)
    <3>1. Known' = Known /\ Constructed' = Constructed /\ Late' \subseteq Late
      BY <2>2, NothingNew
    <3>2. Cardinality(Late') \in Nat /\ Cardinality(Late') <= l
      BY <2>1, <3>1, FS_Subset, FS_CardinalityType
    <3> QED BY <1>1, <2>1, <3>1, <3>2 DEF FewInv
  <2>3. ASSUME NEW r \in Requests, Create(r)
        PROVE  FewInv'
    <3> DEFINE ip == task[r].ip
    <3>1. /\ Known' = Known \cup {ip}
          /\ ip \in Known => r \in Late /\ Late' = Late \ {r}
          /\ Late' \subseteq Requests \ {r}
      BY <2>3, OneMore
    <3>2. PICK i \in Instances : i \notin Constructed /\ Constructed' = Constructed \cup {i}
      BY <2>3, OneMore
    <3>3. IsFiniteSet(Constructed') /\ Cardinality(Constructed') = c + 1
      BY <2>1, <3>2, FS_AddElement DEF FewInv
    <3>4. IsFiniteSet(Known')
      BY <3>1, FS_AddElement DEF FewInv
    <3>5. CASE ip \in Known
      <4>1. Known' = Known /\ Cardinality(Late') = l - 1
        BY <2>1, <3>1, <3>5, FS_RemoveElement
      <4> QED BY <1>1, <2>1, <3>3, <3>4, <4>1 DEF FewInv
    <3>6. CASE ip \notin Known
      <4>1. Cardinality(Known') = k + 1
        BY <3>1, <3>6, FS_AddElement DEF FewInv
      <4>2. Cardinality(Requests \ {r}) = n - 1 /\ IsFiniteSet(Requests \ {r})
        BY RequestsAssumption, FS_RemoveElement
      <4>3. Cardinality(Late') \in Nat /\ Cardinality(Late') <= n - 1
        BY <3>1, <4>2, FS_Subset, FS_CardinalityType
      <4>4. (k + 1) * n = k * n + n /\ k * n \in Nat
        BY <1>1, <2>1
      <4>5. c + 1 + Cardinality(Late') <= k * n + n
        BY <1>1, <2>1, <4>3, <4>4
      <4> QED BY <3>3, <3>4, <4>1, <4>4, <4>5 DEF FewInv
    <3> QED BY <3>5, <3>6
  <2> QED BY <2>2, <2>3
<1>4. TypeOK /\ FewInv => CountersAreFew
  <2> SUFFICES ASSUME TypeOK, FewInv
               PROVE  CountersAreFew
    OBVIOUS
  <2>1. /\ Cardinality(Constructed) \in Nat /\ Cardinality(Known) * n \in Nat
        /\ Cardinality(Late) \in Nat
    BY <1>1, FS_CardinalityType, PendingCount DEF FewInv, Late
  <2>2. Cardinality(Constructed) <= Cardinality(Known) * n
    BY <2>1 DEF FewInv
  <2> QED BY <2>2 DEF CountersAreFew, Constructed, Known
<1> QED BY <1>2, <1>3, <1>4, TypeCorrect, PTL DEF Spec
=============================================================================
