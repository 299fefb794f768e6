---------------------------- MODULE Pipeline_proofs ----------------------------
(***************************************************************************)
(* Theorems about Failures and Pipeline, for any number of requests, any   *)
(* pool and any selection of requests and exceptions.                      *)
(***************************************************************************)
EXTENDS Pipeline, FiniteSetTheorems, TLAPS

-----------------------------------------------------------------------------
(* The exceptions of the code and their handlers.                          *)

\* A class that serving a request can raise has a handler exactly if the code
\* raises it itself or FastAPI answers it: what a library raises and nothing
\* here catches has none.  No handler answers 413 or 500 (exceptions.py,
\* exception_handlers.py, main.py).
THEOREM EveryRaiseIsHandled ==
    \A c \in Raised :
        /\ Handled(c) <=> c \notin Uncaught
        /\ Handled(c) => HandlerStatus(c) \in Nat \ {413, 500}
<1> SUFFICES ASSUME NEW c \in Raised
             PROVE  /\ Handled(c) <=> c \notin Uncaught
                    /\ Handled(c) => HandlerStatus(c) \in Nat \ {413, 500}
  OBVIOUS
<1>1. ASSUME c \in Foreseen
      PROVE  Handled(c) /\ HandlerStatus(c) \in Nat \ {413, 500}
  <2>1. CASE c \in {"InvalidCredentialsError", "EmailExistError", "RateLimitError",
                    "SessionInBlacklistError", "UserInactiveError", "InvalidTokenError",
                    "ExpiredTokenError", "RevokedTokenError"}
    <3>1. Family(c) = "AuthError"
      BY <2>1 DEF Family, Base, Parent
    <3>2. AuthStatus[c] \in Nat \ {413, 500}
      BY <2>1 DEF AuthStatus
    <3> QED BY <3>1, <3>2 DEF Handled, Registered, HandlerStatus
  <2>2. CASE c \in {"RefreshTokenNotFoundError", "ClientNotFoundError", "DeviceNotFoundError",
                    "ARESICONotFoundError", "InvoiceNotFoundError"}
    <3>1. Family(c) = "FakturoNotFoundError"
      BY <2>2 DEF Family, Base, Parent
    <3> QED BY <3>1 DEF Handled, Registered, HandlerStatus
  <2>3. CASE c = "InvoiceDeleteError"
    <3>1. Family(c) = "FakturoDeleteError"
      BY <2>3 DEF Family, Base, Parent
    <3> QED BY <3>1 DEF Handled, Registered, HandlerStatus
  <2>4. CASE c \in {"InvoiceConflict", "VersionDeprecationError"}
    <3>1. Family(c) = "FakturoConflictError"
      BY <2>4 DEF Family, Base, Parent
    <3> QED BY <3>1 DEF Handled, Registered, HandlerStatus
  <2>5. CASE c = "InvalidStatusChangeError"
    <3>1. Family(c) = "BusinessRuleError"
      BY <2>5 DEF Family, Base, Parent
    <3> QED BY <3>1 DEF Handled, Registered, HandlerStatus
  <2>6. CASE c \in {"ARESNotAvailableError", "HTTPException", "RequestValidationError"}
    <3>1. Family(c) = c
      BY <2>6 DEF Family, Base, Parent
    <3> QED BY <2>6, <3>1 DEF Handled, Registered, HandlerStatus
  <2> QED BY <1>1, <2>1, <2>2, <2>3, <2>4, <2>5, <2>6 DEF Foreseen
<1>2. ASSUME c \in Uncaught
      PROVE  ~Handled(c)
  <2>1. CASE c \in {"JSONDecodeError", "ValidationError"}
    <3>1. Family(c) = "ValueError"
      BY <2>1 DEF Family, Base, Parent
    <3> QED BY <3>1 DEF Handled, Registered
  <2>2. CASE c \in {"TimeoutError", "DBAPIError", "StaleDataError", "NoResultFound",
                    "InvalidRequestError", "RedisError"}
    <3>1. Family(c) = c
      BY <2>2 DEF Family, Base, Parent
    <3> QED BY <2>2, <3>1 DEF Handled, Registered
  <2>3. CASE c \in {"OperationalError", "OverflowError", "KeyError", "ValueError",
                    "LibraryError"}
    <3>1. Family(c) = c
      BY <2>3 DEF Family, Base, Parent
    <3> QED BY <2>3, <3>1 DEF Handled, Registered
  <2> QED BY <1>2, <2>1, <2>2, <2>3 DEF Uncaught
<1>3. c \in Foreseen => c \notin Uncaught
  BY DEF Foreseen, Uncaught
<1> QED BY <1>1, <1>2, <1>3 DEF Raised

\* The exceptions of the pool and of the middlewares are uncaught ones too.
LEMMA Failing ==
    /\ {"TimeoutError", "ValueError"} \subseteq Uncaught
    /\ Uncaught \subseteq Raised
    /\ Raisable \cup {"TimeoutError", "ValueError"} \subseteq Raised
    /\ NoError \notin Uncaught
<1>1. {"TimeoutError", "ValueError"} \subseteq Uncaught
  BY DEF Uncaught
<1>2. Uncaught \subseteq Raised
  BY DEF Raised
<1>3. Uncaught \subseteq Classes
  BY DEF Uncaught, Classes, Parent
<1> QED BY <1>1, <1>2, <1>3, PipelineAssumption

-----------------------------------------------------------------------------
(* The pool.                                                               *)

PCs == {"done", "running", "waiting", "raised", "failed", "streaming", "closing"}

\* The connections, those in use and those that wait in the pool together.
PoolInv ==
    /\ IsFiniteSet(held)
    /\ held \subseteq Requests
    /\ idle \in 0 .. PoolSize
    /\ Open <= PoolSize + MaxOverflow
    /\ pc \in [Requests -> PCs]
    /\ \A r \in held : pc[r] \in {"running", "raised", "streaming", "closing"}

\* A connection is taken from the pool, or made when the limit allows one more.
LEMMA Taking ==
    ASSUME PoolInv, NEW r \in Requests, r \notin held, Available, Take(r)
    PROVE  /\ IsFiniteSet(held')
           /\ held' = held \cup {r}
           /\ idle' \in 0 .. PoolSize
           /\ Open' <= PoolSize + MaxOverflow
<1>1. IsFiniteSet(held') /\ Cardinality(held') = Cardinality(held) + 1
  BY FS_AddElement DEF PoolInv, Take
<1>2. Cardinality(held) \in Nat
  BY FS_CardinalityType DEF PoolInv
<1>3. CASE idle > 0
  BY <1>1, <1>2, <1>3, PipelineAssumption DEF PoolInv, Take, Open
<1>4. CASE ~(idle > 0)
  BY <1>1, <1>2, <1>4, PipelineAssumption DEF PoolInv, Take, Open, Available
<1> QED BY <1>3, <1>4

\* A connection goes back, or is closed when the pool has enough.
LEMMA Giving ==
    ASSUME PoolInv, NEW r \in Requests, Give(r)
    PROVE  /\ IsFiniteSet(held')
           /\ held' = held \ {r}
           /\ idle' \in 0 .. PoolSize
           /\ Open' <= PoolSize + MaxOverflow
<1>1. /\ IsFiniteSet(held')
      /\ Cardinality(held') = IF r \in held THEN Cardinality(held) - 1 ELSE Cardinality(held)
  BY FS_RemoveElement DEF PoolInv, Give
<1>2. Cardinality(held) \in Nat
  BY FS_CardinalityType DEF PoolInv
<1>3. CASE r \in held
  BY <1>1, <1>2, <1>3, PipelineAssumption DEF PoolInv, Give, Open
<1>4. CASE r \notin held
  BY <1>1, <1>2, <1>4, PipelineAssumption DEF PoolInv, Give, Open
<1> QED BY <1>3, <1>4

\* Most steps leave the pool alone.
LEMMA Keeping ==
    ASSUME PoolInv, KeepPool
    PROVE  /\ IsFiniteSet(held')
           /\ held' = held
           /\ idle' \in 0 .. PoolSize
           /\ Open' <= PoolSize + MaxOverflow
  BY DEF PoolInv, KeepPool, Open

\* The pool never has more connections than it may, and only requests that
\* are being handled hold one (database.py).
LEMMA PoolIsSound == Spec => []PoolInv
<1>1. Init => PoolInv
  <2> SUFFICES ASSUME Init PROVE PoolInv
    OBVIOUS
  <2>1. IsFiniteSet(held) /\ Cardinality(held) = 0
    BY FS_EmptySet DEF Init
  <2> QED BY <2>1, PipelineAssumption DEF Init, PoolInv, Open, PCs
<1>2. PoolInv /\ [Next]_vars => PoolInv'
  <2> SUFFICES ASSUME PoolInv, [Next]_vars
               PROVE  PoolInv'
    OBVIOUS
  <2>1. CASE UNCHANGED vars
    BY <2>1 DEF vars, PoolInv, Open
  <2>2. ASSUME NEW r \in Requests, Serve(r) \/ \E q \in Kinds : Arrive(r, q)
        PROVE  PoolInv'
    <3> USE DEF PCs
    <3>1. pc \in [Requests -> PCs] /\ held \subseteq Requests
      BY DEF PoolInv
    <3>2. SUFFICES
            ASSUME PoolInv
            PROVE  /\ IsFiniteSet(held')
                   /\ held' \subseteq held \cup {r}
                   /\ idle' \in 0 .. PoolSize
                   /\ Open' <= PoolSize + MaxOverflow
                   /\ \E c \in PCs :
                        /\ pc' = [pc EXCEPT ![r] = c]
                        /\ r \in held' => c \in {"running", "raised", "streaming", "closing"}
      BY <3>1 DEF PoolInv
    <3>3. r \in held => pc[r] \in {"running", "raised", "streaming", "closing"}
      BY DEF PoolInv
    <3>4. CASE Execute(r)
      <4>1. CASE r \in held
        BY <3>1, <3>3, <3>4, <4>1, Keeping DEF Execute
      <4>2. CASE r \notin held /\ Available
        BY <3>1, <3>4, <4>2, Taking DEF Execute
      <4>3. CASE r \notin held /\ ~Available
        BY <3>1, <3>4, <4>3, Keeping DEF Execute
      <4> QED BY <4>1, <4>2, <4>3
    <3>5. CASE Obtain(r)
      BY <3>1, <3>3, <3>5, Taking DEF Obtain
    <3>6. CASE Expire(r)
      BY <3>1, <3>6, Keeping DEF Expire
    <3>7. CASE Commit(r)
      BY <3>1, <3>7, Giving DEF Commit
    <3>8. CASE Raise(r)
      BY <3>1, <3>8, Keeping DEF Raise
    <3>9. CASE Unwind(r)
      BY <3>1, <3>9, Giving DEF Unwind
    <3>10. CASE AnswerFailure(r)
      BY <3>1, <3>3, <3>10, Keeping DEF AnswerFailure
    <3>11. CASE \E streams \in BOOLEAN : Respond(r, streams)
      BY <3>1, <3>11, Keeping DEF Respond
    <3>12. CASE EndStream(r)
      BY <3>1, <3>12, Keeping DEF EndStream
    <3>13. CASE Close(r)
      BY <3>1, <3>13, Giving DEF Close
    <3>14. CASE \E q \in Kinds : Arrive(r, q)
      <4>1. r \notin held
        BY <3>3, <3>14 DEF Arrive
      <4> QED BY <3>1, <3>14, <4>1, Keeping DEF Arrive
    <3> QED BY <2>2, <3>4, <3>5, <3>6, <3>7, <3>8, <3>9, <3>10, <3>11, <3>12, <3>13, <3>14
            DEF Serve
  <2> QED BY <2>1, <2>2 DEF Next
<1> QED BY <1>1, <1>2, PTL DEF Spec

\* Never more connections than create_async_engine allows, and none is left
\* behind by an exception, a cut stream or a timeout (database.py).
THEOREM PoolIsAccounted == Spec => []ConnectionsAccounted
<1>1. PoolInv => ConnectionsAccounted
  BY DEF PoolInv, ConnectionsAccounted
<1> QED BY <1>1, PoolIsSound, PTL

-----------------------------------------------------------------------------
(* The answers.                                                            *)

\* What can be said of a request q in state c, with failure f and answer a.
Sound(q, c, f, a) ==
    /\ a \in Answer
    /\ a.starts \in {0, 1}
    /\ c = "running" => a.starts = 0
    /\ c \in {"done", "streaming", "closing"} => a.starts = 1
    /\ c # "done" /\ a.starts = 1 => a.status = 200
    /\ a.starts = 0 => a.status = 0
    /\ c \in {"raised", "failed"} => f \in Raisable \cup {"TimeoutError"}
    /\ a.status = 500 => f \in Uncaught
    /\ c = "done" /\ f \in Uncaught => a.status \in {200, 500}
    /\ a.starts = 1 => (a.allows = "ours" <=> q.origin = "ours" /\ a.status \notin {413, 500})

AnswerInv ==
    /\ request \in [Requests -> Request]
    /\ pc \in [Requests -> PCs]
    /\ failure \in [Requests -> Raisable \cup {"TimeoutError", "ValueError", NoError}]
    /\ steps \in [Requests -> 0 .. MaxSteps]
    /\ answer \in [Requests -> Answer]
    /\ \A r \in Requests : Sound(request[r], pc[r], failure[r], answer[r])

\* What the middlewares answer themselves is sound, and what they pass on has
\* not been answered.
LEMMA Early ==
    ASSUME NEW q \in Request
    PROVE  Sound(q, IF Passes(q) THEN "running" ELSE "done", EarlyFailure(q), EarlyAnswer(q))
<1>1. /\ NoAnswer \in Answer
      /\ NoAnswer.starts = 0
      /\ NoAnswer.status = 0
  BY DEF NoAnswer, Answer
<1>2. q.origin \in {"none", "ours", "foreign", "no text"} /\ q.preflight \in BOOLEAN
  BY DEF Request
<1>3. ~Unreadable(q) => EarlyFailure(q) \notin Uncaught
  BY Failing DEF EarlyFailure
<1>4. CASE Unreadable(q)
  <2>1. EarlyAnswer(q) = Start(NoAnswer, 500, "none") /\ ~Passes(q)
    BY <1>4 DEF EarlyAnswer, Passes
  <2>2. /\ EarlyAnswer(q) \in Answer
        /\ EarlyAnswer(q).starts = 1
        /\ EarlyAnswer(q).status = 500
        /\ EarlyAnswer(q).allows = "none"
    BY <1>1, <2>1 DEF Start, Answer, NoAnswer
  <2>3. EarlyFailure(q) \in Uncaught
    BY <1>4, Failing DEF EarlyFailure
  <2> QED BY <2>1, <2>2, <2>3 DEF Sound
<1>5. CASE ~Unreadable(q) /\ TooLarge(q)
  <2>1. EarlyAnswer(q) = Start(NoAnswer, 413, "none") /\ ~Passes(q)
    BY <1>5 DEF EarlyAnswer, Passes
  <2>2. /\ EarlyAnswer(q) \in Answer
        /\ EarlyAnswer(q).starts = 1
        /\ EarlyAnswer(q).status = 413
        /\ EarlyAnswer(q).allows = "none"
    BY <1>1, <2>1 DEF Start, Answer, NoAnswer
  <2>3. EarlyFailure(q) \notin Uncaught
    BY <1>3, <1>5
  <2> QED BY <2>1, <2>2, <2>3 DEF Sound
<1>6. CASE ~Unreadable(q) /\ ~TooLarge(q) /\ Foreign(q)
  <2>1. EarlyAnswer(q) = Start(NoAnswer, 403, "none") /\ ~Passes(q)
    BY <1>6 DEF EarlyAnswer, Passes
  <2>2. /\ EarlyAnswer(q) \in Answer
        /\ EarlyAnswer(q).starts = 1
        /\ EarlyAnswer(q).status = 403
        /\ EarlyAnswer(q).allows = "none"
    BY <1>1, <2>1 DEF Start, Answer, NoAnswer
  <2> QED BY <1>3, <1>2, <1>6, <2>1, <2>2 DEF Sound, Foreign
<1>7. CASE ~Unreadable(q) /\ ~TooLarge(q) /\ ~Foreign(q) /\ Preflight(q)
  <2>1. EarlyAnswer(q) = Start(NoAnswer, 200, "ours") /\ ~Passes(q)
    BY <1>7 DEF EarlyAnswer, Passes
  <2>2. /\ EarlyAnswer(q) \in Answer
        /\ EarlyAnswer(q).starts = 1
        /\ EarlyAnswer(q).status = 200
        /\ EarlyAnswer(q).allows = "ours"
    BY <1>1, <2>1 DEF Start, Answer, NoAnswer
  <2> QED BY <1>3, <1>2, <1>7, <2>1, <2>2 DEF Sound, Preflight
<1>8. CASE Passes(q)
  BY <1>1, <1>8 DEF Sound, EarlyAnswer, Passes
<1> QED BY <1>4, <1>5, <1>6, <1>7, <1>8 DEF Passes

\* AnswerInv is inductive: each step keeps the answer of its request sound and
\* leaves the other requests alone.
LEMMA AnswersInv == Spec => []AnswerInv
<1>1. Init => AnswerInv
  <2> SUFFICES ASSUME Init PROVE AnswerInv
    OBVIOUS
  <2>1. NoAnswer \in Answer /\ NoAnswer.starts = 0 /\ Quiet \in Request /\ Quiet.origin = "none"
    BY DEF NoAnswer, Answer, Quiet, Request
  <2>2. /\ Start(NoAnswer, 200, "none") \in Answer
        /\ Start(NoAnswer, 200, "none").starts = 1
        /\ Start(NoAnswer, 200, "none").status = 200
        /\ Start(NoAnswer, 200, "none").allows = "none"
    BY DEF Start, Answer, NoAnswer
  <2>3. Sound(Quiet, "done", NoError, Start(NoAnswer, 200, "none"))
    BY <2>1, <2>2, Failing DEF Sound
  <2> QED BY <2>1, <2>2, <2>3, PipelineAssumption DEF Init, AnswerInv, PCs
<1>2. AnswerInv /\ [Next]_vars => AnswerInv'
  <2> SUFFICES ASSUME AnswerInv, [Next]_vars
               PROVE  AnswerInv'
    OBVIOUS
  <2>1. CASE UNCHANGED vars
    BY <2>1 DEF vars, AnswerInv
  <2>2. ASSUME NEW r \in Requests, Serve(r) \/ \E q \in Kinds : Arrive(r, q)
        PROVE  AnswerInv'
    <3>1. /\ request[r] \in Request /\ pc[r] \in PCs /\ answer[r] \in Answer
          /\ failure[r] \in Raisable \cup {"TimeoutError", "ValueError", NoError}
          /\ steps[r] \in 0 .. MaxSteps
          /\ Sound(request[r], pc[r], failure[r], answer[r])
      BY DEF AnswerInv
    <3>2. SUFFICES
            \E q \in Request, c \in PCs, f \in Raisable \cup {"TimeoutError", "ValueError", NoError},
               n \in 0 .. MaxSteps, a \in Answer :
                /\ request' = [request EXCEPT ![r] = q]
                /\ pc' = [pc EXCEPT ![r] = c]
                /\ failure' = [failure EXCEPT ![r] = f]
                /\ steps' = [steps EXCEPT ![r] = n]
                /\ answer' = [answer EXCEPT ![r] = a]
                /\ Sound(q, c, f, a)
      BY DEF AnswerInv
    <3>3. /\ request = [request EXCEPT ![r] = request[r]]
          /\ pc = [pc EXCEPT ![r] = pc[r]]
          /\ failure = [failure EXCEPT ![r] = failure[r]]
          /\ steps = [steps EXCEPT ![r] = steps[r]]
          /\ answer = [answer EXCEPT ![r] = answer[r]]
      BY DEF AnswerInv
    <3>4. CASE Execute(r)
      <4>1. steps[r] - 1 \in 0 .. MaxSteps
        BY <3>1, <3>4, PipelineAssumption DEF Execute
      <4>2. PICK c \in {pc[r], "waiting"} : pc' = [pc EXCEPT ![r] = c]
        BY <3>3, <3>4 DEF Execute
      <4>3. Sound(request[r], c, failure[r], answer[r]) /\ c \in PCs
        BY <3>1, <3>4, <4>2 DEF Execute, Sound, PCs
      <4> QED BY <3>1, <3>3, <3>4, <4>1, <4>2, <4>3 DEF Execute
    <3>5. CASE Obtain(r)
      <4> DEFINE c == IF answer[r].starts = 0 THEN "running" ELSE "streaming"
      <4>1. Sound(request[r], c, failure[r], answer[r]) /\ c \in PCs
        BY <3>1, <3>5 DEF Obtain, Sound, PCs
      <4> QED BY <3>1, <3>3, <3>5, <4>1 DEF Obtain
    <3>6. CASE Expire(r)
      <4>1. Sound(request[r], "raised", "TimeoutError", answer[r]) /\ "raised" \in PCs
        BY <3>1, <3>6 DEF Expire, Sound, PCs
      <4>2. 0 \in 0 .. MaxSteps
        BY PipelineAssumption
      <4> QED BY <3>1, <3>3, <3>6, <4>1, <4>2 DEF Expire
    <3>7. CASE Commit(r)
      BY <3>1, <3>3, <3>7 DEF Commit
    <3>8. CASE Raise(r)
      <4>1. PICK e \in Raisable : failure' = [failure EXCEPT ![r] = e]
        BY <3>8 DEF Raise
      <4>2. Sound(request[r], "raised", e, answer[r]) /\ "raised" \in PCs
        BY <3>1, <3>8 DEF Raise, Sound, PCs
      <4>3. 0 \in 0 .. MaxSteps
        BY PipelineAssumption
      <4> QED BY <3>1, <3>3, <3>8, <4>1, <4>2, <4>3 DEF Raise
    <3>9. CASE Unwind(r)
      <4>1. Sound(request[r], "failed", failure[r], answer[r]) /\ "failed" \in PCs
        BY <3>1, <3>9 DEF Unwind, Sound, PCs
      <4> QED BY <3>1, <3>3, <3>9, <4>1 DEF Unwind
    <3>10. CASE AnswerFailure(r)
      <4>1. failure[r] \in Raised
        BY <3>1, <3>10, Failing DEF AnswerFailure, Sound
      <4>2. "done" \in PCs /\ pc' = [pc EXCEPT ![r] = "done"]
            /\ UNCHANGED <<request, steps, failure>>
        BY <3>10 DEF AnswerFailure, PCs
      <4>3. CASE answer[r].starts > 0
        <5>1. Sound(request[r], "done", failure[r], answer[r])
          BY <3>1, <3>10, <4>3 DEF AnswerFailure, Sound
        <5>2. answer' = answer
          BY <3>10, <4>3 DEF AnswerFailure
        <5> QED BY <3>1, <3>3, <4>2, <5>1, <5>2
      <4>4. CASE ~(answer[r].starts > 0)
        <5> DEFINE a == IF Handled(failure[r])
                        THEN Start(NoAnswer, HandlerStatus(failure[r]), Allowed(request[r]))
                        ELSE Start(NoAnswer, 500, "none")
        <5>2. Allowed(request[r]) \in {"none", "ours"}
              /\ (Allowed(request[r]) = "ours" <=> request[r].origin = "ours")
          BY DEF AddsHeader, Allowed
        <5>3. a \in Answer /\ Sound(request[r], "done", failure[r], a)
          <6>1. CASE Handled(failure[r])
            <7>1. HandlerStatus(failure[r]) \in Nat \ {413, 500} /\ failure[r] \notin Uncaught
              BY <4>1, <6>1, EveryRaiseIsHandled
            <7>2. /\ a \in Answer /\ a.starts = 1
                  /\ a.status = HandlerStatus(failure[r])
                  /\ a.allows = Allowed(request[r])
              BY <5>2, <6>1, <7>1 DEF Start, Answer, NoAnswer
            <7> QED BY <5>2, <7>1, <7>2 DEF Sound
          <6>2. CASE ~Handled(failure[r])
            <7>1. failure[r] \in Uncaught
              BY <4>1, <6>2, EveryRaiseIsHandled
            <7>2. a \in Answer /\ a.starts = 1 /\ a.status = 500 /\ a.allows = "none"
              BY <6>2 DEF Start, Answer, NoAnswer
            <7> QED BY <7>1, <7>2 DEF Sound
          <6> QED BY <6>1, <6>2
        <5>4. answer' = [answer EXCEPT ![r] = a]
          BY <3>10, <4>4 DEF AnswerFailure
        <5> HIDE DEF a
        <5> QED BY <3>1, <3>3, <4>2, <5>3, <5>4
      <4> QED BY <4>3, <4>4
    <3>11. CASE \E streams \in BOOLEAN : Respond(r, streams)
      <4>1. PICK streams \in BOOLEAN : Respond(r, streams)
        BY <3>11
      <4> DEFINE a == Start(answer[r], 200, Allowed(request[r]))
                 c == IF streams THEN "streaming" ELSE "closing"
                 n == IF streams THEN steps[r] ELSE 0
      <4>2. answer[r].starts = 0
        BY <3>1, <4>1 DEF Respond, Sound
      <4>3. a \in Answer /\ Sound(request[r], c, failure[r], a)
        <5>1. Allowed(request[r]) \in {"none", "ours"}
          BY DEF AddsHeader, Allowed
        <5>2. /\ a \in Answer /\ a.starts = 1 /\ a.status = 200
              /\ a.allows = Allowed(request[r])
          BY <3>1, <4>2, <5>1 DEF Start, Answer
        <5> HIDE DEF a
        <5> QED BY <3>1, <4>1, <5>2 DEF Sound, AddsHeader, Allowed
      <4>4. c \in PCs /\ n \in 0 .. MaxSteps
        BY <3>1, PipelineAssumption DEF PCs
      <4>5. /\ answer' = [answer EXCEPT ![r] = a]
            /\ pc' = [pc EXCEPT ![r] = c]
            /\ steps' = [steps EXCEPT ![r] = n]
            /\ UNCHANGED <<request, failure>>
        BY <4>1 DEF Respond
      <4> HIDE DEF a, c, n
      <4> QED BY <3>1, <3>3, <4>3, <4>4, <4>5
    <3>12. CASE EndStream(r)
      <4>1. Sound(request[r], "closing", failure[r], answer[r]) /\ "closing" \in PCs
        BY <3>1, <3>12 DEF EndStream, Sound, PCs
      <4>2. 0 \in 0 .. MaxSteps
        BY PipelineAssumption
      <4> QED BY <3>1, <3>3, <3>12, <4>1, <4>2 DEF EndStream
    <3>13. CASE Close(r)
      <4>1. Sound(request[r], "done", failure[r], answer[r]) /\ "done" \in PCs
        BY <3>1, <3>13 DEF Close, Sound, PCs
      <4> QED BY <3>1, <3>3, <3>13, <4>1 DEF Close
    <3>14. CASE \E q \in Kinds : Arrive(r, q)
      <4> PICK q \in Kinds : Arrive(r, q)
        BY <3>14
      <4> DEFINE c == IF Passes(q) THEN "running" ELSE "done"
                 n == IF Passes(q) THEN MaxSteps ELSE steps[r]
      <4>1. q \in Request
        BY PipelineAssumption
      <4>2. Sound(q, c, EarlyFailure(q), EarlyAnswer(q))
        BY <4>1, Early
      <4>3. EarlyAnswer(q) \in Answer
        BY <4>2 DEF Sound
      <4>4. c \in PCs /\ n \in 0 .. MaxSteps
        BY <3>1, PipelineAssumption DEF PCs
      <4>5. /\ request' = [request EXCEPT ![r] = q]
            /\ pc' = [pc EXCEPT ![r] = c]
            /\ failure' = [failure EXCEPT ![r] = EarlyFailure(q)]
            /\ steps' = [steps EXCEPT ![r] = n]
            /\ answer' = [answer EXCEPT ![r] = EarlyAnswer(q)]
        <5>1. pc' = [pc EXCEPT ![r] = c] /\ steps' = [steps EXCEPT ![r] = n]
          BY DEF Arrive
        <5> QED BY <5>1 DEF Arrive
      <4>6. EarlyFailure(q) \in Raisable \cup {"TimeoutError", "ValueError", NoError}
        BY DEF EarlyFailure
      <4> HIDE DEF c, n
      <4> QED BY <4>1, <4>2, <4>3, <4>4, <4>5, <4>6
    <3> QED BY <2>2, <3>4, <3>5, <3>6, <3>7, <3>8, <3>9, <3>10, <3>11, <3>12, <3>13, <3>14
            DEF Serve
  <2> QED BY <2>1, <2>2 DEF Next
<1> QED BY <1>1, <1>2, PTL DEF Spec

\* Every reachable state of Pipeline is well typed.
THEOREM TypeCorrect == Spec => []TypeOK
<1>1. PoolInv /\ AnswerInv => TypeOK
  BY DEF PoolInv, AnswerInv, TypeOK, PCs
<1> QED BY <1>1, PoolIsSound, AnswersInv, PTL

\* A request is answered once, whatever raised when (middleware.py,
\* exception_handlers.py).
THEOREM OneAnswer == Spec => []AnsweredOnce
<1>1. AnswerInv => AnsweredOnce
  BY DEF AnswerInv, AnsweredOnce, Sound
<1> QED BY <1>1, AnswersInv, PTL

\* A page of ours can read every answer but 413 and 500, and no other page can
\* read any (CORSMiddleware inside MaxBodySize and inside the error answer).
THEOREM ReadableAnswers == Spec => []ReadableByOurs
<1>1. AnswerInv => ReadableByOurs
  BY DEF AnswerInv, ReadableByOurs, Sound
<1> QED BY <1>1, AnswersInv, PTL

\* 500 is the answer to what the libraries raise and nothing here catches, and
\* to nothing else; and such an exception has no other answer, unless a stream
\* had begun (main.py, middleware.py).
THEOREM NoForeseen500 == Spec => []OnlyUnforeseenIs500
<1>1. AnswerInv => OnlyUnforeseenIs500
  BY DEF AnswerInv, OnlyUnforeseenIs500, Sound
<1> QED BY <1>1, AnswersInv, PTL

-----------------------------------------------------------------------------
(* What EveryRequestEnds rests on, but for the fairness.                   *)

\* A request that queues for a connection holds none, and what it queues for
\* is there or held by a request that does not queue.
QueueMoves ==
    \A r \in Requests :
        pc[r] = "waiting" =>
            /\ r \notin held
            /\ Available \/ \E s \in held : pc[s] \in {"running", "raised", "streaming", "closing"}

\* The requests never wait for each other's connections in a circle: commit,
\* and not the wait for the pool, is what a session does between two
\* transactions (get_db, pool_size and max_overflow of database.py).
THEOREM QueueIsServed == Spec => []QueueMoves
<1>1. PoolInv => QueueMoves
  <2> SUFFICES ASSUME PoolInv, NEW r \in Requests, pc[r] = "waiting"
               PROVE  r \notin held /\ (Available \/ \E s \in held :
                          pc[s] \in {"running", "raised", "streaming", "closing"})
    BY DEF QueueMoves
  <2>1. r \notin held
    BY DEF PoolInv
  <2>2. ASSUME ~Available
        PROVE  held # {}
    <3>1. Cardinality(held) \in Nat /\ idle \in Nat
      BY FS_CardinalityType, PipelineAssumption DEF PoolInv
    <3>2. idle = 0 /\ ~(Cardinality(held) < PoolSize + MaxOverflow)
      BY <2>2, <3>1, PipelineAssumption DEF Available, Open
    <3>3. Cardinality(held) # 0
      BY <3>1, <3>2, PipelineAssumption
    <3> QED BY <3>3, FS_EmptySet
  <2> QED BY <2>1, <2>2 DEF PoolInv
<1> QED BY <1>1, PoolIsSound, PTL

\* How many steps a request has left, at most: four for a statement (it may
\* queue, get a connection and give it back in a commit), and those that end it.
StepsLeft(r) ==
    LET holds == IF r \in held THEN 1 ELSE 0 IN
    CASE pc[r] = "done" -> 0
      [] pc[r] \in {"failed", "closing"} -> 1
      [] pc[r] = "raised" -> 2
      [] pc[r] = "streaming" -> 4 * steps[r] + 3 + holds
      [] pc[r] = "running" -> 4 * steps[r] + 4 + holds
      [] pc[r] = "waiting" -> 4 * steps[r] + 6

\* A step of a request brings its end nearer, and no other request puts it off.
StepsCount ==
    [][\A r \in Requests :
          /\ Serve(r) => StepsLeft(r)' < StepsLeft(r)
          /\ pc[r] # "done" => StepsLeft(r)' <= StepsLeft(r)]_vars

\* No statement, commit, exception, stream or wait for the pool can be repeated
\* without end: a request is done after at most 4 * MaxSteps + 4 steps of its own.
THEOREM EveryStepCounts == Spec => StepsCount
<1>1. TypeOK /\ TypeOK' /\ [Next]_vars
      => [\A r \in Requests :
            /\ Serve(r) => StepsLeft(r)' < StepsLeft(r)
            /\ pc[r] # "done" => StepsLeft(r)' <= StepsLeft(r)]_vars
  <2> SUFFICES ASSUME TypeOK, TypeOK', Next, NEW r \in Requests
               PROVE  /\ Serve(r) => StepsLeft(r)' < StepsLeft(r)
                      /\ pc[r] # "done" => StepsLeft(r)' <= StepsLeft(r)
    OBVIOUS
  <2>1. steps[r] \in Nat /\ StepsLeft(r) \in Nat
    BY PipelineAssumption DEF TypeOK, StepsLeft
  <2>0. StepsLeft(r)' \in Nat
    BY PipelineAssumption DEF TypeOK, StepsLeft
  <2>2. ASSUME Serve(r)
        PROVE  StepsLeft(r)' < StepsLeft(r)
    <3>1. CASE Execute(r)
      <4>1. steps'[r] = steps[r] - 1 /\ steps[r] > 0
        BY <3>1 DEF Execute, TypeOK
      <4>2. CASE r \in held
        <5>1. pc' = pc /\ held' = held
          BY <3>1, <4>2 DEF Execute, KeepPool
        <5> QED BY <2>1, <3>1, <4>1, <4>2, <5>1 DEF Execute, StepsLeft
      <4>3. CASE r \notin held /\ pc' = pc
        BY <2>1, <3>1, <4>1, <4>3 DEF Execute, StepsLeft, Take, KeepPool
      <4>4. CASE r \notin held /\ pc' = [pc EXCEPT ![r] = "waiting"]
        <5>1. pc'[r] = "waiting"
          BY <4>4 DEF TypeOK
        <5> QED BY <2>1, <3>1, <4>1, <4>4, <5>1 DEF Execute, StepsLeft
      <4> QED BY <3>1, <4>2, <4>3, <4>4 DEF Execute
    <3>2. CASE Obtain(r)
      <4>1. pc'[r] \in {"running", "streaming"} /\ steps' = steps
        BY <3>2 DEF Obtain, TypeOK
      <4> QED BY <2>1, <3>2, <4>1 DEF Obtain, StepsLeft
    <3>3. CASE Expire(r) \/ Raise(r)
      <4>1. pc'[r] = "raised" /\ pc[r] \in {"waiting", "running", "streaming"}
        BY <3>3 DEF Expire, Raise, TypeOK
      <4> QED BY <2>1, <4>1 DEF StepsLeft
    <3>4. CASE Commit(r)
      <4>1. r \in held /\ r \notin held' /\ pc[r] = "running" /\ pc' = pc /\ steps' = steps
        BY <3>4 DEF Commit, Give
      <4> QED BY <2>1, <4>1 DEF StepsLeft
    <3>5. CASE Unwind(r) \/ AnswerFailure(r) \/ EndStream(r) \/ Close(r)
      <4>1. \/ pc[r] = "raised" /\ pc'[r] = "failed"
            \/ pc[r] = "failed" /\ pc'[r] = "done"
            \/ pc[r] = "streaming" /\ pc'[r] = "closing"
            \/ pc[r] = "closing" /\ pc'[r] = "done"
        BY <3>5 DEF Unwind, AnswerFailure, EndStream, Close, TypeOK
      <4> QED BY <2>1, <4>1 DEF StepsLeft
    <3>6. ASSUME NEW streams \in BOOLEAN, Respond(r, streams)
          PROVE  StepsLeft(r)' < StepsLeft(r)
      <4>1. /\ pc[r] = "running" /\ held' = held
            /\ \/ pc'[r] = "streaming" /\ steps'[r] = steps[r]
               \/ pc'[r] = "closing"
        BY <3>6 DEF Respond, TypeOK, KeepPool
      <4> QED BY <2>1, <4>1 DEF StepsLeft
    <3> QED BY <2>2, <3>1, <3>2, <3>3, <3>4, <3>5, <3>6 DEF Serve
  <2>3. ASSUME NEW q \in Requests \ {r}, Serve(q) \/ \E k \in Kinds : Arrive(q, k)
        PROVE  StepsLeft(r)' = StepsLeft(r) /\ ~Serve(r)
    <3>1. /\ pc'[r] = pc[r] /\ steps'[r] = steps[r]
      BY <2>3 DEF Serve, Execute, Obtain, Expire, Commit, Raise, Unwind, AnswerFailure,
                  Respond, EndStream, Close, Arrive, TypeOK
    <3>2. r \in held' <=> r \in held
      BY <2>3 DEF Serve, Execute, Obtain, Expire, Commit, Raise, Unwind, AnswerFailure,
                  Respond, EndStream, Close, Arrive, KeepPool, Take, Give
    <3>3. StepsLeft(r)' = StepsLeft(r)
      BY <3>1, <3>2 DEF StepsLeft
    <3> QED BY <2>1, <2>2, <3>3
  <2>4. ASSUME \E k \in Kinds : Arrive(r, k)
        PROVE  pc[r] = "done"
    BY <2>4 DEF Arrive
  <2>5. pc[r] # "done" => StepsLeft(r)' <= StepsLeft(r)
    <3>1. CASE Serve(r)
      BY <2>0, <2>1, <2>2, <3>1
    <3>2. CASE ~Serve(r)
      BY <2>1, <2>3, <2>4, <3>2 DEF Next
    <3> QED BY <3>1, <3>2
  <2> QED BY <2>2, <2>5
<1> QED BY <1>1, TypeCorrect, PTL DEF Spec, StepsCount
=============================================================================
