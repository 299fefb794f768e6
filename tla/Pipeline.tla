------------------------------ MODULE Pipeline ------------------------------
(* What every HTTP request goes through: the middlewares in the order in   *)
(* which main.py installs them, the session of get_db and the pool behind  *)
(* it, the handler, and the answer.                                        *)
(*                                                                         *)
(* What a handler computes is left out: it runs a bounded number of        *)
(* statements, commits, streams, raises or returns, in any order.          *)
EXTENDS Failures, FiniteSets

CONSTANTS
    Requests,       \* requests in flight
    PoolSize,       \* pool_size: connections that stay open, 2 in the code
    MaxOverflow,    \* max_overflow: connections beyond them, 3 in the code
    Kinds,          \* the requests considered
    MaxSteps,       \* statements and chunks of one request, a bound
    Raisable,       \* the exceptions considered
    NoError

\* The header fields that the middlewares look at: content-length, origin, and
\* the method.
Request == [length : {"fits", "too large", "no number"},
            origin : {"none", "ours", "foreign", "no text"},
            preflight : BOOLEAN]

ASSUME PipelineAssumption ==
    /\ PoolSize \in Nat \ {0}
    /\ MaxOverflow \in Nat
    /\ MaxSteps \in Nat
    /\ Kinds \subseteq Request
    /\ Raisable \subseteq Raised
    /\ NoError \notin Classes

VARIABLES
    request,
    pc,
    steps,          \* statements and chunks still to come
    failure,        \* the exception on its way out
    answer,         \* what has been sent
    held,           \* the requests whose session holds a connection
    idle            \* connections in the pool

vars == <<request, pc, steps, failure, answer, held, idle>>

NoAnswer == [starts |-> 0, status |-> 0, allows |-> "none"]

-----------------------------------------------------------------------------
(* AsyncAdaptedQueuePool, as create_async_engine sets it up.               *)

Open == Cardinality(held) + idle

Available == idle > 0 \/ Open < PoolSize + MaxOverflow

Take(r) ==
    /\ held' = held \cup {r}
    /\ idle' = IF idle > 0 THEN idle - 1 ELSE idle

Give(r) ==
    /\ held' = held \ {r}
    /\ idle' = IF r \in held /\ idle < PoolSize THEN idle + 1 ELSE idle

KeepPool == UNCHANGED <<held, idle>>

-----------------------------------------------------------------------------
(* The middlewares.                                                        *)

\* The message "start" as it leaves the outermost middleware, with the origin
\* that Access-Control-Allow-Origin names.
Start(a, status, origin) ==
    [starts |-> a.starts + 1, status |-> status, allows |-> origin]

\* A variant: the header is added to every answer.
AddsHeaderAlways(q) == TRUE

\* CORSMiddleware adds its header to what the application starts.
AddsHeader(q) == q.origin = "ours"

Allowed(q) == IF AddsHeader(q) THEN "ours" ELSE "none"

TooLarge(q) == q.length = "too large"

\* int(...) of MaxBodySize or decode() of CORS raises, outside of every handler.
Unreadable(q) == q.length = "no number" \/ (~TooLarge(q) /\ q.origin = "no text")

Foreign(q) == q.origin = "foreign"

Preflight(q) == q.origin = "ours" /\ q.preflight

\* What MaxBodySize, then CORS, answer themselves, or the server for them.
EarlyAnswer(q) ==
    IF Unreadable(q) THEN Start(NoAnswer, 500, "none")
    ELSE IF TooLarge(q) THEN Start(NoAnswer, 413, "none")
    ELSE IF Foreign(q) THEN Start(NoAnswer, 403, "none")
    ELSE IF Preflight(q) THEN Start(NoAnswer, 200, "ours")
    ELSE NoAnswer

EarlyFailure(q) == IF Unreadable(q) THEN "ValueError" ELSE NoError

\* A variant: the answers 413 and 403 are sent without a return.
PassesUnlessPreflight(q) == ~Unreadable(q) /\ ~Preflight(q)

\* What goes on to the timing and to the application.
Passes(q) == ~Unreadable(q) /\ ~TooLarge(q) /\ ~Foreign(q) /\ ~Preflight(q)

\* None of the middlewares awaits anything but the sends.
Arrive(r, q) ==
    /\ pc[r] = "done"
    /\ request' = [request EXCEPT ![r] = q]
    /\ failure' = [failure EXCEPT ![r] = EarlyFailure(q)]
    /\ answer' = [answer EXCEPT ![r] = EarlyAnswer(q)]
    /\ pc' = [pc EXCEPT ![r] = IF Passes(q) THEN "running" ELSE @]
    /\ steps' = [steps EXCEPT ![r] = IF Passes(q) THEN MaxSteps ELSE @]
    /\ KeepPool

-----------------------------------------------------------------------------
(* The handler and the session that get_db gave it.                        *)

\* The next statement: the first of a transaction takes a connection, or
\* queues for one.
Execute(r) ==
    /\ pc[r] \in {"running", "streaming"}
    /\ steps[r] > 0
    /\ steps' = [steps EXCEPT ![r] = @ - 1]
    /\ \/ r \in held /\ KeepPool /\ UNCHANGED pc
       \/ r \notin held /\ Available /\ Take(r) /\ UNCHANGED pc
       \/ /\ r \notin held /\ ~Available
          /\ pc' = [pc EXCEPT ![r] = "waiting"]
          /\ KeepPool
    /\ UNCHANGED <<request, failure, answer>>

\* A connection came back while the request was queueing.
Obtain(r) ==
    /\ pc[r] = "waiting"
    /\ Available
    /\ Take(r)
    /\ pc' = [pc EXCEPT ![r] = IF answer[r].starts = 0 THEN "running" ELSE "streaming"]
    /\ UNCHANGED <<request, steps, failure, answer>>

\* A variant: no limit to the wait.
NeverExpire(r) == FALSE /\ UNCHANGED vars

\* pool_timeout: after 30 seconds the statement raises.
Expire(r) ==
    /\ pc[r] = "waiting"
    /\ failure' = [failure EXCEPT ![r] = "TimeoutError"]
    /\ pc' = [pc EXCEPT ![r] = "raised"]
    /\ steps' = [steps EXCEPT ![r] = 0]
    /\ KeepPool
    /\ UNCHANGED <<request, answer>>

\* await db.commit(): the connection goes back to the pool, the session
\* takes another one for its next statement.
Commit(r) ==
    /\ pc[r] = "running"
    /\ r \in held
    /\ Give(r)
    /\ UNCHANGED <<request, pc, steps, failure, answer>>

Raise(r) ==
    /\ pc[r] \in {"running", "streaming"}
    /\ \E e \in Raisable : failure' = [failure EXCEPT ![r] = e]
    /\ pc' = [pc EXCEPT ![r] = "raised"]
    /\ steps' = [steps EXCEPT ![r] = 0]
    /\ KeepPool
    /\ UNCHANGED <<request, answer>>

\* A variant: db.close() after the yield, without a finally.
UnwindWithoutClose(r) ==
    /\ pc[r] = "raised"
    /\ KeepPool
    /\ pc' = [pc EXCEPT ![r] = "failed"]
    /\ UNCHANGED <<request, steps, failure, answer>>

\* The finally of get_db, on the way of the exception to the handlers.
Unwind(r) ==
    /\ pc[r] = "raised"
    /\ Give(r)
    /\ pc' = [pc EXCEPT ![r] = "failed"]
    /\ UNCHANGED <<request, steps, failure, answer>>

\* The handler of the class answers inside the middlewares; what has none is
\* answered 500 outside of them, so without their header.  Once a stream has
\* started there is no other answer: it is cut off.
AnswerFailure(r) ==
    /\ pc[r] = "failed"
    /\ answer' =
          IF answer[r].starts > 0 THEN answer
          ELSE [answer EXCEPT ![r] =
                  IF Handled(failure[r])
                  THEN Start(NoAnswer, HandlerStatus(failure[r]), Allowed(request[r]))
                  ELSE Start(NoAnswer, 500, "none")]
    /\ pc' = [pc EXCEPT ![r] = "done"]
    /\ KeepPool
    /\ UNCHANGED <<request, steps, failure>>

-----------------------------------------------------------------------------
(* The answer of a handler that returns.                                   *)

\* A response: its start, and its body unless it streams.
Respond(r, streams) ==
    /\ pc[r] = "running"
    /\ answer' = [answer EXCEPT ![r] = Start(@, 200, Allowed(request[r]))]
    /\ pc' = [pc EXCEPT ![r] = IF streams THEN "streaming" ELSE "closing"]
    /\ steps' = [steps EXCEPT ![r] = IF streams THEN @ ELSE 0]
    /\ KeepPool
    /\ UNCHANGED <<request, failure>>

\* The stream ends, or the client goes away.
EndStream(r) ==
    /\ pc[r] = "streaming"
    /\ pc' = [pc EXCEPT ![r] = "closing"]
    /\ steps' = [steps EXCEPT ![r] = 0]
    /\ KeepPool
    /\ UNCHANGED <<request, failure, answer>>

\* The finally of get_db, after the answer.
Close(r) ==
    /\ pc[r] = "closing"
    /\ Give(r)
    /\ pc' = [pc EXCEPT ![r] = "done"]
    /\ UNCHANGED <<request, steps, failure, answer>>

-----------------------------------------------------------------------------

Quiet == [length |-> "fits", origin |-> "none", preflight |-> FALSE]

Init ==
    /\ request = [r \in Requests |-> Quiet]
    /\ pc = [r \in Requests |-> "done"]
    /\ steps = [r \in Requests |-> 0]
    /\ failure = [r \in Requests |-> NoError]
    /\ answer = [r \in Requests |-> Start(NoAnswer, 200, "none")]
    /\ held = {}
    /\ idle = 0

\* A step of the server for a request it has accepted.
Serve(r) ==
    \/ Execute(r)
    \/ Obtain(r)
    \/ Expire(r)
    \/ Commit(r)
    \/ Raise(r)
    \/ Unwind(r)
    \/ AnswerFailure(r)
    \/ \E streams \in BOOLEAN : Respond(r, streams)
    \/ EndStream(r)
    \/ Close(r)

Next == \E r \in Requests : Serve(r) \/ \E q \in Kinds : Arrive(r, q)

Spec == Init /\ [][Next]_vars

\* The event loop serves every request, every timer fires, and a client
\* reads what it is sent or goes away.  Nothing makes a handler commit, so a
\* commit alone is not what keeps a request going.
Fairness == \A r \in Requests : WF_vars(Serve(r))

FairSpec == Spec /\ Fairness

-----------------------------------------------------------------------------
(* Properties.                                                             *)

Answer == [starts : Nat, status : Nat, allows : {"none", "ours"}]

TypeOK ==
    /\ request \in [Requests -> Request]
    /\ pc \in [Requests -> {"done", "running", "waiting", "raised", "failed",
                            "streaming", "closing"}]
    /\ steps \in [Requests -> 0 .. MaxSteps]
    /\ failure \in [Requests -> Raisable \cup {"TimeoutError", "ValueError", NoError}]
    /\ answer \in [Requests -> Answer]
    /\ held \subseteq Requests
    /\ idle \in 0 .. PoolSize

\* Never more connections than create_async_engine allows, and a connection
\* is only held by a request that is being handled: none is left behind by an
\* exception, a cut stream or a timeout, and an error is answered only after
\* its connection, with the locks of its transaction, is back (database.py).
ConnectionsAccounted ==
    /\ Open <= PoolSize + MaxOverflow
    /\ \A r \in held : pc[r] \in {"running", "raised", "streaming", "closing"}

\* A request is answered once, whatever raised when: nothing is sent before
\* the handler has ended, no second start follows that of a stream, and no
\* request is left without an answer.
AnsweredOnce ==
    \A r \in Requests :
        /\ pc[r] = "running" => answer[r].starts = 0
        /\ pc[r] = "done" => answer[r].starts = 1
        /\ answer[r].starts <= 1

\* A page of ours can read every answer but the two that are made outside of
\* CORSMiddleware, 413 and 500, and no other page can read any.
ReadableByOurs ==
    \A r \in Requests :
        answer[r].starts = 1
        => (answer[r].allows = "ours" <=> request[r].origin = "ours" /\ answer[r].status \notin {413, 500})

\* The answer tells what happened: 500 is for what the libraries raise and the
\* code does not catch, never for an exception that the code raises itself,
\* whatever the request had done before; and an uncaught one is never answered
\* otherwise, unless the answer had begun.
OnlyUnforeseenIs500 ==
    \A r \in Requests :
        /\ answer[r].status = 500 => failure[r] \in Uncaught
        /\ pc[r] = "done" /\ failure[r] \in Uncaught => answer[r].status \in {200, 500}

\* However many requests queue for the pool, each is answered in the end.
EveryRequestEnds == \A r \in Requests : []<>(pc[r] = "done")
=============================================================================
