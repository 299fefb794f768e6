---------------------------- MODULE PdfWorkflow ----------------------------
(* POST /invoices/{id}/pdf: the check of the endpoint, and the chain of    *)
(* generate_pdf and send_email_task that it hands to the Celery workers,   *)
(* which read the invoice again when they get to it.                       *)
(*                                                                         *)
(* A message is acknowledged when its task begins (acks_late is off).  A   *)
(* worker that ends loses the task it runs; a message it had only fetched  *)
(* comes back when its visibility timeout is over, and it comes back too   *)
(* when the worker was merely slow.                                        *)
EXTENDS Naturals, FiniteSets

CONSTANTS
    Invoices,
    Jobs,           \* the requests for a PDF
    Workers,
    MaxRetries,     \* max_retries of the tasks, 3 in the code
    MaxFaults,      \* crashes and visibility timeouts, a bound
    Idle,
    Unused

Task == {"generate", "send"}

Message == [job : Jobs, task : Task, retries : 0 .. MaxRetries]

Stage == {"fetched", "running", "rendered"}

\* How a request for a PDF ends.
Outcome == {"not found", "refused", "failed", "lost", "sent"}

ASSUME PdfWorkflowAssumption ==
    /\ MaxRetries \in Nat
    /\ MaxFaults \in Nat
    /\ Unused \notin Invoices
    /\ Idle \notin [message : Message, stage : Stage]

VARIABLES
    live,           \* the invoices that have not been deleted
    job,            \* the invoice of each request
    state,          \* of a request: how far the endpoint and the chain came
    queue,          \* the messages of the broker
    worker,         \* the message each worker has, and how far it is
    mails,          \* how many mails each request has led to
    faults,         \* the faults so far
    repeated        \* the requests of which a message was delivered twice

vars == <<live, job, state, queue, worker, mails, faults, repeated>>

Has(w) == worker[w] # Idle

Sets(j, value) == state' = [state EXCEPT ![j] = value]

-----------------------------------------------------------------------------
(* The API.                                                                *)

\* invoice_getter: one of the user's own invoices, or 404.
RequestPdf(j, i) ==
    /\ state[j] = "unused"
    /\ i \in live
    /\ job' = [job EXCEPT ![j] = i]
    /\ Sets(j, "checked")
    /\ UNCHANGED <<live, queue, worker, mails, faults, repeated>>

\* pdf_email_workflow: the first task is sent, with the rest of the chain.
Enqueue(j) ==
    /\ state[j] = "checked"
    /\ Sets(j, "accepted")
    /\ queue' = queue \cup {[job |-> j, task |-> "generate", retries |-> 0]}
    /\ UNCHANGED <<live, job, worker, mails, faults, repeated>>

\* The owner deletes the invoice.
Delete(i) ==
    /\ i \in live
    /\ live' = live \ {i}
    /\ UNCHANGED <<job, state, queue, worker, mails, faults, repeated>>

-----------------------------------------------------------------------------
(* The workers.                                                            *)

Fetch(w, m) ==
    /\ ~Has(w)
    /\ m \in queue
    /\ queue' = queue \ {m}
    /\ worker' = [worker EXCEPT ![w] = [message |-> m, stage |-> "fetched"]]
    /\ UNCHANGED <<live, job, state, mails, faults, repeated>>

\* The message is acknowledged and the task runs.
Begin(w) ==
    /\ Has(w)
    /\ worker[w].stage = "fetched"
    /\ worker' = [worker EXCEPT ![w].stage = "running"]
    /\ UNCHANGED <<live, job, state, queue, mails, faults, repeated>>

Runs(w, task) == Has(w) /\ worker[w].stage = "running" /\ worker[w].message.task = task

\* The job of the message that worker w has, which has an invoice.
JobOf(w) == worker[w].message.job

\* _get_invoice_async finds the invoice, and the PDF is made of it.
Generate(w) ==
    /\ Runs(w, "generate")
    /\ job[JobOf(w)] \in live
    /\ worker' = [worker EXCEPT ![w].stage = "rendered"]
    /\ UNCHANGED <<live, job, state, queue, mails, faults, repeated>>

\* InvoiceNotFound is not retried: the chain ends.
NotFound(w) ==
    /\ Runs(w, "generate")
    /\ job[JobOf(w)] \notin live
    /\ Sets(JobOf(w), "not found")
    /\ worker' = [worker EXCEPT ![w] = Idle]
    /\ UNCHANGED <<live, job, queue, mails, faults, repeated>>

\* A variant: the tasks are not chained.
NothingNext(m) == {}

\* What follows a task that succeeded: send_email_task gets its result.
NextTask(m) == {[job |-> m.job, task |-> "send", retries |-> 0]}

\* The result of generate_pdf is stored and the chain goes on.
Publish(w) ==
    /\ Has(w)
    /\ worker[w].stage = "rendered"
    /\ queue' = queue \cup NextTask(worker[w].message)
    /\ worker' = [worker EXCEPT ![w] = Idle]
    /\ UNCHANGED <<live, job, state, mails, faults, repeated>>

\* A variant: a retry that does not count.
RetriedAnew(m) == [m EXCEPT !.retries = 0]

Retried(m) == [m EXCEPT !.retries = @ + 1]

\* A variant: one retry more than max_retries.
MayRetryOnceMore(m) == m.retries <= MaxRetries

MayRetry(m) == m.retries < MaxRetries

\* autoretry_for: the database refuses the connection, and the task is tried
\* again, or fails when it has been often enough.
Refused(w) ==
    /\ Runs(w, "generate")
    /\ LET m == worker[w].message IN
       IF MayRetry(m)
       THEN queue' = queue \cup {Retried(m)} /\ UNCHANGED state
       ELSE Sets(m.job, "refused") /\ UNCHANGED queue
    /\ worker' = [worker EXCEPT ![w] = Idle]
    /\ UNCHANGED <<live, job, mails, faults, repeated>>

\* Any other exception of the database or of invoice_pdf is not retried: the
\* chain ends.
Broken(w) ==
    /\ Runs(w, "generate")
    /\ Sets(JobOf(w), "failed")
    /\ worker' = [worker EXCEPT ![w] = Idle]
    /\ UNCHANGED <<live, job, queue, mails, faults, repeated>>

Send(w) ==
    /\ Runs(w, "send")
    /\ Sets(JobOf(w), "sent")
    /\ mails' = [mails EXCEPT ![JobOf(w)] = @ + 1]
    /\ worker' = [worker EXCEPT ![w] = Idle]
    /\ UNCHANGED <<live, job, queue, faults, repeated>>

-----------------------------------------------------------------------------
(* Faults.                                                                 *)

\* A variant: acks_late, every message of the worker comes back.
ComesBackAlways(w) == TRUE

\* The message is not acknowledged yet.
ComesBack(w) == worker[w].stage = "fetched"

\* A worker ends.
Crash(w) ==
    /\ Has(w)
    /\ faults < MaxFaults
    /\ faults' = faults + 1
    /\ IF ComesBack(w)
       THEN queue' = queue \cup {worker[w].message} /\ UNCHANGED state
       ELSE Sets(JobOf(w), "lost") /\ UNCHANGED queue
    /\ worker' = [worker EXCEPT ![w] = Idle]
    /\ UNCHANGED <<live, job, mails, repeated>>

\* The worker ends after the mail has left, before it says so.
CrashAfterSend(w) ==
    /\ Runs(w, "send")
    /\ faults < MaxFaults
    /\ faults' = faults + 1
    /\ mails' = [mails EXCEPT ![JobOf(w)] = @ + 1]
    /\ IF ComesBack(w)
       THEN queue' = queue \cup {worker[w].message} /\ UNCHANGED state
       ELSE Sets(JobOf(w), "lost") /\ UNCHANGED queue
    /\ worker' = [worker EXCEPT ![w] = Idle]
    /\ UNCHANGED <<live, job, repeated>>

\* The visibility timeout passes while the worker still has the message.
DeliverAgain(w) ==
    /\ Has(w)
    /\ worker[w].stage = "fetched"
    /\ faults < MaxFaults
    /\ faults' = faults + 1
    /\ queue' = queue \cup {worker[w].message}
    /\ repeated' = repeated \cup {JobOf(w)}
    /\ UNCHANGED <<live, job, state, worker, mails>>

-----------------------------------------------------------------------------

Init ==
    /\ live = Invoices
    /\ job = [j \in Jobs |-> Unused]
    /\ state = [j \in Jobs |-> "unused"]
    /\ queue = {}
    /\ worker = [w \in Workers |-> Idle]
    /\ mails = [j \in Jobs |-> 0]
    /\ faults = 0
    /\ repeated = {}

\* A step of the worker itself.
Work(w) ==
    \/ Begin(w)
    \/ Generate(w) \/ NotFound(w) \/ Publish(w) \/ Refused(w) \/ Broken(w)
    \/ Send(w)

Next ==
    \/ \E j \in Jobs, i \in Invoices : RequestPdf(j, i)
    \/ \E j \in Jobs : Enqueue(j)
    \/ \E i \in Invoices : Delete(i)
    \/ \E w \in Workers, m \in queue : Fetch(w, m)
    \/ \E w \in Workers : Work(w)
    \/ \E w \in Workers : Crash(w) \/ CrashAfterSend(w) \/ DeliverAgain(w)

Spec == Init /\ [][Next]_vars

\* The workers go on with the message they have, and fetch the messages that
\* the broker keeps.
Fairness ==
    /\ \A w \in Workers : WF_vars(Work(w))
    /\ \A m \in Message : WF_vars(\E w \in Workers : m \in queue /\ Fetch(w, m))

FairSpec == Spec /\ Fairness

-----------------------------------------------------------------------------
(* Properties.                                                             *)

\* The messages of a request, wherever they are.
InQueue(j) == \E m \in queue : m.job = j

WithWorker(j) == \E w \in Workers : Has(w) /\ JobOf(w) = j

TypeOK ==
    /\ live \subseteq Invoices
    /\ job \in [Jobs -> Invoices \cup {Unused}]
    /\ state \in [Jobs -> {"unused", "checked", "accepted"} \cup Outcome]
    /\ queue \subseteq Message
    /\ worker \in [Workers -> [message : Message, stage : Stage] \cup {Idle}]
    /\ mails \in [Jobs -> Nat]
    /\ faults \in 0 .. MaxFaults
    /\ repeated \subseteq Jobs

\* A request that was answered 202 is never forgotten: while it has no
\* outcome the broker or a worker has a message of it (pdf_email_workflow).
AcceptedIsSomewhere ==
    \A j \in Jobs : state[j] = "accepted" => InQueue(j) \/ WithWorker(j)

\* A request leads to one mail, whatever is retried and whoever crashes,
\* unless a message of it was delivered twice (the tasks of celery_app.py,
\* which do not look whether they have run before).
OneMailPerRequest ==
    \A j \in Jobs \ repeated : mails[j] <= 1

\* No chain is retried without end: what was asked for ends with a mail, or
\* with a reason why there is none, and nothing of it stays behind.
EveryChainEnds ==
    \A j \in Jobs :
        state[j] = "accepted" ~> /\ state[j] \in Outcome
                                 /\ ~InQueue(j)
                                 /\ ~WithWorker(j)

\* What worker w has to do of a chain: the message it has, or what it is about
\* to publish.
Carried(w) ==
    IF worker[w].stage = "rendered" THEN NextTask(worker[w].message) ELSE {worker[w].message}

Pending == queue \cup UNION {Carried(w) : w \in {v \in Workers : Has(v)}}

Chains == INSTANCE PdfChains WITH pending <- Pending

\* Whatever the workers do and whoever crashes, each request goes the way of
\* PdfChains: one piece of work at a time and one outcome, the right one, and
\* at most one mail, unless it was delivered twice (the chain of celery_app.py).
ImplementsChains == Chains!Spec
=============================================================================
