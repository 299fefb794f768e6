-------------------------- MODULE PdfWorkflow_proofs --------------------------
(***************************************************************************)
(* Theorems about PdfWorkflow, for any number of invoices, requests and    *)
(* workers, and any number of retries and faults.                          *)
(***************************************************************************)
EXTENDS PdfWorkflow, TLAPS

-----------------------------------------------------------------------------
(* Types.                                                                  *)

\* What a worker has is a message and a stage, and Idle is neither.
LEMMA WhatAWorkerHas ==
    ASSUME TypeOK, NEW w \in Workers, Has(w)
    PROVE  /\ worker[w] \in [message : Message, stage : Stage]
           /\ worker[w].message \in Message
           /\ JobOf(w) \in Jobs
  BY DEF TypeOK, Has, JobOf, Message

\* The messages that a chain goes on with are messages of the same request.
LEMMA WhatFollows ==
    ASSUME NEW m \in Message
    PROVE  /\ MayRetry(m) => Retried(m) \in Message /\ Retried(m).job = m.job
           /\ NextTask(m) \subseteq Message
           /\ \A next \in NextTask(m) : next.job = m.job
           /\ \A n1, n2 \in NextTask(m) : n1 = n2
  BY PdfWorkflowAssumption DEF Message, MayRetry, Retried, NextTask, Task

\* The message that begins a task.
LEMMA FirstTry ==
    ASSUME NEW j \in Jobs, NEW task \in Task
    PROVE  [job |-> j, task |-> task, retries |-> 0] \in Message
<1>1. 0 \in 0 .. MaxRetries
  BY PdfWorkflowAssumption
<1> QED BY <1>1 DEF Message

\* The parts of the types that several actions write.
LEMMA Written ==
    ASSUME TypeOK
    PROVE  /\ \A j \in Jobs, s \in Outcome :
                 Sets(j, s) => state' \in [Jobs -> {"unused", "checked", "accepted"} \cup Outcome]
           /\ \A j \in Jobs :
                 mails' = [mails EXCEPT ![j] = @ + 1] => mails' \in [Jobs -> Nat]
           /\ \A w \in Workers :
                 worker' = [worker EXCEPT ![w] = Idle]
                 => worker' \in [Workers -> [message : Message, stage : Stage] \cup {Idle}]
  BY DEF TypeOK, Sets

\* Every reachable state is well typed; in particular no message has been
\* retried more often than max_retries (autoretry_for).
THEOREM TypeCorrect == Spec => []TypeOK
<1>1. Init => TypeOK
  BY PdfWorkflowAssumption DEF Init, TypeOK
<1>2. TypeOK /\ [Next]_vars => TypeOK'
  <2> SUFFICES ASSUME TypeOK, [Next]_vars
               PROVE  TypeOK'
    OBVIOUS
  <2> USE DEF TypeOK
  <2>1. CASE UNCHANGED vars
    BY <2>1 DEF vars
  <2>2. ASSUME NEW j \in Jobs, NEW i \in Invoices, RequestPdf(j, i)
        PROVE  TypeOK'
    BY <2>2 DEF RequestPdf, Sets
  <2>3. ASSUME NEW j \in Jobs, Enqueue(j)
        PROVE  TypeOK'
    <3>1. [job |-> j, task |-> "generate", retries |-> 0] \in Message
      BY FirstTry DEF Task
    <3> QED BY <2>3, <3>1 DEF Enqueue, Sets
  <2>4. ASSUME NEW i \in Invoices, Delete(i)
        PROVE  TypeOK'
    BY <2>4 DEF Delete
  <2>5. ASSUME NEW w \in Workers, NEW m \in queue, Fetch(w, m)
        PROVE  TypeOK'
    BY <2>5 DEF Fetch, Stage
  <2>6. ASSUME NEW w \in Workers, Work(w)
        PROVE  TypeOK'
    <3>1. Has(w)
      BY <2>6 DEF Work, Begin, Generate, NotFound, Publish, Refused, Broken, Send, Runs
    <3>2. /\ worker[w] \in [message : Message, stage : Stage]
          /\ worker[w].message \in Message
          /\ JobOf(w) \in Jobs
      BY <3>1, WhatAWorkerHas
    <3>3. CASE Begin(w) \/ Generate(w)
      <4>1. PICK s \in Stage : worker' = [worker EXCEPT ![w] = [worker[w] EXCEPT !.stage = s]]
        BY <3>3 DEF Begin, Generate, Stage
      <4>2. worker' \in [Workers -> [message : Message, stage : Stage] \cup {Idle}]
        BY <3>2, <4>1
      <4> QED BY <3>3, <4>2 DEF Begin, Generate
    <3>4. CASE NotFound(w)
      <4>1. state' \in [Jobs -> {"unused", "checked", "accepted"} \cup Outcome]
        BY <3>2, <3>4, Written DEF NotFound, Outcome
      <4> QED BY <3>4, <4>1, Written DEF NotFound
    <3>5. CASE Publish(w)
      BY <3>2, <3>5, WhatFollows DEF Publish
    <3>6. CASE Refused(w)
      <4>1. worker[w].message.job \in Jobs
        BY <3>2 DEF JobOf
      <4>2. queue' \subseteq Message
        BY <3>2, <3>6, WhatFollows DEF Refused
      <4>3. state' \in [Jobs -> {"unused", "checked", "accepted"} \cup Outcome]
        BY <3>6, <4>1, Written DEF Refused, Outcome
      <4> QED BY <3>6, <4>2, <4>3, Written DEF Refused
    <3>7. CASE Send(w)
      <4>1. state' \in [Jobs -> {"unused", "checked", "accepted"} \cup Outcome]
        BY <3>2, <3>7, Written DEF Send, Outcome
      <4>2. mails' \in [Jobs -> Nat]
        BY <3>2, <3>7, Written DEF Send
      <4> QED BY <3>7, <4>1, <4>2, Written DEF Send
    <3>8. CASE Broken(w)
      <4>1. state' \in [Jobs -> {"unused", "checked", "accepted"} \cup Outcome]
        BY <3>2, <3>8, Written DEF Broken, Outcome
      <4> QED BY <3>8, <4>1, Written DEF Broken
    <3> QED BY <2>6, <3>3, <3>4, <3>5, <3>6, <3>7, <3>8 DEF Work
  <2>7. ASSUME NEW w \in Workers, Crash(w) \/ CrashAfterSend(w) \/ DeliverAgain(w)
        PROVE  TypeOK'
    <3>1. Has(w)
      BY <2>7 DEF Crash, CrashAfterSend, DeliverAgain, Runs
    <3>2. worker[w].message \in Message /\ JobOf(w) \in Jobs
      BY <3>1, WhatAWorkerHas
    <3>3. faults' \in 0 .. MaxFaults
      BY <2>7, PdfWorkflowAssumption DEF Crash, CrashAfterSend, DeliverAgain
    <3>4. CASE Crash(w) \/ CrashAfterSend(w)
      <4>1. state' \in [Jobs -> {"unused", "checked", "accepted"} \cup Outcome]
        BY <3>2, <3>4, Written DEF Crash, CrashAfterSend, Outcome
      <4>2. mails' \in [Jobs -> Nat]
        BY <3>2, <3>4, Written DEF Crash, CrashAfterSend
      <4>3. queue' \subseteq Message
        BY <3>2, <3>4 DEF Crash, CrashAfterSend
      <4> QED BY <3>3, <3>4, <4>1, <4>2, <4>3, Written DEF Crash, CrashAfterSend
    <3>5. CASE DeliverAgain(w)
      BY <3>2, <3>3, <3>5 DEF DeliverAgain
    <3> QED BY <2>7, <3>4, <3>5
  <2> QED BY <2>1, <2>2, <2>3, <2>4, <2>5, <2>6, <2>7 DEF Next
<1> QED BY <1>1, <1>2, PTL DEF Spec

-----------------------------------------------------------------------------
(* What the steps do to the messages.                                      *)

\* Worker w gives its message up, and the messages of more take its place.
Gives(w, more) ==
    /\ worker' = [worker EXCEPT ![w] = Idle]
    /\ queue' = queue \cup more
    /\ \A m \in more : m.job = JobOf(w)
    /\ \A m1, m2 \in more : m1 = m2

\* Every step that takes a message from a worker ends the task, has the next
\* message of the same request in its place, or sets the request's outcome.
LEMMA HowMessagesLeave ==
    ASSUME TypeOK, NEW w \in Workers,
           \/ NotFound(w) \/ Publish(w) \/ Refused(w) \/ Broken(w) \/ Send(w)
           \/ Crash(w) \/ CrashAfterSend(w)
    PROVE  /\ Has(w)
           /\ JobOf(w) \in Jobs
           /\ \E more : /\ Gives(w, more)
                        /\ \/ more # {} /\ UNCHANGED state
                           \/ \E s \in Outcome :
                                 more = {} /\ Sets(JobOf(w), s)
<1>1. Has(w)
  BY DEF NotFound, Publish, Refused, Broken, Send, Crash, CrashAfterSend, Runs
<1>2. worker[w].message \in Message /\ JobOf(w) \in Jobs
  BY <1>1, WhatAWorkerHas
<1> DEFINE m == worker[w].message
           Leaves == \E more : /\ Gives(w, more)
                        /\ \/ more # {} /\ UNCHANGED state
                           \/ \E s \in Outcome :
                                 more = {} /\ Sets(JobOf(w), s)
<1>3. CASE NotFound(w)
  <2>1. Gives(w, {}) /\ Sets(JobOf(w), "not found")
    BY <1>3 DEF NotFound, Gives
  <2> QED BY <1>1, <1>2, <2>1 DEF Outcome
<1>4. CASE Publish(w)
  <2>1. Gives(w, NextTask(m)) /\ UNCHANGED state
    BY <1>2, <1>4, WhatFollows DEF Publish, Gives, JobOf
  <2>2. NextTask(m) # {}
    BY DEF NextTask
  <2> QED BY <1>1, <1>2, <2>1, <2>2
<1>5. CASE Refused(w)
  <2>1. CASE MayRetry(m)
    <3>1. Gives(w, {Retried(m)}) /\ UNCHANGED state
      BY <1>2, <1>5, <2>1, WhatFollows DEF Refused, Gives, JobOf
    <3> QED BY <1>1, <1>2, <3>1
  <2>2. CASE ~MayRetry(m)
    <3>1. Gives(w, {}) /\ Sets(JobOf(w), "refused")
      BY <1>5, <2>2 DEF Refused, Gives, JobOf
    <3> QED BY <1>1, <1>2, <3>1 DEF Outcome
  <2> QED BY <2>1, <2>2
<1>6. CASE Send(w)
  <2>1. Gives(w, {}) /\ Sets(JobOf(w), "sent")
    BY <1>6 DEF Send, Gives
  <2> QED BY <1>1, <1>2, <2>1 DEF Outcome
<1>7. CASE Crash(w) \/ CrashAfterSend(w)
  <2>1. CASE ComesBack(w)
    <3>1. Gives(w, {m}) /\ UNCHANGED state
      BY <1>7, <2>1 DEF Crash, CrashAfterSend, Gives, JobOf
    <3> QED BY <1>1, <1>2, <3>1
  <2>2. CASE ~ComesBack(w)
    <3>1. Gives(w, {}) /\ Sets(JobOf(w), "lost")
      BY <1>7, <2>2 DEF Crash, CrashAfterSend, Gives
    <3> QED BY <1>1, <1>2, <3>1 DEF Outcome
  <2> QED BY <2>1, <2>2
<1>8. CASE Broken(w)
  <2>1. Gives(w, {}) /\ Sets(JobOf(w), "failed")
    BY <1>8 DEF Broken, Gives
  <2> QED BY <1>1, <1>2, <2>1 DEF Outcome
<1> QED BY <1>3, <1>4, <1>5, <1>6, <1>7, <1>8

-----------------------------------------------------------------------------
(* A request that was accepted is not forgotten.                           *)

\* Steps that leave a worker with the message it had, or free.
LEMMA HowMessagesStay ==
    ASSUME TypeOK, NEW w \in Workers, Begin(w) \/ Generate(w)
    PROVE  /\ Has(w)
           /\ \A v \in Workers : (Has(v)' <=> Has(v)) /\ (Has(v) => JobOf(v)' = JobOf(v))
           /\ UNCHANGED <<job, state, queue, mails, repeated>>
<1>1. Has(w)
  BY DEF Begin, Generate, Runs
<1>2. worker[w] \in [message : Message, stage : Stage]
  BY <1>1, WhatAWorkerHas
<1>3. PICK s \in Stage : worker' = [worker EXCEPT ![w].stage = s]
  BY DEF Begin, Generate, Stage
<1>4. worker' = [worker EXCEPT ![w] = [worker[w] EXCEPT !.stage = s]]
  BY <1>3
<1>5. [worker[w] EXCEPT !.stage = s] \in [message : Message, stage : Stage]
  BY <1>2, <1>3
<1>6. Has(w)' /\ JobOf(w)' = JobOf(w)
  BY <1>2, <1>4, <1>5, PdfWorkflowAssumption DEF TypeOK, Has, JobOf
<1>7. \A v \in Workers \ {w} : worker'[v] = worker[v]
  BY <1>4 DEF TypeOK
<1> QED BY <1>1, <1>6, <1>7 DEF Has, JobOf, Begin, Generate

\* A request that was answered 202 is never forgotten: until it has an outcome
\* the broker or a worker has a message of it (pdf_email_workflow).
THEOREM NothingIsForgotten == Spec => []AcceptedIsSomewhere
<1>1. Init => AcceptedIsSomewhere
  BY DEF Init, AcceptedIsSomewhere
<1>2. TypeOK /\ AcceptedIsSomewhere /\ [Next]_vars => AcceptedIsSomewhere'
  <2> SUFFICES ASSUME TypeOK, AcceptedIsSomewhere, [Next]_vars, NEW k \in Jobs,
                      state'[k] = "accepted"
               PROVE  InQueue(k)' \/ WithWorker(k)'
    BY DEF AcceptedIsSomewhere
  <2>1. state[k] = "accepted" => InQueue(k) \/ WithWorker(k)
    BY DEF AcceptedIsSomewhere
  <2>2. CASE UNCHANGED <<state, queue, worker>>
    BY <2>1, <2>2 DEF InQueue, WithWorker, Has, JobOf
  <2>3. ASSUME NEW j \in Jobs, NEW i \in Invoices, RequestPdf(j, i)
        PROVE  InQueue(k)' \/ WithWorker(k)'
    <3>1. state[k] = "accepted"
      BY <2>3 DEF RequestPdf, Sets, TypeOK
    <3> QED BY <2>1, <2>3, <3>1 DEF RequestPdf, InQueue, WithWorker, Has, JobOf
  <2>4. ASSUME NEW j \in Jobs, Enqueue(j)
        PROVE  InQueue(k)' \/ WithWorker(k)'
    <3>1. CASE k = j
      <4>1. [job |-> j, task |-> "generate", retries |-> 0].job = k
        BY <3>1
      <4> QED BY <2>4, <4>1 DEF Enqueue, InQueue
    <3>2. CASE k # j
      <4>1. state[k] = "accepted"
        BY <2>4, <3>2 DEF Enqueue, Sets, TypeOK
      <4> QED BY <2>1, <2>4, <4>1 DEF Enqueue, InQueue, WithWorker, Has, JobOf
    <3> QED BY <3>1, <3>2
  <2>5. ASSUME NEW w \in Workers, NEW m \in queue, Fetch(w, m)
        PROVE  InQueue(k)' \/ WithWorker(k)'
    <3>1. state[k] = "accepted"
      BY <2>5 DEF Fetch
    <3>2. Has(w)' /\ JobOf(w)' = m.job /\ ~Has(w)
      BY <2>5, PdfWorkflowAssumption DEF Fetch, Has, JobOf, TypeOK, Stage
    <3>3. CASE m.job = k
      BY <3>2, <3>3 DEF WithWorker
    <3>4. CASE InQueue(k) /\ m.job # k
      BY <2>5, <3>4 DEF Fetch, InQueue
    <3>5. CASE WithWorker(k)
      <4>1. PICK v \in Workers : Has(v) /\ JobOf(v) = k
        BY <3>5 DEF WithWorker
      <4>2. worker'[v] = worker[v]
        BY <2>5, <3>2, <4>1 DEF Fetch, TypeOK
      <4> QED BY <4>1, <4>2 DEF WithWorker, Has, JobOf
    <3> QED BY <2>1, <3>1, <3>3, <3>4, <3>5
  <2>6. ASSUME NEW w \in Workers, Begin(w) \/ Generate(w)
        PROVE  InQueue(k)' \/ WithWorker(k)'
    BY <2>1, <2>6, HowMessagesStay DEF InQueue, WithWorker
  <2>7. ASSUME NEW w \in Workers,
               \/ NotFound(w) \/ Publish(w) \/ Refused(w) \/ Broken(w) \/ Send(w)
               \/ Crash(w) \/ CrashAfterSend(w)
        PROVE  InQueue(k)' \/ WithWorker(k)'
    <3>1. /\ Has(w)
          /\ JobOf(w) \in Jobs
          /\ \E more : /\ Gives(w, more)
                       /\ \/ more # {} /\ UNCHANGED state
                          \/ \E s \in Outcome :
                                more = {} /\ Sets(JobOf(w), s)
      BY <2>7, HowMessagesLeave
    <3>2. PICK more : /\ Gives(w, more)
                      /\ \/ more # {} /\ UNCHANGED state
                         \/ \E s \in Outcome :
                               more = {} /\ Sets(JobOf(w), s)
      BY <3>1
    <3>3. CASE JobOf(w) = k
      <4>1. state'[k] = "accepted" => more # {}
        BY <3>1, <3>2, <3>3 DEF Sets, TypeOK, Outcome
      <4>2. PICK m \in more : m.job = k
        BY <3>2, <3>3, <4>1 DEF Gives
      <4> QED BY <3>2, <4>2 DEF Gives, InQueue
    <3>4. CASE JobOf(w) # k
      <4>1. state[k] = "accepted"
        BY <3>1, <3>2, <3>4 DEF Sets, TypeOK
      <4>2. CASE InQueue(k)
        BY <3>2, <4>2 DEF Gives, InQueue
      <4>3. CASE WithWorker(k)
        <5>1. PICK v \in Workers : Has(v) /\ JobOf(v) = k
          BY <4>3 DEF WithWorker
        <5>2. worker'[v] = worker[v]
          BY <3>2, <3>4, <5>1 DEF Gives, TypeOK
        <5> QED BY <5>1, <5>2 DEF WithWorker, Has, JobOf
      <4> QED BY <2>1, <4>1, <4>2, <4>3
    <3> QED BY <3>3, <3>4
  <2>8. ASSUME NEW w \in Workers, DeliverAgain(w)
        PROVE  InQueue(k)' \/ WithWorker(k)'
    BY <2>1, <2>8 DEF DeliverAgain, InQueue, WithWorker, Has, JobOf
  <2>9. ASSUME NEW i \in Invoices, Delete(i)
        PROVE  InQueue(k)' \/ WithWorker(k)'
    BY <2>2, <2>9 DEF Delete
  <2> QED BY <2>2, <2>3, <2>4, <2>5, <2>6, <2>7, <2>8, <2>9 DEF Next, Work, vars
<1> QED BY <1>1, <1>2, TypeCorrect, PTL DEF Spec

-----------------------------------------------------------------------------
(* One mail per request.                                                   *)

\* A request has at most one message, with the broker or with one worker, and
\* no mail has been sent while it has one.
OneMessage(j) ==
    /\ \A m1, m2 \in queue : m1.job = j /\ m2.job = j => m1 = m2
    /\ \A w1, w2 \in Workers : Has(w1) /\ Has(w2) /\ JobOf(w1) = j /\ JobOf(w2) = j => w1 = w2
    /\ ~(InQueue(j) /\ WithWorker(j))
    /\ InQueue(j) \/ WithWorker(j) => mails[j] = 0
    /\ mails[j] <= 1

\* A request that has not been accepted yet has none.
NothingEarly(j) ==
    state[j] \in {"unused", "checked"} => ~InQueue(j) /\ ~WithWorker(j) /\ mails[j] = 0

MailInv == \A j \in Jobs : NothingEarly(j) /\ (j \notin repeated => OneMessage(j))

\* The invariant of a request is about its messages and mails only.
LEMMA OneMessageKept ==
    ASSUME TypeOK, NEW j \in Jobs, OneMessage(j),
           UNCHANGED <<queue, worker>>, mails'[j] = mails[j]
    PROVE  OneMessage(j)'
  BY DEF OneMessage, InQueue, WithWorker, Has, JobOf

\* A step that sends a mail leaves no message in its place: the task had
\* begun, so its message was acknowledged.
LEMMA AMailEndsTheTask ==
    ASSUME NEW w \in Workers,
           \/ NotFound(w) \/ Publish(w) \/ Refused(w) \/ Broken(w) \/ Send(w)
           \/ Crash(w) \/ CrashAfterSend(w)
    PROVE  mails' = mails \/ queue' = queue
  BY DEF NotFound, Publish, Refused, Broken, Send, Crash, CrashAfterSend, ComesBack, Runs

\* MailInv is inductive: each step keeps the messages of a request apart.
LEMMA MailsInv == Spec => []MailInv
<1>1. Init => MailInv
  BY DEF Init, MailInv, NothingEarly, OneMessage, InQueue, WithWorker, Has
<1>2. TypeOK /\ MailInv /\ [Next]_vars => MailInv'
  <2> SUFFICES ASSUME TypeOK, MailInv, [Next]_vars, NEW k \in Jobs
               PROVE  NothingEarly(k)' /\ (k \notin repeated' => OneMessage(k)')
    BY DEF MailInv
  <2>1. NothingEarly(k) /\ (k \notin repeated => OneMessage(k))
    BY DEF MailInv
  <2>2. ASSUME UNCHANGED <<queue, worker, mails, repeated>>,
               state'[k] \in {"unused", "checked"} => state[k] \in {"unused", "checked"}
        PROVE  NothingEarly(k)' /\ (k \notin repeated' => OneMessage(k)')
    <3>1. mails'[k] = mails[k]
      BY <2>2
    <3> QED BY <2>1, <2>2, <3>1, OneMessageKept
            DEF NothingEarly, InQueue, WithWorker, Has, JobOf
  <2>3. ASSUME NEW j \in Jobs, NEW i \in Invoices, RequestPdf(j, i)
        PROVE  NothingEarly(k)' /\ (k \notin repeated' => OneMessage(k)')
    BY <2>2, <2>3 DEF RequestPdf, Sets, TypeOK
  <2>4. ASSUME NEW j \in Jobs, Enqueue(j)
        PROVE  NothingEarly(k)' /\ (k \notin repeated' => OneMessage(k)')
    <3> DEFINE first == [job |-> j, task |-> "generate", retries |-> 0]
    <3>1. /\ state[j] = "checked"
          /\ queue' = queue \cup {first}
          /\ UNCHANGED <<worker, mails, repeated>>
          /\ first.job = j
      BY <2>4 DEF Enqueue
    <3>2. \A x \in Jobs : WithWorker(x)' <=> WithWorker(x)
      BY <3>1 DEF WithWorker, Has, JobOf
    <3>3. state'[j] = "accepted" /\ (k # j => state'[k] = state[k])
      BY <2>4 DEF Enqueue, Sets, TypeOK
    <3> HIDE DEF first
    <3>4. CASE k = j
      <4>1. ~InQueue(j) /\ ~WithWorker(j) /\ mails[j] = 0
        BY <2>1, <3>1, <3>4 DEF NothingEarly
      <4>2. \A m1, m2 \in queue' : m1.job = j /\ m2.job = j => m1 = m2
        BY <3>1, <4>1 DEF InQueue
      <4>3. OneMessage(j)'
        BY <3>1, <3>2, <4>1, <4>2 DEF OneMessage, WithWorker, Has, JobOf
      <4> QED BY <3>3, <3>4, <4>3 DEF NothingEarly
    <3>5. CASE k # j
      <4>1. InQueue(k)' <=> InQueue(k)
        BY <3>1, <3>5 DEF InQueue
      <4>2. NothingEarly(k)'
        BY <2>1, <3>1, <3>2, <3>3, <3>5, <4>1 DEF NothingEarly
      <4>3. OneMessage(k) => OneMessage(k)'
        BY <3>1, <3>2, <3>5, <4>1 DEF OneMessage, Has, JobOf
      <4> QED BY <2>1, <3>1, <4>2, <4>3
    <3> QED BY <3>4, <3>5
  <2>5. ASSUME NEW i \in Invoices, Delete(i)
        PROVE  NothingEarly(k)' /\ (k \notin repeated' => OneMessage(k)')
    BY <2>2, <2>5 DEF Delete
  <2>6. ASSUME NEW w \in Workers, NEW m \in queue, Fetch(w, m)
        PROVE  NothingEarly(k)' /\ (k \notin repeated' => OneMessage(k)')
    <3>1. /\ ~Has(w)
          /\ queue' = queue \ {m}
          /\ UNCHANGED <<state, mails, repeated>>
          /\ \A v \in Workers \ {w} : (Has(v)' <=> Has(v)) /\ JobOf(v)' = JobOf(v)
      BY <2>6 DEF Fetch, Has, JobOf, TypeOK
    <3>2. Has(w)' /\ JobOf(w)' = m.job
      BY <2>6, PdfWorkflowAssumption DEF Fetch, Has, JobOf, TypeOK, Stage
    <3>3. InQueue(k)' \/ WithWorker(k)' => InQueue(k) \/ WithWorker(k)
      BY <3>1, <3>2 DEF InQueue, WithWorker
    <3>4. NothingEarly(k)'
      BY <2>1, <3>1, <3>3 DEF NothingEarly
    <3>5. ASSUME OneMessage(k)
          PROVE  OneMessage(k)'
      <4>1. \A m1, m2 \in queue' : m1.job = k /\ m2.job = k => m1 = m2
        BY <3>1, <3>5 DEF OneMessage
      <4>2. CASE m.job = k
        <5>1. ~WithWorker(k) /\ InQueue(k)
          BY <2>6, <3>5, <4>2 DEF OneMessage, InQueue
        <5>2. \A v \in Workers : Has(v)' /\ JobOf(v)' = k => v = w
          BY <3>1, <5>1 DEF WithWorker
        <5>3. ~InQueue(k)'
          BY <3>1, <3>5, <4>2 DEF OneMessage, InQueue
        <5> QED BY <3>1, <3>3, <3>5, <4>1, <5>1, <5>2, <5>3 DEF OneMessage
      <4>3. CASE m.job # k
        <5>1. \A v \in Workers : Has(v)' /\ JobOf(v)' = k => Has(v) /\ JobOf(v) = k
          BY <3>1, <3>2, <4>3
        <5>2. InQueue(k)' => InQueue(k)
          BY <3>1 DEF InQueue
        <5>3. WithWorker(k)' => WithWorker(k)
          BY <5>1 DEF WithWorker
        <5> QED BY <3>1, <3>5, <4>1, <5>1, <5>2, <5>3 DEF OneMessage
      <4> QED BY <4>2, <4>3
    <3> QED BY <2>1, <3>1, <3>4, <3>5
  <2>7. ASSUME NEW w \in Workers, Begin(w) \/ Generate(w)
        PROVE  NothingEarly(k)' /\ (k \notin repeated' => OneMessage(k)')
    <3>1. /\ \A v \in Workers : (Has(v)' <=> Has(v)) /\ (Has(v) => JobOf(v)' = JobOf(v))
          /\ UNCHANGED <<state, queue, mails, repeated>>
      BY <2>7, HowMessagesStay
    <3>2. (InQueue(k)' <=> InQueue(k)) /\ (WithWorker(k)' <=> WithWorker(k))
      BY <3>1 DEF InQueue, WithWorker
    <3>3. NothingEarly(k)'
      BY <2>1, <3>1, <3>2 DEF NothingEarly
    <3>4. OneMessage(k) => OneMessage(k)'
      BY <3>1, <3>2 DEF OneMessage
    <3> QED BY <2>1, <3>1, <3>3, <3>4
  <2>8. ASSUME NEW w \in Workers,
               \/ NotFound(w) \/ Publish(w) \/ Refused(w) \/ Broken(w) \/ Send(w)
               \/ Crash(w) \/ CrashAfterSend(w)
        PROVE  NothingEarly(k)' /\ (k \notin repeated' => OneMessage(k)')
    <3>1. /\ Has(w)
          /\ JobOf(w) \in Jobs
          /\ \E more : /\ Gives(w, more)
                       /\ \/ more # {} /\ UNCHANGED state
                          \/ \E s \in Outcome :
                                more = {} /\ Sets(JobOf(w), s)
      BY <2>8, HowMessagesLeave
    <3>2. PICK more : /\ Gives(w, more)
                      /\ \/ more # {} /\ UNCHANGED state
                         \/ \E s \in Outcome : more = {} /\ Sets(JobOf(w), s)
      BY <3>1
    <3>3. /\ ~Has(w)'
          /\ \A v \in Workers \ {w} : (Has(v)' <=> Has(v)) /\ JobOf(v)' = JobOf(v)
      BY <3>2 DEF Gives, Has, JobOf, TypeOK
    <3>4. /\ UNCHANGED repeated
          /\ JobOf(w) # k => mails'[k] = mails[k]
          /\ mails'[k] = mails[k] \/ mails'[k] = mails[k] + 1
      BY <2>8, <3>1 DEF NotFound, Publish, Refused, Broken, Send, Crash, CrashAfterSend, TypeOK
    <3>5. CASE JobOf(w) # k
      <4>1. (InQueue(k)' <=> InQueue(k)) /\ (WithWorker(k)' <=> WithWorker(k))
        BY <3>1, <3>2, <3>3, <3>5 DEF Gives, InQueue, WithWorker
      <4>2. state'[k] = state[k]
        BY <3>1, <3>2, <3>5 DEF Sets, TypeOK
      <4>3. NothingEarly(k)'
        BY <2>1, <3>4, <3>5, <4>1, <4>2 DEF NothingEarly
      <4>4. \A m \in queue' : m.job = k => m \in queue
        BY <3>2, <3>5 DEF Gives
      <4>5. OneMessage(k) => OneMessage(k)'
        BY <3>3, <3>4, <3>5, <4>1, <4>4 DEF OneMessage
      <4> QED BY <2>1, <3>4, <4>3, <4>5
    <3>6. CASE JobOf(w) = k
      <4>1. WithWorker(k)
        BY <3>1, <3>6 DEF WithWorker
      <4>2. state[k] \notin {"unused", "checked"}
        BY <2>1, <4>1 DEF NothingEarly
      <4>3. state'[k] \notin {"unused", "checked"}
        BY <3>1, <3>2, <3>6, <4>2 DEF Sets, TypeOK, Outcome
      <4>4. ASSUME OneMessage(k)
            PROVE  OneMessage(k)'
        <5>1. ~InQueue(k) /\ mails[k] = 0
          BY <4>1, <4>4 DEF OneMessage
        <5>2. ~WithWorker(k)'
          BY <3>1, <3>3, <3>6, <4>4 DEF OneMessage, WithWorker
        <5>3. \A m1, m2 \in queue' : m1.job = k /\ m2.job = k => m1 = m2
          BY <3>2, <5>1 DEF Gives, InQueue
        <5>4. mails'[k] <= 1
          BY <3>4, <5>1
        <5>5. InQueue(k)' => mails'[k] = 0
          BY <2>8, <5>1, AMailEndsTheTask DEF InQueue
        <5> QED BY <5>2, <5>3, <5>4, <5>5 DEF OneMessage, WithWorker
      <4> QED BY <2>1, <3>4, <4>3, <4>4 DEF NothingEarly
    <3> QED BY <3>5, <3>6
  <2>9. ASSUME NEW w \in Workers, DeliverAgain(w)
        PROVE  NothingEarly(k)' /\ (k \notin repeated' => OneMessage(k)')
    <3>1. CASE k = JobOf(w)
      <4>1. WithWorker(k)
        BY <2>9, <3>1 DEF DeliverAgain, WithWorker
      <4> QED BY <2>1, <2>9, <3>1, <4>1 DEF DeliverAgain, NothingEarly
    <3>2. CASE k # JobOf(w)
      <4>1. \A m \in queue' : m.job = k => m \in queue
        BY <2>9, <3>2 DEF DeliverAgain, JobOf
      <4>2. (InQueue(k)' <=> InQueue(k)) /\ (WithWorker(k)' <=> WithWorker(k))
        BY <2>9, <4>1 DEF DeliverAgain, InQueue, WithWorker, Has, JobOf
      <4>3. OneMessage(k) => OneMessage(k)'
        BY <2>9, <4>1, <4>2 DEF DeliverAgain, OneMessage, Has, JobOf
      <4> QED BY <2>1, <2>9, <4>2, <4>3 DEF DeliverAgain, NothingEarly
    <3> QED BY <3>1, <3>2
  <2>10. CASE UNCHANGED vars
    BY <2>2, <2>10 DEF vars
  <2> QED BY <2>3, <2>4, <2>5, <2>6, <2>7, <2>8, <2>9, <2>10 DEF Next, Work
<1> QED BY <1>1, <1>2, TypeCorrect, PTL DEF Spec

\* A request leads to one mail, whatever is retried and whoever crashes,
\* unless a message of it was delivered twice (celery_app.py).
THEOREM MailsAreNotRepeated == Spec => []OneMailPerRequest
<1>1. MailInv => OneMailPerRequest
  BY DEF MailInv, OneMessage, OneMailPerRequest
<1> QED BY <1>1, MailsInv, PTL

-----------------------------------------------------------------------------
(* PdfWorkflow implements PdfChains.                                       *)

\* What has a message of a request that was not delivered twice is the chain
\* of a request that has no outcome.
OnlyWhileOpen ==
    \A j \in Jobs \ repeated : InQueue(j) \/ WithWorker(j) => state[j] = "accepted"

\* OnlyWhileOpen is inductive: the step that sets the outcome takes the one
\* message away.
LEMMA MessagesOnlyWhileOpen == Spec => []OnlyWhileOpen
<1>1. Init => OnlyWhileOpen
  BY DEF Init, OnlyWhileOpen, InQueue, WithWorker, Has
<1>2. TypeOK /\ MailInv /\ OnlyWhileOpen /\ [Next]_vars => OnlyWhileOpen'
  <2> SUFFICES ASSUME TypeOK, MailInv, OnlyWhileOpen, [Next]_vars,
                      NEW k \in Jobs, k \notin repeated', InQueue(k)' \/ WithWorker(k)'
               PROVE  state'[k] = "accepted"
    BY DEF OnlyWhileOpen
  <2> DEFINE Had == InQueue(k) \/ WithWorker(k)
  <2>1. k \notin repeated => (Had => state[k] = "accepted") /\ OneMessage(k) /\ NothingEarly(k)
    BY DEF OnlyWhileOpen, MailInv
  <2>2. CASE UNCHANGED <<queue, worker, repeated>>
    <3>1. k \notin repeated /\ Had
      BY <2>2 DEF InQueue, WithWorker, Has, JobOf
    <3>2. state[k] = "accepted"
      BY <2>1, <3>1
    <3>3. CASE UNCHANGED state
      BY <3>2, <3>3
    <3>4. ASSUME NEW j \in Jobs, NEW i \in Invoices, RequestPdf(j, i)
          PROVE  state'[k] = "accepted"
      BY <3>2, <3>4 DEF RequestPdf, Sets, TypeOK
    <3>5. ASSUME NEW j \in Jobs, Enqueue(j)
          PROVE  state'[k] = "accepted"
      BY <3>2, <3>5 DEF Enqueue, Sets, TypeOK
    <3>6. ASSUME NEW i \in Invoices, Delete(i)
          PROVE  state'[k] = "accepted"
      BY <3>2, <3>6 DEF Delete
    <3>7. ASSUME NEW w \in Workers, Work(w) \/ Crash(w) \/ CrashAfterSend(w)
          PROVE  state'[k] = "accepted"
      <4>1. CASE Begin(w) \/ Generate(w)
        BY <3>2, <4>1 DEF Begin, Generate
      <4>2. CASE \/ NotFound(w) \/ Publish(w) \/ Refused(w) \/ Broken(w) \/ Send(w)
                 \/ Crash(w) \/ CrashAfterSend(w)
        <5>1. Has(w) /\ ~Has(w)'
          BY <4>2, HowMessagesLeave DEF Gives, Has, TypeOK
        <5> QED BY <2>2, <5>1 DEF Has
      <4> QED BY <3>7, <4>1, <4>2 DEF Work
    <3>8. ASSUME NEW w \in Workers, DeliverAgain(w) \/ \E m \in queue : Fetch(w, m)
          PROVE  state'[k] = "accepted"
      BY <3>2, <3>8 DEF DeliverAgain, Fetch
    <3> QED BY <3>3, <3>4, <3>5, <3>6, <3>7, <3>8 DEF Next, vars
  <2>3. ASSUME NEW j \in Jobs, NEW i \in Invoices, RequestPdf(j, i)
        PROVE  state'[k] = "accepted"
    BY <2>2, <2>3 DEF RequestPdf
  <2>4. ASSUME NEW j \in Jobs, Enqueue(j)
        PROVE  state'[k] = "accepted"
    <3>1. state'[j] = "accepted" /\ (k # j => state'[k] = state[k])
      BY <2>4 DEF Enqueue, Sets, TypeOK
    <3>2. CASE k # j
      <4>1. [job |-> j, task |-> "generate", retries |-> 0].job = j
        OBVIOUS
      <4>2. k \notin repeated /\ Had
        BY <2>4, <3>2, <4>1 DEF Enqueue, InQueue, WithWorker, Has, JobOf
      <4> QED BY <2>1, <3>1, <3>2, <4>2
    <3> QED BY <3>1, <3>2
  <2>5. ASSUME NEW w \in Workers, NEW m \in queue, Fetch(w, m)
        PROVE  state'[k] = "accepted"
    <3>1. /\ worker' = [worker EXCEPT ![w] = [message |-> m, stage |-> "fetched"]]
          /\ queue' = queue \ {m}
          /\ UNCHANGED <<state, repeated>>
      BY <2>5 DEF Fetch
    <3>2. Has(w)' /\ JobOf(w)' = m.job
      BY <3>1, <2>5, PdfWorkflowAssumption DEF Has, JobOf, TypeOK, Stage
    <3>3. \A v \in Workers \ {w} : (Has(v)' <=> Has(v)) /\ JobOf(v)' = JobOf(v)
      BY <3>1 DEF Has, JobOf, TypeOK
    <3>4. Had
      BY <3>1, <3>2, <3>3 DEF InQueue, WithWorker
    <3> QED BY <2>1, <3>1, <3>4
  <2>6. ASSUME NEW w \in Workers, Begin(w) \/ Generate(w)
        PROVE  state'[k] = "accepted"
    <3>1. /\ \A v \in Workers : (Has(v)' <=> Has(v)) /\ (Has(v) => JobOf(v)' = JobOf(v))
          /\ UNCHANGED <<state, queue, repeated>>
      BY <2>6, HowMessagesStay
    <3>2. Had
      BY <3>1 DEF InQueue, WithWorker
    <3> QED BY <2>1, <3>1, <3>2
  <2>7. ASSUME NEW w \in Workers,
               \/ NotFound(w) \/ Publish(w) \/ Refused(w) \/ Broken(w) \/ Send(w)
               \/ Crash(w) \/ CrashAfterSend(w)
        PROVE  state'[k] = "accepted"
    <3>1. /\ Has(w)
          /\ JobOf(w) \in Jobs
          /\ \E more : /\ Gives(w, more)
                       /\ \/ more # {} /\ UNCHANGED state
                          \/ \E s \in Outcome :
                                more = {} /\ Sets(JobOf(w), s)
      BY <2>7, HowMessagesLeave
    <3>2. PICK more : /\ Gives(w, more)
                      /\ \/ more # {} /\ UNCHANGED state
                         \/ \E s \in Outcome : more = {} /\ Sets(JobOf(w), s)
      BY <3>1
    <3>3. /\ ~Has(w)'
          /\ \A v \in Workers \ {w} : (Has(v)' <=> Has(v)) /\ JobOf(v)' = JobOf(v)
      BY <3>2 DEF Gives, Has, JobOf, TypeOK
    <3>4. UNCHANGED repeated
      BY <2>7 DEF NotFound, Publish, Refused, Broken, Send, Crash, CrashAfterSend
    <3>5. Had
      <4>1. CASE JobOf(w) = k
        BY <3>1, <4>1 DEF WithWorker
      <4>2. CASE JobOf(w) # k
        BY <3>2, <3>3, <4>2 DEF Gives, InQueue, WithWorker
      <4> QED BY <4>1, <4>2
    <3>6. state[k] = "accepted" /\ OneMessage(k)
      BY <2>1, <3>4, <3>5
    <3>7. CASE JobOf(w) = k /\ more = {}
      <4>1. ~InQueue(k) /\ \A v \in Workers : Has(v) /\ JobOf(v) = k => v = w
        BY <3>1, <3>6, <3>7 DEF OneMessage, WithWorker
      <4>2. ~InQueue(k)'
        BY <3>2, <3>7, <4>1 DEF Gives, InQueue
      <4>3. ~WithWorker(k)'
        BY <3>3, <4>1 DEF WithWorker
      <4> QED BY <4>2, <4>3
    <3> QED BY <3>1, <3>2, <3>6, <3>7 DEF Sets, TypeOK
  <2>8. ASSUME NEW w \in Workers, DeliverAgain(w)
        PROVE  state'[k] = "accepted"
    <3>1. /\ queue' = queue \cup {worker[w].message}
          /\ repeated' = repeated \cup {JobOf(w)}
          /\ UNCHANGED <<state, worker>>
      BY <2>8 DEF DeliverAgain
    <3>2. k # JobOf(w) /\ k \notin repeated
      BY <3>1
    <3>3. Had
      BY <3>1, <3>2 DEF InQueue, WithWorker, Has, JobOf
    <3> QED BY <2>1, <3>1, <3>2, <3>3
  <2>9. ASSUME NEW i \in Invoices, Delete(i)
        PROVE  state'[k] = "accepted"
    BY <2>2, <2>9 DEF Delete
  <2>10. CASE UNCHANGED vars
    BY <2>2, <2>10 DEF vars
  <2> QED BY <2>3, <2>4, <2>5, <2>6, <2>7, <2>8, <2>9, <2>10 DEF Next, Work
<1> QED BY <1>1, <1>2, TypeCorrect, MailsInv, PTL DEF Spec

\* The one piece of work that a worker carries.
What(w) ==
    IF worker[w].stage = "rendered" THEN Chains!First(JobOf(w), "send") ELSE worker[w].message

LEMMA CarriedIsOne ==
    ASSUME TypeOK, NEW w \in Workers, Has(w)
    PROVE  /\ Carried(w) = {What(w)}
           /\ What(w).job = JobOf(w) /\ JobOf(w) \in Jobs
  BY WhatAWorkerHas DEF Carried, What, NextTask, Chains!First, JobOf

\* What is with the broker or with a worker other than w.
Elsewhere(w) == queue \cup UNION {Carried(v) : v \in {u \in Workers \ {w} : Has(u)}}

LEMMA PendingSplits ==
    ASSUME NEW w \in Workers
    PROVE  /\ Has(w) => Pending = Elsewhere(w) \cup Carried(w)
           /\ ~Has(w) => Pending = Elsewhere(w)
           /\ Has(w)' => Pending' = Elsewhere(w)' \cup Carried(w)'
           /\ ~Has(w)' => Pending' = Elsewhere(w)'
  BY DEF Pending, Elsewhere

\* A step that changes what worker w has, and nobody else's, leaves elsewhere
\* what it adds to the queue.
LEMMA ElsewhereGrows ==
    ASSUME NEW w \in Workers, NEW more,
           \A v \in Workers \ {w} : worker'[v] = worker[v],
           queue' = queue \cup more
    PROVE  Elsewhere(w)' = Elsewhere(w) \cup more
<1>1. \A v \in Workers \ {w} : (Has(v)' <=> Has(v)) /\ Carried(v)' = Carried(v)
  BY DEF Has, Carried
<1> QED BY <1>1 DEF Elsewhere

\* The work of a request that was not delivered twice is in one place.
LEMMA NotElsewhere ==
    ASSUME TypeOK, MailInv, NEW w \in Workers, Has(w), JobOf(w) \notin repeated
    PROVE  What(w) \notin Elsewhere(w)
<1>1. What(w).job = JobOf(w) /\ JobOf(w) \in Jobs
  BY CarriedIsOne
<1>2. OneMessage(JobOf(w))
  BY <1>1 DEF MailInv
<1>3. WithWorker(JobOf(w))
  BY DEF WithWorker
<1>4. What(w) \notin queue
  BY <1>1, <1>2, <1>3 DEF OneMessage, InQueue
<1>5. ASSUME NEW v \in Workers \ {w}, Has(v), What(w) \in Carried(v)
      PROVE  FALSE
  <2>1. What(w) = What(v)
    BY <1>5, CarriedIsOne
  <2>2. JobOf(v) = JobOf(w)
    BY <1>1, <1>5, <2>1, CarriedIsOne
  <2> QED BY <1>2, <1>5, <2>2 DEF OneMessage
<1> QED BY <1>4, <1>5 DEF Elsewhere

\* A worker that has something else afterwards, or nothing, has replaced the
\* work that it carried.
LEMMA WorkIsReplaced ==
    ASSUME TypeOK, MailInv, NEW w \in Workers, Has(w), NEW more, NEW kept,
           \A v \in Workers \ {w} : worker'[v] = worker[v],
           queue' = queue \cup more,
           \/ Has(w)' /\ Carried(w)' = kept
           \/ ~Has(w)' /\ kept = {}
    PROVE  /\ What(w) \in Pending
           /\ Chains!Replace(What(w), more \cup kept)
           /\ more \cup kept = Carried(w) => UNCHANGED Pending
<1>1. Pending = Elsewhere(w) \cup {What(w)} /\ Carried(w) = {What(w)}
  BY PendingSplits, CarriedIsOne
<1>2. Pending' = Elsewhere(w) \cup more \cup kept
  BY PendingSplits, ElsewhereGrows
<1>3. What(w).job = JobOf(w)
  BY CarriedIsOne
<1>4. CASE What(w) \in Elsewhere(w)
  <2>1. JobOf(w) \in repeated
    BY <1>4, NotElsewhere
  <2>2. Pending' = Pending \cup (more \cup kept)
    BY <1>1, <1>2, <1>4
  <2> QED BY <1>1, <1>3, <2>1, <2>2 DEF Chains!Replace
<1>5. CASE What(w) \notin Elsewhere(w)
  <2>1. Pending' = (Pending \ {What(w)}) \cup (more \cup kept)
    BY <1>1, <1>2, <1>5
  <2> QED BY <1>1, <2>1 DEF Chains!Replace
<1> QED BY <1>4, <1>5

\* A worker that becomes free with an outcome has ended a request.
LEMMA EndRefines ==
    ASSUME TypeOK, MailInv, OnlyWhileOpen, NEW w \in Workers, Has(w),
           NEW s \in Outcome, Sets(JobOf(w), s),
           worker' = [worker EXCEPT ![w] = Idle],
           UNCHANGED <<live, job, queue, repeated>>
    PROVE  What(w) \in Pending /\ Chains!End(What(w), s)
<1>1. ~Has(w)' /\ \A v \in Workers \ {w} : worker'[v] = worker[v]
  BY DEF Has, TypeOK
<1>2. queue' = queue \cup {}
  OBVIOUS
<1>3. What(w) \in Pending /\ Chains!Replace(What(w), {} \cup {})
  BY ONLY <1>1, <1>2, WorkIsReplaced, TypeOK, MailInv, Has(w), w \in Workers
<1>4. What(w).job = JobOf(w) /\ JobOf(w) \in Jobs
  BY CarriedIsOne
<1>5. JobOf(w) \notin repeated => state[JobOf(w)] = "accepted"
  BY <1>4 DEF OnlyWhileOpen, WithWorker
<1>6. {} \cup {} = {}
  OBVIOUS
<1> QED BY <1>3, <1>4, <1>5, <1>6 DEF Chains!End, Sets

\* Whatever the workers do and whoever crashes, PdfWorkflow implements
\* PdfChains: what a worker does to a chain is one step of it, and the ways of
\* the messages are none.
THEOREM ChainsRefinement == Spec => ImplementsChains
<1>1. Init => Chains!Init
  <2> SUFFICES ASSUME Init
               PROVE  Chains!Init
    OBVIOUS
  <2>1. Pending = {}
    BY DEF Init, Pending, Has
  <2> QED BY <2>1 DEF Init, Chains!Init
<1>2. TypeOK /\ MailInv /\ OnlyWhileOpen /\ [Next]_vars => [Chains!Next]_(Chains!vars)
  <2> SUFFICES ASSUME TypeOK, MailInv, OnlyWhileOpen, [Next]_vars
               PROVE  Chains!Next \/ UNCHANGED Chains!vars
    OBVIOUS
  <2>1. ASSUME UNCHANGED <<queue, worker>>
        PROVE  UNCHANGED Pending
    BY <2>1 DEF Pending, Carried, Has
  <2>2. CASE UNCHANGED vars
    BY <2>1, <2>2 DEF vars, Chains!vars
  <2>3. ASSUME NEW j \in Jobs, NEW i \in Invoices, RequestPdf(j, i)
        PROVE  Chains!Next
    <3>1. Chains!Request(j, i)
      BY <2>1, <2>3 DEF RequestPdf, Sets, Chains!Request
    <3> QED BY <3>1 DEF Chains!Next
  <2>4. ASSUME NEW j \in Jobs, Enqueue(j)
        PROVE  Chains!Next
    <3>1. Pending' = Pending \cup {Chains!First(j, "generate")}
      BY <2>4 DEF Enqueue, Pending, Carried, Has, Chains!First
    <3>2. Chains!Accept(j)
      BY <2>4, <3>1 DEF Enqueue, Sets, Chains!Accept
    <3> QED BY <3>2 DEF Chains!Next
  <2>5. ASSUME NEW i \in Invoices, Delete(i)
        PROVE  Chains!Next
    <3>1. Chains!Delete(i)
      BY <2>1, <2>5 DEF Delete, Chains!Delete
    <3> QED BY <3>1 DEF Chains!Next
  <2>6. ASSUME NEW w \in Workers, NEW m \in queue, Fetch(w, m)
        PROVE  UNCHANGED Chains!vars
    <3>1. /\ ~Has(w)
          /\ queue' = queue \ {m}
          /\ \A v \in Workers \ {w} : worker'[v] = worker[v]
          /\ worker'[w] = [message |-> m, stage |-> "fetched"]
      BY <2>6 DEF Fetch, TypeOK
    <3>2. Has(w)' /\ Carried(w)' = {m}
      BY <3>1, <2>6, PdfWorkflowAssumption DEF Has, Carried, TypeOK, Stage
    <3>3. \A v \in Workers \ {w} : (Has(v)' <=> Has(v)) /\ Carried(v)' = Carried(v)
      BY <3>1 DEF Has, Carried
    <3>4. Elsewhere(w)' \cup {m} = Elsewhere(w)
      BY <3>1, <3>3, <2>6 DEF Elsewhere
    <3>5. UNCHANGED Pending
      BY <3>1, <3>2, <3>4, PendingSplits
    <3> QED BY <2>6, <3>5 DEF Fetch, Chains!vars
  <2>7. ASSUME NEW w \in Workers, Work(w)
        PROVE  Chains!Next \/ UNCHANGED Chains!vars
    <3>1. Has(w)
      BY <2>7 DEF Work, Begin, Generate, NotFound, Publish, Refused, Broken, Send, Runs
    <3>2. /\ worker[w] \in [message : Message, stage : Stage]
          /\ JobOf(w) \in Jobs
      BY <3>1, WhatAWorkerHas
    <3>3. worker[w].stage # "rendered" =>
             What(w) = worker[w].message /\ Carried(w) = {worker[w].message}
      BY DEF What, Carried
    <3>4. ASSUME NEW s \in Stage, worker' = [worker EXCEPT ![w].stage = s]
          PROVE  /\ \A v \in Workers \ {w} : worker'[v] = worker[v]
                 /\ worker'[w] = [message |-> worker[w].message, stage |-> s]
                 /\ Has(w)'
      <4>1. /\ worker'[w] = [message |-> worker[w].message, stage |-> s]
            /\ \A v \in Workers \ {w} : worker'[v] = worker[v]
        BY <3>2, <3>4 DEF TypeOK
      <4>2. worker'[w] \in [message : Message, stage : Stage]
        BY <3>2, <4>1
      <4> QED BY <4>1, <4>2, PdfWorkflowAssumption DEF Has
    <3>5. CASE Begin(w)
      <4>1. /\ worker' = [worker EXCEPT ![w].stage = "running"]
            /\ worker[w].stage = "fetched" /\ queue' = queue \cup {}
        BY <3>5 DEF Begin
      <4>2. /\ \A v \in Workers \ {w} : worker'[v] = worker[v]
            /\ Has(w)' /\ Carried(w)' = {worker[w].message}
        BY <3>4, <4>1 DEF Stage, Carried
      <4>3. {} \cup {worker[w].message} = Carried(w)
        BY <3>3, <4>1
      <4>4. UNCHANGED Pending
        BY ONLY <3>1, <4>1, <4>2, <4>3, WorkIsReplaced, TypeOK, MailInv, w \in Workers
      <4> QED BY <3>5, <4>4 DEF Begin, Chains!vars
    <3>6. CASE Generate(w)
      <4>1. /\ worker' = [worker EXCEPT ![w].stage = "rendered"]
            /\ worker[w].stage = "running" /\ queue' = queue \cup {}
            /\ worker[w].message.task = "generate" /\ job[JobOf(w)] \in live
        BY <3>6 DEF Generate, Runs
      <4> DEFINE next == {Chains!First(JobOf(w), "send")}
      <4>2. /\ \A v \in Workers \ {w} : worker'[v] = worker[v]
            /\ Has(w)' /\ Carried(w)' = next
        BY <3>4, <4>1 DEF Stage, Carried, NextTask, Chains!First, JobOf
      <4> HIDE DEF next
      <4>3. What(w) \in Pending /\ Chains!Replace(What(w), {} \cup next)
        BY ONLY <3>1, <4>1, <4>2, WorkIsReplaced, TypeOK, MailInv, w \in Workers
      <4>4. {} \cup next = next /\ What(w).job = JobOf(w)
        BY <3>1, CarriedIsOne
      <4>5. Chains!Render(What(w))
        BY <3>3, <3>6, <4>1, <4>3, <4>4 DEF Generate, Chains!Render, next
      <4> QED BY <4>3, <4>5 DEF Chains!Next
    <3>7. CASE NotFound(w)
      <4>1. What(w) \in Pending /\ Chains!End(What(w), "not found")
        BY <3>1, <3>7, EndRefines DEF NotFound, Outcome
      <4>2. Chains!NotFound(What(w))
        BY <3>3, <3>7, <4>1 DEF NotFound, Runs, JobOf, Chains!NotFound
      <4> QED BY <4>1, <4>2 DEF Chains!Next
    <3>8. CASE Publish(w)
      <4>1. /\ worker' = [worker EXCEPT ![w] = Idle] /\ queue' = queue \cup Carried(w)
            /\ Carried(w) \cup {} = Carried(w)
        BY <3>8 DEF Publish, Carried
      <4>2. ~Has(w)' /\ \A v \in Workers \ {w} : worker'[v] = worker[v]
        BY <4>1 DEF Has, TypeOK
      <4>3. UNCHANGED Pending
        BY ONLY <3>1, <4>1, <4>2, WorkIsReplaced, TypeOK, MailInv, w \in Workers
      <4> QED BY <3>8, <4>3 DEF Publish, Chains!vars
    <3>9. CASE Refused(w)
      <4> DEFINE m == worker[w].message
      <4>1. What(w) = m /\ m.task = "generate" /\ m \in Message
        BY <3>2, <3>3, <3>9 DEF Refused, Runs
      <4>2. CASE MayRetry(m)
        <5>1. /\ worker' = [worker EXCEPT ![w] = Idle] /\ queue' = queue \cup {Retried(m)}
              /\ UNCHANGED <<live, job, state, mails, repeated>>
          BY <3>9, <4>2 DEF Refused
        <5>2. ~Has(w)' /\ \A v \in Workers \ {w} : worker'[v] = worker[v]
          BY <5>1 DEF Has, TypeOK
        <5>3. What(w) \in Pending /\ Chains!Replace(What(w), {Retried(m)} \cup {})
          BY ONLY <3>1, <5>1, <5>2, WorkIsReplaced, TypeOK, MailInv, w \in Workers
        <5>4. {Retried(m)} \cup {} = {Retried(m)}
          OBVIOUS
        <5>5. Chains!Retry(What(w))
          BY <4>1, <4>2, <5>1, <5>3, <5>4 DEF MayRetry, Retried, Chains!Retry
        <5> QED BY <5>3, <5>5 DEF Chains!Next
      <4>3. CASE ~MayRetry(m)
        <5>1. /\ worker' = [worker EXCEPT ![w] = Idle] /\ Sets(JobOf(w), "refused")
              /\ UNCHANGED <<live, job, queue, mails, repeated>>
          BY <3>9, <4>3 DEF Refused, JobOf
        <5>2. What(w) \in Pending /\ Chains!End(What(w), "refused")
          BY <3>1, <5>1, EndRefines DEF Outcome
        <5>3. m.retries = MaxRetries
          BY <4>1, <4>3, PdfWorkflowAssumption DEF MayRetry, Message
        <5>4. Chains!Refuse(What(w))
          BY <4>1, <5>1, <5>2, <5>3 DEF Chains!Refuse
        <5> QED BY <5>2, <5>4 DEF Chains!Next
      <4> QED BY <4>2, <4>3
    <3>10. CASE Send(w)
      <4>1. What(w) \in Pending /\ Chains!End(What(w), "sent")
        BY <3>1, <3>10, EndRefines DEF Send, Outcome
      <4>2. Chains!Send(What(w))
        BY <3>3, <3>10, <4>1 DEF Send, Runs, JobOf, Chains!Send, Chains!WithMail
      <4> QED BY <4>1, <4>2 DEF Chains!Next
    <3>11. CASE Broken(w)
      <4>1. What(w) \in Pending /\ Chains!End(What(w), "failed")
        BY <3>1, <3>11, EndRefines DEF Broken, Outcome
      <4>2. Chains!Fail(What(w))
        BY <3>3, <3>11, <4>1 DEF Broken, Runs, JobOf, Chains!Fail
      <4> QED BY <4>1, <4>2 DEF Chains!Next
    <3> QED BY <2>7, <3>5, <3>6, <3>7, <3>8, <3>9, <3>10, <3>11 DEF Work
  <2>8. ASSUME NEW w \in Workers, Crash(w) \/ CrashAfterSend(w)
        PROVE  Chains!Next \/ UNCHANGED Chains!vars
    <3>1. Has(w) /\ worker' = [worker EXCEPT ![w] = Idle] /\ UNCHANGED <<live, job, repeated>>
      BY <2>8 DEF Crash, CrashAfterSend, Runs
    <3>2. CASE ComesBack(w)
      <4>1. /\ UNCHANGED <<state, mails>> /\ queue' = queue \cup {worker[w].message}
            /\ {worker[w].message} \cup {} = Carried(w)
        BY <2>8, <3>2 DEF Crash, CrashAfterSend, Runs, ComesBack, Carried
      <4>2. ~Has(w)' /\ \A v \in Workers \ {w} : worker'[v] = worker[v]
        BY <3>1 DEF Has, TypeOK
      <4>3. UNCHANGED Pending
        BY ONLY <3>1, <4>1, <4>2, WorkIsReplaced, TypeOK, MailInv, w \in Workers
      <4> QED BY <3>1, <4>1, <4>3 DEF Chains!vars
    <3>3. CASE ~ComesBack(w)
      <4>1. UNCHANGED queue /\ Sets(JobOf(w), "lost")
        BY <2>8, <3>3 DEF Crash, CrashAfterSend
      <4>2. What(w) \in Pending /\ Chains!End(What(w), "lost")
        BY <3>1, <4>1, EndRefines DEF Outcome
      <4>3. UNCHANGED mails \/ Chains!WithMail(What(w))
        BY <2>8 DEF Crash, CrashAfterSend, Runs, What, JobOf, Chains!WithMail
      <4>4. Chains!Lose(What(w))
        BY <4>2, <4>3 DEF Chains!Lose
      <4> QED BY <4>2, <4>4 DEF Chains!Next
    <3> QED BY <3>2, <3>3
  <2>9. ASSUME NEW w \in Workers, DeliverAgain(w)
        PROVE  Chains!Next
    <3>1. /\ Has(w) /\ UNCHANGED <<live, job, state, worker, mails>>
          /\ queue' = queue \cup {worker[w].message}
          /\ Carried(w) = {worker[w].message} /\ What(w) = worker[w].message
          /\ repeated' = repeated \cup {JobOf(w)}
      BY <2>9 DEF DeliverAgain, Carried, What
    <3>2. Has(w)' /\ Carried(w)' = Carried(w)
      BY <3>1 DEF Has, Carried
    <3>3. What(w) \in Pending
      BY <3>1, PendingSplits
    <3>4. Elsewhere(w)' = Elsewhere(w) \cup {worker[w].message}
      BY <3>1, ElsewhereGrows
    <3>5. UNCHANGED Pending
      BY <3>1, <3>2, <3>4, PendingSplits
    <3>6. Chains!Repeat(What(w))
      BY <3>1, <3>5 DEF JobOf, Chains!Repeat
    <3> QED BY <3>3, <3>6 DEF Chains!Next
  <2> QED BY <2>2, <2>3, <2>4, <2>5, <2>6, <2>7, <2>8, <2>9 DEF Next
<1> QED BY <1>1, <1>2, TypeCorrect, MailsInv, MessagesOnlyWhileOpen, PTL
        DEF Spec, ImplementsChains, Chains!Spec
=============================================================================
