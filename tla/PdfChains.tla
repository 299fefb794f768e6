----------------------------- MODULE PdfChains -----------------------------
(***************************************************************************)
(* What is promised of a request for a PDF, without broker and workers:    *)
(* once it is accepted there is one piece of work of it at a time, first   *)
(* the PDF and then the mail, until it has its outcome.  A PDF is made     *)
(* only of an invoice that is there, and given up only after the last      *)
(* retry, for an invoice that is gone, or when making it fails; then, or   *)
(* when its worker ends, the request is over.  Only of a request that was  *)
(* delivered twice may work be left that has been done already.            *)
(* PdfWorkflow is shown to implement this module, with any number of       *)
(* workers and faults.                                                     *)
(***************************************************************************)
EXTENDS Naturals

CONSTANTS Invoices, Jobs, MaxRetries, Unused

VARIABLES
    live, job, state, mails, repeated,      \* as in PdfWorkflow
    pending                                 \* the work there is to do

vars == <<live, job, state, mails, repeated, pending>>

First(j, task) == [job |-> j, task |-> task, retries |-> 0]

Init ==
    /\ live = Invoices
    /\ job = [j \in Jobs |-> Unused]
    /\ state = [j \in Jobs |-> "unused"]
    /\ mails = [j \in Jobs |-> 0]
    /\ repeated = {}
    /\ pending = {}

Request(j, i) ==
    /\ state[j] = "unused"
    /\ i \in live
    /\ job' = [job EXCEPT ![j] = i]
    /\ state' = [state EXCEPT ![j] = "checked"]
    /\ UNCHANGED <<live, mails, repeated, pending>>

Accept(j) ==
    /\ state[j] = "checked"
    /\ state' = [state EXCEPT ![j] = "accepted"]
    /\ pending' = pending \cup {First(j, "generate")}
    /\ UNCHANGED <<live, job, mails, repeated>>

Delete(i) ==
    /\ i \in live
    /\ live' = live \ {i}
    /\ UNCHANGED <<job, state, mails, repeated, pending>>

Repeat(m) ==
    /\ repeated' = repeated \cup {m.job}
    /\ UNCHANGED <<live, job, state, mails, pending>>

\* The work that m is makes room for more.
Replace(m, more) ==
    \/ pending' = (pending \ {m}) \cup more
    \/ m.job \in repeated /\ pending' = pending \cup more

Render(m) ==
    /\ m.task = "generate"
    /\ job[m.job] \in live
    /\ Replace(m, {First(m.job, "send")})
    /\ UNCHANGED <<live, job, state, mails, repeated>>

Retry(m) ==
    /\ m.task = "generate"
    /\ m.retries < MaxRetries
    /\ Replace(m, {[m EXCEPT !.retries = @ + 1]})
    /\ UNCHANGED <<live, job, state, mails, repeated>>

\* The outcome is the only one, and comes after the request was accepted.
End(m, outcome) ==
    /\ m.job \notin repeated => state[m.job] = "accepted"
    /\ state' = [state EXCEPT ![m.job] = outcome]
    /\ Replace(m, {})
    /\ UNCHANGED <<live, job, repeated>>

WithMail(m) == m.task = "send" /\ mails' = [mails EXCEPT ![m.job] = @ + 1]

NotFound(m) ==
    m.task = "generate" /\ job[m.job] \notin live /\ End(m, "not found") /\ UNCHANGED mails

Refuse(m) ==
    m.task = "generate" /\ m.retries = MaxRetries /\ End(m, "refused") /\ UNCHANGED mails

Fail(m) == m.task = "generate" /\ End(m, "failed") /\ UNCHANGED mails

Send(m) == WithMail(m) /\ End(m, "sent")

\* The mail may have left before the worker ended.
Lose(m) == End(m, "lost") /\ (WithMail(m) \/ UNCHANGED mails)

Next ==
    \/ \E j \in Jobs : Accept(j) \/ \E i \in Invoices : Request(j, i)
    \/ \E i \in Invoices : Delete(i)
    \/ \E m \in pending :
          \/ Repeat(m) \/ Render(m) \/ Retry(m)
          \/ NotFound(m) \/ Refuse(m) \/ Fail(m) \/ Send(m) \/ Lose(m)

Spec == Init /\ [][Next]_vars
=============================================================================
