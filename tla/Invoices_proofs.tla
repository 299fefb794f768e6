-------------------------- MODULE Invoices_proofs --------------------------
(***************************************************************************)
(* Proofs about Invoices, for any number of slots, users, clients,         *)
(* invoices and numbers.                                                   *)
(***************************************************************************)
EXTENDS Invoices, TLAPS

-----------------------------------------------------------------------------
(* Lemmas about the operators of the model.                                *)

\* A task that is updated with a task remains a function into Tasks.
LEMMA ContinueType ==
    ASSUME TypeOK, NEW r \in Requests, NEW next \in Tasks, Continue(r, next)
    PROVE  task' \in [Requests -> Tasks]
BY DEF TypeOK, Continue

\* Answers to requests are tasks.
LEMMA AnswerType ==
    ASSUME TypeOK, NEW r \in Requests, NEW on \in Resources, NEW code \in Codes,
           Answer(r, on, code)
    PROVE  task' \in [Requests -> Tasks]
BY DEF TypeOK, Answer, Continue, Answered, Tasks

LEMMA FailedType ==
    ASSUME TypeOK, NEW r \in Requests, Continue(r, Failed)
    PROVE  task' \in [Requests -> Tasks]
BY DEF TypeOK, Continue, Tasks

\* The fields of a request in flight, step by step.
LEMMA TaskFields ==
    ASSUME NEW t \in Tasks
    PROVE  /\ t.pc = "insert" => /\ t.uid \in Users
                                 /\ t.client \in ClientIds
                                 /\ t.number \in Numbers
                                 /\ t.due \in Days
           /\ t.pc \in {"reload", "exists_check"} => t.id \in InvoiceIds
           /\ t.pc = "set_status" => /\ t.uid \in Users
                                     /\ t.id \in InvoiceIds
                                     /\ t.old \in Status
                                     /\ t.new \in Status
           /\ t.pc = "delete_row" => t.uid \in Users /\ t.id \in InvoiceIds
           /\ t.pc = "overdue_scan" => t.uid \in Users /\ t.day \in Days
           /\ t.pc = "overdue_commit" => /\ t.uid \in Users
                                         /\ t.day \in Days
                                         /\ t.rows \in SUBSET InvoiceIds
           /\ t.pc = "delete_client" => t.client \in ClientIds
BY DEF Tasks, InFlight, Idle, Failed

\* A change of the status of a row gives a row.
LEMMA WithStatusType ==
    ASSUME NEW row \in Row, NEW s \in Status
    PROVE  /\ [row EXCEPT !.status = s] \in Row
           /\ [row EXCEPT !.status = s].status = s
           /\ [row EXCEPT !.status = s].owner = row.owner
           /\ [row EXCEPT !.status = s].client = row.client
BY DEF Row

-----------------------------------------------------------------------------
(* Type correctness.                                                       *)

\* Every step of the invoice service keeps every variable in its type.
THEOREM TypeCorrect == Spec => []TypeOK
<1>1. Init => TypeOK
  BY MaxDayAssumption DEF Init, TypeOK, Tasks, Days
<1>2. TypeOK /\ [Next]_vars => TypeOK'
  <2> SUFFICES ASSUME TypeOK, [Next]_vars
               PROVE  TypeOK'
    OBVIOUS
  <2>1. ASSUME NEW r \in Requests, NEW uid \in Users, NEW c \in ClientIds,
               NEW n \in Numbers, NEW due \in Days, CreateLoad(r, uid, c, n, due)
        PROVE  TypeOK'
    <3>1. [pc |-> "insert", uid |-> uid, client |-> c, number |-> n, due |-> due] \in Tasks
      BY DEF Tasks, InFlight
    <3>2. c \in Resources /\ 404 \in Codes /\ 422 \in Codes
      BY DEF Resources, Codes
    <3>3. task' \in [Requests -> Tasks]
      BY <2>1, <3>1, <3>2, ContinueType, AnswerType DEF CreateLoad
    <3> QED BY <2>1, <3>3 DEF TypeOK, CreateLoad, data
  <2>2. ASSUME NEW r \in Requests, InsertInvoice(r)
        PROVE  TypeOK'
    <3> DEFINE t == task[r]
    <3>1. t \in Tasks /\ t.pc = "insert"
      BY <2>2 DEF TypeOK, InsertInvoice
    <3>2. t.uid \in Users /\ t.client \in ClientIds /\ t.number \in Numbers /\ t.due \in Days
      BY <3>1, TaskFields
    <3>3. NewRow(t.uid, t.client, t.number, t.due) \in Row
      BY <3>2 DEF NewRow, Row, Status
    <3>4. \A i \in InvoiceIds : [pc |-> "reload", id |-> i] \in Tasks
      BY DEF Tasks, InFlight
    <3>5. task' \in [Requests -> Tasks]
      BY <2>2, <3>4, ContinueType, FailedType DEF InsertInvoice
    <3>6. invoices' \in [InvoiceIds -> Row \cup {NotInserted, Deleted}]
      BY <2>2, <3>3 DEF InsertInvoice, TypeOK
    <3> QED BY <2>2, <3>5, <3>6 DEF TypeOK, InsertInvoice
  <2>3. ASSUME NEW r \in Requests, ReloadInvoice(r)
        PROVE  TypeOK'
    <3>1. task[r] \in Tasks /\ task[r].id \in InvoiceIds
      BY <2>3, TaskFields DEF TypeOK, ReloadInvoice
    <3>2. Answered(task[r].id, 201) \in Tasks /\ Failed \in Tasks
      BY <3>1 DEF Answered, Tasks, Resources, Codes
    <3> QED BY <2>3, <3>2, ContinueType DEF TypeOK, ReloadInvoice, data
  <2>4. ASSUME NEW r \in Requests, NEW uid \in Users, NEW i \in InvoiceIds,
               NEW new \in Status, StatusLoad(r, uid, i, new)
        PROVE  TypeOK'
    <3>1. Visible(uid, i) => invoices[i].status \in Status
      BY DEF Visible, Live, Row
    <3>2. Visible(uid, i) => [pc |-> "set_status", uid |-> uid, id |-> i,
                              old |-> invoices[i].status, new |-> new] \in Tasks
      BY <3>1 DEF Tasks, InFlight
    <3>3. i \in Resources /\ 404 \in Codes /\ 422 \in Codes
      BY DEF Resources, Codes
    <3>4. task' \in [Requests -> Tasks]
      BY <2>4, <3>2, <3>3, ContinueType, AnswerType DEF StatusLoad
    <3> QED BY <2>4, <3>4 DEF TypeOK, StatusLoad, data
  <2>5. ASSUME NEW r \in Requests, SetStatus(r)
        PROVE  TypeOK'
    <3> DEFINE t == task[r]
    <3>1. t \in Tasks /\ t.id \in InvoiceIds /\ t.old \in Status /\ t.new \in Status
      BY <2>5, TaskFields DEF TypeOK, SetStatus
    <3>2. t.id \in Resources /\ 200 \in Codes
      BY <3>1 DEF Resources, Codes
    <3>3. task' \in [Requests -> Tasks]
      BY <2>5, <3>2, AnswerType, FailedType DEF SetStatus
    <3>4. invoices' \in [InvoiceIds -> Row \cup {NotInserted, Deleted}]
      <4>1. Live(t.id) => [invoices[t.id] EXCEPT !.status = t.new] \in Row
        BY <3>1, WithStatusType DEF Live
      <4> QED BY <2>5, <3>1, <4>1 DEF SetStatus, TypeOK
    <3>5. audit' \in [InvoiceIds -> Seq(LogEntry)]
      <4>1. LogChange(audit[t.id], t.old, t.new) \in Seq(LogEntry)
        <5>1. [old |-> t.old, new |-> t.new] \in LogEntry
          BY <3>1 DEF LogEntry
        <5>2. audit[t.id] \in Seq(LogEntry)
          BY <3>1 DEF TypeOK
        <5> QED BY <5>1, <5>2 DEF LogChange
      <4>2. \/ audit' = [audit EXCEPT ![t.id] = LogChange(audit[t.id], t.old, t.new)]
            \/ audit' = audit
        BY <2>5, <3>1 DEF SetStatus, TypeOK
      <4> QED BY <3>1, <4>1, <4>2 DEF TypeOK
    <3> QED BY <2>5, <3>3, <3>4, <3>5 DEF TypeOK, SetStatus
  <2>6. ASSUME NEW r \in Requests, NEW uid \in Users, NEW i \in InvoiceIds,
               DeleteLoad(r, uid, i)
        PROVE  TypeOK'
    <3>1. [pc |-> "delete_row", uid |-> uid, id |-> i] \in Tasks
      BY DEF Tasks, InFlight
    <3>2. i \in Resources /\ 404 \in Codes /\ 405 \in Codes
      BY DEF Resources, Codes
    <3>3. task' \in [Requests -> Tasks]
      BY <2>6, <3>1, <3>2, ContinueType, AnswerType DEF DeleteLoad
    <3> QED BY <2>6, <3>3 DEF TypeOK, DeleteLoad, data
  <2>7. ASSUME NEW r \in Requests, DeleteRow(r)
        PROVE  TypeOK'
    <3>1. task[r] \in Tasks /\ task[r].id \in InvoiceIds
      BY <2>7, TaskFields DEF TypeOK, DeleteRow
    <3>2. [pc |-> "exists_check", id |-> task[r].id] \in Tasks
      BY <3>1 DEF Tasks, InFlight
    <3>3. task' \in [Requests -> Tasks]
      BY <2>7, <3>2, ContinueType DEF DeleteRow
    <3> QED BY <2>7, <3>3 DEF TypeOK, DeleteRow
  <2>8. ASSUME NEW r \in Requests, ExistsCheck(r)
        PROVE  TypeOK'
    <3>1. task[r] \in Tasks /\ task[r].id \in InvoiceIds
      BY <2>8, TaskFields DEF TypeOK, ExistsCheck
    <3>2. task[r].id \in Resources /\ 204 \in Codes /\ 409 \in Codes
      BY <3>1 DEF Resources, Codes
    <3>3. task' \in [Requests -> Tasks]
      BY <2>8, <3>2, AnswerType DEF ExistsCheck
    <3> QED BY <2>8, <3>3 DEF TypeOK, ExistsCheck, data
  <2>9. ASSUME NEW r \in Requests, NEW uid \in Users, OverdueCall(r, uid)
        PROVE  TypeOK'
    <3>1. [pc |-> "overdue_scan", uid |-> uid, day |-> today] \in Tasks
      BY DEF Tasks, InFlight, TypeOK
    <3>2. task' \in [Requests -> Tasks]
      BY <2>9, <3>1, ContinueType DEF OverdueCall
    <3> QED BY <2>9, <3>2 DEF TypeOK, OverdueCall, data
  <2>10. ASSUME NEW r \in Requests, OverdueScan(r)
         PROVE  TypeOK'
    <3> DEFINE t == task[r]
               found == {i \in InvoiceIds :
                            Live(i) /\ PastDue(invoices[i], t.uid, t.day)}
    <3>1. t \in Tasks /\ t.uid \in Users /\ t.day \in Days
      BY <2>10, TaskFields DEF TypeOK, OverdueScan
    <3>2. found \in SUBSET InvoiceIds
      OBVIOUS
    <3>3. [pc |-> "overdue_commit", uid |-> t.uid, day |-> t.day, rows |-> found] \in Tasks
      BY <3>1, <3>2 DEF Tasks, InFlight
    <3>4. task' \in [Requests -> Tasks]
      BY <2>10, <3>3, ContinueType DEF OverdueScan
    <3> QED BY <2>10, <3>4 DEF TypeOK, OverdueScan, data
  <2>11. ASSUME NEW r \in Requests, OverdueCommit(r)
         PROVE  TypeOK'
    <3> DEFINE t == task[r]
    <3>1. t \in Tasks /\ t.uid \in Users
      BY <2>11, TaskFields DEF TypeOK, OverdueCommit
    <3>2. t.uid \in Resources /\ 200 \in Codes
      BY <3>1 DEF Resources, Codes
    <3>3. task' \in [Requests -> Tasks]
      BY <2>11, <3>2, AnswerType, FailedType DEF OverdueCommit
    <3>4. \A i \in InvoiceIds :
              StillPastDue(t, i) => [invoices[i] EXCEPT !.status = "overdue"] \in Row
      BY WithStatusType DEF StillPastDue, Live, Status
    <3>5. invoices' \in [InvoiceIds -> Row \cup {NotInserted, Deleted}]
      BY <2>11, <3>4 DEF OverdueCommit, TypeOK
    <3> QED BY <2>11, <3>3, <3>5 DEF TypeOK, OverdueCommit
  <2>12. ASSUME NEW r \in Requests, NEW uid \in Users, NEW c \in ClientIds,
                ClientDeleteLoad(r, uid, c)
         PROVE  TypeOK'
    <3>1. [pc |-> "delete_client", client |-> c] \in Tasks
      BY DEF Tasks, InFlight
    <3>2. c \in Resources /\ 404 \in Codes
      BY DEF Resources, Codes
    <3>3. task' \in [Requests -> Tasks]
      BY <2>12, <3>1, <3>2, ContinueType, AnswerType DEF ClientDeleteLoad
    <3> QED BY <2>12, <3>3 DEF TypeOK, ClientDeleteLoad, data
  <2>13. ASSUME NEW r \in Requests, ClientDelete(r)
         PROVE  TypeOK'
    <3>1. task[r] \in Tasks /\ task[r].client \in ClientIds
      BY <2>13, TaskFields DEF TypeOK, ClientDelete
    <3>2. task[r].client \in Resources /\ 204 \in Codes
      BY <3>1 DEF Resources, Codes
    <3>3. task' \in [Requests -> Tasks]
      BY <2>13, <3>2, AnswerType, FailedType DEF ClientDelete
    <3>4. clients' \in [ClientIds -> Users \cup {Deleted}]
      BY <2>13 DEF ClientDelete, TypeOK
    <3> QED BY <2>13, <3>3, <3>4 DEF TypeOK, ClientDelete
  <2>14. ASSUME NEW r \in Requests, Fail(r)
         PROVE  TypeOK'
    <3>1. task' \in [Requests -> Tasks]
      BY <2>14, FailedType DEF Fail
    <3> QED BY <2>14, <3>1 DEF TypeOK, Fail, data
  <2>15. CASE NewDay
    BY <2>15, MaxDayAssumption DEF TypeOK, NewDay, data, Days
  <2>16. CASE UNCHANGED vars
    BY <2>16 DEF TypeOK, vars
  <2> QED
    BY <2>1, <2>2, <2>3, <2>4, <2>5, <2>6, <2>7, <2>8, <2>9, <2>10, <2>11, <2>12,
       <2>13, <2>14, <2>15, <2>16 DEF Next, Start, Proceed
<1> QED BY <1>1, <1>2, PTL DEF Spec

-----------------------------------------------------------------------------
(* What no step does to the rows.                                          *)

\* Only these five steps write to the database.
LEMMA Writers ==
    ASSUME [Next]_vars
    PROVE  \/ UNCHANGED data
           \/ \E r \in Requests : \/ InsertInvoice(r)
                                 \/ SetStatus(r)
                                 \/ DeleteRow(r)
                                 \/ OverdueCommit(r)
                                 \/ ClientDelete(r)
<1>1. ASSUME NEW r \in Requests, Start(r)
      PROVE  UNCHANGED data
  BY <1>1 DEF Start, CreateLoad, StatusLoad, DeleteLoad, OverdueCall, ClientDeleteLoad, data
<1>2. ASSUME NEW r \in Requests, ReloadInvoice(r) \/ ExistsCheck(r) \/ OverdueScan(r)
      PROVE  UNCHANGED data
  BY <1>2 DEF ReloadInvoice, ExistsCheck, OverdueScan, data
<1>3. ASSUME NEW r \in Requests, Fail(r)
      PROVE  UNCHANGED data
  BY <1>3 DEF Fail, data
<1>4. NewDay \/ UNCHANGED vars => UNCHANGED data
  BY DEF NewDay, vars, data
<1> QED BY <1>1, <1>2, <1>3, <1>4 DEF Next, Proceed

\* The owner of a client never changes but for its deletion; a primary key
\* is used for one invoice only, whose owner and client never change.
KeysKeepTheirMeaning ==
    /\ \A c \in ClientIds : clients'[c] \in {clients[c], Deleted}
    /\ \A i \in InvoiceIds :
            invoices[i] # NotInserted =>
                /\ invoices'[i] # NotInserted
                /\ Live(i)' => /\ Live(i)
                               /\ invoices'[i].owner = invoices[i].owner
                               /\ invoices'[i].client = invoices[i].client

\* A live invoice is neither of the markers.
LEMMA LiveIsNotAMarker ==
    ASSUME NEW i \in InvoiceIds, Live(i)
    PROVE  invoices[i] # NotInserted /\ invoices[i] # Deleted
BY MarkersAssumption DEF Live

LEMMA KeysLemma ==
    ASSUME TypeOK, [Next]_vars
    PROVE  KeysKeepTheirMeaning
<1>1. ASSUME NEW r \in Requests, InsertInvoice(r)
      PROVE  KeysKeepTheirMeaning
  BY <1>1 DEF InsertInvoice, KeysKeepTheirMeaning, TypeOK, Live
<1>2. ASSUME NEW r \in Requests, SetStatus(r)
      PROVE  KeysKeepTheirMeaning
  <2> DEFINE t == task[r]
  <2>1. t.id \in InvoiceIds /\ t.new \in Status
    BY <1>2, TaskFields DEF TypeOK, SetStatus
  <2>2. ASSUME Live(t.id)
        PROVE  LET row == [invoices[t.id] EXCEPT !.status = t.new]
               IN  /\ row \in Row
                   /\ row.owner = invoices[t.id].owner
                   /\ row.client = invoices[t.id].client
    BY <2>1, <2>2, WithStatusType DEF Live
  <2>3. \A i \in InvoiceIds : i # t.id => invoices'[i] = invoices[i]
    BY <1>2, <2>1 DEF SetStatus, TypeOK
  <2>4. \/ ~Live(t.id) /\ invoices' = invoices
        \/ Live(t.id) /\ invoices'[t.id] = [invoices[t.id] EXCEPT !.status = t.new]
    BY <1>2, <2>1 DEF SetStatus, TypeOK
  <2>5. NotInserted \notin Row
    BY MarkersAssumption
  <2> QED BY <1>2, <2>2, <2>3, <2>4, <2>5 DEF KeysKeepTheirMeaning, SetStatus, Live
<1>3. ASSUME NEW r \in Requests, DeleteRow(r)
      PROVE  KeysKeepTheirMeaning
  BY <1>3, MarkersAssumption DEF DeleteRow, KeysKeepTheirMeaning, TypeOK, Live
<1>4. ASSUME NEW r \in Requests, OverdueCommit(r)
      PROVE  KeysKeepTheirMeaning
  <2> DEFINE t == task[r]
  <2> SUFFICES ASSUME NEW i \in InvoiceIds
               PROVE  invoices[i] # NotInserted =>
                        /\ invoices'[i] # NotInserted
                        /\ Live(i)' => /\ Live(i)
                                       /\ invoices'[i].owner = invoices[i].owner
                                       /\ invoices'[i].client = invoices[i].client
    BY <1>4 DEF KeysKeepTheirMeaning, OverdueCommit
  <2>1. ASSUME StillPastDue(t, i)
        PROVE  /\ Live(i)
               /\ [invoices[i] EXCEPT !.status = "overdue"] \in Row
               /\ [invoices[i] EXCEPT !.status = "overdue"].owner = invoices[i].owner
               /\ [invoices[i] EXCEPT !.status = "overdue"].client = invoices[i].client
    BY <2>1, WithStatusType DEF StillPastDue, Live, Status
  <2>2. invoices'[i] = IF StillPastDue(t, i)
                       THEN [invoices[i] EXCEPT !.status = "overdue"]
                       ELSE invoices[i]
    BY <1>4 DEF OverdueCommit
  <2> QED BY <2>1, <2>2, MarkersAssumption DEF Live
<1>5. ASSUME NEW r \in Requests, ClientDelete(r)
      PROVE  KeysKeepTheirMeaning
  BY <1>5 DEF ClientDelete, KeysKeepTheirMeaning, TypeOK, Live
<1>6. ASSUME UNCHANGED data
      PROVE  KeysKeepTheirMeaning
  BY <1>6 DEF KeysKeepTheirMeaning, data, Live
<1> QED BY <1>1, <1>2, <1>3, <1>4, <1>5, <1>6, Writers

-----------------------------------------------------------------------------
(* What a pending write may rely on.                                       *)

\* A request that does not move keeps what it may rely on.
LEMMA PendingFrame ==
    ASSUME TypeOK, [Next]_vars, NEW q \in Requests, PendingWriteSound(task[q]),
           task'[q] = task[q]
    PROVE  PendingWriteSound(task[q])'
<1>1. task[q] \in Tasks
  BY DEF TypeOK
<1>2. KeysKeepTheirMeaning
  BY KeysLemma
<1>3. task[q].pc = "insert" => task[q].client \in ClientIds
  BY <1>1, TaskFields
<1>4. task[q].pc \in {"set_status", "delete_row"} => task[q].id \in InvoiceIds
  BY <1>1, TaskFields
<1> QED BY <1>2, <1>3, <1>4 DEF PendingWriteSound, KeysKeepTheirMeaning

\* Whatever other requests do meanwhile, a pending write never reaches across
\* tenants and a pending status change is a legal one.
THEOREM PendingWritesAreSound == Spec => []PendingWritesSound
<1>1. Init => PendingWritesSound
  BY DEF Init, PendingWritesSound, PendingWriteSound, Idle
<1>2. TypeOK /\ PendingWritesSound /\ [Next]_vars => PendingWritesSound'
  <2> SUFFICES ASSUME TypeOK, PendingWritesSound, [Next]_vars, NEW q \in Requests
               PROVE  PendingWriteSound(task[q])'
    BY DEF PendingWritesSound
  <2>1. PendingWriteSound(task[q])
    BY DEF PendingWritesSound
  <2>2. CASE task'[q] = task[q]
    BY <2>1, <2>2, PendingFrame
  <2>3. CASE task'[q] # task[q] /\ task'[q].pc \notin {"insert", "set_status", "delete_row"}
    BY <2>3 DEF PendingWriteSound
  <2>4. CASE task'[q] # task[q] /\ task'[q].pc \in {"insert", "set_status", "delete_row"}
    <3>1. PICK uid \in Users :
            \/ \E c \in ClientIds, n \in Numbers, due \in Days : CreateLoad(q, uid, c, n, due)
            \/ \E i \in InvoiceIds, new \in Status : StatusLoad(q, uid, i, new)
            \/ \E i \in InvoiceIds : DeleteLoad(q, uid, i)
      <4>1. ASSUME NEW r \in Requests, NEW next,
                   next.pc \notin {"insert", "set_status", "delete_row"}, Continue(r, next)
            PROVE  FALSE
        BY <2>4, <4>1 DEF Continue, TypeOK
      <4>2. ASSUME NEW r \in Requests, NEW on, NEW code, Answer(r, on, code)
            PROVE  FALSE
        BY <4>1, <4>2 DEF Answer, Answered
      <4>3. ASSUME NEW r \in Requests, Continue(r, Failed)
            PROVE  FALSE
        BY <4>1, <4>3 DEF Failed
      <4>4. ASSUME NEW r \in Requests, Proceed(r)
            PROVE  FALSE
        <5>1. ~InsertInvoice(r)
          BY <4>1, <4>3 DEF InsertInvoice
        <5>2. ~ReloadInvoice(r)
          BY <4>1 DEF ReloadInvoice, Answered, Failed
        <5>3. ~SetStatus(r) /\ ~OverdueCommit(r) /\ ~ClientDelete(r) /\ ~ExistsCheck(r)
          BY <4>2, <4>3 DEF SetStatus, OverdueCommit, ClientDelete, ExistsCheck
        <5>4. ~DeleteRow(r) /\ ~OverdueScan(r)
          BY <4>1 DEF DeleteRow, OverdueScan
        <5> QED BY <4>4, <5>1, <5>2, <5>3, <5>4 DEF Proceed
      <4>5. ASSUME NEW r \in Requests, NEW uid \in Users, OverdueCall(r, uid)
            PROVE  FALSE
        BY <4>1, <4>5 DEF OverdueCall
      <4>6. ASSUME NEW r \in Requests, NEW uid \in Users, NEW c \in ClientIds,
                   ClientDeleteLoad(r, uid, c)
            PROVE  FALSE
        BY <4>1, <4>2, <4>6 DEF ClientDeleteLoad
      <4>7. ASSUME NEW r \in Requests, Fail(r)
            PROVE  FALSE
        BY <4>3, <4>7 DEF Fail
      <4>8. ~NewDay /\ ~UNCHANGED vars
        BY <2>4 DEF NewDay, vars
      <4>9. PICK r \in Requests : Start(r)
        BY <4>4, <4>7, <4>8 DEF Next
      <4>10. PICK uid \in Users :
            \/ \E c \in ClientIds, n \in Numbers, due \in Days : CreateLoad(r, uid, c, n, due)
            \/ \E i \in InvoiceIds, new \in Status : StatusLoad(r, uid, i, new)
            \/ \E i \in InvoiceIds : DeleteLoad(r, uid, i)
        BY <4>5, <4>6, <4>9 DEF Start
      <4>11. r = q
        BY <2>4, <4>10 DEF CreateLoad, StatusLoad, DeleteLoad, Continue, Answer, TypeOK
      <4> QED BY <4>10, <4>11
    <3>2. ASSUME NEW c \in ClientIds, NEW n \in Numbers, NEW due \in Days,
                 CreateLoad(q, uid, c, n, due)
          PROVE  PendingWriteSound(task[q])'
      BY <2>4, <3>2 DEF CreateLoad, Continue, Answer, Answered, HasClient, PendingWriteSound,
                        TypeOK, data
    <3>3. ASSUME NEW i \in InvoiceIds, NEW new \in Status, StatusLoad(q, uid, i, new)
          PROVE  PendingWriteSound(task[q])'
      BY <2>4, <3>3, LiveIsNotAMarker
         DEF StatusLoad, Continue, Answer, Answered, Visible, ValidStatusChange,
             PendingWriteSound, TypeOK, data, Live
    <3>4. ASSUME NEW i \in InvoiceIds, DeleteLoad(q, uid, i)
          PROVE  PendingWriteSound(task[q])'
      BY <2>4, <3>4, LiveIsNotAMarker
         DEF DeleteLoad, Continue, Answer, Answered, Visible, PendingWriteSound, TypeOK, data, Live
    <3> QED BY <3>1, <3>2, <3>3, <3>4
  <2> QED BY <2>2, <2>3, <2>4
<1> QED BY <1>1, <1>2, TypeCorrect, PTL DEF Spec

-----------------------------------------------------------------------------
(* The audit log.                                                          *)

\* An entry is added at the end of the log and the others stay.
LEMMA LogChangeLemma ==
    ASSUME NEW log \in Seq(LogEntry), NEW old \in Status, NEW new \in Status
    PROVE  LET longer == LogChange(log, old, new)
           IN  /\ longer # <<>>
               /\ longer[Len(longer)] = [old |-> old, new |-> new]
               /\ \A k \in DOMAIN longer :
                      \/ longer[k] = [old |-> old, new |-> new]
                      \/ /\ k \in DOMAIN log
                         /\ longer[k] = log[k]
<1>1. [old |-> old, new |-> new] \in LogEntry
  BY DEF LogEntry
<1> QED BY <1>1 DEF LogChange

\* An invoice that does not exist yet has no entries: primary keys are not
\* used twice and no entry is written without its invoice.
UnbornUnlogged ==
    \A i \in InvoiceIds : invoices[i] = NotInserted => audit[i] = <<>>

AuditInv == AuditExplainsStatus /\ AuditEntriesLegal /\ UnbornUnlogged

\* The audit log accounts for the status of every invoice, and every entry is
\* a transition of STATUS_MAP, under every interleaving of requests.
THEOREM AuditIsSound == Spec => [](AuditExplainsStatus /\ AuditEntriesLegal)
<1>1. Init => AuditInv
  BY MarkersAssumption
     DEF Init, AuditInv, AuditExplainsStatus, AuditEntriesLegal, UnbornUnlogged, Live
<1>2. TypeOK /\ PendingWritesSound /\ AuditInv /\ [Next]_vars => AuditInv'
  <2> SUFFICES ASSUME TypeOK, PendingWritesSound, AuditInv, [Next]_vars
               PROVE  AuditInv'
    OBVIOUS
  <2> USE DEF AuditInv, AuditExplainsStatus, AuditEntriesLegal, UnbornUnlogged
  <2>1. ASSUME NEW r \in Requests, InsertInvoice(r)
        PROVE  AuditInv'
    <3>1. audit' = audit
      BY <2>1 DEF InsertInvoice
    <3>2. CASE invoices' = invoices
      BY <3>1, <3>2 DEF Live
    <3>3. CASE invoices' # invoices
      <4>1. PICK i \in InvoiceIds :
                /\ invoices[i] = NotInserted
                /\ invoices' = [invoices EXCEPT ![i] =
                        NewRow(task[r].uid, task[r].client, task[r].number, task[r].due)]
        BY <2>1, <3>3 DEF InsertInvoice
      <4>2. audit[i] = <<>> /\ invoices'[i].status = "draft"
        BY <4>1 DEF NewRow, TypeOK
      <4>3. invoices'[i] # NotInserted \/ audit'[i] = <<>>
        BY <4>2, <3>1
      <4>4. \A j \in InvoiceIds : j # i => invoices'[j] = invoices[j]
        BY <4>1 DEF TypeOK
      <4> QED BY <3>1, <4>2, <4>3, <4>4 DEF Live, ExplainedBy
    <3> QED BY <3>2, <3>3
  <2>2. ASSUME NEW r \in Requests, SetStatus(r)
        PROVE  AuditInv'
    <3> DEFINE t == task[r]
    <3>1. t.id \in InvoiceIds /\ t.old \in Status /\ t.new \in Status
      BY <2>2, TaskFields DEF TypeOK, SetStatus
    <3>2. CASE ~Live(t.id)
      BY <2>2, <3>2 DEF SetStatus, Live
    <3>3. CASE Live(t.id)
      <4>1. t.new \in STATUS_MAP[t.old]
        BY <2>2 DEF PendingWritesSound, PendingWriteSound, SetStatus
      <4>2. \A i \in InvoiceIds : i # t.id => invoices'[i] = invoices[i] /\ audit'[i] = audit[i]
        BY <2>2, <3>1, <3>3 DEF SetStatus, TypeOK
      <4>3. invoices'[t.id].status = t.new
        <5>1. invoices'[t.id] = [invoices[t.id] EXCEPT !.status = t.new]
          BY <2>2, <3>1, <3>3 DEF SetStatus, TypeOK
        <5> QED BY <3>1, <3>3, <5>1, WithStatusType DEF Live
      <4>4. audit'[t.id] = LogChange(audit[t.id], t.old, t.new)
        BY <2>2, <3>1, <3>3 DEF SetStatus, TypeOK
      <4>5. audit[t.id] \in Seq(LogEntry)
        BY <3>1 DEF TypeOK
      <4> DEFINE longer == audit'[t.id]
      <4>6. /\ longer # <<>>
            /\ longer[Len(longer)] = [old |-> t.old, new |-> t.new]
            /\ \A k \in DOMAIN longer :
                  \/ longer[k] = [old |-> t.old, new |-> t.new]
                  \/ /\ k \in DOMAIN audit[t.id]
                     /\ longer[k] = audit[t.id][k]
        BY <3>1, <4>4, <4>5, LogChangeLemma
      <4>7. ExplainedBy(invoices'[t.id].status, longer)
        BY <4>3, <4>6 DEF ExplainedBy
      <4>8. \A k \in DOMAIN longer : longer[k].new \in STATUS_MAP[longer[k].old]
        BY <3>1, <4>1, <4>6
      <4>9. invoices'[t.id] # NotInserted
        BY <2>2, <3>1, <3>3, KeysLemma, LiveIsNotAMarker DEF KeysKeepTheirMeaning
      <4>10. AuditExplainsStatus'
        BY <4>2, <4>7 DEF Live
      <4>11. AuditEntriesLegal'
        BY <4>2, <4>8
      <4>12. UnbornUnlogged'
        BY <4>2, <4>9
      <4> QED BY <4>10, <4>11, <4>12
    <3> QED BY <3>2, <3>3
  <2>3. ASSUME NEW r \in Requests, DeleteRow(r)
        PROVE  AuditInv'
    BY <2>3, MarkersAssumption DEF DeleteRow, TypeOK, Live
  <2>4. ASSUME NEW r \in Requests, OverdueCommit(r)
        PROVE  AuditInv'
    <3>1. audit' = audit
      BY <2>4 DEF OverdueCommit
    <3>2. ASSUME NEW i \in InvoiceIds, StillPastDue(task[r], i)
          PROVE  /\ Live(i)
                 /\ invoices[i].status = "sent"
                 /\ invoices'[i] = [invoices[i] EXCEPT !.status = "overdue"]
                 /\ invoices'[i].status = "overdue"
                 /\ invoices'[i] # NotInserted
      BY <2>4, <3>2, WithStatusType, MarkersAssumption
         DEF OverdueCommit, StillPastDue, PastDue, Live, Status
    <3>3. \A i \in InvoiceIds : ~StillPastDue(task[r], i) => invoices'[i] = invoices[i]
      BY <2>4 DEF OverdueCommit
    <3>4. AuditExplainsStatus'
      BY <3>1, <3>2, <3>3 DEF Live, ExplainedBy
    <3> QED BY <3>1, <3>2, <3>3, <3>4
  <2>5. ASSUME NEW r \in Requests, ClientDelete(r)
        PROVE  AuditInv'
    BY <2>5 DEF ClientDelete, Live
  <2>6. ASSUME UNCHANGED data
        PROVE  AuditInv'
    BY <2>6 DEF data, Live
  <2> QED BY <2>1, <2>2, <2>3, <2>4, <2>5, <2>6, Writers
<1>3. AuditInv => AuditExplainsStatus /\ AuditEntriesLegal
  BY DEF AuditInv
<1> QED BY <1>1, <1>2, <1>3, TypeCorrect, PendingWritesAreSound, PTL DEF Spec

-----------------------------------------------------------------------------
(* Tenants.                                                                *)

\* The client of an invoice exists and belongs to the owner of the invoice,
\* although the client is looked up before the invoice is inserted.
THEOREM TenantsAreConsistent == Spec => []TenantConsistent
<1>1. Init => TenantConsistent
  BY MarkersAssumption DEF Init, TenantConsistent, Live
<1>2. TypeOK /\ PendingWritesSound /\ TenantConsistent /\ [Next]_vars => TenantConsistent'
  <2> SUFFICES ASSUME TypeOK, PendingWritesSound, TenantConsistent, [Next]_vars,
                      NEW i \in InvoiceIds, Live(i)'
               PROVE  clients'[invoices'[i].client] = invoices'[i].owner
    BY DEF TenantConsistent
  <2>1. CASE invoices[i] = NotInserted
    <3>1. ~Live(i)
      BY <2>1, MarkersAssumption DEF Live
    <3>2. PICK r \in Requests : InsertInvoice(r)
      <4>1. invoices'[i] # invoices[i]
        BY <3>1 DEF Live
      <4>2. ASSUME NEW r \in Requests, SetStatus(r)
            PROVE  invoices'[i] = invoices[i]
        BY <3>1, <4>2, TaskFields DEF SetStatus, TypeOK
      <4>3. ASSUME NEW r \in Requests, DeleteRow(r)
            PROVE  ~Live(i)' \/ invoices'[i] = invoices[i]
        BY <4>3, MarkersAssumption DEF DeleteRow, TypeOK, Live
      <4>4. ASSUME NEW r \in Requests, OverdueCommit(r)
            PROVE  invoices'[i] = invoices[i]
        BY <3>1, <4>4 DEF OverdueCommit, StillPastDue
      <4>5. ASSUME NEW r \in Requests, ClientDelete(r)
            PROVE  invoices'[i] = invoices[i]
        BY <4>5 DEF ClientDelete
      <4> QED BY <4>1, <4>2, <4>3, <4>4, <4>5, Writers DEF data
    <3> DEFINE t == task[r]
    <3>3. t.pc = "insert" /\ t.client \in ClientIds /\ clients' = clients
      BY <3>2, TaskFields DEF InsertInvoice, TypeOK
    <3>4. ClientExists(t.client) /\ invoices'[i] = NewRow(t.uid, t.client, t.number, t.due)
      BY <2>1, <3>1, <3>2 DEF InsertInvoice, TypeOK, Live
    <3>5. clients[t.client] = t.uid
      BY <3>3, <3>4 DEF PendingWritesSound, PendingWriteSound, ClientExists
    <3> QED BY <3>3, <3>4, <3>5 DEF NewRow
  <2>2. CASE invoices[i] # NotInserted
    <3>1. /\ Live(i)
          /\ invoices'[i].owner = invoices[i].owner
          /\ invoices'[i].client = invoices[i].client
      BY <2>2, KeysLemma DEF KeysKeepTheirMeaning
    <3>2. clients[invoices[i].client] = invoices[i].owner
      BY <3>1 DEF TenantConsistent
    <3>3. invoices[i].client \in ClientIds
      BY <3>1 DEF Live, Row
    <3>4. clients'[invoices[i].client] = clients[invoices[i].client]
      <4>1. ASSUME NEW r \in Requests, ClientDelete(r)
            PROVE  clients'[invoices[i].client] = clients[invoices[i].client]
        BY <3>1, <3>3, <4>1 DEF ClientDelete, ClientInUse, TypeOK
      <4>2. ASSUME NEW r \in Requests,
                   InsertInvoice(r) \/ SetStatus(r) \/ DeleteRow(r) \/ OverdueCommit(r)
            PROVE  clients' = clients
        BY <4>2 DEF InsertInvoice, SetStatus, DeleteRow, OverdueCommit
      <4> QED BY <4>1, <4>2, Writers DEF data
    <3> QED BY <3>1, <3>2, <3>4
  <2> QED BY <2>1, <2>2
<1> QED BY <1>1, <1>2, TypeCorrect, PendingWritesAreSound, PTL DEF Spec

\* Only the request that takes a step changes its task.
LEMMA ActorMoves ==
    ASSUME TypeOK, NEW s \in Requests,
           SetStatus(s) \/ DeleteRow(s) \/ OverdueCommit(s)
    PROVE  /\ task'[s] # task[s]
           /\ \A r \in Requests : task'[r] # task[r] => r = s
<1>1. CASE SetStatus(s)
  BY <1>1 DEF SetStatus, Answer, Answered, Failed, Continue, TypeOK
<1>2. CASE DeleteRow(s)
  BY <1>2 DEF DeleteRow, Continue, TypeOK
<1>3. CASE OverdueCommit(s)
  BY <1>3 DEF OverdueCommit, Answer, Answered, Failed, Continue, TypeOK
<1> QED BY <1>1, <1>2, <1>3

\* A live invoice is changed by one of three steps: a status change or a
\* deletion that names it, or a batch whose WHERE clause it satisfies.
LEMMA InvoiceWriters ==
    ASSUME TypeOK, [Next]_vars, NEW i \in InvoiceIds, Live(i), invoices'[i] # invoices[i]
    PROVE  \E s \in Requests :
              \/ SetStatus(s) /\ task[s].id = i
              \/ DeleteRow(s) /\ task[s].id = i
              \/ OverdueCommit(s) /\ StillPastDue(task[s], i)
<1>1. ASSUME NEW s \in Requests, InsertInvoice(s)
      PROVE  invoices'[i] = invoices[i]
  BY <1>1, LiveIsNotAMarker DEF InsertInvoice, TypeOK
<1>2. ASSUME NEW s \in Requests, SetStatus(s)
      PROVE  task[s].id = i
  BY <1>2 DEF SetStatus, TypeOK
<1>3. ASSUME NEW s \in Requests, DeleteRow(s)
      PROVE  task[s].id = i
  BY <1>3 DEF DeleteRow, TypeOK
<1>4. ASSUME NEW s \in Requests, OverdueCommit(s)
      PROVE  StillPastDue(task[s], i)
  BY <1>4 DEF OverdueCommit
<1>5. ASSUME NEW s \in Requests, ClientDelete(s)
      PROVE  invoices'[i] = invoices[i]
  BY <1>5 DEF ClientDelete
<1> QED BY <1>1, <1>2, <1>3, <1>4, <1>5, Writers DEF data

\* A request never changes an invoice of another user, whatever happened to
\* the invoice since the request read it.
THEOREM TenantsAreIsolated == Spec => OnlyOwnerWrites
<1> DEFINE Step ==
      \A r \in Requests, i \in InvoiceIds :
            /\ task[r].pc \in {"set_status", "delete_row", "overdue_commit"}
            /\ task'[r] # task[r]
            /\ Live(i)
            /\ invoices'[i] # invoices[i]
            => task[r].uid = invoices[i].owner
<1>1. TypeOK /\ PendingWritesSound /\ [Next]_vars => [Step]_vars
  <2> SUFFICES ASSUME TypeOK, PendingWritesSound, [Next]_vars,
                      NEW r \in Requests, NEW i \in InvoiceIds,
                      task'[r] # task[r], Live(i), invoices'[i] # invoices[i]
               PROVE  task[r].uid = invoices[i].owner
    OBVIOUS
  <2>1. PICK s \in Requests :
              \/ SetStatus(s) /\ task[s].id = i
              \/ DeleteRow(s) /\ task[s].id = i
              \/ OverdueCommit(s) /\ StillPastDue(task[s], i)
    BY InvoiceWriters
  <2>2. r = s
    BY <2>1, ActorMoves
  <2>3. CASE SetStatus(s) /\ task[s].id = i
    BY <2>2, <2>3 DEF PendingWritesSound, PendingWriteSound, SetStatus
  <2>4. CASE DeleteRow(s) /\ task[s].id = i
    BY <2>2, <2>4 DEF PendingWritesSound, PendingWriteSound, DeleteRow
  <2>5. CASE OverdueCommit(s) /\ StillPastDue(task[s], i)
    BY <2>2, <2>5 DEF StillPastDue, PastDue
  <2> QED BY <2>1, <2>3, <2>4, <2>5
<1> QED BY <1>1, TypeCorrect, PendingWritesAreSound, PTL DEF Spec, OnlyOwnerWrites

-----------------------------------------------------------------------------
(* Paid invoices.                                                          *)

\* A paid invoice is changed or deleted by a request that read it earlier, if
\* at all; the batch leaves it alone whatever its snapshot saw.
THEOREM BatchRespectsPayment == Spec => PaidIsLostOnlyToStaleRequests
<1> DEFINE Step ==
      \A i \in InvoiceIds :
            Live(i) /\ invoices[i].status = "paid"
                /\ ~(Live(i)' /\ invoices'[i].status = "paid")
            => \E r \in Requests :
                    WritesInvoice(task[r], i) /\ task'[r] # task[r]
<1>1. TypeOK /\ [Next]_vars => [Step]_vars
  <2> SUFFICES ASSUME TypeOK, [Next]_vars, NEW i \in InvoiceIds,
                      Live(i), invoices[i].status = "paid",
                      ~(Live(i)' /\ invoices'[i].status = "paid")
               PROVE  \E r \in Requests : WritesInvoice(task[r], i) /\ task'[r] # task[r]
    OBVIOUS
  <2>1. invoices'[i] # invoices[i]
    BY DEF Live
  <2>2. PICK s \in Requests :
              \/ SetStatus(s) /\ task[s].id = i
              \/ DeleteRow(s) /\ task[s].id = i
              \/ OverdueCommit(s) /\ StillPastDue(task[s], i)
    BY <2>1, InvoiceWriters
  <2>3. ~StillPastDue(task[s], i)
    BY DEF StillPastDue, PastDue
  <2>4. task'[s] # task[s]
    BY <2>2, ActorMoves
  <2> QED BY <2>2, <2>3, <2>4 DEF WritesInvoice, SetStatus, DeleteRow
<1> QED BY <1>1, TypeCorrect, PTL DEF Spec, PaidIsLostOnlyToStaleRequests

-----------------------------------------------------------------------------
(* However requests overlap, Invoices implements InvoiceLedger.            *)

LEMMA SameTable == Ledger!Status = Status /\ Ledger!STATUS_MAP = STATUS_MAP /\ Ledger!Row = Row
<1>1. Ledger!Status = Status
  BY DEF Status, Ledger!Status
<1> QED BY <1>1 DEF STATUS_MAP, Ledger!STATUS_MAP, Row, Ledger!Row

LEMMA SameLive == \A i : Ledger!Live(i) <=> Live(i)
  BY SameTable DEF Live, Ledger!Live

\* A status that the audit log explains is one the invoice has had, and an
\* entry more takes none away.
LEMMA HadExplains ==
    ASSUME NEW log \in Seq(LogEntry), NEW status, ExplainedBy(status, log)
    PROVE  status \in Ledger!Had(log)
<1>1. log # <<>> => Len(log) \in DOMAIN log
  OBVIOUS
<1> QED BY <1>1 DEF ExplainedBy, Ledger!Had, Ledger!Moved

LEMMA HadGrows ==
    ASSUME NEW log \in Seq(LogEntry), NEW old \in Status, NEW new \in Status
    PROVE  Ledger!Had(log) \subseteq Ledger!Had(LogChange(log, old, new))
<1> DEFINE longer == LogChange(log, old, new)
<1>1. [old |-> old, new |-> new] \in LogEntry
  BY DEF LogEntry
<1>2. \A k \in DOMAIN log : k \in DOMAIN longer /\ longer[k] = log[k]
  BY <1>1 DEF LogChange
<1>3. Ledger!Moved(log) \subseteq Ledger!Moved(longer)
  BY <1>2 DEF Ledger!Moved
<1> QED BY <1>3 DEF Ledger!Had

\* Only midnight changes the date.
LEMMA Calendar ==
    ASSUME [Next]_vars
    PROVE  UNCHANGED today \/ NewDay
<1>1. ASSUME NEW r \in Requests, Start(r)
      PROVE  UNCHANGED today
  BY <1>1 DEF Start, CreateLoad, StatusLoad, DeleteLoad, OverdueCall, ClientDeleteLoad
<1>2. ASSUME NEW r \in Requests, Proceed(r)
      PROVE  UNCHANGED today
  <2>1. CASE InsertInvoice(r) \/ ReloadInvoice(r) \/ SetStatus(r) \/ DeleteRow(r)
    BY <2>1 DEF InsertInvoice, ReloadInvoice, SetStatus, DeleteRow
  <2>2. CASE ExistsCheck(r) \/ OverdueScan(r) \/ OverdueCommit(r) \/ ClientDelete(r)
    BY <2>2 DEF ExistsCheck, OverdueScan, OverdueCommit, ClientDelete
  <2> QED BY <1>2, <2>1, <2>2 DEF Proceed
<1>3. ASSUME NEW r \in Requests, Fail(r)
      PROVE  UNCHANGED today
  BY <1>3 DEF Fail
<1>4. UNCHANGED vars => UNCHANGED today
  BY DEF vars
<1> QED BY <1>1, <1>2, <1>3, <1>4 DEF Next

\* No step takes an entry from a log, and time does not go back.
LEMMA LogsGrow ==
    ASSUME TypeOK, [Next]_vars
    PROVE  /\ \A i \in InvoiceIds : Ledger!Had(audit[i]) \subseteq Ledger!Had(audit'[i])
           /\ today <= today' /\ today \in Nat /\ today' \in Nat
<1>1. today \in Nat
  BY MaxDayAssumption DEF TypeOK, Days
<1>2. today' = today \/ today' = today + 1
  BY Calendar DEF NewDay
<1>3. ASSUME NEW r \in Requests, SetStatus(r), NEW i \in InvoiceIds
      PROVE  Ledger!Had(audit[i]) \subseteq Ledger!Had(audit'[i])
  <2> DEFINE t == task[r]
  <2>1. t.id \in InvoiceIds /\ t.old \in Status /\ t.new \in Status
    BY <1>3, TaskFields DEF TypeOK, SetStatus
  <2>2. CASE audit'[i] = audit[i]
    BY <2>2
  <2>3. CASE audit'[i] # audit[i]
    <3>1. audit'[i] = LogChange(audit[i], t.old, t.new) /\ audit[i] \in Seq(LogEntry)
      BY <1>3, <2>1, <2>3 DEF SetStatus, TypeOK
    <3> QED BY <2>1, <3>1, HadGrows
  <2> QED BY <2>2, <2>3
<1>4. ASSUME NEW r \in Requests,
             InsertInvoice(r) \/ DeleteRow(r) \/ OverdueCommit(r) \/ ClientDelete(r)
      PROVE  audit' = audit
  BY <1>4 DEF InsertInvoice, DeleteRow, OverdueCommit, ClientDelete
<1> QED BY <1>1, <1>2, <1>3, <1>4, Writers DEF data

\* Under every interleaving, the status a request has read is one that the log
\* accounts for when it writes, and the day of a batch has come.
THEOREM StaleChecksAreSound == Spec => []StaleChecksSound
<1>1. Init => StaleChecksSound
  BY DEF Init, StaleChecksSound, StaleButSound, Idle
<1>2. TypeOK /\ AuditExplainsStatus /\ StaleChecksSound /\ [Next]_vars => StaleChecksSound'
  <2> SUFFICES ASSUME TypeOK, AuditExplainsStatus, StaleChecksSound, [Next]_vars,
                      NEW q \in Requests
               PROVE  StaleButSound(task[q])'
    BY DEF StaleChecksSound
  <2> USE DEF StaleButSound
  <2>1. CASE task'[q] = task[q]
    <3>1. StaleButSound(task[q]) /\ task[q] \in Tasks
      BY DEF StaleChecksSound, TypeOK
    <3>2. task[q].pc = "set_status" => task[q].id \in InvoiceIds
      BY <3>1, TaskFields
    <3>3. task[q].pc \in {"overdue_scan", "overdue_commit"} => task[q].day \in Nat
      BY <3>1, TaskFields, MaxDayAssumption DEF Days
    <3>4. task[q].pc \in {"overdue_scan", "overdue_commit"} => task[q].day <= today'
      BY <3>1, <3>3, LogsGrow
    <3> QED BY <2>1, <3>1, <3>2, <3>4, LogsGrow
  <2>2. CASE task'[q] # task[q]
    <3>1. ASSUME NEW r \in Requests, NEW next, Continue(r, next)
          PROVE  r = q /\ task'[q] = next
      BY <2>2, <3>1 DEF Continue, TypeOK
    <3>2. ASSUME NEW r \in Requests, NEW next, Continue(r, next),
                 next.pc \notin {"set_status", "overdue_scan", "overdue_commit"}
          PROVE  StaleButSound(task[q])'
      BY <3>1, <3>2
    <3>3. ASSUME NEW r \in Requests,
                 \/ Continue(r, Failed)
                 \/ \E on, code : Answer(r, on, code)
          PROVE  StaleButSound(task[q])'
      BY <3>2, <3>3 DEF Failed, Answer, Answered
    <3>4. ASSUME NEW r \in Requests, NEW uid \in Users, NEW i \in InvoiceIds, NEW new \in Status,
                 StatusLoad(r, uid, i, new)
          PROVE  StaleButSound(task[q])'
      <4>1. CASE \E on, code : Answer(r, on, code)
        BY <3>3, <4>1
      <4>2. CASE /\ Visible(uid, i)
                 /\ Continue(r, [pc |-> "set_status", uid |-> uid, id |-> i,
                                 old |-> invoices[i].status, new |-> new])
        <5>1. task'[q] = [pc |-> "set_status", uid |-> uid, id |-> i,
                          old |-> invoices[i].status, new |-> new]
          BY <3>1, <4>2
        <5>2. invoices[i].status \in Ledger!Had(audit[i])
          BY <4>2, HadExplains DEF Visible, AuditExplainsStatus, TypeOK
        <5>3. audit' = audit
          BY <3>4 DEF StatusLoad, data
        <5> QED BY <5>1, <5>2, <5>3
      <4> QED BY <3>4, <4>1, <4>2 DEF StatusLoad
    <3>5. ASSUME NEW r \in Requests, NEW uid \in Users, OverdueCall(r, uid)
          PROVE  StaleButSound(task[q])'
      <4>1. task'[q] = [pc |-> "overdue_scan", uid |-> uid, day |-> today] /\ today' = today
        BY <3>1, <3>5 DEF OverdueCall
      <4>2. today \in Nat
        BY LogsGrow
      <4> QED BY <4>1, <4>2
    <3>6. ASSUME NEW r \in Requests, OverdueScan(r)
          PROVE  StaleButSound(task[q])'
      <4>1. /\ task'[q].pc = "overdue_commit" /\ task'[q].day = task[r].day
            /\ task[r].pc = "overdue_scan" /\ today' = today
        BY <3>1, <3>6 DEF OverdueScan
      <4> QED BY <4>1 DEF StaleChecksSound
    <3>7. ASSUME NEW r \in Requests, NEW uid \in Users,
                 \/ \E c \in ClientIds, n \in Numbers, due \in Days : CreateLoad(r, uid, c, n, due)
                 \/ \E i \in InvoiceIds : DeleteLoad(r, uid, i)
                 \/ \E c \in ClientIds : ClientDeleteLoad(r, uid, c)
          PROVE  StaleButSound(task[q])'
      <4> HIDE DEF StaleButSound
      <4>1. ASSUME NEW c \in ClientIds, NEW n \in Numbers, NEW due \in Days,
                   CreateLoad(r, uid, c, n, due)
            PROVE  StaleButSound(task[q])'
        BY <3>2, <3>3, <4>1 DEF CreateLoad
      <4>2. ASSUME NEW i \in InvoiceIds, DeleteLoad(r, uid, i)
            PROVE  StaleButSound(task[q])'
        BY <3>2, <3>3, <4>2 DEF DeleteLoad
      <4>3. ASSUME NEW c \in ClientIds, ClientDeleteLoad(r, uid, c)
            PROVE  StaleButSound(task[q])'
        BY <3>2, <3>3, <4>3 DEF ClientDeleteLoad
      <4> QED BY <3>7, <4>1, <4>2, <4>3
    <3>8. ASSUME NEW r \in Requests, Proceed(r) \/ Fail(r)
          PROVE  StaleButSound(task[q])'
      <4>1. CASE InsertInvoice(r) \/ DeleteRow(r)
        BY <3>2, <3>3, <4>1 DEF InsertInvoice, DeleteRow
      <4>2. CASE ReloadInvoice(r)
        BY <3>2, <4>2 DEF ReloadInvoice, Answered, Failed
      <4>3. CASE SetStatus(r) \/ ExistsCheck(r) \/ OverdueCommit(r) \/ ClientDelete(r) \/ Fail(r)
        BY <3>3, <4>3 DEF SetStatus, ExistsCheck, OverdueCommit, ClientDelete, Fail
      <4> QED BY <3>6, <3>8, <4>1, <4>2, <4>3 DEF Proceed
    <3>9. ~NewDay /\ ~UNCHANGED vars
      BY <2>2 DEF NewDay, vars
    <3> QED BY <3>4, <3>5, <3>7, <3>8, <3>9 DEF Next, Start
  <2> QED BY <2>1, <2>2
<1> QED BY <1>1, <1>2, TypeCorrect, AuditIsSound, PTL DEF Spec

\* However many requests overlap, the service implements InvoiceLedger: each
\* commit of a handler is one step of it, and everything else none.
THEOREM LedgerRefinement == Spec => ImplementsLedger
<1>1. Init => Ledger!Init
  BY DEF Init, Ledger!Init
<1>2. TypeOK /\ PendingWritesSound /\ StaleChecksSound /\ [Next]_vars
        => [Ledger!Next]_(Ledger!vars)
  <2> SUFFICES ASSUME TypeOK, PendingWritesSound, StaleChecksSound, [Next]_vars
               PROVE  Ledger!Next \/ UNCHANGED Ledger!vars
    OBVIOUS
  <2>1. ASSUME NEW r \in Requests, InsertInvoice(r)
        PROVE  Ledger!Next \/ UNCHANGED Ledger!vars
    <3> DEFINE t == task[r]
               row == NewRow(t.uid, t.client, t.number, t.due)
    <3>1. CASE invoices' = invoices
      BY <2>1, <3>1 DEF InsertInvoice, Ledger!vars
    <3>2. CASE invoices' # invoices
      <4>1. PICK i \in InvoiceIds :
                invoices[i] = NotInserted /\ invoices' = [invoices EXCEPT ![i] = row]
        BY <2>1, <3>2 DEF InsertInvoice
      <4>2. /\ ClientExists(t.client) /\ ~NumberTaken(t.number) /\ t.pc = "insert"
            /\ UNCHANGED <<audit, clients, today>>
        BY <2>1, <3>2 DEF InsertInvoice
      <4>3. row \in Ledger!Row
        BY <4>2, TaskFields, SameTable DEF TypeOK, NewRow, Row, Status
      <4>4. clients[t.client] = t.uid
        BY <4>2 DEF PendingWritesSound, PendingWriteSound, ClientExists
      <4>5. /\ row.client = t.client /\ row.owner = t.uid /\ row.number = t.number
            /\ row.status = "draft"
        BY DEF NewRow
      <4>6. \A j \in InvoiceIds : Ledger!Live(j) => invoices[j].number # t.number
        BY <4>2, SameLive DEF NumberTaken
      <4>7. Ledger!Create(i, row)
        BY <4>1, <4>2, <4>4, <4>5, <4>6 DEF Ledger!Create
      <4> QED BY <4>3, <4>7 DEF Ledger!Next
    <3> QED BY <3>1, <3>2
  <2>2. ASSUME NEW r \in Requests, SetStatus(r)
        PROVE  Ledger!Next \/ UNCHANGED Ledger!vars
    <3> DEFINE t == task[r]
    <3>1. t.id \in InvoiceIds /\ t.old \in Status /\ t.new \in Status
      BY <2>2, TaskFields DEF TypeOK, SetStatus
    <3>2. t.new \in STATUS_MAP[t.old] /\ t.old \in Ledger!Had(audit[t.id])
      BY <2>2 DEF SetStatus, PendingWritesSound, PendingWriteSound, StaleChecksSound,
                  StaleButSound
    <3>3. CASE ~Live(t.id)
      BY <2>2, <3>3 DEF SetStatus, Ledger!vars
    <3>4. CASE Live(t.id)
      <4>1. Ledger!Move(t.id, t.old, t.new)
        BY <2>2, <3>2, <3>4, SameTable, SameLive DEF SetStatus, LogChange, Ledger!Move
      <4> QED BY <3>1, <4>1, SameTable DEF Ledger!Next
    <3> QED BY <3>3, <3>4
  <2>3. ASSUME NEW r \in Requests, DeleteRow(r)
        PROVE  Ledger!Next \/ UNCHANGED Ledger!vars
    <3> DEFINE i == task[r].id
    <3>1. /\ i \in InvoiceIds /\ invoices[i] # NotInserted
          /\ invoices' = [invoices EXCEPT ![i] = Deleted] /\ UNCHANGED <<audit, clients, today>>
      BY <2>3, TaskFields DEF TypeOK, DeleteRow, PendingWritesSound, PendingWriteSound
    <3>2. CASE Live(i)
      BY <3>1, <3>2, SameLive DEF Ledger!Delete, Ledger!Next
    <3>3. CASE ~Live(i)
      <4>1. invoices[i] = Deleted
        BY <3>1, <3>3 DEF TypeOK, Live
      <4>2. invoices' = invoices
        BY <3>1, <4>1 DEF TypeOK
      <4> QED BY <3>1, <4>2 DEF Ledger!vars
    <3> QED BY <3>2, <3>3
  <2>4. ASSUME NEW r \in Requests, OverdueCommit(r)
        PROVE  Ledger!Next
    <3> DEFINE t == task[r]
               S == {i \in InvoiceIds : StillPastDue(t, i)}
    <3>1. t.uid \in Users /\ t.day \in Nat /\ t.day <= today /\ today \in Nat
      BY <2>4, TaskFields, MaxDayAssumption, LogsGrow
         DEF TypeOK, OverdueCommit, StaleChecksSound, StaleButSound, Days
    <3>2. ASSUME NEW i \in S
          PROVE  /\ Live(i) /\ invoices[i].owner = t.uid /\ invoices[i].status = "sent"
                 /\ invoices[i].due < today
      <4>1. Live(i) /\ PastDue(invoices[i], t.uid, t.day)
        BY DEF StillPastDue
      <4>2. invoices[i].due \in Nat
        BY <4>1, MaxDayAssumption DEF Live, Row, Days
      <4> QED BY <3>1, <4>1, <4>2 DEF PastDue
    <3>3. invoices' = [i \in InvoiceIds |-> IF i \in S
                                            THEN [invoices[i] EXCEPT !.status = "overdue"]
                                            ELSE invoices[i]]
      BY <2>4 DEF OverdueCommit
    <3>4. UNCHANGED <<audit, clients, today>>
      BY <2>4 DEF OverdueCommit
    <3> HIDE DEF S
    <3>5. Ledger!MarkOverdue(t.uid, S)
      BY <3>2, <3>3, <3>4, SameLive DEF Ledger!MarkOverdue
    <3>6. S \in SUBSET InvoiceIds
      BY DEF S
    <3> QED BY <3>1, <3>5, <3>6 DEF Ledger!Next
  <2>5. ASSUME NEW r \in Requests, ClientDelete(r)
        PROVE  Ledger!Next \/ UNCHANGED Ledger!vars
    <3> DEFINE c == task[r].client
    <3>1. c \in ClientIds
      BY <2>5, TaskFields DEF TypeOK, ClientDelete
    <3>2. CASE clients' = clients
      BY <2>5, <3>2 DEF ClientDelete, Ledger!vars
    <3>3. CASE clients' # clients
      <4>1. /\ ClientExists(c) /\ ~ClientInUse(c)
            /\ clients' = [clients EXCEPT ![c] = Deleted]
            /\ UNCHANGED <<invoices, audit, today>>
        BY <2>5, <3>3 DEF ClientDelete
      <4>2. Ledger!DropClient(c)
        BY <4>1, SameLive DEF ClientExists, ClientInUse, Ledger!DropClient
      <4> QED BY <3>1, <4>2 DEF Ledger!Next
    <3> QED BY <3>2, <3>3
  <2>6. CASE NewDay
    BY <2>6 DEF NewDay, data, Ledger!NewDay, Ledger!Next
  <2>7. CASE UNCHANGED data /\ ~NewDay
    <3>1. today' = today
      BY <2>7, Calendar
    <3> QED BY <2>7, <3>1 DEF data, Ledger!vars
  <2> QED BY <2>1, <2>2, <2>3, <2>4, <2>5, <2>6, <2>7, Writers
<1> QED BY <1>1, <1>2, TypeCorrect, PendingWritesAreSound, StaleChecksAreSound, PTL
        DEF Spec, ImplementsLedger, Ledger!Spec

-----------------------------------------------------------------------------
(* Requests served one at a time.                                          *)

OneAtATime == \A r, s \in Requests : r = s

\* With one request in flight at a time, what a handler has checked still
\* holds when it writes.
THEOREM SerialChecksHold ==
    ASSUME OneAtATime
    PROVE  Spec => []ChecksStillHold
<1>1. Init => ChecksStillHold
  BY DEF Init, ChecksStillHold, CheckStillHolds, Idle
<1>2. TypeOK /\ ChecksStillHold /\ [Next]_vars => ChecksStillHold'
  <2> SUFFICES ASSUME TypeOK, ChecksStillHold, [Next]_vars, NEW r \in Requests
               PROVE  CheckStillHolds(task[r])'
    BY DEF ChecksStillHold
  <2> USE DEF CheckStillHolds
  <2>1. CASE UNCHANGED invoices /\ task'[r] = task[r]
    BY <2>1 DEF ChecksStillHold, Live
  <2>2. ASSUME NEW next, next.pc \notin {"set_status", "delete_row"}, Continue(r, next)
        PROVE  CheckStillHolds(task[r])'
    BY <2>2 DEF Continue, TypeOK
  <2>3. ASSUME NEW on, NEW code, Answer(r, on, code)
        PROVE  CheckStillHolds(task[r])'
    BY <2>2, <2>3 DEF Answer, Answered
  <2>4. ASSUME Continue(r, Failed)
        PROVE  CheckStillHolds(task[r])'
    BY <2>2, <2>4 DEF Failed
  <2>5. ASSUME NEW uid \in Users, NEW c \in ClientIds, NEW n \in Numbers,
               NEW due \in Days, CreateLoad(r, uid, c, n, due)
        PROVE  CheckStillHolds(task[r])'
    BY <2>2, <2>3, <2>5 DEF CreateLoad
  <2>6. ASSUME NEW uid \in Users, NEW i \in InvoiceIds, NEW new \in Status,
               StatusLoad(r, uid, i, new)
        PROVE  CheckStillHolds(task[r])'
    BY <2>3, <2>6 DEF StatusLoad, Visible, Continue, TypeOK, data, Live
  <2>7. ASSUME NEW uid \in Users, NEW i \in InvoiceIds, DeleteLoad(r, uid, i)
        PROVE  CheckStillHolds(task[r])'
    BY <2>3, <2>7 DEF DeleteLoad, Visible, IsDraft, Continue, TypeOK, data, Live
  <2>8. ASSUME NEW uid \in Users,
               OverdueCall(r, uid) \/ \E c \in ClientIds : ClientDeleteLoad(r, uid, c)
        PROVE  CheckStillHolds(task[r])'
    BY <2>2, <2>3, <2>8 DEF OverdueCall, ClientDeleteLoad
  <2>9. ASSUME Proceed(r)
        PROVE  CheckStillHolds(task[r])'
    <3>1. CASE InsertInvoice(r)
      BY <2>2, <2>4, <3>1 DEF InsertInvoice
    <3>2. CASE ReloadInvoice(r)
      BY <2>2, <3>2 DEF ReloadInvoice, Answered, Failed
    <3>3. CASE SetStatus(r)
      BY <2>3, <2>4, <3>3 DEF SetStatus
    <3>4. CASE DeleteRow(r) \/ OverdueScan(r)
      BY <2>2, <3>4 DEF DeleteRow, OverdueScan
    <3>5. CASE ExistsCheck(r)
      BY <2>3, <3>5 DEF ExistsCheck
    <3>6. CASE OverdueCommit(r) \/ ClientDelete(r)
      BY <2>3, <2>4, <3>6 DEF OverdueCommit, ClientDelete
    <3> QED BY <2>9, <3>1, <3>2, <3>3, <3>4, <3>5, <3>6 DEF Proceed
  <2>10. ASSUME Fail(r)
         PROVE  CheckStillHolds(task[r])'
    BY <2>4, <2>10 DEF Fail
  <2>11. CASE \E s \in Requests : Start(s) \/ Proceed(s) \/ Fail(s)
    <3>1. Start(r) \/ Proceed(r) \/ Fail(r)
      BY <2>11 DEF OneAtATime
    <3> QED BY <2>5, <2>6, <2>7, <2>8, <2>9, <2>10, <3>1 DEF Start
  <2>12. CASE NewDay \/ UNCHANGED vars
    BY <2>1, <2>12 DEF NewDay, vars, data
  <2> QED BY <2>11, <2>12 DEF Next
<1> QED BY <1>1, <1>2, TypeCorrect, PTL DEF Spec

\* With one request in flight at a time the service implements the life cycle
\* of InvoiceLifecycle: every handler acts as one step of it, or as none.
THEOREM SerialRefinement ==
    ASSUME OneAtATime
    PROVE  Spec => ImplementsLifecycle
<1> DEFINE bar == [i \in InvoiceIds |-> LifecycleStatus(invoices[i])]
<1>1. Init => Lifecycle!Init
  BY DEF Init, Lifecycle!Init, LifecycleStatus
<1>2. TypeOK /\ PendingWritesSound /\ ChecksStillHold /\ [Next]_vars => [Lifecycle!Next]_bar
  <2> SUFFICES ASSUME TypeOK, PendingWritesSound, ChecksStillHold, [Next]_vars
               PROVE  Lifecycle!Next \/ UNCHANGED bar
    OBVIOUS
  <2>1. \A i \in InvoiceIds : Live(i) => bar[i] = invoices[i].status
    BY LiveIsNotAMarker DEF LifecycleStatus
  <2>2. ASSUME NEW r \in Requests, InsertInvoice(r)
        PROVE  Lifecycle!Next \/ UNCHANGED bar
    <3>1. CASE invoices' = invoices
      BY <3>1
    <3>2. CASE invoices' # invoices
      <4> DEFINE row == NewRow(task[r].uid, task[r].client, task[r].number, task[r].due)
      <4>1. PICK i \in InvoiceIds :
                invoices[i] = NotInserted /\ invoices' = [invoices EXCEPT ![i] = row]
        BY <2>2, <3>2 DEF InsertInvoice
      <4>2. row \in Row
        BY <2>2, TaskFields DEF InsertInvoice, TypeOK, NewRow, Row, Status
      <4>3. LifecycleStatus(row) = "draft"
        BY <4>2, MarkersAssumption DEF LifecycleStatus, NewRow
      <4>4. bar[i] = "unborn" /\ bar' = [bar EXCEPT ![i] = "draft"]
        BY <4>1, <4>3 DEF LifecycleStatus, TypeOK
      <4>5. Lifecycle!Create(i)
        BY <4>4 DEF Lifecycle!Create
      <4> QED BY <4>5 DEF Lifecycle!Next
    <3> QED BY <3>1, <3>2
  <2>3. ASSUME NEW r \in Requests, SetStatus(r)
        PROVE  Lifecycle!Next \/ UNCHANGED bar
    <3> DEFINE t == task[r]
               row == [invoices[t.id] EXCEPT !.status = t.new]
    <3>1. t.id \in InvoiceIds /\ t.old \in Status /\ t.new \in Status
      BY <2>3, TaskFields DEF TypeOK, SetStatus
    <3>2. Live(t.id) /\ invoices[t.id].status = t.old /\ t.new \in STATUS_MAP[t.old]
      BY <2>3 DEF SetStatus, ChecksStillHold, CheckStillHolds, PendingWritesSound,
                  PendingWriteSound
    <3>3. row \in Row /\ row.status = t.new
      BY <3>1, <3>2, WithStatusType DEF Live
    <3>4. LifecycleStatus(row) = t.new
      BY <3>3, MarkersAssumption DEF LifecycleStatus
    <3>5. invoices' = [invoices EXCEPT ![t.id] = row]
      BY <2>3, <3>2 DEF SetStatus
    <3>6. bar' = [bar EXCEPT ![t.id] = t.new]
      BY <3>1, <3>4, <3>5 DEF TypeOK
    <3>7. bar[t.id] = t.old
      BY <2>1, <3>1, <3>2
    <3>8. Lifecycle!Status = Status
      BY DEF Status, Lifecycle!Status
    <3>9. Lifecycle!STATUS_MAP = STATUS_MAP
      BY <3>8 DEF STATUS_MAP, Lifecycle!STATUS_MAP
    <3>10. Lifecycle!Move(t.id, t.new)
      BY <3>1, <3>2, <3>6, <3>7, <3>8, <3>9 DEF Lifecycle!Move
    <3> QED BY <3>1, <3>8, <3>10 DEF Lifecycle!Next
  <2>4. ASSUME NEW r \in Requests, DeleteRow(r)
        PROVE  Lifecycle!Next \/ UNCHANGED bar
    <3> DEFINE t == task[r]
    <3>1. t.id \in InvoiceIds
      BY <2>4, TaskFields DEF TypeOK, DeleteRow
    <3>2. bar[t.id] = "draft"
      BY <2>1, <2>4, <3>1 DEF DeleteRow, ChecksStillHold, CheckStillHolds
    <3>3. LifecycleStatus(Deleted) = "gone"
      BY MarkersAssumption DEF LifecycleStatus
    <3>4. bar' = [bar EXCEPT ![t.id] = "gone"]
      BY <2>4, <3>1, <3>3 DEF DeleteRow, TypeOK
    <3>5. Lifecycle!Delete(t.id)
      BY <3>2, <3>4 DEF Lifecycle!Delete
    <3> QED BY <3>1, <3>5 DEF Lifecycle!Next
  <2>5. ASSUME NEW r \in Requests, OverdueCommit(r)
        PROVE  Lifecycle!Next \/ UNCHANGED bar
    <3> DEFINE S == {i \in InvoiceIds : StillPastDue(task[r], i)}
    <3>1. \A i \in S : bar[i] = "sent"
      BY <2>1 DEF StillPastDue, PastDue
    <3>2. ASSUME NEW i \in S
          PROVE  LifecycleStatus(invoices'[i]) = "overdue"
      <4>1. Live(i) /\ invoices'[i] = [invoices[i] EXCEPT !.status = "overdue"]
        BY <2>5 DEF OverdueCommit, StillPastDue
      <4>2. invoices'[i] \in Row /\ invoices'[i].status = "overdue"
        BY <4>1, WithStatusType DEF Live, Status
      <4> QED BY <4>2, MarkersAssumption DEF LifecycleStatus
    <3>3. \A i \in InvoiceIds \ S : invoices'[i] = invoices[i]
      BY <2>5 DEF OverdueCommit
    <3>4. bar' = [i \in InvoiceIds |-> IF i \in S THEN "overdue" ELSE bar[i]]
      BY <3>2, <3>3
    <3>5. Lifecycle!MarkOverdue(S)
      BY <3>1, <3>4 DEF Lifecycle!MarkOverdue
    <3> QED BY <3>5 DEF Lifecycle!Next
  <2>6. ASSUME NEW r \in Requests, ClientDelete(r)
        PROVE  UNCHANGED bar
    BY <2>6 DEF ClientDelete
  <2>7. ASSUME UNCHANGED data
        PROVE  UNCHANGED bar
    BY <2>7 DEF data
  <2> QED BY <2>2, <2>3, <2>4, <2>5, <2>6, <2>7, Writers
<1> QED
  BY <1>1, <1>2, TypeCorrect, PendingWritesAreSound, SerialChecksHold, PTL
     DEF Spec, ImplementsLifecycle, Lifecycle!Spec
=============================================================================
