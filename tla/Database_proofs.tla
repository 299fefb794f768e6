-------------------------- MODULE Database_proofs --------------------------
(***************************************************************************)
(* Theorems about the tables: about the migrations that make them          *)
(* (Migrations), whatever rows they have, and about the rows of users and  *)
(* tags (Accounts), for any number of requests, e-mails, owners and names. *)
(***************************************************************************)
EXTENDS Accounts, Migrations, RevisionFacts, FiniteSetTheorems, WellFoundedInduction, TLAPS

(* Accounts.                                                               *)

\* A list that is given is a sequence of names.
LEMMA ListsAreSequences == Lists \subseteq Seq(Names)
<1>1. Cardinality(Names) \in Nat
  BY FS_CardinalityType, AccountsAssumption
<1> QED BY <1>1 DEF Lists, BoundedSeq, SeqOf

\* What is left of a list when its first name is done.
LEMMA FirstAndRest ==
    ASSUME NEW names \in Seq(Names), names # <<>>
    PROVE  /\ names[1] \in Names
           /\ Tail(names) \in Seq(Names)
           /\ ToSet(names) \subseteq {names[1]} \cup ToSet(Tail(names))
<1>1. Len(names) \in Nat \ {0} /\ DOMAIN names = 1 .. Len(names)
  OBVIOUS
<1>2. /\ Tail(names) \in Seq(Names)
      /\ Len(Tail(names)) = Len(names) - 1
      /\ \A i \in 1 .. Len(names) - 1 : Tail(names)[i] = names[i + 1]
  BY <1>1
<1>3. ASSUME NEW i \in DOMAIN names, i # 1
      PROVE  names[i] \in ToSet(Tail(names))
  <2>1. i - 1 \in 1 .. Len(names) - 1
    BY <1>1, <1>3
  <2>2. Tail(names)[i - 1] = names[i] /\ i - 1 \in DOMAIN Tail(names)
    BY <1>2, <2>1
  <2> QED BY <2>2 DEF ToSet
<1> QED BY <1>1, <1>2, <1>3 DEF ToSet

-----------------------------------------------------------------------------

\* The fields that a task has where it is.
LEMMA Fields ==
    ASSUME NEW t \in Task
    PROVE  /\ t.pc \in {"register", "registered", "welcome"} => t.email \in Emails
           /\ t.pc = "create" => t.owner \in Owners /\ t.name \in Names
           /\ t.pc \in {"bulk", "list"} =>
                /\ t \in [pc : {"bulk", "list"}, owner : Owners, names : Seq(Names),
                          asked : SUBSET Names]
                /\ t.owner \in Owners /\ t.names \in Seq(Names) /\ t.asked \in SUBSET Names
           /\ t.pc \in {"register", "registered"} =>
                t \in [pc : {"register", "registered"}, email : Emails]
  BY DEF Task

\* The tasks that the actions go on with.
LEMMA Made ==
    /\ \A status \in Nat : Answered(status) \in Task
    /\ \A e \in Emails :
          /\ [pc |-> "register", email |-> e] \in Task
          /\ [pc |-> "welcome", email |-> e, status |-> 201] \in Task
    /\ \A o \in Owners, n \in Names : [pc |-> "create", owner |-> o, name |-> n] \in Task
    /\ \A o \in Owners, names \in Seq(Names), asked \in SUBSET Names :
          [pc |-> "bulk", owner |-> o, names |-> names, asked |-> asked] \in Task
    /\ \A o \in Owners, asked \in SUBSET Names, result \in SUBSET Rows :
          [pc |-> "listed", owner |-> o, asked |-> asked, result |-> result] \in Task
  BY DEF Task, Answered

\* Every reachable state of Accounts is well typed, and only a bulk upsert has
\* rows that are not committed.
THEOREM TypeCorrect == Spec => []TypeOK
<1>1. Init => TypeOK
  BY DEF Init, TypeOK, Free, Task
<1>2. TypeOK /\ [Next]_vars => TypeOK'
  <2> SUFFICES ASSUME TypeOK, [Next]_vars
               PROVE  TypeOK'
    OBVIOUS
  <2>1. CASE UNCHANGED vars
    BY <2>1 DEF vars, TypeOK
  <2>2. ASSUME NEW r \in Requests,
               NEW t \in Task, task' = [task EXCEPT ![r] = t],
               users' \in [Emails -> Requests \cup {NoUser}],
               tags' \subseteq Rows,
               NEW rows \in SUBSET Rows, open' = [open EXCEPT ![r] = rows],
               rows # {} => t.pc = "bulk"
        PROVE  TypeOK'
    BY <2>2 DEF TypeOK
  <2>3. ASSUME NEW r \in Requests
        PROVE  /\ task[r] \in Task
               /\ open[r] \in SUBSET Rows
               /\ open = [open EXCEPT ![r] = open[r]]
               /\ task[r].pc # "bulk" => open[r] = {}
    BY DEF TypeOK
  <2>4. ASSUME NEW r \in Requests, NEW e \in Emails, RegisterLookup(r, e)
        PROVE  TypeOK'
    <3>1. open[r] = {}
      BY <2>3, <2>4 DEF RegisterLookup, Free
    <3>2. \E t \in Task : task' = [task EXCEPT ![r] = t]
      <4>1. Answered(400) \in Task /\ [pc |-> "register", email |-> e] \in Task
        BY <2>4 DEF Answered, Task
      <4> QED BY <2>4, <4>1 DEF RegisterLookup, Goes
    <3>3. /\ UNCHANGED <<users, tags, open>>
          /\ users \in [Emails -> Requests \cup {NoUser}] /\ tags \subseteq Rows
      BY <2>4 DEF RegisterLookup, TypeOK
    <3> QED BY <2>2, <2>3, <3>1, <3>2, <3>3
  <2>5. ASSUME NEW r \in Requests, RegisterInsert(r)
        PROVE  TypeOK'
    <3>1. /\ task[r] \in [pc : {"register", "registered"}, email : Emails]
          /\ task[r].email \in Emails
          /\ open[r] = {}
      BY <2>3, <2>5, Fields DEF RegisterInsert
    <3>2. [task[r] EXCEPT !.pc = "registered"] \in Task
      BY <3>1 DEF Task
    <3>3. users' \in [Emails -> Requests \cup {NoUser}]
      BY <2>5, <3>1 DEF RegisterInsert, TypeOK
    <3>4. UNCHANGED <<tags, open>> /\ tags \subseteq Rows
      BY <2>5 DEF RegisterInsert, TypeOK
    <3>5. \E t \in Task : task' = [task EXCEPT ![r] = t]
      BY <2>5, <3>2, Made DEF RegisterInsert, Goes
    <3> QED BY <2>2, <2>3, <3>1, <3>3, <3>4, <3>5
  <2>6. ASSUME NEW r \in Requests, RegisterRefresh(r)
        PROVE  TypeOK'
    BY <2>2, <2>3, <2>6, Fields, Made DEF RegisterRefresh, Goes, TypeOK
  <2>7. ASSUME NEW r \in Requests, NEW o \in Owners, NEW n \in Names, CreateLookup(r, o, n)
        PROVE  TypeOK'
    BY <2>2, <2>3, <2>7, Made DEF CreateLookup, Goes, Free, TypeOK
  <2>8. ASSUME NEW r \in Requests, CreateInsert(r)
        PROVE  TypeOK'
    <3>1. task[r].owner \in Owners /\ task[r].name \in Names /\ open[r] = {}
      BY <2>3, <2>8, Fields DEF CreateInsert
    <3>2. tags' \subseteq Rows
      BY <2>8, <3>1 DEF CreateInsert, TypeOK, Row, Rows
    <3>3. \E t \in Task : task' = [task EXCEPT ![r] = t]
      BY <2>8, Made DEF CreateInsert, Goes
    <3>4. UNCHANGED <<users, open>> /\ users \in [Emails -> Requests \cup {NoUser}]
      BY <2>8 DEF CreateInsert, TypeOK
    <3> QED BY <2>2, <2>3, <3>1, <3>2, <3>3, <3>4
  <2>9. ASSUME NEW r \in Requests, NEW o \in Owners, NEW names \in Lists, BulkBegin(r, o, names)
        PROVE  TypeOK'
    <3>1. names \in Seq(Names) /\ ToSet(names) \in SUBSET Names
      <4>1. names \in Seq(Names)
        BY <2>9, ListsAreSequences
      <4>2. \A i \in DOMAIN names : names[i] \in Names
        BY <4>1
      <4> QED BY <4>1, <4>2 DEF ToSet
    <3> QED BY <2>2, <2>3, <2>9, <3>1, Made DEF BulkBegin, Goes, Free, TypeOK
  <2>10. ASSUME NEW r \in Requests, BulkInsertRow(r)
         PROVE  TypeOK'
    <3> DEFINE o == task[r].owner
               n == task[r].names[1]
    <3>1. /\ task[r] \in [pc : {"bulk", "list"}, owner : Owners, names : Seq(Names),
                          asked : SUBSET Names]
          /\ task[r].pc = "bulk"
      BY <2>3, <2>10, Fields DEF BulkInsertRow
    <3>2. o \in Owners /\ n \in Names /\ Tail(task[r].names) \in Seq(Names)
      BY <2>10, <3>1, FirstAndRest DEF BulkInsertRow
    <3>3. /\ [task[r] EXCEPT !.names = Tail(@)] \in Task
          /\ [task[r] EXCEPT !.names = Tail(@)].pc = "bulk"
      BY <3>1, <3>2 DEF Task
    <3>4. Row(r, o, n) \in Rows
      BY <3>2 DEF Row, Rows
    <3>5. \E rows \in SUBSET Rows : open' = [open EXCEPT ![r] = rows]
      <4>1. CASE Taken(r, o, n)
        BY <2>3, <2>10, <4>1 DEF BulkInsertRow
      <4>2. CASE ~Taken(r, o, n)
        <5>1. open' = [open EXCEPT ![r] = open[r] \cup {Row(r, o, n)}]
          BY <2>10, <4>2 DEF BulkInsertRow
        <5> QED BY <2>3, <3>4, <5>1
      <4> QED BY <4>1, <4>2
    <3>6. /\ task' = [task EXCEPT ![r] = [task[r] EXCEPT !.names = Tail(@)]]
          /\ users' \in [Emails -> Requests \cup {NoUser}] /\ tags' \subseteq Rows
      BY <2>10 DEF BulkInsertRow, Goes, TypeOK
    <3> QED BY <2>2, <3>3, <3>5, <3>6
  <2>11. ASSUME NEW r \in Requests, BulkCommit(r)
         PROVE  TypeOK'
    <3>1. task[r] \in [pc : {"bulk", "list"}, owner : Owners, names : Seq(Names),
                       asked : SUBSET Names]
      BY <2>3, <2>11, Fields DEF BulkCommit
    <3>2. [task[r] EXCEPT !.pc = "list"] \in Task
      BY <3>1 DEF Task
    <3>3. tags' \subseteq Rows /\ users' \in [Emails -> Requests \cup {NoUser}]
      BY <2>3, <2>11 DEF BulkCommit, TypeOK
    <3>4. /\ task' = [task EXCEPT ![r] = [task[r] EXCEPT !.pc = "list"]]
          /\ open' = [open EXCEPT ![r] = {}]
      BY <2>11 DEF BulkCommit, Goes
    <3> QED BY <2>2, <3>2, <3>3, <3>4
  <2>12. ASSUME NEW r \in Requests, BulkList(r)
         PROVE  TypeOK'
    <3>1. task[r].owner \in Owners /\ task[r].asked \in SUBSET Names /\ open[r] = {}
      BY <2>3, <2>12, Fields DEF BulkList
    <3>2. {row \in tags : row.owner = task[r].owner} \in SUBSET Rows
      BY DEF TypeOK
    <3>3. \E t \in Task : task' = [task EXCEPT ![r] = t]
      BY <2>12, <3>1, <3>2, Made DEF BulkList, Goes
    <3>4. /\ UNCHANGED <<users, tags, open>>
          /\ users \in [Emails -> Requests \cup {NoUser}] /\ tags \subseteq Rows
      BY <2>12 DEF BulkList, TypeOK
    <3> QED BY <2>2, <2>3, <3>1, <3>3, <3>4
  <2>13. ASSUME NEW r \in Requests, EndDeadlock(r) \/ Fail(r)
         PROVE  TypeOK'
    BY <2>2, <2>13, Made DEF EndDeadlock, Fail, Goes, TypeOK
  <2> QED BY <2>1, <2>4, <2>5, <2>6, <2>7, <2>8, <2>9, <2>10, <2>11, <2>12, <2>13
          DEF Next, Serve
<1> QED BY <1>1, <1>2, PTL DEF Spec

-----------------------------------------------------------------------------
(* Whose step it is.                                                       *)

StepOf(r) ==
    \/ Serve(r)
    \/ Fail(r)
    \/ \E e \in Emails : RegisterLookup(r, e)
    \/ \E o \in Owners, n \in Names : CreateLookup(r, o, n)
    \/ \E o \in Owners, names \in Lists : BulkBegin(r, o, names)

\* A step is that of one request, and leaves the others as they are.
LEMMA OthersStay ==
    ASSUME TypeOK, NEW q \in Requests, StepOf(q), NEW r \in Requests \ {q}
    PROVE  task'[r] = task[r] /\ open'[r] = open[r]
<1>1. \E t : task' = [task EXCEPT ![q] = t]
  BY DEF StepOf, Serve, RegisterLookup, RegisterInsert, RegisterRefresh, CreateLookup,
         CreateInsert, BulkBegin, BulkInsertRow, BulkCommit, BulkList, Fail, EndDeadlock, Goes
<1>2. open' = open \/ \E rows : open' = [open EXCEPT ![q] = rows]
  BY DEF StepOf, Serve, RegisterLookup, RegisterInsert, RegisterRefresh, CreateLookup,
         CreateInsert, BulkBegin, BulkInsertRow, BulkCommit, BulkList, Fail, EndDeadlock
<1> QED BY <1>1, <1>2 DEF TypeOK

\* The steps after which a request is in none of the places named below.
LEMMA Elsewhere ==
    ASSUME TypeOK, NEW r \in Requests,
           \/ \E e \in Emails : RegisterLookup(r, e)
           \/ \E o \in Owners, n \in Names : CreateLookup(r, o, n)
           \/ CreateInsert(r) \/ Fail(r) \/ EndDeadlock(r)
    PROVE  task'[r].pc \in {"answered", "register", "create"}
  BY DEF RegisterLookup, CreateLookup, CreateInsert, Fail, EndDeadlock, Goes, Answered, TypeOK

-----------------------------------------------------------------------------
(* Registrations.                                                          *)

\* An account and a committed tag stay as they are.
LEMMA RowsStay ==
    ASSUME TypeOK, [Next]_vars
    PROVE  /\ \A e \in Emails : users[e] # NoUser => users'[e] = users[e]
           /\ tags \subseteq tags'
<1>1. ASSUME NEW r \in Requests, RegisterInsert(r)
      PROVE  \A e \in Emails : users[e] # NoUser => users'[e] = users[e]
  BY <1>1 DEF RegisterInsert, EmailTaken, TypeOK
<1>2. CASE UNCHANGED vars
  BY <1>2 DEF vars
<1>3. ASSUME NEW r \in Requests, RegisterInsert(r)
      PROVE  tags \subseteq tags'
  BY <1>3 DEF RegisterInsert
<1> QED BY <1>1, <1>2, <1>3
        DEF Next, Serve, RegisterLookup, RegisterRefresh, CreateLookup, CreateInsert,
            BulkBegin, BulkInsertRow, BulkCommit, BulkList, Fail, EndDeadlock

\* Whoever is told that the account is registered has registered it (register,
\* create_user): the unique index decides, not the lookup.
THEOREM WelcomeIsSound == Spec => []WelcomeIsOwnAccount
<1>1. Init => WelcomeIsOwnAccount
  BY DEF Init, WelcomeIsOwnAccount, Free
<1>2. TypeOK /\ WelcomeIsOwnAccount /\ [Next]_vars => WelcomeIsOwnAccount'
  <2> SUFFICES ASSUME TypeOK, WelcomeIsOwnAccount, [Next]_vars, NEW r \in Requests,
                      task'[r].pc \in {"registered", "welcome"}
               PROVE  users'[task'[r].email] = r
    BY DEF WelcomeIsOwnAccount
  <2>1. task[r] \in Task
    BY DEF TypeOK
  <2>2. CASE UNCHANGED vars \/ \E q \in Requests \ {r} : StepOf(q)
    <3>1. task'[r] = task[r]
      BY <2>2, OthersStay DEF vars
    <3>2. users[task[r].email] = r /\ task[r].email \in Emails
      BY <2>1, <3>1, Fields DEF WelcomeIsOwnAccount
    <3> QED BY <3>1, <3>2, RowsStay, AccountsAssumption
  <2>3. CASE StepOf(r)
    <3>1. CASE ~RegisterInsert(r) /\ ~RegisterRefresh(r)
      <4>1. CASE BulkInsertRow(r) \/ BulkCommit(r)
        <5>1. task[r] \in [pc : {"bulk", "list"}, owner : Owners, names : Seq(Names),
                           asked : SUBSET Names]
          BY <2>1, <4>1, Fields DEF BulkInsertRow, BulkCommit
        <5>2. task'[r].pc \in {"bulk", "list"}
          BY <4>1, <5>1 DEF BulkInsertRow, BulkCommit, Goes, TypeOK
        <5> QED BY <5>2
      <4>2. CASE \/ BulkList(r)
                 \/ \E o \in Owners, names \in Lists : BulkBegin(r, o, names)
        BY <4>2 DEF BulkList, BulkBegin, Goes, Answered, TypeOK
      <4> QED BY <2>3, <3>1, <4>1, <4>2, Elsewhere DEF StepOf, Serve
    <3>2. CASE RegisterInsert(r)
      <4>1. task[r].email \in Emails /\ task[r] \in [pc : {"register", "registered"}, email : Emails]
        BY <2>1, <3>2, Fields DEF RegisterInsert
      <4>2. ~EmailTaken(task[r].email)
        BY <3>2 DEF RegisterInsert, Goes, Answered, TypeOK
      <4>3. /\ users' = [users EXCEPT ![task[r].email] = r]
            /\ task'[r] = [task[r] EXCEPT !.pc = "registered"]
        BY <3>2, <4>2 DEF RegisterInsert, Goes, TypeOK
      <4> QED BY <4>1, <4>3 DEF TypeOK
    <3>3. CASE RegisterRefresh(r)
      <4>1. users[task[r].email] = r
        BY <3>3 DEF RegisterRefresh, WelcomeIsOwnAccount
      <4>2. task'[r].email = task[r].email /\ users' = users
        BY <3>3 DEF RegisterRefresh, Goes, TypeOK
      <4> QED BY <4>1, <4>2
    <3> QED BY <3>1, <3>2, <3>3
  <2> QED BY <2>2, <2>3 DEF Next, StepOf
<1> QED BY <1>1, <1>2, TypeCorrect, PTL DEF Spec

-----------------------------------------------------------------------------
(* Tags.                                                                   *)

\* The names of a bulk upsert are still to come, inserted by itself, or
\* committed; at its end they are committed.
BulkSound(r) ==
    /\ task[r].pc = "bulk" =>
            \A n \in task[r].asked : n \in ToSet(task[r].names) \/ Taken(r, task[r].owner, n)
    /\ task[r].pc = "list" => \A n \in task[r].asked : HasTag(task[r].owner, n)
    /\ task[r].pc = "listed" =>
            /\ task[r].asked \subseteq {row.name : row \in task[r].result}
            /\ \A row \in task[r].result : row.owner = task[r].owner

BulkInv == \A r \in Requests : BulkSound(r)

\* A bulk upsert returns every name it was given, for its owner alone, though
\* on_conflict_do_nothing skips rows and other transactions are rolled back.
THEOREM BulkIsComplete == Spec => []BulkReturnsAll
<1>1. Init => BulkInv
  BY DEF Init, BulkInv, BulkSound, Free
<1>2. TypeOK /\ BulkInv /\ [Next]_vars => BulkInv'
  <2> SUFFICES ASSUME TypeOK, BulkInv, [Next]_vars, NEW r \in Requests
               PROVE  BulkSound(r)'
    BY DEF BulkInv
  <2>1. task[r] \in Task /\ BulkSound(r) /\ tags \subseteq tags'
    BY RowsStay DEF TypeOK, BulkInv
  <2>2. \A o, n : HasTag(o, n) => HasTag(o, n)'
    BY <2>1 DEF HasTag
  <2>3. CASE UNCHANGED vars \/ \E q \in Requests \ {r} : StepOf(q)
    <3>1. task'[r] = task[r] /\ open'[r] = open[r]
      BY <2>3, OthersStay DEF vars
    <3>2. \A o, n : Taken(r, o, n) => Taken(r, o, n)'
      BY <2>2, <3>1 DEF Taken
    <3> QED BY <2>1, <2>2, <3>1, <3>2 DEF BulkSound
  <2>4. CASE StepOf(r)
    <3>1. CASE \/ ~BulkInsertRow(r) /\ ~BulkCommit(r) /\ ~BulkList(r)
               /\ ~\E o \in Owners, names \in Lists : BulkBegin(r, o, names)
      <4>1. CASE RegisterInsert(r) \/ RegisterRefresh(r)
        <5>1. task[r].pc = "register" =>
                 task[r] \in [pc : {"register", "registered"}, email : Emails]
          BY <2>1, Fields
        <5>2. task'[r].pc \in {"answered", "registered", "welcome"}
          BY <4>1, <5>1 DEF RegisterInsert, RegisterRefresh, Goes, Answered, TypeOK
        <5> QED BY <5>2 DEF BulkSound
      <4> QED BY <2>4, <3>1, <4>1, Elsewhere DEF StepOf, Serve, BulkSound
    <3>2. ASSUME NEW o \in Owners, NEW names \in Lists, BulkBegin(r, o, names)
          PROVE  BulkSound(r)'
      <4>1. \/ task'[r] = Answered(500)
            \/ task'[r] = [pc |-> "bulk", owner |-> o, names |-> names, asked |-> ToSet(names)]
        BY <3>2 DEF BulkBegin, Goes, TypeOK
      <4> QED BY <4>1 DEF BulkSound, Answered
    <3>3. CASE BulkInsertRow(r)
      <4>0. PICK o, first, rest : /\ o = task[r].owner
                                  /\ first = task[r].names[1]
                                  /\ rest = Tail(task[r].names)
        OBVIOUS
      <4>1. /\ task[r] \in [pc : {"bulk", "list"}, owner : Owners, names : Seq(Names),
                            asked : SUBSET Names]
            /\ task[r].names \in Seq(Names) /\ task[r].names # <<>> /\ task[r].pc = "bulk"
        BY <2>1, <3>3, Fields DEF BulkInsertRow
      <4>2. task'[r] = [task[r] EXCEPT !.names = rest]
        BY <3>3, <4>0 DEF BulkInsertRow, Goes, TypeOK
      <4>3. /\ task'[r].pc = "bulk" /\ task'[r].owner = o
            /\ task'[r].names = rest /\ task'[r].asked = task[r].asked
        BY <4>0, <4>1, <4>2
      <4>4. ToSet(task[r].names) \subseteq {first} \cup ToSet(rest)
        BY <4>0, <4>1, FirstAndRest
      <4>5. tags' = tags /\ open[r] \subseteq open'[r]
        BY <3>3 DEF BulkInsertRow, TypeOK
      <4>6. \A n : Taken(r, o, n) => Taken(r, o, n)'
        BY <4>5 DEF Taken, HasTag
      <4>7. Taken(r, o, first)'
        <5>1. CASE Taken(r, o, first)
          BY <4>6, <5>1
        <5>2. CASE ~Taken(r, o, first)
          <6>1. Row(r, o, first) \in open'[r]
            BY <3>3, <4>0, <5>2 DEF BulkInsertRow, TypeOK
          <6>2. Key(Row(r, o, first)) = <<o, first>>
            BY DEF Key, Row
          <6> QED BY <6>1, <6>2 DEF Taken
        <5> QED BY <5>1, <5>2
      <4>8. \A n \in task[r].asked : n \in ToSet(task[r].names) \/ Taken(r, o, n)
        BY <2>1, <4>0, <4>1 DEF BulkSound
      <4>9. \A n \in task[r].asked : n \in ToSet(rest) \/ Taken(r, o, n)'
        BY <4>4, <4>6, <4>7, <4>8
      <4> QED BY <4>3, <4>9 DEF BulkSound
    <3>4. CASE BulkCommit(r)
      <4>1. /\ task[r] \in [pc : {"bulk", "list"}, owner : Owners, names : Seq(Names),
                            asked : SUBSET Names]
            /\ task[r].names = <<>> /\ task[r].pc = "bulk"
        BY <2>1, <3>4, Fields DEF BulkCommit
      <4>2. task'[r] = [task[r] EXCEPT !.pc = "list"]
        BY <3>4 DEF BulkCommit, Goes, TypeOK
      <4>3. task'[r].pc = "list" /\ task'[r].owner = task[r].owner /\ task'[r].asked = task[r].asked
        BY <4>1, <4>2
      <4>4. ToSet(task[r].names) = {}
        BY <4>1 DEF ToSet
      <4>5. \A n \in task[r].asked : Taken(r, task[r].owner, n)
        BY <2>1, <4>1, <4>4 DEF BulkSound
      <4>6. tags' = tags \cup open[r]
        BY <3>4 DEF BulkCommit
      <4>7. PICK o, asked : o = task[r].owner /\ asked = task[r].asked
        OBVIOUS
      <4>8. \A n \in asked : HasTag(o, n)'
        BY <4>5, <4>6, <4>7 DEF Taken, HasTag
      <4> QED BY <4>3, <4>7, <4>8 DEF BulkSound
    <3>5. CASE BulkList(r)
      <4>1. task[r].pc = "list" /\ \A n \in task[r].asked : HasTag(task[r].owner, n)
        BY <2>1, <3>5 DEF BulkSound, BulkList
      <4>2. task'[r] = [pc |-> "listed", owner |-> task[r].owner, asked |-> task[r].asked,
                        result |-> {row \in tags : row.owner = task[r].owner}]
        BY <3>5 DEF BulkList, Goes, TypeOK
      <4>3. \A n \in task[r].asked :
               \E row \in tags : row.owner = task[r].owner /\ row.name = n
        BY <4>1 DEF HasTag, Key
      <4> QED BY <4>2, <4>3 DEF BulkSound
    <3> QED BY <3>1, <3>2, <3>3, <3>4, <3>5
  <2> QED BY <2>3, <2>4 DEF Next, StepOf
<1>3. BulkInv => BulkReturnsAll
  BY DEF BulkInv, BulkSound, BulkReturnsAll
<1> QED BY <1>1, <1>2, <1>3, TypeCorrect, PTL DEF Spec

-----------------------------------------------------------------------------
(* The unique index, with rows that are not committed.                     *)

\* No two rows have the same owner and name: not of those that are committed,
\* nor of those that an open transaction will commit or take back.
UniqueRows ==
    /\ \A x, y \in tags : Key(x) = Key(y) => x = y
    /\ \A r \in Requests : \A x \in open[r], y \in tags : Key(x) # Key(y)
    /\ \A r, s \in Requests : \A x \in open[r], y \in open[s] : Key(x) = Key(y) => r = s /\ x = y

\* However upserts and creations overlap, wait for each other and are rolled
\* back, uq_tag_name_owner is never violated (Tag in db_models.py, TagRepo).
THEOREM UniqueIndexHolds == Spec => []UniqueRows
<1>1. Init => UniqueRows
  BY DEF Init, UniqueRows
<1>2. TypeOK /\ UniqueRows /\ [Next]_vars => UniqueRows'
  <2> SUFFICES ASSUME TypeOK, UniqueRows, [Next]_vars
               PROVE  UniqueRows'
    OBVIOUS
  <2>1. CASE tags' = tags /\ \A r \in Requests : open'[r] \subseteq open[r]
    BY <2>1 DEF UniqueRows
  <2>2. ASSUME NEW r \in Requests, NEW o, NEW n, HasTag(o, n) \/ InTheWay(r, o, n) = {},
               ~Taken(r, o, n)
        PROVE  /\ Key(Row(r, o, n)) = <<o, n>>
               /\ \A x \in tags : Key(x) # <<o, n>>
               /\ \A s \in Requests : \A x \in open[s] : Key(x) # <<o, n>>
    BY <2>2 DEF Key, Row, Taken, HasTag, InTheWay
  <2>3. ASSUME NEW r \in Requests, CreateInsert(r)
        PROVE  UniqueRows'
    <3> DEFINE o == task[r].owner
               n == task[r].name
    <3>1. open' = open /\ InTheWay(r, o, n) = {}
      BY <2>3 DEF CreateInsert
    <3>2. CASE Taken(r, o, n)
      BY <2>1, <2>3, <3>1, <3>2 DEF CreateInsert
    <3>3. CASE ~Taken(r, o, n)
      <4>1. tags' = tags \cup {Row(r, o, n)}
        BY <2>3, <3>3 DEF CreateInsert
      <4> QED BY <2>2, <3>1, <3>3, <4>1 DEF UniqueRows
    <3> QED BY <3>2, <3>3
  <2>4. ASSUME NEW r \in Requests, BulkInsertRow(r)
        PROVE  UniqueRows'
    <3> DEFINE o == task[r].owner
               n == task[r].names[1]
    <3>1. tags' = tags /\ (Taken(r, o, n) \/ InTheWay(r, o, n) = {})
      BY <2>4 DEF BulkInsertRow
    <3>2. CASE Taken(r, o, n)
      BY <2>1, <2>4, <3>1, <3>2 DEF BulkInsertRow
    <3>3. CASE ~Taken(r, o, n)
      <4>1. \A s \in Requests : s # r => open'[s] = open[s]
        BY <2>4, <3>3 DEF BulkInsertRow, TypeOK
      <4>2. PICK row : row = Row(r, o, n) /\ open'[r] = open[r] \cup {row}
        BY <2>4, <3>3 DEF BulkInsertRow, TypeOK
      <4>3. /\ \A x \in tags : Key(x) # Key(row)
            /\ \A s \in Requests : \A x \in open[s] : Key(x) # Key(row)
        BY <2>2, <3>1, <3>3, <4>2
      <4>4. \A s \in Requests : \A x \in open'[s] : x \in open[s] \/ (s = r /\ x = row)
        BY <4>1, <4>2
      <4>5. tags' = tags
        BY <3>1
      <4>6. \A s \in Requests : \A x \in open'[s], y \in tags : Key(x) # Key(y)
        BY <4>3, <4>4 DEF UniqueRows
      <4>7. \A s, t \in Requests : \A x \in open'[s], y \in open'[t] :
               Key(x) = Key(y) => s = t /\ x = y
        BY <4>3, <4>4 DEF UniqueRows
      <4> QED BY <4>5, <4>6, <4>7 DEF UniqueRows
    <3> QED BY <3>2, <3>3
  <2>5. ASSUME NEW r \in Requests, BulkCommit(r)
        PROVE  UniqueRows'
    <3>1. /\ tags' = tags \cup open[r]
          /\ \A s \in Requests : open'[s] = IF s = r THEN {} ELSE open[s]
      BY <2>5 DEF BulkCommit, TypeOK
    <3> QED BY <3>1 DEF UniqueRows
  <2>6. ASSUME NEW r \in Requests, StepOf(r),
               ~CreateInsert(r), ~BulkInsertRow(r), ~BulkCommit(r)
        PROVE  UniqueRows'
    <3>1. /\ tags' = tags
          /\ open' = open \/ open' = [open EXCEPT ![r] = {}]
      BY <2>6 DEF StepOf, Serve, RegisterLookup, RegisterInsert, RegisterRefresh, CreateLookup,
                  BulkBegin, BulkList, Fail, EndDeadlock
    <3>2. \A s \in Requests : open'[s] \subseteq open[s]
      BY <3>1 DEF TypeOK
    <3> QED BY <2>1, <3>1, <3>2
  <2>7. CASE UNCHANGED vars
    BY <2>1, <2>7 DEF vars
  <2> QED BY <2>3, <2>4, <2>5, <2>6, <2>7 DEF Next, StepOf
<1> QED BY <1>1, <1>2, TypeCorrect, PTL DEF Spec

-----------------------------------------------------------------------------
(* Who waits for whom.                                                     *)

\* A nonempty set of naturals has a least element.
LEMMA LeastElement ==
    ASSUME NEW S \in SUBSET Nat, S # {}
    PROVE  \E n \in S : \A m \in S : n <= m
<1> DEFINE R == OpToRel(<, Nat)
<1>1. IsWellFoundedOn(R, Nat)
  BY NatLessThanWellFounded
<1>2. \A x, y \in Nat : <<x, y>> \in R <=> x < y
  BY DEF OpToRel
<1> HIDE DEF R
<1>3. PICK n \in S : \A m \in S : ~(<<m, n>> \in R)
  BY <1>1, WFMin
<1>4. ASSUME NEW m \in S
      PROVE  n <= m
  <2>1. m \in Nat /\ n \in Nat
    OBVIOUS
  <2>2. ~(m < n)
    BY <1>2, <1>3, <2>1
  <2> QED BY <2>1, <2>2
<1> QED BY <1>4

\* Where everybody waits for somebody, some wait in a circle.
LEMMA CircleExists ==
    ASSUME NEW B, IsFiniteSet(B), B # {},
           NEW W, \A s \in B : W[s] # {} /\ W[s] \subseteq B
    PROVE  \E D \in SUBSET B :
              /\ D # {}
              /\ \A s \in D : W[s] \cap D # {} /\ \E t \in D : s \in W[t]
<1> DEFINE Closed(D) == D # {} /\ \A s \in D : W[s] \cap D # {}
           Sizes == {Cardinality(D) : D \in {C \in SUBSET B : Closed(C)}}
<1>1. \A D \in SUBSET B : IsFiniteSet(D) /\ Cardinality(D) \in Nat
  BY FS_Subset, FS_CardinalityType
<1>2. Closed(B)
  OBVIOUS
<1>3. Sizes \in SUBSET Nat /\ Sizes # {}
  BY <1>1, <1>2
<1>4. PICK n \in Sizes : \A m \in Sizes : n <= m
  BY <1>3, LeastElement
<1>5. PICK D \in SUBSET B : Closed(D) /\ Cardinality(D) = n
  OBVIOUS
<1>6. ASSUME NEW s \in D, \A t \in D : s \notin W[t]
      PROVE  FALSE
  <2>1. Closed(D \ {s})
    BY <1>5, <1>6
  <2>2. Cardinality(D \ {s}) = n - 1 /\ n \in Nat
    BY <1>1, <1>3, <1>5, FS_RemoveElement
  <2>3. n - 1 \in Sizes
    BY <2>1, <2>2
  <2> QED BY <1>4, <2>2, <2>3
<1> QED BY <1>5, <1>6

Waiting(r) == WaitsFor(r) # {}

\* Whoever waits is waited for by nobody for good: some transaction with rows
\* can go on, or there is a circle, which the detector of PostgreSQL ends.
WaitsAreForSomebody ==
    (\E r \in Requests : Waiting(r)) =>
        \/ \E s \in Requests : task[s].pc = "bulk" /\ open[s] # {} /\ ~Waiting(s)
        \/ \E r \in Requests : \E D \in SUBSET Requests :
              r \in D /\ \A s \in D : WaitsFor(s) \cap D # {} /\ \E t \in D : s \in WaitsFor(t)

\* No upsert waits for a transaction that nobody goes on with, for any finite
\* number of requests: what a rollback, an answer or a commit ends holds no rows
\* any more (bulk_upsert_tags, create_tag).
THEOREM NobodyWaitsInVain ==
    ASSUME IsFiniteSet(Requests)
    PROVE  Spec => []WaitsAreForSomebody
<1>1. ASSUME TypeOK
      PROVE  WaitsAreForSomebody
  <2> SUFFICES ASSUME NEW r \in Requests, Waiting(r),
                      \A s \in Requests : task[s].pc = "bulk" /\ open[s] # {} => Waiting(s)
               PROVE  \E q \in Requests : \E D \in SUBSET Requests :
                        q \in D /\ \A s \in D : WaitsFor(s) \cap D # {} /\ \E t \in D : s \in WaitsFor(t)
    BY DEF WaitsAreForSomebody
  <2> DEFINE B == {s \in Requests : Waiting(s)}
             W == [s \in B |-> WaitsFor(s)]
  <2>1. \A s \in Requests : WaitsFor(s) \subseteq {t \in Requests : open[t] # {}}
    BY DEF WaitsFor, InTheWay
  <2>2. \A s \in Requests : WaitsFor(s) \subseteq B
    <3>1. \A t \in Requests : open[t] # {} => task[t].pc = "bulk"
      BY <1>1 DEF TypeOK
    <3>2. \A t \in Requests : open[t] # {} => Waiting(t)
      BY <3>1
    <3> QED BY <2>1, <3>2
  <2>3. IsFiniteSet(B) /\ B # {}
    BY FS_Subset
  <2>4. \A s \in B : W[s] = WaitsFor(s) /\ W[s] # {} /\ W[s] \subseteq B
    BY <2>2 DEF Waiting
  <2> HIDE DEF B, W
  <2>5. \E D \in SUBSET B :
            D # {} /\ \A s \in D : W[s] \cap D # {} /\ \E t \in D : s \in W[t]
    <3>1. \A s \in B : W[s] # {} /\ W[s] \subseteq B
      BY <2>4
    <3> QED BY ONLY <2>3, <3>1, CircleExists, Zenon
  <2>6. PICK D \in SUBSET B :
            D # {} /\ \A s \in D : W[s] \cap D # {} /\ \E t \in D : s \in W[t]
    BY <2>5
  <2>7. \A s \in D : WaitsFor(s) \cap D # {} /\ \E t \in D : s \in WaitsFor(t)
    BY <2>4, <2>6
  <2>8. D \in SUBSET Requests /\ \E q \in Requests : q \in D
    BY <2>6 DEF B
  <2> QED BY <2>7, <2>8
<1>2. TypeOK => WaitsAreForSomebody
  BY <1>1
<1> QED BY <1>2, TypeCorrect, PTL

-----------------------------------------------------------------------------
(* What is left to do.                                                     *)

\* How many steps a request has left, at most.
StepsLeft(r) ==
    CASE task[r].pc \in {"register", "list"} -> 2
      [] task[r].pc \in {"registered", "create"} -> 1
      [] task[r].pc = "bulk" -> Len(task[r].names) + 3
      [] task[r].pc \in {"free", "answered", "welcome", "listed"} -> 0

\* A step of a request brings its end nearer, and no other request puts it off.
StepsCount ==
    [][\A r \in Requests :
          /\ (Serve(r) \/ Fail(r)) => StepsLeft(r)' < StepsLeft(r)
          /\ task[r] # Free => StepsLeft(r)' <= StepsLeft(r)]_vars

\* No step of a request can be repeated without end: a registration is over
\* after two more, an upsert of n names after n + 3, and nobody's step puts off
\* the end of another (register, create_tag, bulk_upsert_tags).
THEOREM EveryStepCounts == Spec => StepsCount
<1>1. TypeOK /\ TypeOK' /\ [Next]_vars
      => [\A r \in Requests :
            /\ (Serve(r) \/ Fail(r)) => StepsLeft(r)' < StepsLeft(r)
            /\ task[r] # Free => StepsLeft(r)' <= StepsLeft(r)]_vars
  <2> SUFFICES ASSUME TypeOK, TypeOK', Next, NEW r \in Requests
               PROVE  /\ (Serve(r) \/ Fail(r)) => StepsLeft(r)' < StepsLeft(r)
                      /\ task[r] # Free => StepsLeft(r)' <= StepsLeft(r)
    OBVIOUS
  <2>1. /\ task[r].pc = "bulk" => task[r].names \in Seq(Names) /\ Len(task[r].names) \in Nat
        /\ task'[r].pc = "bulk" => task'[r].names \in Seq(Names) /\ Len(task'[r].names) \in Nat
    BY Fields DEF TypeOK
  <2>2. /\ StepsLeft(r) \in Nat /\ StepsLeft(r)' \in Nat
        /\ task[r].pc = "bulk" => StepsLeft(r) = Len(task[r].names) + 3
        /\ task[r].pc \in {"register", "list"} => StepsLeft(r) = 2
        /\ task[r].pc \in {"registered", "create"} => StepsLeft(r) = 1
    <3>1. task[r] \in Task /\ task'[r] \in Task
      BY DEF TypeOK
    <3> QED BY <2>1, <3>1 DEF StepsLeft, Task
  <2>3. ASSUME Fail(r) \/ EndDeadlock(r)
        PROVE  StepsLeft(r)' < StepsLeft(r)
    <3>1. task'[r].pc = "answered"
      BY <2>3 DEF Fail, EndDeadlock, Goes, Answered, TypeOK
    <3>2. StepsLeft(r)' = 0
      BY <3>1 DEF StepsLeft
    <3>3. task[r].pc \in {"register", "registered", "create", "bulk", "list"}
      <4>1. CASE EndDeadlock(r)
        <5>1. WaitsFor(r) # {}
          BY <4>1 DEF EndDeadlock
        <5> QED BY <5>1 DEF WaitsFor, Inserting
      <4> QED BY <2>3, <4>1 DEF Fail
    <3> QED BY <2>1, <2>2, <3>2, <3>3
  <2>4. ASSUME Serve(r), ~EndDeadlock(r)
        PROVE  StepsLeft(r)' < StepsLeft(r)
    <3>1. CASE RegisterInsert(r)
      <4>1. task[r].pc = "register" /\ task'[r].pc \in {"answered", "registered"}
        BY <3>1, Fields DEF RegisterInsert, Goes, Answered, TypeOK
      <4>2. StepsLeft(r)' \in {0, 1}
        BY <4>1 DEF StepsLeft
      <4> QED BY <2>2, <4>1, <4>2
    <3>2. CASE RegisterRefresh(r) \/ CreateInsert(r)
      <4>1. task[r].pc \in {"registered", "create"} /\ task'[r].pc \in {"answered", "welcome"}
        BY <3>2 DEF RegisterRefresh, CreateInsert, Goes, Answered, TypeOK
      <4>2. StepsLeft(r)' = 0
        BY <4>1 DEF StepsLeft
      <4> QED BY <2>2, <4>1, <4>2
    <3>3. CASE BulkInsertRow(r)
      <4>1. /\ task[r].pc = "bulk" /\ task[r].names # <<>>
            /\ task' = [task EXCEPT ![r] = [task[r] EXCEPT !.names = Tail(@)]]
        BY <3>3 DEF BulkInsertRow, Goes
      <4>2. task'[r].pc = "bulk" /\ task'[r].names = Tail(task[r].names)
        BY <4>1, Fields DEF TypeOK
      <4>3. Len(Tail(task[r].names)) = Len(task[r].names) - 1
        BY <2>1, <4>1
      <4>4. StepsLeft(r)' = Len(task'[r].names) + 3
        BY <4>2 DEF StepsLeft
      <4> QED BY <2>1, <2>2, <4>1, <4>2, <4>3, <4>4
    <3>4. CASE BulkCommit(r)
      <4>1. task[r].pc = "bulk" /\ task'[r].pc = "list"
        BY <3>4, Fields DEF BulkCommit, Goes, TypeOK
      <4>2. StepsLeft(r)' = 2
        BY <4>1 DEF StepsLeft
      <4> QED BY <2>1, <2>2, <4>1, <4>2
    <3>5. CASE BulkList(r)
      <4>1. task[r].pc = "list" /\ task'[r].pc = "listed"
        BY <3>5 DEF BulkList, Goes, TypeOK
      <4>2. StepsLeft(r)' = 0
        BY <4>1 DEF StepsLeft
      <4> QED BY <2>2, <4>1, <4>2
    <3> QED BY <2>4, <3>1, <3>2, <3>3, <3>4, <3>5 DEF Serve
  <2>5. ASSUME task[r] # Free
        PROVE  StepsLeft(r)' <= StepsLeft(r)
    <3>1. CASE task'[r] = task[r]
      <4>1. StepsLeft(r)' = StepsLeft(r)
        BY <3>1 DEF StepsLeft
      <4> QED BY <2>2, <4>1
    <3>2. CASE StepOf(r)
      <4>1. Serve(r) \/ Fail(r)
        BY <2>5, <3>2 DEF StepOf, RegisterLookup, CreateLookup, BulkBegin
      <4> QED BY <2>2, <2>3, <2>4, <4>1
    <3>3. PICK q \in Requests : StepOf(q)
      BY DEF Next, StepOf
    <3> QED BY <3>1, <3>2, <3>3, OthersStay
  <2> QED BY <2>3, <2>4, <2>5
<1> QED BY <1>1, TypeCorrect, PTL DEF Spec, StepsCount

-----------------------------------------------------------------------------
(* Migrations: what a statement does to a database.                        *)

\* A database is a record of its catalog and of what decides over its rows.
IsDatabase(d) == d = [catalog |-> d.catalog, populated |-> d.populated, nulls |-> d.nulls]

\* A column is NULL in a row only where there are rows.
NullsHaveRows(d) == \A n \in d.nulls : n[1] \in d.populated

\* Types and labels are those of db_models.py.
EnumsKnown(d) == \A f \in d.catalog : IsEnum(f) => f \in metadata

LEMMA ApplyIsDatabase ==
    ASSUME NEW d, IsDatabase(d), NEW o \in Ups \cup Downs
    PROVE  IsDatabase(Apply(d, o))
  BY KnownStatements DEF Apply, Renamed, IsDatabase, Grows

\* A statement does the same to two catalogs that differ in types and labels.
LEMMA ApplyKeepsLikeness ==
    ASSUME NEW d, IsDatabase(d), NEW e, IsDatabase(e), NEW o \in Ups \cup Downs,
           IsButForEnums(d.catalog, e.catalog)
    PROVE  IsButForEnums(Apply(d, o).catalog, Apply(e, o).catalog)
<1>1. CASE o.op \in Grows
  BY <1>1 DEF Apply, IsDatabase, IsButForEnums, Grows
<1>2. CASE o.op = "forget"
  BY <1>2 DEF Apply, IsDatabase, IsButForEnums
<1>3. CASE o.op = "drop_column"
  BY <1>3 DEF Apply, IsDatabase, IsButForEnums, OfColumn, OfTable
<1>4. CASE o.op = "drop_table"
  BY <1>4 DEF Apply, IsDatabase, IsButForEnums, OfTable
<1>5. CASE o.op = "rename_table"
  BY <1>5 DEF Apply, Renamed, IsDatabase, IsButForEnums
<1> QED BY <1>1, <1>2, <1>3, <1>4, <1>5, KnownStatements

\* No statement leaves a NULL in a table without rows.
LEMMA ApplyKeepsNulls ==
    ASSUME NEW d, IsDatabase(d), NullsHaveRows(d), NEW o \in Ups \cup Downs
    PROVE  NullsHaveRows(Apply(d, o))
<1>1. CASE o.op \in Grows \ {"add_column"} \/ o.op \in {"forget", "drop_column"}
  BY <1>1 DEF Apply, IsDatabase, NullsHaveRows, Grows
<1>2. CASE o.op = "add_column"
  <2>1. /\ Apply(d, o).populated = d.populated
        /\ Apply(d, o).nulls = IF o.table \in d.populated /\ ~o.default
                              THEN d.nulls \cup {<<o.table, o.column>>} ELSE d.nulls
    BY <1>2 DEF Apply, IsDatabase
  <2>2. <<o.table, o.column>>[1] = o.table
    OBVIOUS
  <2> QED BY <2>1, <2>2 DEF NullsHaveRows
<1>3. CASE o.op = "drop_table"
  BY <1>3 DEF Apply, IsDatabase, NullsHaveRows
<1>4. CASE o.op = "rename_table"
  <2> DEFINE name(x) == IF x = o.table THEN o.to ELSE x
  <2>1. /\ Apply(d, o).populated = {name(x) : x \in d.populated}
        /\ Apply(d, o).nulls = {<<name(n[1]), n[2]>> : n \in d.nulls}
    BY <1>4 DEF Apply, Renamed, IsDatabase
  <2>2. \A n : <<name(n[1]), n[2]>>[1] = name(n[1])
    OBVIOUS
  <2> QED BY <2>1, <2>2 DEF NullsHaveRows
<1> QED BY <1>1, <1>2, <1>3, <1>4, KnownStatements

\* No statement makes a type or a label that db_models.py does not name.
LEMMA ApplyKeepsEnums ==
    ASSUME NEW d, IsDatabase(d), EnumsKnown(d), NEW o \in Ups \cup Downs
    PROVE  EnumsKnown(Apply(d, o))
<1>1. CASE o.op \in Grows
  BY <1>1, KnownStatements DEF Apply, IsDatabase, EnumsKnown, Grows
<1>2. CASE o.op \in {"forget", "drop_column", "drop_table"}
  BY <1>2 DEF Apply, IsDatabase, EnumsKnown
<1>3. CASE o.op = "rename_table"
  <2> DEFINE name(x) == IF x = o.table THEN o.to ELSE x
             image(f) == <<f[1], name(f[2]), IF f[1] = "references" THEN name(f[3]) ELSE f[3]>>
  <2>1. Apply(d, o).catalog = {IF IsEnum(f) THEN f ELSE image(f) : f \in d.catalog}
    BY <1>3 DEF Apply, Renamed, IsDatabase
  <2>2. \A f : image(f)[1] = f[1]
    OBVIOUS
  <2>3. \A f : IsEnum(image(f)) => IsEnum(f)
    BY <2>2 DEF IsEnum
  <2> QED BY <2>1, <2>3 DEF EnumsKnown
<1> QED BY <1>1, <1>2, <1>3, KnownStatements

-----------------------------------------------------------------------------
(* Where the migrations are.                                               *)

\* The open transaction is somewhere between 0 and the head, at a statement
\* of the revision that it works on.
InRange ==
    /\ revision \in 0 .. Latest
    /\ migration # NoMigration =>
        /\ migration = [target |-> migration.target, revision |-> migration.revision,
                        done |-> migration.done, database |-> migration.database]
        /\ migration.target \in 0 .. Latest
        /\ migration.revision \in 0 .. Latest
        /\ migration.done \in Nat
        /\ Underway => migration.done \in 0 .. Len(Statements)
        /\ migration.target > revision
              => revision <= migration.revision /\ migration.revision <= migration.target

\* A database is where its revision says, whatever its rows are.
At(d, expected) ==
    /\ IsDatabase(d)
    /\ NullsHaveRows(d)
    /\ EnumsKnown(d)
    /\ IsButForEnums(d.catalog, expected)

MigrationsInv ==
    /\ InRange
    /\ At(database, Straight[revision + 1].catalog)
    /\ migration # NoMigration => At(migration.database, Expected.catalog)

LEMMA AtApply ==
    ASSUME NEW d, NEW e, IsDatabase(e), At(d, e.catalog), NEW o \in Ups \cup Downs
    PROVE  At(Apply(d, o), Apply(e, o).catalog)
  BY ApplyIsDatabase, ApplyKeepsLikeness, ApplyKeepsNulls, ApplyKeepsEnums DEF At

\* The statement that is next, and where it leads on the straight path.
LEMMA NextStatement ==
    ASSUME InRange, HasStatement
    PROVE  /\ Statement \in Ups \cup Downs
           /\ migration.done + 1 \in 1 .. Len(Statements)
           /\ IsBare(Expected)
           /\ Possible(Expected, Statement)
           /\ Upgrading =>
                /\ migration.revision \in 0 .. Latest - 1
                /\ Statement \in Elements(Chain[migration.revision + 1].up)
                /\ Apply(Expected, Statement) = Upgrade(migration.revision)[migration.done + 2]
           /\ ~Upgrading =>
                /\ migration.revision \in 1 .. Latest
                /\ Apply(Expected, Statement) = Downgrade(migration.revision)[migration.done + 2]
<1> DEFINE k == migration.revision
           i == migration.done + 1
<1>1. /\ migration # NoMigration /\ k # migration.target
      /\ migration.target \in 0 .. Latest /\ k \in 0 .. Latest /\ Latest \in Nat
      /\ migration.done \in 0 .. Len(Statements) /\ migration.done # Len(Statements)
  BY Lengths DEF InRange, HasStatement, Underway
<1>2. CASE Upgrading
  <2>1. k \in 0 .. Latest - 1 /\ k + 1 \in 1 .. Latest
    BY <1>1, <1>2 DEF Upgrading
  <2>2. Statements = Chain[k + 1].up /\ Len(Chain[k + 1].up) \in Nat
    BY <1>2, <2>1, Lengths DEF Statements
  <2>3. i \in 1 .. Len(Chain[k + 1].up)
    BY <1>1, <2>2
  <2>4. Expected = Upgrade(k)[i] /\ Statement = Chain[k + 1].up[i]
    BY <1>2, <2>2 DEF Expected, HasStatement, Statement
  <2>5. /\ Leads(Upgrade(k), Chain[k + 1].up, Straight[k + 1])
        /\ IsBare(Upgrade(k)[i])
    BY <2>1, <2>2, <2>3, UpgradesLead
  <2>6. Possible(Expected, Statement) /\ Upgrade(k)[i + 1] = Apply(Expected, Statement)
    BY <2>3, <2>4, <2>5 DEF Leads
  <2>7. Statement \in Elements(Chain[k + 1].up) /\ Statement \in Ups
    BY <2>1, <2>3, <2>4 DEF Elements, Ups
  <2> QED BY <1>1, <1>2, <2>1, <2>2, <2>3, <2>4, <2>5, <2>6, <2>7
<1>3. CASE ~Upgrading
  <2>1. k \in 1 .. Latest
    BY <1>1, <1>3 DEF Upgrading
  <2>2. Statements = Chain[k].down /\ Len(Chain[k].down) \in Nat
    BY <1>3, <2>1, Lengths DEF Statements
  <2>3. i \in 1 .. Len(Chain[k].down)
    BY <1>1, <2>2
  <2>4. Expected = Downgrade(k)[i] /\ Statement = Chain[k].down[i]
    BY <1>3, <2>2 DEF Expected, HasStatement, Statement
  <2>5. /\ Leads(Downgrade(k), Chain[k].down, Straight[k + 1])
        /\ IsBare(Downgrade(k)[i])
    BY <2>1, <2>2, <2>3, DowngradesLead
  <2>6. Possible(Expected, Statement) /\ Downgrade(k)[i + 1] = Apply(Expected, Statement)
    BY <2>3, <2>4, <2>5 DEF Leads
  <2>7. Statement \in Downs
    BY <2>1, <2>3, <2>4 DEF Elements, Downs
  <2> QED BY <1>1, <1>3, <2>1, <2>2, <2>3, <2>4, <2>5, <2>6, <2>7
<1> QED BY <1>2, <1>3

\* At its last statement a revision has led to the next, or the one before.
LEMMA RevisionDone ==
    ASSUME InRange, Underway, migration.done = Len(Statements)
    PROVE  /\ Upgrading =>
                /\ migration.revision \in 0 .. Latest - 1
                /\ Expected = Straight[migration.revision + 2]
           /\ ~Upgrading =>
                /\ migration.revision \in 1 .. Latest
                /\ Straight[migration.revision].catalog \subseteq Expected.catalog
                /\ \A f \in Expected.catalog \ Straight[migration.revision].catalog : IsEnum(f)
<1> DEFINE k == migration.revision
<1>1. /\ migration # NoMigration /\ k # migration.target
      /\ migration.target \in 0 .. Latest /\ k \in 0 .. Latest /\ Latest \in Nat
  BY Lengths DEF InRange, Underway
<1>2. CASE Upgrading
  <2>1. k \in 0 .. Latest - 1
    BY <1>1, <1>2 DEF Upgrading
  <2>2. Expected = Upgrade(k)[Len(Chain[k + 1].up) + 1]
    BY <1>2 DEF Expected, Statements
  <2> QED BY <1>2, <2>1, <2>2, UpgradesLead
<1>3. CASE ~Upgrading
  <2>1. k \in 1 .. Latest
    BY <1>1, <1>3 DEF Upgrading
  <2>2. Expected = Downgrade(k)[Len(Chain[k].down) + 1]
    BY <1>3 DEF Expected, Statements
  <2> QED BY <1>3, <2>1, <2>2, DowngradesLead
<1> QED BY <1>2, <1>3

\* Before the first statement of a revision the straight path is at it.
LEMMA Starts ==
    ASSUME NEW k \in 0 .. Latest
    PROVE  /\ k < Latest => Upgrade(k)[1] = Straight[k + 1]
           /\ k > 0 => Downgrade(k)[1] = Straight[k + 1]
  BY Lengths, UpgradesLead, DowngradesLead DEF Leads

\* Types and labels may be left twice.
LEMMA LikenessIsTransitive ==
    ASSUME NEW a, NEW b, NEW c, IsButForEnums(a, b), IsButForEnums(b, c)
    PROVE  IsButForEnums(a, c)
  BY DEF IsButForEnums

\* Where the database is, and the one that the open transaction works on.
LEMMA InvariantHolds == MigrationsSpec => []MigrationsInv
<1>1. MigrationsInit => MigrationsInv
  <2> SUFFICES ASSUME MigrationsInit PROVE MigrationsInv
    OBVIOUS
  <2>1. InRange
    BY Lengths DEF MigrationsInit, InRange
  <2>2. At(database, Straight[revision + 1].catalog)
    BY Ends DEF MigrationsInit, At, IsDatabase, NullsHaveRows, EnumsKnown, IsButForEnums, Empty
  <2> QED BY <2>1, <2>2 DEF MigrationsInit, MigrationsInv
<1>2. MigrationsInv /\ [MigrationsNext]_migrationVars => MigrationsInv'
  <2> SUFFICES ASSUME MigrationsInv, [MigrationsNext]_migrationVars
               PROVE  MigrationsInv'
    OBVIOUS
  <2>0. /\ InRange /\ Latest \in Nat
        /\ At(database, Straight[revision + 1].catalog)
        /\ migration # NoMigration => At(migration.database, Expected.catalog)
    BY Lengths DEF MigrationsInv
  <2>1. CASE UNCHANGED migrationVars
    BY <2>0, <2>1 DEF migrationVars, MigrationsInv, InRange, Underway, Upgrading, Statements, Expected
  <2>2. CASE migration' = NoMigration /\ UNCHANGED <<revision, database>>
    BY <2>0, <2>2 DEF MigrationsInv, InRange
  \* The transaction comes to a revision.
  <2>3. ASSUME NEW target \in 0 .. Latest, NEW k \in 0 .. Latest, NEW d,
               migration' = [target |-> target, revision |-> k, done |-> 0, database |-> d],
               UNCHANGED <<revision, database>>,
               At(d, Straight[k + 1].catalog),
               target > revision => revision <= k /\ k <= target
        PROVE  MigrationsInv'
    <3>1. /\ migration'.target = target /\ migration'.revision = k
          /\ migration'.done = 0 /\ migration'.database = d
      BY <2>3
    <3>2. Expected' = Straight[k + 1] /\ (Underway' => 0 \in 0 .. Len(Statements'))
      <4>1. CASE ~Underway'
        BY <3>1, <4>1 DEF Expected
      <4>2. CASE Underway' /\ k < target
        <5>1. Upgrading' /\ k + 1 \in 1 .. Latest
          BY <2>0, <3>1, <4>2 DEF Upgrading
        <5>2. Expected' = Upgrade(k)[1] /\ Statements' = Chain[k + 1].up
          BY <3>1, <4>2, <5>1 DEF Expected, Statements
        <5> QED BY <2>0, <4>2, <5>1, <5>2, Starts, Lengths
      <4>3. CASE Underway' /\ ~(k < target)
        <5>1. ~Upgrading' /\ k \in 1 .. Latest
          BY <2>0, <3>1, <4>3 DEF Upgrading, Underway
        <5>2. Expected' = Downgrade(k)[1] /\ Statements' = Chain[k].down
          BY <3>1, <4>3, <5>1 DEF Expected, Statements
        <5> QED BY <2>0, <4>3, <5>1, <5>2, Starts, Lengths
      <4> QED BY <4>1, <4>2, <4>3
    <3>3. InRange'
      BY <2>0, <2>3, <3>1, <3>2 DEF InRange
    <3>4. At(migration'.database, Expected'.catalog)
      BY <2>3, <3>1, <3>2
    <3> QED BY <2>0, <2>3, <3>3, <3>4 DEF MigrationsInv
  <2>4. ASSUME NEW target \in 0 .. Latest, Begin(target)
        PROVE  MigrationsInv'
    BY <2>0, <2>3, <2>4 DEF Begin, InRange
  <2>5. CASE Execute
    <3>1. /\ migration # NoMigration
          /\ migration' = [migration EXCEPT !.database = Apply(@, Statement), !.done = @ + 1]
          /\ UNCHANGED <<revision, database>>
      BY <2>5 DEF Execute, HasStatement, Underway
    <3>2. /\ migration'.target = migration.target /\ migration'.revision = migration.revision
          /\ migration'.done = migration.done + 1
          /\ migration'.database = Apply(migration.database, Statement)
          /\ migration' = [target |-> migration'.target, revision |-> migration'.revision,
                           done |-> migration'.done, database |-> migration'.database]
      BY <2>0, <3>1 DEF InRange
    <3>3. /\ HasStatement /\ Underway /\ Statement \in Ups \cup Downs
          /\ IsDatabase(Expected)
          /\ migration.done + 1 \in 0 .. Len(Statements)
      BY <2>0, <2>5, NextStatement DEF Execute, HasStatement, IsBare, IsDatabase
    <3>4. Underway' => Expected' = Apply(Expected, Statement) /\ Statements' = Statements
      <4>1. Upgrading' = Upgrading /\ Statements' = Statements
        BY <3>2 DEF Upgrading, Statements
      <4>2. migration'.done + 1 = migration.done + 2
        BY <2>0, <3>1, <3>2 DEF InRange
      <4>3. Underway' => Expected' = IF Upgrading THEN Upgrade(migration.revision)[migration.done + 2]
                                     ELSE Downgrade(migration.revision)[migration.done + 2]
        BY <3>2, <4>1, <4>2 DEF Expected
      <4> QED BY <2>0, <3>3, <4>1, <4>3, NextStatement
    <3>5. migration' # NoMigration => Underway'
      BY <3>2, <3>3 DEF Underway
    <3>6. InRange'
      BY <2>0, <3>1, <3>2, <3>3, <3>4 DEF InRange
    <3>7. At(migration'.database, Apply(Expected, Statement).catalog)
      BY <2>0, <3>1, <3>2, <3>3, AtApply
    <3> QED BY <2>0, <3>1, <3>4, <3>5, <3>6, <3>7 DEF MigrationsInv
  <2>6. CASE Stamp
    <3> DEFINE k == IF Upgrading THEN migration.revision + 1 ELSE migration.revision - 1
    <3>1. /\ Underway /\ migration # NoMigration /\ migration.done = Len(Statements)
          /\ migration.revision # migration.target
          /\ migration' = [migration EXCEPT !.revision = k, !.done = 0]
          /\ UNCHANGED <<revision, database>>
      BY <2>6 DEF Stamp, Underway
    <3>2. /\ migration' = [target |-> migration.target, revision |-> k, done |-> 0,
                           database |-> migration.database]
          /\ migration.target \in 0 .. Latest
      BY <2>0, <3>1 DEF InRange
    <3>3. /\ k \in 0 .. Latest
          /\ IsButForEnums(Expected.catalog, Straight[k + 1].catalog)
      BY <2>0, <3>1, RevisionDone DEF IsButForEnums
    <3>4. At(migration.database, Straight[k + 1].catalog)
      BY <2>0, <3>1, <3>3, LikenessIsTransitive DEF At
    <3>5. migration.target > revision => revision <= k /\ k <= migration.target
      BY <2>0, <3>1 DEF InRange, Upgrading
    <3> HIDE DEF k
    <3> QED BY <2>3, <3>1, <3>2, <3>3, <3>4, <3>5
  <2>7. CASE Commit
    <3>1. /\ migration # NoMigration /\ migration' = NoMigration
          /\ revision' = migration.revision /\ database' = migration.database
          /\ migration.revision = migration.target
      BY <2>7 DEF Commit
    <3>2. Expected = Straight[migration.revision + 1]
      BY <3>1 DEF Expected, Underway
    <3> QED BY <2>0, <3>1, <3>2 DEF MigrationsInv, InRange
  <2>8. ASSUME NEW t, NEW nulls, Insert(t, nulls)
        PROVE  MigrationsInv'
    <3>1. /\ database' = [database EXCEPT !.populated = @ \cup {t}, !.nulls = @ \cup nulls]
          /\ nulls \in {{}, Nullable(database, t)}
          /\ UNCHANGED <<revision, migration>> /\ migration = NoMigration
      BY <2>8 DEF Insert
    <3>2. /\ database'.catalog = database.catalog
          /\ database'.populated = database.populated \cup {t}
          /\ database'.nulls = database.nulls \cup nulls
          /\ IsDatabase(database')
      BY <2>0, <3>1 DEF At, IsDatabase
    <3>3. \A n \in nulls : n[1] = t
      BY <3>1 DEF Nullable
    <3>4. At(database', Straight[revision + 1].catalog)
      BY <2>0, <3>2, <3>3 DEF At, NullsHaveRows, EnumsKnown
    <3> QED BY <2>0, <3>1, <3>4 DEF MigrationsInv, InRange
  <2>9. CASE Raise \/ Crash
    BY <2>2, <2>9 DEF Raise, Crash
  <2> QED BY <2>1, <2>4, <2>5, <2>6, <2>7, <2>8, <2>9 DEF MigrationsNext
<1> QED BY <1>1, <1>2, PTL DEF MigrationsSpec

-----------------------------------------------------------------------------
(* What the migrations come to.                                            *)

\* The revision that alembic_version names fixes the catalog, on every path of
\* upgrades and downgrades, those that raise and those that are cut off among
\* them, and whatever rows the tables have.
THEOREM RevisionFixes == MigrationsSpec => []RevisionFixesCatalog
<1>1. MigrationsInv => RevisionFixesCatalog
  <2> SUFFICES ASSUME MigrationsInv PROVE RevisionFixesCatalog
    OBVIOUS
  <2>1. ASSUME migration # NoMigration, migration.done = 0
        PROVE  Expected = Straight[migration.revision + 1]
    <3>1. CASE ~Underway
      BY <3>1 DEF Expected
    <3>2. CASE Underway /\ Upgrading
      <4>1. migration.revision \in 0 .. Latest /\ migration.revision < Latest
        BY <2>1, <3>2, Lengths DEF MigrationsInv, InRange, Upgrading
      <4> QED BY <2>1, <3>2, <4>1, Starts DEF Expected
    <3>3. CASE Underway /\ ~Upgrading
      <4>1. migration.revision \in 0 .. Latest /\ migration.revision > 0
        BY <2>1, <3>3, Lengths DEF MigrationsInv, InRange, Upgrading, Underway
      <4> QED BY <2>1, <3>3, <4>1, Starts DEF Expected
    <3> QED BY <3>1, <3>2, <3>3
  <2> QED BY <2>1 DEF MigrationsInv, At, RevisionFixesCatalog
<1> QED BY <1>1, InvariantHolds, PTL

\* At the head the database is what the classes of db_models.py describe,
\* primary keys included: no column, constraint or label too few or too many,
\* however it came there, but for the id that InvoiceTag declares in its key.
THEOREM HeadServes == MigrationsSpec => []HeadServesModels
<1>1. DeclaredOnly \subseteq metadata /\ \A f \in DeclaredOnly : ~IsEnum(f)
  <2>1. PrimaryKey("invoice_tags", "id") \in InvoiceTag
    BY DEF InvoiceTag, ModelTable, Table
  <2>2. ~IsEnum(PrimaryKey("invoice_tags", "id"))
    BY DEF PrimaryKey, IsEnum
  <2> QED BY <2>1, <2>2 DEF DeclaredOnly, metadata
<1>2. ASSUME MigrationsInv, revision = Latest
      PROVE  /\ database.catalog \subseteq metadata
             /\ metadata \ database.catalog = DeclaredOnly
  <2>1. /\ metadata \ DeclaredOnly \subseteq database.catalog
        /\ \A f \in database.catalog \ (metadata \ DeclaredOnly) : IsEnum(f)
        /\ \A f \in database.catalog : IsEnum(f) => f \in metadata
    BY <1>2, Ends DEF MigrationsInv, At, EnumsKnown, IsButForEnums
  <2> QED BY <1>1, <2>1
<1>3. MigrationsInv => HeadServesModels
  BY <1>2 DEF HeadServesModels
<1> QED BY <1>3, InvariantHolds, PTL

\* A statement raises only over rows, or over a type that a downgrade left.
THEOREM RaisesOverLeftovers == MigrationsSpec => []RaisesOnlyOverLeftovers
<1>1. MigrationsInv => RaisesOnlyOverLeftovers
  <2> SUFFICES ASSUME MigrationsInv, HasStatement,
                      migration.database.populated = {},
                      migration.database.catalog = Expected.catalog
               PROVE  Possible(migration.database, Statement)
    BY DEF RaisesOnlyOverLeftovers
  <2>1. InRange /\ At(migration.database, Expected.catalog)
    BY DEF MigrationsInv, HasStatement, Underway
  <2>2. migration.database.nulls = {}
    BY <2>1 DEF At, NullsHaveRows
  <2>3. IsBare(Expected) /\ Possible(Expected, Statement)
    BY <2>1, NextStatement
  <2>4. migration.database = Expected
    BY <2>1, <2>2, <2>3 DEF IsBare, At, IsDatabase
  <2> QED BY <2>3, <2>4
<1> QED BY <1>1, InvariantHolds, PTL

-----------------------------------------------------------------------------
(* What an upgrade keeps.                                                  *)

\* The upgrade that is under way has kept what it found.
KeptSoFar ==
    migration # NoMigration /\ migration.target > revision
    => Keeps(database, migration.database)

\* A statement of an upgrade keeps rows and columns.
LEMMA ApplyKeeps ==
    ASSUME NEW k \in 1 .. Latest, NEW j \in 1 .. k, NEW o \in Elements(Chain[k].up),
           NEW before, IsButForEnums(before.catalog, Straight[j].catalog),
           NEW d, IsDatabase(d), Keeps(before, d)
    PROVE  Keeps(before, Apply(d, o))
<1>1. o \in Ups /\ Latest \in Nat /\ j \in 1 .. Latest + 1
  BY Lengths DEF Ups
<1>2. \A f \in before.catalog : f[1] = "column" =>
         f \in Straight[j].catalog /\ f = Column(f[2], f[3])
  <2>1. \A f \in before.catalog : f[1] = "column" => f \in Straight[j].catalog
    BY DEF IsButForEnums, IsEnum
  <2> QED BY <1>1, <2>1, Triples DEF Column
<1>3. CASE o.op \in Grows
  BY <1>3 DEF Apply, IsDatabase, Keeps, Grows
<1>4. CASE o.op = "forget"
  <2>1. Apply(d, o).populated = d.populated /\ Apply(d, o).catalog = d.catalog \ o.facts
    BY <1>4 DEF Apply, IsDatabase
  <2>2. \A f \in o.facts : f[1] # "column"
    BY <1>1, <1>4, UpgradesDropLittle
  <2>3. \A t, c : Column(t, c)[1] = "column"
    BY DEF Column
  <2> QED BY <2>1, <2>2, <2>3 DEF Keeps
<1>5. CASE o.op = "drop_column"
  <2>1. /\ Apply(d, o).populated = d.populated
        /\ Apply(d, o).catalog = d.catalog \ OfColumn(d.catalog, o.table, o.column)
    BY <1>5 DEF Apply, IsDatabase
  <2>2. o.column \in {"adress", "office"}
    BY <1>1, <1>5, UpgradesDropLittle
  <2>3. \A t, c : Column(t, c)[3] = c
    BY DEF Column
  <2>4. \A f \in d.catalog \ Apply(d, o).catalog : f[3] = o.column
    BY <2>1 DEF OfColumn, OfTable
  <2> QED BY <2>1, <2>2, <2>3, <2>4 DEF Keeps
<1>6. CASE o.op = "rename_table"
  <2> DEFINE name(x) == IF x = o.table THEN o.to ELSE x
  <2>1. /\ Apply(d, o).populated = {name(x) : x \in d.populated}
        /\ Apply(d, o).catalog = {IF IsEnum(f) THEN f
                                  ELSE <<f[1], name(f[2]), IF f[1] = "references" THEN name(f[3]) ELSE f[3]>>
                                     : f \in d.catalog}
    BY <1>6 DEF Apply, Renamed, IsDatabase
  <2>2. \A t, c : Column(t, c) \in d.catalog => Column(name(t), c) \in Apply(d, o).catalog
    <3> SUFFICES ASSUME NEW t, NEW c, Column(t, c) \in d.catalog
                 PROVE  Column(name(t), c) \in Apply(d, o).catalog
      OBVIOUS
    <3>1. /\ Column(t, c)[1] = "column" /\ Column(t, c)[2] = t /\ Column(t, c)[3] = c
          /\ ~IsEnum(Column(t, c))
      BY DEF Column, IsEnum
    <3>2. Column(name(t), c) = <<"column", name(t), c>>
      BY DEF Column
    <3> QED BY <2>1, <3>1, <3>2
  <2>3. o.to \notin Tables(before)
    <3>1. o.to \notin Tables(Straight[j])
      BY <1>6, NamesAreNew
    <3>2. Tables(before) \subseteq Tables(Straight[j])
      BY <1>2 DEF Tables
    <3> QED BY <3>1, <3>2
  <2>4. \A x \in d.populated : name(x) \in Apply(d, o).populated
    BY <2>1
  <2> SUFFICES ASSUME NEW f \in before.catalog, f[1] = "column", f[2] \in before.populated,
                      f[3] \notin {"adress", "office"}
               PROVE  \/ f \in Apply(d, o).catalog /\ f[2] \in Apply(d, o).populated
                      \/ \E t \in Apply(d, o).populated \ Tables(before) :
                            Column(t, f[3]) \in Apply(d, o).catalog
    BY DEF Keeps
  <2>5. f = Column(f[2], f[3])
    BY <1>2
  <2>6. CASE f \in d.catalog /\ f[2] \in d.populated
    <3>1. Column(name(f[2]), f[3]) \in Apply(d, o).catalog /\ name(f[2]) \in Apply(d, o).populated
      BY <2>2, <2>4, <2>5, <2>6
    <3> QED BY <2>3, <2>5, <3>1
  <2>7. ASSUME NEW t \in d.populated \ Tables(before), Column(t, f[3]) \in d.catalog
        PROVE  \E s \in Apply(d, o).populated \ Tables(before) :
                  Column(s, f[3]) \in Apply(d, o).catalog
    <3>1. /\ Column(name(t), f[3]) \in Apply(d, o).catalog
          /\ name(t) \in Apply(d, o).populated
          /\ name(t) \notin Tables(before)
      BY <2>2, <2>3, <2>4, <2>7
    <3> HIDE DEF name
    <3> QED BY <3>1
  <2> HIDE DEF name
  <2> QED BY <2>6, <2>7 DEF Keeps
<1> QED BY <1>1, <1>3, <1>4, <1>5, <1>6, KnownStatements, UpgradesDropLittle

\* An upgrade that is committed has kept every table with rows and every column
\* of one, under its name or a new one, but for the two that were replaced.
THEOREM UpgradesKeep == MigrationsSpec => UpgradesKeepColumns
<1>1. MigrationsInit => KeptSoFar
  BY DEF MigrationsInit, KeptSoFar
<1>2. MigrationsInv /\ KeptSoFar /\ [MigrationsNext]_migrationVars => KeptSoFar'
  <2> SUFFICES ASSUME MigrationsInv, KeptSoFar, [MigrationsNext]_migrationVars,
                      migration' # NoMigration, migration'.target > revision'
               PROVE  Keeps(database', migration'.database)
    BY DEF KeptSoFar
  <2>1. CASE UNCHANGED migrationVars
    BY <2>1 DEF migrationVars, KeptSoFar
  <2>2. ASSUME NEW target \in 0 .. Latest, Begin(target)
        PROVE  Keeps(database', migration'.database)
    BY <2>2 DEF Begin, Keeps
  <2>3. CASE Execute
    <3>1. /\ HasStatement /\ migration # NoMigration /\ InRange
          /\ migration' = [migration EXCEPT !.database = Apply(@, Statement), !.done = @ + 1]
          /\ UNCHANGED <<revision, database>>
      BY <2>3 DEF Execute, HasStatement, Underway, MigrationsInv
    <3>2. /\ migration'.target = migration.target
          /\ migration'.database = Apply(migration.database, Statement)
      BY <3>1 DEF InRange
    <3>3. /\ migration.target > revision /\ Keeps(database, migration.database)
          /\ revision <= migration.revision /\ migration.revision <= migration.target
          /\ migration.revision # migration.target
          /\ revision \in 0 .. Latest /\ migration.target \in 0 .. Latest
          /\ migration.revision \in 0 .. Latest /\ Latest \in Nat
      BY <3>1, <3>2, Lengths DEF KeptSoFar, InRange, HasStatement, Underway
    <3>4. Upgrading /\ migration.revision + 1 \in 1 .. Latest
          /\ revision + 1 \in 1 .. migration.revision + 1
      BY <3>3 DEF Upgrading
    <3>5. Statement \in Elements(Chain[migration.revision + 1].up)
      BY <3>1, <3>4, NextStatement
    <3>6. /\ IsButForEnums(database.catalog, Straight[revision + 1].catalog)
          /\ IsDatabase(migration.database)
      BY <3>1 DEF MigrationsInv, At
    <3> QED BY <3>1, <3>2, <3>3, <3>4, <3>5, <3>6, ApplyKeeps
  <2>4. CASE Stamp
    <3>1. /\ migration # NoMigration /\ UNCHANGED <<revision, database>>
          /\ migration'.target = migration.target /\ migration'.database = migration.database
      BY <2>4 DEF Stamp, Underway, MigrationsInv, InRange
    <3> QED BY <3>1 DEF KeptSoFar
  <2>5. ASSUME NEW t, NEW nulls, Insert(t, nulls)
        PROVE  FALSE
    BY <2>5 DEF Insert
  <2>6. CASE Raise \/ Commit \/ Crash
    BY <2>6 DEF Raise, Commit, Crash
  <2> QED BY <2>1, <2>2, <2>3, <2>4, <2>5, <2>6 DEF MigrationsNext
<1>3. MigrationsInv /\ KeptSoFar /\ [MigrationsNext]_migrationVars
         => [revision' > revision => Keeps(database, database')]_migrationVars
  <2> SUFFICES ASSUME MigrationsInv, KeptSoFar, MigrationsNext, revision' > revision
               PROVE  Keeps(database, database')
    OBVIOUS
  <2>1. revision \in Nat
    BY Lengths DEF MigrationsInv, InRange
  <2>2. CASE Commit
    BY <2>2 DEF Commit, KeptSoFar
  <2>3. CASE ~Commit
    <3>1. revision' = revision
      BY <2>3 DEF MigrationsNext, Begin, Execute, Raise, Stamp, Crash, Insert
    <3> QED BY <2>1, <3>1
  <2> QED BY <2>2, <2>3
<1> QED BY <1>1, <1>2, <1>3, InvariantHolds, PTL DEF MigrationsSpec, UpgradesKeepColumns

\* At the head there are the unique indexes that decide in Accounts.
IndexesAtHead ==
    revision = Latest =>
        {Unique("users", "email"), Unique("tags", "uq_tag_name_owner")} \subseteq database.catalog

\* The theorems on Accounts rest on two unique indexes (EmailTaken, Taken):
\* the migrations have made both, on whatever path the database is at the head.
THEOREM HeadHasIndexes == MigrationsSpec => []IndexesAtHead
<1>1. Unique("users", "email") \in User /\ Unique("tags", "uq_tag_name_owner") \in Tag
  BY DEF User, Tag
<1>2. \A t, name : Unique(t, name) \notin DeclaredOnly
  BY DEF Unique, DeclaredOnly, PrimaryKey
<1>3. HeadServesModels => IndexesAtHead
  BY <1>1, <1>2 DEF metadata, HeadServesModels, IndexesAtHead
<1> QED BY <1>3, HeadServes, PTL
=============================================================================
