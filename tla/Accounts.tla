------------------------------ MODULE Accounts ------------------------------
(* Rows that are looked up and then inserted under a unique index: the     *)
(* accounts (register, UserRepo) and the tags of a user (TagRepo).         *)
(*                                                                         *)
(* A step is one statement or commit, at READ COMMITTED.  Of an INSERT     *)
(* whose key another open transaction has inserted, PostgreSQL waits for   *)
(* that transaction to end, and ends one of those that wait in a circle.   *)
EXTENDS Naturals, FiniteSets, SequencesExt

CONSTANTS
    Requests,
    Emails,
    Owners,         \* users whose tags are stored
    Names,          \* names of tags
    NoUser

ASSUME AccountsAssumption == NoUser \notin Requests /\ IsFiniteSet(Names)

VARIABLES
    users,          \* the account of an e-mail: the registration that made it
    tags,           \* the rows of tags that are committed
    open,           \* the rows each open transaction has inserted
    task

vars == <<users, tags, open, task>>

Free == [pc |-> "free"]

Answered(status) == [pc |-> "answered", status |-> status]

Goes(r, record) == task' = [task EXCEPT ![r] = record]

\* A row of tags: who inserted it serves as its id.
Row(r, o, n) == [id |-> r, owner |-> o, name |-> n]

Key(row) == <<row.owner, row.name>>

HasTag(o, n) == \E row \in tags : Key(row) = <<o, n>>

-----------------------------------------------------------------------------
(* POST /register.                                                         *)

RegisterLookup(r, e) ==
    /\ task[r] = Free
    /\ IF users[e] # NoUser
       THEN Goes(r, Answered(400))
       ELSE Goes(r, [pc |-> "register", email |-> e])
    /\ UNCHANGED <<users, tags, open>>

\* A variant: no unique index on the e-mail.
EmailNotChecked(e) == FALSE

\* users.email is unique.
EmailTaken(e) == users[e] # NoUser

\* create_user commits; the loser of a race raises IntegrityError.
RegisterInsert(r) ==
    /\ task[r].pc = "register"
    /\ LET e == task[r].email IN
       IF EmailTaken(e)
       THEN Goes(r, Answered(500)) /\ UNCHANGED users
       ELSE /\ users' = [users EXCEPT ![e] = r]
            /\ Goes(r, [task[r] EXCEPT !.pc = "registered"])
    /\ UNCHANGED <<tags, open>>

\* The refresh of the new row, and the answer with its id.
RegisterRefresh(r) ==
    /\ task[r].pc = "registered"
    /\ Goes(r, [pc |-> "welcome", email |-> task[r].email, status |-> 201])
    /\ UNCHANGED <<users, tags, open>>

-----------------------------------------------------------------------------
(* The rows of tags that stand in the way of an INSERT.                    *)

\* A variant: a row that is not committed counts as well.
TakenByAnyone(r, o, n) ==
    HasTag(o, n) \/ \E s \in Requests : \E row \in open[s] : Key(row) = <<o, n>>

Taken(r, o, n) == HasTag(o, n) \/ \E row \in open[r] : Key(row) = <<o, n>>

\* The transactions that the INSERT of r has to wait for.
InTheWay(r, o, n) ==
    {s \in Requests \ {r} : \E row \in open[s] : Key(row) = <<o, n>>}

\* What the request inserts next.
Inserting(r) ==
    IF task[r].pc = "bulk" /\ task[r].names # <<>> THEN {<<task[r].owner, task[r].names[1]>>}
    ELSE IF task[r].pc = "create" THEN {<<task[r].owner, task[r].name>>}
    ELSE {}

WaitsFor(r) == UNION {InTheWay(r, k[1], k[2]) : k \in Inserting(r)}

-----------------------------------------------------------------------------
(* TagRepo.create_tag.                                                     *)

CreateLookup(r, o, n) ==
    /\ task[r] = Free
    /\ IF HasTag(o, n)
       THEN Goes(r, Answered(200))
       ELSE Goes(r, [pc |-> "create", owner |-> o, name |-> n])
    /\ UNCHANGED <<users, tags, open>>

\* uq_tag_name_owner; the commit and the refresh follow.
CreateInsert(r) ==
    /\ task[r].pc = "create"
    /\ LET o == task[r].owner
           n == task[r].name IN
       /\ InTheWay(r, o, n) = {}
       /\ IF Taken(r, o, n)
          THEN Goes(r, Answered(500)) /\ UNCHANGED tags
          ELSE tags' = tags \cup {Row(r, o, n)} /\ Goes(r, Answered(200))
    /\ UNCHANGED <<users, open>>

-----------------------------------------------------------------------------
(* TagRepo.bulk_upsert_tags, with the rows in the order of its list.       *)

\* Without any row to insert the statement is an INSERT without values, which
\* the columns that are not null refuse.
BulkBegin(r, o, names) ==
    /\ task[r] = Free
    /\ IF names = <<>>
       THEN Goes(r, Answered(500))
       ELSE Goes(r, [pc |-> "bulk", owner |-> o, names |-> names, asked |-> ToSet(names)])
    /\ UNCHANGED <<users, tags, open>>

\* on_conflict_do_nothing.
BulkInsertRow(r) ==
    /\ task[r].pc = "bulk"
    /\ task[r].names # <<>>
    /\ LET o == task[r].owner
           n == task[r].names[1] IN
       /\ Taken(r, o, n) \/ InTheWay(r, o, n) = {}
       /\ open' = IF Taken(r, o, n) THEN open
                  ELSE [open EXCEPT ![r] = @ \cup {Row(r, o, n)}]
    /\ Goes(r, [task[r] EXCEPT !.names = Tail(@)])
    /\ UNCHANGED <<users, tags>>

\* A variant: the commit is forgotten.
BulkUncommitted(r) ==
    /\ task[r].pc = "bulk"
    /\ task[r].names = <<>>
    /\ Goes(r, [task[r] EXCEPT !.pc = "list"])
    /\ UNCHANGED <<users, tags, open>>

BulkCommit(r) ==
    /\ task[r].pc = "bulk"
    /\ task[r].names = <<>>
    /\ tags' = tags \cup open[r]
    /\ open' = [open EXCEPT ![r] = {}]
    /\ Goes(r, [task[r] EXCEPT !.pc = "list"])
    /\ UNCHANGED users

\* get_all_tags.
BulkList(r) ==
    /\ task[r].pc = "list"
    /\ Goes(r, [pc |-> "listed", owner |-> task[r].owner, asked |-> task[r].asked,
                result |-> {row \in tags : row.owner = task[r].owner}])
    /\ UNCHANGED <<users, tags, open>>

-----------------------------------------------------------------------------

\* A statement or a commit raises: rollback, and 500.
Fail(r) ==
    /\ task[r].pc \in {"register", "registered", "create", "bulk", "list"}
    /\ open' = [open EXCEPT ![r] = {}]
    /\ Goes(r, Answered(500))
    /\ UNCHANGED <<users, tags>>

\* The deadlock detection of PostgreSQL ends one of those that wait in a circle.
EndDeadlock(r) ==
    /\ \E D \in SUBSET Requests :
          r \in D /\ \A s \in D : WaitsFor(s) \cap D # {} /\ \E t \in D : s \in WaitsFor(t)
    /\ open' = [open EXCEPT ![r] = {}]
    /\ Goes(r, Answered(500))
    /\ UNCHANGED <<users, tags>>

Init ==
    /\ users = [e \in Emails |-> NoUser]
    /\ tags = {}
    /\ open = [r \in Requests |-> {}]
    /\ task = [r \in Requests |-> Free]

\* The lists considered: none, some or all of the names, in any order, also
\* with repetitions; their length is a bound.
Lists == BoundedSeq(Names, Cardinality(Names))

Serve(r) ==
    \/ RegisterInsert(r) \/ RegisterRefresh(r)
    \/ CreateInsert(r)
    \/ BulkInsertRow(r) \/ BulkCommit(r) \/ BulkList(r)
    \/ EndDeadlock(r)

Next ==
    \E r \in Requests :
        \/ Serve(r)
        \/ Fail(r)
        \/ \E e \in Emails : RegisterLookup(r, e)
        \/ \E o \in Owners, n \in Names : CreateLookup(r, o, n)
        \/ \E o \in Owners, names \in Lists : BulkBegin(r, o, names)

Spec == Init /\ [][Next]_vars

\* Statements end, and so does what they wait for.
FairSpec == Spec /\ \A r \in Requests : WF_vars(Serve(r))

-----------------------------------------------------------------------------
(* Properties.                                                             *)

Rows == [id : Requests, owner : Owners, name : Names]

Task ==
    [pc : {"free"}]
    \cup [pc : {"answered"}, status : Nat]
    \cup [pc : {"register", "registered"}, email : Emails]
    \cup [pc : {"welcome"}, email : Emails, status : Nat]
    \cup [pc : {"create"}, owner : Owners, name : Names]
    \cup [pc : {"bulk", "list"}, owner : Owners, names : Seq(Names), asked : SUBSET Names]
    \cup [pc : {"listed"}, owner : Owners, asked : SUBSET Names, result : SUBSET Rows]

Ended == {"answered", "welcome", "listed"}

TypeOK ==
    /\ users \in [Emails -> Requests \cup {NoUser}]
    /\ tags \subseteq Rows
    /\ open \in [Requests -> SUBSET Rows]
    /\ task \in [Requests -> Task]
    /\ \A r \in Requests : open[r] # {} => task[r].pc = "bulk"

\* Whoever is told that the account is registered has registered it: of two
\* registrations of one e-mail that both found it free one is refused, and
\* its password is not the one of the account (register, create_user).
WelcomeIsOwnAccount ==
    \A r \in Requests :
        task[r].pc \in {"registered", "welcome"} => users[task[r].email] = r

\* A bulk upsert returns every name it was given, for its owner alone, though
\* another transaction that had inserted one may have been rolled back.
BulkReturnsAll ==
    \A r \in Requests :
        task[r].pc = "listed" =>
            /\ task[r].asked \subseteq {row.name : row \in task[r].result}
            /\ \A row \in task[r].result : row.owner = task[r].owner

\* Also lists in opposite orders do not keep each other waiting forever.
EveryRequestEnds ==
    \A r \in Requests : task[r].pc # "free" ~> task[r].pc \in Ended
=============================================================================
