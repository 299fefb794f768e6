---------------------------- MODULE RevisionFacts ----------------------------
(***************************************************************************)
(* What is to be known of the files of alembic/versions, and of the        *)
(* classes of db_models.py, to reason about the migrations of a database   *)
(* with rows.  Each is a fact about definitions without a parameter:       *)
(* nothing is left open, and TLC computes that it holds.                   *)
(***************************************************************************)
EXTENDS Revisions, Naturals

\* The statements of a list.
Elements(ops) == {ops[i] : i \in 1 .. Len(ops)}

Ups == UNION {Elements(Chain[k].up) : k \in 1 .. Latest}

Downs == UNION {Elements(Chain[k].down) : k \in 1 .. Latest}

Grows == {"create_table", "create_type", "add_label", "add_column", "note", "set_not_null"}

\* The path is that of the statements from d, and without rows none raises.
Leads(path, ops, d) ==
    /\ path[1] = d
    /\ \A i \in 1 .. Len(ops) : Possible(path[i], ops[i]) /\ path[i + 1] = Apply(path[i], ops[i])

\* A database without rows.
IsBare(d) == d = [catalog |-> d.catalog, populated |-> {}, nulls |-> {}]

\* The chain and its files are finite lists.
ASSUME Lengths ==
    /\ Latest \in Nat
    /\ \A k \in 1 .. Latest : Len(Chain[k].up) \in Nat /\ Len(Chain[k].down) \in Nat

\* The straight path starts at nothing, and ends at what db_models.py describes
\* but for DeclaredOnly.
ASSUME Ends == Straight[1] = Empty /\ Straight[Latest + 1].catalog = metadata \ DeclaredOnly

\* An upgrade of an empty database goes through, to the next revision.
ASSUME UpgradesLead ==
    \A k \in 0 .. Latest - 1 :
        LET path == Upgrade(k)
            ops  == Chain[k + 1].up IN
        /\ Leads(path, ops, Straight[k + 1])
        /\ \A i \in 1 .. Len(ops) + 1 : IsBare(path[i])
        /\ path[Len(ops) + 1] = Straight[k + 2]

\* So does a downgrade; what it leaves besides are types and labels.
ASSUME DowngradesLead ==
    \A k \in 1 .. Latest :
        LET path == Downgrade(k)
            ops  == Chain[k].down
            end  == path[Len(ops) + 1].catalog IN
        /\ Leads(path, ops, Straight[k + 1])
        /\ \A i \in 1 .. Len(ops) + 1 : IsBare(path[i])
        /\ Straight[k].catalog \subseteq end
        /\ \A f \in end \ Straight[k].catalog : IsEnum(f)

\* Every statement is one of those of Schema, and no file makes a type or a
\* label that db_models.py does not name.
ASSUME KnownStatements ==
    \A o \in Ups \cup Downs :
        /\ o.op \in Grows \cup {"forget", "drop_column", "drop_table", "rename_table"}
        /\ o.op \in Grows => \A f \in o.facts : IsEnum(f) => f \in metadata

\* No upgrade drops a table, nor a column but for the two that were replaced.
ASSUME UpgradesDropLittle ==
    \A o \in Ups :
        /\ o.op # "drop_table"
        /\ o.op = "drop_column" => o.column \in {"adress", "office"}
        /\ o.op = "forget" => \A f \in o.facts : f[1] # "column"

\* An upgrade renames a table to a name that no earlier revision has.
ASSUME NamesAreNew ==
    \A k \in 1 .. Latest : \A o \in Elements(Chain[k].up) :
        o.op = "rename_table" => \A j \in 1 .. k : o.to \notin Tables(Straight[j])

\* The facts of the straight path are triples.
ASSUME Triples ==
    \A k \in 1 .. Latest + 1 : \A f \in Straight[k].catalog : f = <<f[1], f[2], f[3]>>
=============================================================================
