----------------------------- MODULE TaskTable -----------------------------
(***************************************************************************)
(* The tasks table, as the statements of postgrestask change and read it.  *)
(* Each statement is one SQL command, hence atomic.  A row is abstracted   *)
(* to the number of writes it has taken (ver) and whether it exists and is *)
(* not soft-deleted (live): the version identifies the column values, and  *)
(* an absent row is one that was never inserted.                           *)
(***************************************************************************)
EXTENDS Integers, FiniteSets

CONSTANTS
    Ids,        \* task ids BIGSERIAL can hand out
    MaxVer      \* bound on the writes one row takes

ASSUME MaxVerAssumption == MaxVer \in Nat \ {0}

Row    == [ver : Nat, live : BOOLEAN]
Table  == [Ids -> Row]
Absent == [ver |-> 0, live |-> FALSE]

\* The table with row r for id i and nothing else: one row in transit.
Only(i, r) == [j \in Ids |-> IF j = i THEN r ELSE Absent]
NoRows     == [j \in Ids |-> Absent]

\* INSERT ... RETURNING id, on an id the sequence has not handed out yet.
CanInsert(t, i) == t[i] = Absent
Inserted(t, i)  == [t EXCEPT ![i] = [ver |-> 1, live |-> TRUE]]

\* UPDATE tasks SET ... WHERE id = $1 AND deleted_at IS NULL.
CanUpdate(t, i) == t[i].live
Updated(t, i)   == [t EXCEPT ![i] = [ver |-> t[i].ver + 1, live |-> TRUE]]

\* UPDATE tasks SET deleted_at = now() WHERE id = $1 AND deleted_at IS NULL.
CanDelete(t, i) == t[i].live
Deleted(t, i)   == [t EXCEPT ![i] = [ver |-> t[i].ver + 1, live |-> FALSE]]

\* Table t reflects every write counted in v, a number of writes per id.
Versions == [Ids -> Nat]
None     == [i \in Ids |-> 0]
Reflects(t, v) == \A i \in Ids : v[i] <= t[i].ver

\* Table u reflects every write that table t does.
Older(t, u) == \A i \in Ids : t[i].ver <= u[i].ver

=============================================================================
