------------------------------ MODULE Migrate ------------------------------
(***************************************************************************)
(* The migrate command: operators, or the containers of several            *)
(* deployments, that run "migrate up", "down" and "version" on one         *)
(* database at a time of their own choosing.                               *)
(*                                                                         *)
(* golang-migrate is external and modelled from what the migrator relies   *)
(* on: a session lock with a time limit; a row that holds the version and  *)
(* whether it is dirty, marked dirty before each migration and clean after *)
(* it; one migration is one statement string, which takes effect as a      *)
(* whole or not at all.                                                    *)
(***************************************************************************)
EXTENDS Naturals

CONSTANTS
    Operators,  \* who runs the command
    Last        \* the newest of the embedded migrations, numbered from 1

ASSUME LastAssumption == Last \in Nat \ {0}

Commands == {"up", "down", "version", "unknown"}

VARIABLES
    version,    \* schema_migrations: the version, 0 when there is none
    dirty,      \* schema_migrations: dirty
    applied,    \* the migrations whose statements are in effect are 1..applied
    lock,       \* who holds the advisory lock, of at most one
    cmd, pc,    \* per operator: the command, and where it is
    target,     \* per operator: the version its current migration leads to
    undone,     \* history, per operator: migrations its command rolled back
    out,        \* per operator: what the command came to
    report      \* per operator: what it printed last, and the schema at that time

schema == <<version, dirty, applied>>
vars   == <<schema, lock, cmd, pc, target, undone, out, report>>

Labels == {"idle", "connect", "precheck", "lock", "check", "mark", "run", "clear",
           "unlock", "report"}
Nothing == [version |-> 0, warning |-> FALSE, was |-> 0, dirty |-> FALSE]

TypeOK ==
    /\ version \in 0..Last /\ applied \in 0..Last /\ dirty \in BOOLEAN
    /\ lock \subseteq Operators
    /\ cmd \in [Operators -> Commands]
    /\ pc \in [Operators -> Labels]
    /\ target \in [Operators -> 0..Last]
    /\ undone \in [Operators -> 0..Last]
    /\ out \in [Operators -> {"none", "done", "nochange", "error"}]
    /\ report \in [Operators ->
           [version : 0..Last, warning : BOOLEAN, was : 0..Last, dirty : BOOLEAN]]

-----------------------------------------------------------------------------
Goto(o, l) == pc' = [pc EXCEPT ![o] = l]
Ends(o, r) == Goto(o, "idle") /\ out' = [out EXCEPT ![o] = r]

\* run() with a command.
Start(o) ==
    /\ pc[o] = "idle"
    /\ \E c \in Commands : cmd' = [cmd EXCEPT ![o] = c]
    /\ Goto(o, "connect")
    /\ undone' = [undone EXCEPT ![o] = 0]
    /\ out' = [out EXCEPT ![o] = "none"]
    /\ report' = [report EXCEPT ![o] = Nothing]
    /\ UNCHANGED <<schema, lock, target>>

First(c) == CASE c = "up" -> "lock" [] c = "down" -> "precheck" [] OTHER -> "report"

\* The configuration and migrator.New, and only then the switch.
Connect(o) ==
    /\ pc[o] = "connect"
    /\ IF cmd[o] = "unknown"
       THEN Ends(o, "error")
       ELSE Goto(o, First(cmd[o])) /\ UNCHANGED out
    /\ UNCHANGED <<schema, lock, cmd, target, undone, report>>

\* Migrator.Down looks at the version before it asks for the lock, so that an
\* empty schema is no error; Migrate.Version returns ErrNilVersion, dirty or not.
Precheck(o) ==
    /\ pc[o] = "precheck"
    /\ IF version = 0
       THEN Goto(o, "report") /\ out' = [out EXCEPT ![o] = "nochange"]
       ELSE Goto(o, "lock") /\ UNCHANGED out
    /\ UNCHANGED <<schema, lock, cmd, target, undone, report>>

Lock(o) ==
    /\ pc[o] = "lock" /\ lock = {} /\ lock' = {o}
    /\ Goto(o, "check")
    /\ UNCHANGED <<schema, cmd, target, undone, out, report>>

DirtOverlooked == FALSE
Dirty == dirty

\* Under the lock: nothing is done on a dirty schema.
Check(o) ==
    /\ pc[o] = "check"
    /\ \/ /\ ~Dirty /\ cmd[o] = "up" /\ version < Last
          /\ target' = [target EXCEPT ![o] = version + 1]
          /\ Goto(o, "mark") /\ UNCHANGED out
       \/ /\ ~Dirty /\ cmd[o] = "down" /\ version > 0
          /\ target' = [target EXCEPT ![o] = version - 1]
          /\ Goto(o, "mark") /\ UNCHANGED out
       \/ /\ ~Dirty /\ cmd[o] = "up" /\ version = Last
          /\ Goto(o, "unlock") /\ out' = [out EXCEPT ![o] = "nochange"]
          /\ UNCHANGED target
       \/ /\ Dirty \/ (cmd[o] = "down" /\ version = 0)
          /\ Goto(o, "unlock") /\ out' = [out EXCEPT ![o] = "error"]
          /\ UNCHANGED target
    /\ UNCHANGED <<schema, lock, cmd, undone, report>>

\* SetVersion(target, dirty), in a transaction.
MarkedClean == FALSE
MarkedDirty == TRUE
Mark(o) ==
    /\ pc[o] = "mark"
    /\ version' = target[o] /\ dirty' = MarkedDirty
    /\ Goto(o, "run")
    /\ UNCHANGED <<applied, lock, cmd, target, undone, out, report>>

\* The statements of the migration take effect.
Applied(o) ==
    /\ applied' = target[o]
    /\ undone' = IF cmd[o] = "down" THEN [undone EXCEPT ![o] = @ + 1] ELSE undone

Run(o) ==
    /\ pc[o] = "run" /\ Applied(o)
    /\ Goto(o, "clear")
    /\ UNCHANGED <<version, dirty, lock, cmd, target, out, report>>

\* up goes on with the next migration while there is one; Steps(-1) does not.
RollsBackAll(o) == IF cmd[o] = "up" THEN target[o] < Last ELSE target[o] > 0
UpForEver(o)    == cmd[o] = "up"
HasNext(o)      == cmd[o] = "up" /\ target[o] < Last

\* SetVersion(target, clean).
Clear(o) ==
    /\ pc[o] = "clear"
    /\ version' = target[o] /\ dirty' = FALSE
    /\ IF HasNext(o)
       THEN /\ Goto(o, "mark") /\ UNCHANGED out
            /\ target' = [target EXCEPT ![o] = IF cmd[o] = "up" THEN @ + 1 ELSE @ - 1]
       ELSE Goto(o, "unlock") /\ out' = [out EXCEPT ![o] = "done"] /\ UNCHANGED target
    /\ UNCHANGED <<applied, lock, cmd, undone, report>>

\* After it, the version is printed, unless the command has failed.
Unlock(o) ==
    /\ pc[o] = "unlock" /\ lock' = lock \ {o}
    /\ Goto(o, IF out[o] = "error" THEN "idle" ELSE "report")
    /\ UNCHANGED <<schema, cmd, target, undone, out, report>>

\* reportVersion, without the lock: no version means no warning either.
Warning == version # 0 /\ dirty
Report(o) ==
    /\ pc[o] = "report"
    /\ report' = [report EXCEPT ![o] =
           [version |-> version, warning |-> Warning, was |-> applied, dirty |-> dirty]]
    /\ Ends(o, IF out[o] = "none" THEN "done" ELSE out[o])
    /\ UNCHANGED <<schema, lock, cmd, target, undone>>

\* A statement fails, its effect in place or not, or the lock is not granted in
\* time: the command ends with an error, and Close frees the lock.
Fail(o) ==
    /\ pc[o] \notin {"idle", "unlock"}
    /\ \/ UNCHANGED <<schema, undone>>
       \/ pc[o] = "mark" /\ version' = target[o] /\ dirty' = MarkedDirty
          /\ UNCHANGED <<applied, undone>>
       \/ pc[o] = "run" /\ Applied(o) /\ UNCHANGED <<version, dirty>>
       \/ pc[o] = "clear" /\ version' = target[o] /\ dirty' = FALSE
          /\ UNCHANGED <<applied, undone>>
    /\ lock' = lock \ {o} /\ Ends(o, "error")
    /\ UNCHANGED <<cmd, target, report>>

\* Someone repairs the database and clears the flag, as the warning says,
\* when no migration is running.
Repair ==
    /\ dirty /\ lock = {}
    /\ dirty' = FALSE /\ \E v \in 0..Last : version' = v /\ applied' = v
    /\ UNCHANGED <<lock, cmd, pc, target, undone, out, report>>

-----------------------------------------------------------------------------
Init ==
    /\ version = 0 /\ dirty = FALSE /\ applied = 0 /\ lock = {}
    /\ cmd = [o \in Operators |-> "version"]
    /\ pc = [o \in Operators |-> "idle"]
    /\ target = [o \in Operators |-> 0] /\ undone = [o \in Operators |-> 0]
    /\ out = [o \in Operators |-> "none"]
    /\ report = [o \in Operators |-> Nothing]

Next ==
    \/ \E o \in Operators :
        \/ Start(o) \/ Connect(o) \/ Precheck(o) \/ Lock(o) \/ Check(o)
        \/ Mark(o) \/ Run(o) \/ Clear(o) \/ Unlock(o) \/ Report(o) \/ Fail(o)
    \/ Repair

Spec == Init /\ [][Next]_vars

-----------------------------------------------------------------------------
(* Properties.                                                             *)

\* A clean schema is the schema of its version, whatever failed on the way and
\* whoever else was migrating.
CleanSchemaIsTrue == ~dirty => applied = version

\* When a migration has failed nothing moves until somebody has repaired the
\* database: no later up or down builds on half of it.
FailedMigrationStopsTheRest ==
    [][dirty /\ (\A o \in Operators : pc[o] \notin {"run", "clear"}) /\ schema' # schema
       => ~dirty' /\ pc' = pc]_vars

\* "down" rolls back one migration, and says so if and only if it has, even
\* when another one gets between its look at the version and its lock.
DownUndoesOne ==
    \A o \in Operators : cmd[o] = "down" =>
        /\ undone[o] <= 1
        /\ pc[o] = "idle" /\ out[o] = "done" => undone[o] = 1
        /\ pc[o] = "idle" /\ out[o] = "nochange" => undone[o] = 0

\* What was printed was true when it was: a version without a warning is the
\* schema's, but for the one case in which the code cannot tell, a rollback of
\* the first migration that is under way or has failed.
QuietReportIsTrue ==
    \A o \in Operators : ~report[o].warning =>
        \/ report[o].version = report[o].was
        \/ report[o].version = 0 /\ report[o].was = 1 /\ report[o].dirty

=============================================================================
