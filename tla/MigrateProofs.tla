--------------------------- MODULE MigrateProofs ---------------------------
(***************************************************************************)
(* The migrate command, for any number of operators and migrations: its    *)
(* types and all of its safety properties.                                 *)
(*                                                                         *)
(* None of them is inductive.  MigrateInv adds why they hold: who is in    *)
(* the middle of a migration holds the lock alone, and until it lets go    *)
(* the version is where its migration leads, one step from where the       *)
(* schema was.                                                             *)
(***************************************************************************)
EXTENDS Migrate, TLAPS

Holds(o) == pc[o] \in {"check", "mark", "run", "clear", "unlock"}

\* The lock is held by one operator at a time.
HoldsAlone == \A o \in Operators : Holds(o) => lock = {o}

\* Two versions between which one migration leads.
Adjacent(v, w) == v = w + 1 \/ w = v + 1

\* What a dirty schema can be, and what the lock's holder has done so far.
SchemaInv ==
    /\ CleanSchemaIsTrue
    /\ dirty => applied = version \/ Adjacent(applied, version)
    /\ \A o \in Operators :
        /\ pc[o] = "mark" => ~dirty /\ Adjacent(target[o], version)
        /\ pc[o] = "run" => dirty /\ version = target[o]
        /\ pc[o] = "clear" => dirty /\ version = target[o] /\ applied = target[o]

\* What a command has undone by the time it is at a step.
UndoneInv(o) ==
    /\ pc[o] \in {"lock", "check", "mark", "run", "clear", "unlock"} => cmd[o] \in {"up", "down"}
    /\ pc[o] = "precheck" => cmd[o] = "down"
    /\ undone[o] <= 1
    /\ cmd[o] # "down" => undone[o] = 0
    /\ pc[o] \in {"connect", "precheck", "lock", "check", "mark", "run"} => undone[o] = 0
    /\ cmd[o] = "down" =>
        /\ pc[o] = "clear" => undone[o] = 1
        /\ pc[o] = "unlock" => out[o] = "error" \/ (out[o] = "done" /\ undone[o] = 1)
        /\ pc[o] = "report" => \/ out[o] = "nochange" /\ undone[o] = 0
                               \/ out[o] = "done" /\ undone[o] = 1
        /\ pc[o] = "idle" /\ out[o] = "done" => undone[o] = 1
        /\ pc[o] = "idle" /\ out[o] = "nochange" => undone[o] = 0

MigrateInv ==
    /\ TypeOK /\ HoldsAlone /\ SchemaInv /\ QuietReportIsTrue
    /\ \A o \in Operators : UndoneInv(o)

-----------------------------------------------------------------------------
(* Types.                                                                  *)

LEMMA TypeStep == MigrateInv /\ [Next]_vars => TypeOK'
<1> SUFFICES ASSUME MigrateInv, [Next]_vars PROVE TypeOK'
    OBVIOUS
<1> USE LastAssumption DEF MigrateInv, TypeOK, schema
<1> SUFFICES ASSUME Next PROVE TypeOK'
    BY DEF vars
<1>1. ASSUME NEW o \in Operators, Start(o) PROVE TypeOK'
    BY <1>1 DEF Start, Goto, Commands, Nothing, Labels
<1>2. ASSUME NEW o \in Operators, Connect(o) PROVE TypeOK'
    BY <1>2 DEF Connect, Ends, Goto, First, Labels
<1>3. ASSUME NEW o \in Operators, Precheck(o) PROVE TypeOK'
    BY <1>3 DEF Precheck, Goto, Labels
<1>4. ASSUME NEW o \in Operators, Lock(o) PROVE TypeOK'
    BY <1>4 DEF Lock, Goto, Labels
<1>5. ASSUME NEW o \in Operators, Check(o) PROVE TypeOK'
    <2>1. target' = target \/ \E t \in 0..Last : target' = [target EXCEPT ![o] = t]
        BY <1>5 DEF Check, Dirty
    <2>2. pc' \in [Operators -> Labels]
        BY <1>5 DEF Check, Goto, Labels
    <2>3. out' \in [Operators -> {"none", "done", "nochange", "error"}]
        BY <1>5 DEF Check
    <2>4. UNCHANGED <<schema, lock, cmd, undone, report>>
        BY <1>5 DEF Check
    <2> QED
        BY <2>1, <2>2, <2>3, <2>4
<1>6. ASSUME NEW o \in Operators, Mark(o) PROVE TypeOK'
    BY <1>6 DEF Mark, MarkedDirty, Goto, Labels
<1>7. ASSUME NEW o \in Operators, Run(o) PROVE TypeOK'
    <2>1. undone[o] + 1 \in 0..Last
        BY <1>7 DEF Run, UndoneInv
    <2>2. undone' = undone \/ undone' = [undone EXCEPT ![o] = undone[o] + 1]
        BY <1>7 DEF Run, Applied
    <2>3. undone' \in [Operators -> 0..Last]
        BY <2>1, <2>2
    <2>4. pc' \in [Operators -> Labels] /\ applied' \in 0..Last
        BY <1>7 DEF Run, Applied, Goto, Labels
    <2> QED
        BY <1>7, <2>3, <2>4 DEF Run
<1>8. ASSUME NEW o \in Operators, Clear(o) PROVE TypeOK'
    <2>1. target' = target \/ \E t \in 0..Last : target' = [target EXCEPT ![o] = t]
        <3>1. HasNext(o) => target[o] + 1 \in 0..Last
            BY DEF HasNext
        <3> QED
            BY <1>8, <3>1 DEF Clear, HasNext
    <2>2. pc' \in [Operators -> Labels]
        BY <1>8 DEF Clear, Goto, Labels
    <2>3. out' \in [Operators -> {"none", "done", "nochange", "error"}]
        BY <1>8 DEF Clear
    <2>4. version' \in 0..Last /\ dirty' \in BOOLEAN
          /\ UNCHANGED <<applied, lock, cmd, undone, report>>
        BY <1>8 DEF Clear
    <2> QED
        BY <2>1, <2>2, <2>3, <2>4
<1>9. ASSUME NEW o \in Operators, Unlock(o) PROVE TypeOK'
    BY <1>9 DEF Unlock, Goto, Labels
<1>10. ASSUME NEW o \in Operators, Report(o) PROVE TypeOK'
    BY <1>10 DEF Report, Warning, Ends, Goto, Labels
<1>11. ASSUME NEW o \in Operators, Fail(o) PROVE TypeOK'
    <2>1. pc[o] = "run" => undone[o] + 1 \in 0..Last
        BY DEF UndoneInv
    <2>2. undone' = undone \/ (pc[o] = "run" /\ undone' = [undone EXCEPT ![o] = undone[o] + 1])
        BY <1>11 DEF Fail, Applied
    <2>3. undone' \in [Operators -> 0..Last]
        BY <2>1, <2>2
    <2>4. version' \in 0..Last /\ applied' \in 0..Last /\ dirty' \in BOOLEAN
        <3>1. version' \in {version, target[o]} /\ applied' \in {applied, target[o]}
            BY <1>11 DEF Fail, Applied
        <3>2. dirty' \in BOOLEAN
            BY <1>11 DEF Fail, MarkedDirty
        <3>3. version \in 0..Last /\ applied \in 0..Last /\ target[o] \in 0..Last
            OBVIOUS
        <3> QED
            BY ONLY <3>1, <3>2, <3>3
    <2>5. lock' \subseteq Operators /\ UNCHANGED <<cmd, target, report>>
        BY <1>11 DEF Fail
    <2>6. /\ pc' \in [Operators -> Labels]
          /\ out' \in [Operators -> {"none", "done", "nochange", "error"}]
        BY <1>11 DEF Fail, Ends, Goto, Labels
    <2> QED
        BY <2>3, <2>4, <2>5, <2>6
<1>12. CASE Repair
    BY <1>12 DEF Repair, Labels
<1> QED
    BY <1>1, <1>2, <1>3, <1>4, <1>5, <1>6, <1>7, <1>8, <1>9, <1>10, <1>11, <1>12 DEF Next

(* The lock.                                                               *)

LEMMA LockStep == MigrateInv /\ [Next]_vars => HoldsAlone'
<1> SUFFICES ASSUME MigrateInv, [Next]_vars PROVE HoldsAlone'
    OBVIOUS
<1> USE DEF MigrateInv, TypeOK, HoldsAlone, Holds
<1> SUFFICES ASSUME Next PROVE HoldsAlone'
    BY DEF vars
<1>1. ASSUME NEW o \in Operators, Start(o) PROVE HoldsAlone'
    BY <1>1 DEF Start, Goto
<1>2. ASSUME NEW o \in Operators, Connect(o) PROVE HoldsAlone'
    BY <1>2 DEF Connect, Ends, Goto, First
<1>3. ASSUME NEW o \in Operators, Precheck(o) PROVE HoldsAlone'
    BY <1>3 DEF Precheck, Goto
<1>4. ASSUME NEW o \in Operators, Lock(o) PROVE HoldsAlone'
    BY <1>4 DEF Lock, Goto
<1>5. ASSUME NEW o \in Operators, Check(o) PROVE HoldsAlone'
    BY <1>5 DEF Check, Dirty, Goto
<1>6. ASSUME NEW o \in Operators, Mark(o) PROVE HoldsAlone'
    BY <1>6 DEF Mark, MarkedDirty, Goto
<1>7. ASSUME NEW o \in Operators, Run(o) PROVE HoldsAlone'
    BY <1>7 DEF Run, Applied, Goto
<1>8. ASSUME NEW o \in Operators, Clear(o) PROVE HoldsAlone'
    BY <1>8 DEF Clear, HasNext, Goto
<1>9. ASSUME NEW o \in Operators, Unlock(o) PROVE HoldsAlone'
    BY <1>9 DEF Unlock, Goto
<1>10. ASSUME NEW o \in Operators, Report(o) PROVE HoldsAlone'
    BY <1>10 DEF Report, Warning, Ends, Goto
<1>11. ASSUME NEW o \in Operators, Fail(o) PROVE HoldsAlone'
    BY <1>11 DEF Fail, Applied, MarkedDirty, Ends, Goto
<1>12. CASE Repair
    BY <1>12 DEF Repair
<1> QED
    BY <1>1, <1>2, <1>3, <1>4, <1>5, <1>6, <1>7, <1>8, <1>9, <1>10, <1>11, <1>12 DEF Next

(* The schema.                                                             *)

LEMMA SchemaStep == MigrateInv /\ [Next]_vars => SchemaInv'
<1> SUFFICES ASSUME MigrateInv, [Next]_vars PROVE SchemaInv'
    OBVIOUS
<1> USE LastAssumption DEF MigrateInv, TypeOK, HoldsAlone, Holds, SchemaInv, Adjacent, CleanSchemaIsTrue, schema
<1> SUFFICES ASSUME Next PROVE SchemaInv'
    BY DEF vars
<1>1. ASSUME NEW o \in Operators, Start(o) PROVE SchemaInv'
    BY <1>1 DEF Start, Goto
<1>2. ASSUME NEW o \in Operators, Connect(o) PROVE SchemaInv'
    BY <1>2 DEF Connect, Ends, Goto, First
<1>3. ASSUME NEW o \in Operators, Precheck(o) PROVE SchemaInv'
    BY <1>3 DEF Precheck, Goto
<1>4. ASSUME NEW o \in Operators, Lock(o) PROVE SchemaInv'
    BY <1>4 DEF Lock, Goto
<1>5. ASSUME NEW o \in Operators, Check(o) PROVE SchemaInv'
    BY <1>5 DEF Check, Dirty, Goto, UndoneInv
<1>6. ASSUME NEW o \in Operators, Mark(o) PROVE SchemaInv'
    BY <1>6 DEF Mark, MarkedDirty, Goto
<1>7. ASSUME NEW o \in Operators, Run(o) PROVE SchemaInv'
    BY <1>7 DEF Run, Applied, Goto
<1>8. ASSUME NEW o \in Operators, Clear(o) PROVE SchemaInv'
    <2>1. /\ pc[o] = "clear" /\ dirty' = FALSE
          /\ version' = version /\ applied' = applied /\ version = applied
        BY <1>8 DEF Clear
    <2>2. \A q \in Operators \ {o} : pc'[q] = pc[q] /\ pc[q] \notin {"mark", "run", "clear"}
        BY <1>8, <2>1 DEF Clear, Goto
    <2>3. pc'[o] \in {"mark", "unlock"}
        BY <1>8 DEF Clear, Goto
    <2>4. pc'[o] = "mark" => Adjacent(target'[o], version)
        BY <1>8, <2>1 DEF Clear, HasNext, Goto
    <2> QED
        BY <2>1, <2>2, <2>3, <2>4
<1>9. ASSUME NEW o \in Operators, Unlock(o) PROVE SchemaInv'
    BY <1>9 DEF Unlock, Goto
<1>10. ASSUME NEW o \in Operators, Report(o) PROVE SchemaInv'
    BY <1>10 DEF Report, Warning, Ends, Goto
<1>11. ASSUME NEW o \in Operators, Fail(o) PROVE SchemaInv'
    <2>1. pc'[o] = "idle" /\ \A q \in Operators \ {o} : pc'[q] = pc[q]
        BY <1>11 DEF Fail, Ends, Goto
    <2>2. schema' # schema => \A q \in Operators \ {o} : pc[q] \notin {"mark", "run", "clear"}
        BY <1>11 DEF Fail
    <2>3. /\ dirty' => applied' = version' \/ Adjacent(applied', version')
          /\ CleanSchemaIsTrue'
        BY <1>11 DEF Fail, Applied, MarkedDirty
    <2>4. UNCHANGED target
        BY <1>11 DEF Fail
    <2> QED
        BY <2>1, <2>2, <2>3, <2>4
<1>12. CASE Repair
    BY <1>12 DEF Repair
<1> QED
    BY <1>1, <1>2, <1>3, <1>4, <1>5, <1>6, <1>7, <1>8, <1>9, <1>10, <1>11, <1>12 DEF Next

(* What was undone, and what is reported.                                  *)

LEMMA UndoneStep ==
  MigrateInv /\ [Next]_vars => \A q \in Operators : UndoneInv(q)'
<1> SUFFICES ASSUME MigrateInv, [Next]_vars, NEW q \in Operators PROVE UndoneInv(q)'
    OBVIOUS
<1> USE DEF MigrateInv, TypeOK, UndoneInv
<1> SUFFICES ASSUME Next PROVE UndoneInv(q)'
    BY DEF vars
<1>1. ASSUME NEW o \in Operators, Start(o) PROVE UndoneInv(q)'
    BY <1>1 DEF Start, Goto, Commands
<1>2. ASSUME NEW o \in Operators, Connect(o) PROVE UndoneInv(q)'
    BY <1>2 DEF Connect, Ends, Goto, First
<1>3. ASSUME NEW o \in Operators, Precheck(o) PROVE UndoneInv(q)'
    BY <1>3 DEF Precheck, Goto
<1>4. ASSUME NEW o \in Operators, Lock(o) PROVE UndoneInv(q)'
    BY <1>4 DEF Lock, Goto
<1>5. ASSUME NEW o \in Operators, Check(o) PROVE UndoneInv(q)'
    BY <1>5 DEF Check, Dirty, Goto
<1>6. ASSUME NEW o \in Operators, Mark(o) PROVE UndoneInv(q)'
    BY <1>6 DEF Mark, MarkedDirty, Goto
<1>7. ASSUME NEW o \in Operators, Run(o) PROVE UndoneInv(q)'
    BY <1>7 DEF Run, Applied, Goto
<1>8. ASSUME NEW o \in Operators, Clear(o) PROVE UndoneInv(q)'
    BY <1>8 DEF Clear, HasNext, Goto
<1>9. ASSUME NEW o \in Operators, Unlock(o) PROVE UndoneInv(q)'
    BY <1>9 DEF Unlock, Goto
<1>10. ASSUME NEW o \in Operators, Report(o) PROVE UndoneInv(q)'
    BY <1>10 DEF Report, Warning, Ends, Goto
<1>11. ASSUME NEW o \in Operators, Fail(o) PROVE UndoneInv(q)'
    BY <1>11 DEF Fail, Applied, MarkedDirty, Ends, Goto
<1>12. CASE Repair
    BY <1>12 DEF Repair
<1> QED
    BY <1>1, <1>2, <1>3, <1>4, <1>5, <1>6, <1>7, <1>8, <1>9, <1>10, <1>11, <1>12 DEF Next

LEMMA ReportStep == MigrateInv /\ [Next]_vars => QuietReportIsTrue'
<1> SUFFICES ASSUME MigrateInv, [Next]_vars PROVE QuietReportIsTrue'
    OBVIOUS
<1> USE DEF MigrateInv, TypeOK, QuietReportIsTrue, schema
<1> SUFFICES ASSUME Next PROVE QuietReportIsTrue'
    BY DEF vars
<1>1. ASSUME NEW o \in Operators, Start(o) PROVE QuietReportIsTrue'
    BY <1>1 DEF Start, Goto, Nothing
<1>2. ASSUME NEW o \in Operators, Connect(o) PROVE QuietReportIsTrue'
    BY <1>2 DEF Connect, Ends, Goto, First
<1>3. ASSUME NEW o \in Operators, Precheck(o) PROVE QuietReportIsTrue'
    BY <1>3 DEF Precheck, Goto
<1>4. ASSUME NEW o \in Operators, Lock(o) PROVE QuietReportIsTrue'
    BY <1>4 DEF Lock, Goto
<1>5. ASSUME NEW o \in Operators, Check(o) PROVE QuietReportIsTrue'
    BY <1>5 DEF Check, Dirty, Goto
<1>6. ASSUME NEW o \in Operators, Mark(o) PROVE QuietReportIsTrue'
    BY <1>6 DEF Mark, MarkedDirty, Goto
<1>7. ASSUME NEW o \in Operators, Run(o) PROVE QuietReportIsTrue'
    BY <1>7 DEF Run, Applied, Goto
<1>8. ASSUME NEW o \in Operators, Clear(o) PROVE QuietReportIsTrue'
    BY <1>8 DEF Clear, HasNext, Goto
<1>9. ASSUME NEW o \in Operators, Unlock(o) PROVE QuietReportIsTrue'
    BY <1>9 DEF Unlock, Goto
<1>10. ASSUME NEW o \in Operators, Report(o) PROVE QuietReportIsTrue'
    BY <1>10 DEF Report, Warning, Ends, Goto, SchemaInv, CleanSchemaIsTrue, Adjacent
<1>11. ASSUME NEW o \in Operators, Fail(o) PROVE QuietReportIsTrue'
    BY <1>11 DEF Fail, Applied, MarkedDirty, Ends, Goto
<1>12. CASE Repair
    BY <1>12 DEF Repair
<1> QED
    BY <1>1, <1>2, <1>3, <1>4, <1>5, <1>6, <1>7, <1>8, <1>9, <1>10, <1>11, <1>12 DEF Next

-----------------------------------------------------------------------------
(* The theorems.                                                           *)

\* The invariant holds of every reachable state.
THEOREM MigrateInvariant == Spec => []MigrateInv
<1>1. Init => MigrateInv
    <2> SUFFICES ASSUME Init PROVE MigrateInv
        OBVIOUS
    <2> USE LastAssumption DEF Init
    <2>1. TypeOK
        <3>1. 0 \in 0..Last
            OBVIOUS
        <3>2. Nothing \in [version : 0..Last, warning : BOOLEAN, was : 0..Last, dirty : BOOLEAN]
            BY <3>1 DEF Nothing
        <3> QED
            BY <3>1, <3>2 DEF TypeOK, Commands, Labels
    <2>2. HoldsAlone
        BY DEF HoldsAlone, Holds
    <2>3. SchemaInv
        BY DEF SchemaInv, CleanSchemaIsTrue
    <2>4. QuietReportIsTrue
        BY DEF QuietReportIsTrue, Nothing
    <2>5. \A o \in Operators : UndoneInv(o)
        <3> TAKE o \in Operators
        <3>1. cmd[o] = "version" /\ pc[o] = "idle" /\ undone[o] = 0 /\ out[o] = "none"
            OBVIOUS
        <3> QED
            BY ONLY <3>1 DEF UndoneInv
    <2> QED
        BY <2>1, <2>2, <2>3, <2>4, <2>5 DEF MigrateInv
<1>2. MigrateInv /\ [Next]_vars => MigrateInv'
    <2> SUFFICES ASSUME MigrateInv, [Next]_vars PROVE MigrateInv'
        OBVIOUS
    <2> QED
        BY TypeStep, LockStep, SchemaStep, UndoneStep, ReportStep DEF MigrateInv
<1> QED
    BY <1>1, <1>2, PTL DEF Spec

\* Every variable keeps its type, for any number of operators and migrations.
THEOREM MigrateTypes == Spec => []TypeOK
<1>1. MigrateInv => TypeOK
    BY DEF MigrateInv
<1> QED
    BY <1>1, MigrateInvariant, PTL

\* A schema that is not marked dirty is the schema of its version, whatever
\* failed, for any number of operators and migrations.
THEOREM CleanIsTrue == Spec => []CleanSchemaIsTrue
<1>1. MigrateInv => CleanSchemaIsTrue
    BY DEF MigrateInv, SchemaInv
<1> QED
    BY <1>1, MigrateInvariant, PTL

\* "down" rolls back one migration and no more, and its answer tells which.
THEOREM DownIsOne == Spec => []DownUndoesOne
<1>1. MigrateInv => DownUndoesOne
    BY DEF MigrateInv, UndoneInv, DownUndoesOne
<1> QED
    BY <1>1, MigrateInvariant, PTL

\* A version that was printed without a warning was the schema's, but for the
\* rollback of the first migration.
THEOREM ReportIsTrue == Spec => []QuietReportIsTrue
<1>1. MigrateInv => QuietReportIsTrue
    BY DEF MigrateInv
<1> QED
    BY <1>1, MigrateInvariant, PTL

\* On a schema that a failed migration left behind nothing is migrated until
\* it was repaired: who is about to mark the schema has seen it clean.
THEOREM FailureStops == Spec => FailedMigrationStopsTheRest
<1> DEFINE Step ==
        dirty /\ (\A o \in Operators : pc[o] \notin {"run", "clear"}) /\ schema' # schema
        => ~dirty' /\ pc' = pc
<1>1. ASSUME MigrateInv, [Next]_vars PROVE Step
    <2> SUFFICES ASSUME dirty, \A o \in Operators : pc[o] \notin {"run", "clear"},
                        schema' # schema
                 PROVE  ~dirty' /\ pc' = pc
        OBVIOUS
    <2>1. \A o \in Operators : pc[o] # "mark"
        BY <1>1 DEF MigrateInv, SchemaInv
    <2>2. \A o \in Operators : ~(Mark(o) \/ Run(o) \/ Clear(o))
        BY <2>1 DEF Mark, Run, Clear
    <2>3. \A o \in Operators : ~Fail(o)
        BY <2>1 DEF Fail, schema
    <2>4. \A o \in Operators :
              Start(o) \/ Connect(o) \/ Precheck(o) \/ Lock(o) \/ Check(o) \/ Unlock(o)
              \/ Report(o) => UNCHANGED schema
        BY DEF Start, Connect, Precheck, Lock, Check, Unlock, Report
    <2>5. UNCHANGED vars => UNCHANGED schema
        BY DEF vars
    <2>6. Repair
        BY <1>1, <2>2, <2>3, <2>4, <2>5 DEF Next
    <2> QED
        BY <2>6 DEF Repair
<1> QED
    BY <1>1, MigrateInvariant, PTL DEF Spec, FailedMigrationStopsTheRest

=============================================================================
