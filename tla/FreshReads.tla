----------------------------- MODULE FreshReads -----------------------------
(***************************************************************************)
(* What a cache in front of a table promises a reader: the table as it was *)
(* at some moment, or a mixture of such moments key by key, but never one  *)
(* that lacks a write acknowledged before the read began.  Reads are not   *)
(* linearizable: two successive ones may go back in time between the last  *)
(* acknowledged write and the last committed one.                          *)
(*                                                                         *)
(* A key stands for whatever the writes are counted by: the rows of a      *)
(* table, or a whole table.                                                *)
(***************************************************************************)
EXTENDS Naturals

CONSTANTS
    Keys,       \* what is written
    Procs       \* who reads

VARIABLES
    now,        \* per key: the writes committed so far
    acked,      \* per key: the writes acknowledged so far
    since,      \* per reader: acked when its read began, nothing when not reading
    answer      \* per reader: the writes its answer reflects, once it has one

vars == <<now, acked, since, answer>>

Vectors  == [Keys -> Nat]
Nothing  == [k \in Keys |-> 0]
Upto(v, w) == \A k \in Keys : v[k] <= w[k]

Init ==
    /\ now \in Vectors
    /\ acked \in Vectors /\ Upto(acked, now)
    /\ since = [p \in Procs |-> Nothing]
    /\ answer = [p \in Procs |-> {}]

\* A write commits.
Write(k) ==
    /\ now' = [now EXCEPT ![k] = @ + 1]
    /\ UNCHANGED <<acked, since, answer>>

\* A writer is told of writes that are in place.
Acknowledge ==
    /\ acked' \in Vectors /\ Upto(acked, acked') /\ Upto(acked', now)
    /\ UNCHANGED <<now, since, answer>>

\* A read begins, or the reader turns to something else.
Begin(p) ==
    /\ since' = [since EXCEPT ![p] = acked]
    /\ answer' = [answer EXCEPT ![p] = {}]
    /\ UNCHANGED <<now, acked>>

Leave(p) ==
    /\ since' = [since EXCEPT ![p] = Nothing]
    /\ answer' = [answer EXCEPT ![p] = {}]
    /\ UNCHANGED <<now, acked>>

\* The read returns: nothing acknowledged before it began is missing, and
\* nothing is in it that was never committed.
Answer(p) ==
    /\ answer[p] = {}
    /\ \E v \in answer'[p] :
        /\ v \in Vectors /\ Upto(since[p], v) /\ Upto(v, now)
        /\ answer' = [answer EXCEPT ![p] = {v}]
    /\ UNCHANGED <<now, acked, since>>

Next ==
    \/ \E k \in Keys : Write(k)
    \/ Acknowledge
    \/ \E p \in Procs : Begin(p) \/ Leave(p) \/ Answer(p)

Spec == Init /\ [][Next]_vars

=============================================================================
