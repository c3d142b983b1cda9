--------------------------- MODULE ListWalkProofs ---------------------------
(***************************************************************************)
(* What a walk along next_cursor is given, for any ids, clients, limits,   *)
(* filters and writes.                                                     *)
(*                                                                         *)
(* The first part is about sets of ids: what is left of one by ORDER BY id *)
(* DESC LIMIT n, and from it what one page of Service.List is (OnePage).   *)
(* The second is the inductive invariant WalkInv.  Its heart is CoverInv:  *)
(* down to its cursor a walk lacks no task that was there all the time.    *)
(* That a page is cut from a table at least as new as the walk's begin     *)
(* (TimesInv) carries it over an answer.                                   *)
(***************************************************************************)
EXTENDS ListWalk, TLAPS, FiniteSetTheorems

-----------------------------------------------------------------------------
(* Sets of ids.                                                            *)

LEMMA SetsOfIds ==
    ASSUME NEW S \in SUBSET Ids
    PROVE  IsFiniteSet(S) /\ Cardinality(S) \in Nat /\ S \subseteq Nat
<1>1. IsFiniteSet(Ids) /\ Ids \subseteq Nat
    BY MaxIdAssumption, FS_Interval DEF Ids
<1> QED
    BY <1>1, FS_Subset, FS_CardinalityType

\* One of finitely many sets has none of the others inside it.
LEMMA HasSmallest ==
    ASSUME NEW S \in SUBSET Ids, NEW F, F # {}, \A A \in F : A \subseteq S
    PROVE  \E A \in F : \A B \in F : B \subseteq A => B = A
<1>1. F \subseteq FiniteSubsetsOf(S)
    BY SetsOfIds DEF FiniteSubsetsOf
<1>2. PICK A \in F : \A B \in F : <<B, A>> \notin StrictSubsetOrdering(S)
    BY <1>1, WFMin, FS_StrictSubsetOrderingWellFounded
<1> QED
    BY <1>2 DEF StrictSubsetOrdering

\* The ids of S above i, which are those that come before i in a list.
Above(S, i) == {j \in S : j > i}
Under(S, i) == {j \in S : j < i}

LEMMA HasGreatest ==
    ASSUME NEW S \in SUBSET Ids, S # {}
    PROVE  \E i \in S : \A j \in S : j <= i
<1> DEFINE F == {Above(S, i) : i \in S}
<1>1. \A i \in S : Above(S, i) \in F
    OBVIOUS
<1>2. F # {} /\ \A A \in F : A \subseteq S
    <2>1. \A i \in S : Above(S, i) \subseteq S
        BY DEF Above
    <2> QED
        BY <1>1, <2>1
<1> HIDE DEF F
<1>3. PICK A \in F : \A B \in F : B \subseteq A => B = A
    BY <1>2, HasSmallest
<1>4. PICK i \in S : A = Above(S, i)
    BY <1>3 DEF F
<1>5. ASSUME NEW j \in Above(S, i) PROVE FALSE
    <2>0. S \subseteq Nat
        BY SetsOfIds
    <2>1. j \in S /\ j > i /\ i \in Nat /\ j \in Nat
        BY <1>5, <2>0 DEF Above
    <2>2. j \notin Above(S, j) /\ \A k \in Above(S, j) : k \in Above(S, i)
        <3>1. \A k \in S : k > j => k > i
            BY <2>0, <2>1
        <3>2. ~(j > j)
            BY <2>1
        <3> QED
            BY <2>1, <3>1, <3>2, Zenon DEF Above
    <2>3. Above(S, j) = Above(S, i)
        BY <1>1, <1>3, <1>4, <2>1, <2>2
    <2> QED
        BY <1>5, <2>2, <2>3
<1> QED
    BY <1>5, SetsOfIds DEF Above

LEMMA HasLeast ==
    ASSUME NEW S \in SUBSET Ids, S # {}
    PROVE  \E i \in S : \A j \in S : i <= j
<1> DEFINE F == {Under(S, i) : i \in S}
<1>1. \A i \in S : Under(S, i) \in F
    OBVIOUS
<1>2. F # {} /\ \A A \in F : A \subseteq S
    <2>1. \A i \in S : Under(S, i) \subseteq S
        BY DEF Under
    <2> QED
        BY <1>1, <2>1
<1> HIDE DEF F
<1>3. PICK A \in F : \A B \in F : B \subseteq A => B = A
    BY <1>2, HasSmallest
<1>4. PICK i \in S : A = Under(S, i)
    BY <1>3 DEF F
<1>5. ASSUME NEW j \in Under(S, i) PROVE FALSE
    <2>0. S \subseteq Nat
        BY SetsOfIds
    <2>1. j \in S /\ j < i /\ i \in Nat /\ j \in Nat
        BY <1>5, <2>0 DEF Under
    <2>2. j \notin Under(S, j) /\ \A k \in Under(S, j) : k \in Under(S, i)
        <3>1. \A k \in S : k < j => k < i
            BY <2>0, <2>1
        <3>2. ~(j < j)
            BY <2>1
        <3> QED
            BY <2>1, <3>1, <3>2, Zenon DEF Under
    <2>3. Under(S, j) = Under(S, i)
        BY <1>1, <1>3, <1>4, <2>1, <2>2
    <2> QED
        BY <1>5, <2>2, <2>3
<1> QED
    BY <1>5, SetsOfIds DEF Under

LEMMA LeastIsLeast ==
    ASSUME NEW S \in SUBSET Ids, S # {}
    PROVE  Least(S) \in S /\ \A j \in S : Least(S) <= j
BY HasLeast DEF Least

-----------------------------------------------------------------------------
(* ORDER BY id DESC LIMIT n.                                               *)

LEMMA AboveCounts ==
    ASSUME NEW S \in SUBSET Ids, NEW i
    PROVE  /\ IsFiniteSet(Above(S, i)) /\ Cardinality(Above(S, i)) \in Nat
           /\ Above(S, i) \subseteq S
<1>1. Above(S, i) \subseteq S
    BY DEF Above
<1> QED
    BY <1>1, SetsOfIds

LEMMA LargestAre ==
    ASSUME NEW S, NEW n
    PROVE  /\ Largest(S, n) \subseteq S
           /\ \A i \in S : i \in Largest(S, n) <=> Cardinality(Above(S, i)) < n
BY DEF Largest, Above

\* What comes before one of the largest is one of them.
LEMMA LargestComeFirst ==
    ASSUME NEW S \in SUBSET Ids, NEW n \in Nat, NEW i \in Largest(S, n), NEW j \in S, j > i
    PROVE  j \in Largest(S, n)
<1>1. S \subseteq Nat /\ i \in S
    BY SetsOfIds, LargestAre
<1>2. \A k \in S : k > j => k > i
    BY <1>1
<1>3. Above(S, j) \in SUBSET Above(S, i)
    BY <1>2, Zenon DEF Above
<1>4. Cardinality(Above(S, j)) <= Cardinality(Above(S, i))
    BY <1>3, AboveCounts, FS_Subset
<1>5. Cardinality(Above(S, i)) < n
    BY <1>1, LargestAre
<1>6. Cardinality(Above(S, j)) < n
    BY <1>4, <1>5, AboveCounts
<1> QED
    BY <1>6, LargestAre

\* They are n at most ...
LEMMA LargestFit ==
    ASSUME NEW S \in SUBSET Ids, NEW n \in Nat
    PROVE  Cardinality(Largest(S, n)) <= n
<1> DEFINE L == Largest(S, n)
<1>1. L \in SUBSET Ids /\ L \subseteq S
    BY LargestAre
<1> HIDE DEF L
<1>2. CASE L = {}
    BY <1>2, FS_EmptySet DEF L
<1>3. CASE L # {}
    <2>1. PICK m \in L : \A j \in L : m <= j
        BY <1>1, <1>3, HasLeast
    <2>2. L \in SUBSET (Above(S, m) \cup {m})
        <3>1. \A j \in L : j > m \/ j = m
            BY <1>1, <2>1, SetsOfIds
        <3> QED
            BY <1>1, <3>1, Zenon DEF Above
    <2>3. /\ IsFiniteSet(Above(S, m) \cup {m})
          /\ Cardinality(Above(S, m) \cup {m}) = Cardinality(Above(S, m)) + 1
        <3>1. m \notin Above(S, m)
            BY <1>1, <2>1, SetsOfIds DEF Above
        <3> QED
            BY <3>1, AboveCounts, FS_AddElement
    <2>4. Cardinality(L) <= Cardinality(Above(S, m)) + 1
        BY <2>2, <2>3, FS_Subset
    <2>5. Cardinality(Above(S, m)) < n
        BY <1>1, <2>1, LargestAre DEF L
    <2>6. Cardinality(L) \in Nat /\ Cardinality(Above(S, m)) \in Nat
        BY <1>1, SetsOfIds, AboveCounts
    <2> QED
        BY <2>4, <2>5, <2>6 DEF L
<1> QED
    BY <1>2, <1>3

\* ... and n exactly if they are not all.
LEMMA LargestFill ==
    ASSUME NEW S \in SUBSET Ids, NEW n \in Nat, Largest(S, n) # S
    PROVE  Cardinality(Largest(S, n)) >= n
<1> DEFINE L == Largest(S, n)
<1>1. L \in SUBSET Ids /\ L \subseteq S /\ S \ L # {} /\ S \ L \in SUBSET Ids
    BY LargestAre
<1>2. PICK x \in S \ L : \A j \in S \ L : j <= x
    BY <1>1, HasGreatest
<1>3. Above(S, x) \in SUBSET L
    <2>1. \A j \in S : j > x => ~(j <= x)
        BY <1>2, SetsOfIds
    <2> QED
        BY <1>2, <2>1, Zenon DEF Above
<1>4. Cardinality(Above(S, x)) <= Cardinality(L)
    BY <1>1, <1>3, SetsOfIds, FS_Subset
<1>5. ~(Cardinality(Above(S, x)) < n)
    BY <1>2, LargestAre
<1> HIDE DEF L
<1>6. Cardinality(L) \in Nat /\ Cardinality(Above(S, x)) \in Nat
    BY <1>1, SetsOfIds, AboveCounts
<1>7. Cardinality(L) >= n
    BY <1>4, <1>5, <1>6
<1> QED
    BY <1>7 DEF L

LEMMA LargestOfFew ==
    ASSUME NEW S \in SUBSET Ids, NEW n \in Nat, Cardinality(S) <= n
    PROVE  Largest(S, n) = S
<1> SUFFICES ASSUME NEW i \in S PROVE Cardinality(Above(S, i)) < n
    BY LargestAre
<1>1. Above(S, i) \in SUBSET (S \ {i})
    <2>1. ~(i > i)
        BY SetsOfIds
    <2> QED
        BY <2>1, Zenon DEF Above
<1>2. IsFiniteSet(S \ {i}) /\ Cardinality(S \ {i}) = Cardinality(S) - 1
    BY SetsOfIds, FS_RemoveElement
<1>3. Cardinality(Above(S, i)) <= Cardinality(S) - 1
    BY <1>1, <1>2, FS_Subset
<1>4. Cardinality(S) \in Nat /\ Cardinality(Above(S, i)) \in Nat
    BY SetsOfIds, AboveCounts
<1> QED
    BY <1>3, <1>4

LEMMA LargestOfSome ==
    ASSUME NEW S \in SUBSET Ids, S # {}, NEW n \in Nat, n > 0
    PROVE  Largest(S, n) # {}
<1>1. PICK i \in S : \A j \in S : j <= i
    BY HasGreatest
<1>2. Above(S, i) = {}
    <2>1. \A j \in S : ~(j > i)
        BY <1>1, SetsOfIds
    <2> QED
        BY <2>1 DEF Above
<1>3. Cardinality(Above(S, i)) < n
    BY <1>2, FS_EmptySet
<1> QED
    BY <1>3, LargestAre

-----------------------------------------------------------------------------
(* One page.                                                               *)

\* The tasks of a table that a page is cut from.
Candidates(t, status, below) == {i \in Ids : Matches(t, status, i) /\ (below > 0 => i < below)}

LEMMA ClampedLimit ==
    ASSUME NEW n \in Limits
    PROVE  Clamp(n) \in 1..MaxLimit /\ Clamp(n) \in Nat /\ Clamp(n) + 1 \in Nat /\ Clamp(n) > 0
<1>1. n \in Int
    BY LimitAssumption
<1> QED
    BY <1>1, LimitAssumption DEF Clamp

\* A page of S is the tasks that come first, all of them if there are no more;
\* if there are, the cursor is the last of the page and a candidate is under it.
PageOf(r, S) ==
    /\ r.tasks \in Pages /\ r.tasks \subseteq S
    /\ r.more \in BOOLEAN
    /\ ~r.more => r.tasks = S /\ r.next = 0
    /\ r.more => /\ r.next \in r.tasks /\ \A j \in r.tasks : r.next <= j
                 /\ \A i \in S : i >= r.next => i \in r.tasks
                 /\ \E x \in S : \A j \in r.tasks : x < j

LEMMA OnePage ==
    ASSUME NEW t, NEW status, NEW below, NEW n \in Limits
    PROVE  PageOf(List(t, status, below, n), Candidates(t, status, below))
<1> DEFINE S == Candidates(t, status, below)
           size == Clamp(n)
           probed == Largest(S, size + 1)
           tasks == Largest(probed, size)
           more == HasMore(probed, size)
           next == IF more THEN Least(tasks) ELSE 0
<1>1. List(t, status, below, n) = [tasks |-> tasks, more |-> more, next |-> next]
    BY DEF List, Select, Candidates, CursorAfter
<1>2. S \in SUBSET Ids
    BY DEF Candidates
<1>3. size \in 1..MaxLimit /\ size \in Nat /\ size + 1 \in Nat /\ size > 0
    BY ClampedLimit
<1>4. more <=> Cardinality(probed) > size
    BY DEF HasMore
<1>5. more \in BOOLEAN
    BY DEF HasMore
<1> HIDE DEF S, size, more
<1>6. probed \subseteq S /\ tasks \subseteq probed /\ probed \in SUBSET Ids /\ tasks \in SUBSET Ids
    BY <1>2, LargestAre
<1>7. Cardinality(probed) \in Nat /\ Cardinality(tasks) \in Nat
    BY <1>6, SetsOfIds
<1>8. Cardinality(tasks) <= size
    BY <1>3, <1>6, LargestFit
<1>9. tasks \in Pages
    <2>1. Cardinality(tasks) <= MaxLimit
        BY <1>3, <1>7, <1>8, LimitAssumption
    <2> QED
        BY <1>6, <2>1 DEF Pages
<1>10. ASSUME ~more PROVE tasks = S /\ next = 0
    <2>1. Cardinality(probed) <= size
        BY <1>3, <1>4, <1>7, <1>10
    <2>2. tasks = probed
        BY <1>3, <1>6, <2>1, LargestOfFew
    <2>3. probed = S
        <3>1. ~(Cardinality(probed) >= size + 1)
            BY <1>3, <1>7, <2>1
        <3> QED
            BY <1>2, <1>3, <3>1, LargestFill
    <2> QED
        BY <1>10, <2>2, <2>3
<1>11. ASSUME more
       PROVE  /\ next \in tasks /\ \A j \in tasks : next <= j
              /\ \A i \in S : i >= next => i \in tasks
              /\ \E x \in S : \A j \in tasks : x < j
    <2>1. tasks # probed
        BY <1>3, <1>4, <1>7, <1>8, <1>11
    <2>2. PICK x \in probed : x \notin tasks
        BY <1>6, <2>1
    <2>3. \A j \in tasks : x < j
        <3>1. ASSUME NEW j \in tasks PROVE x < j
            <4>1. ~(x > j)
                BY <1>3, <1>6, <2>2, LargestComeFirst
            <4>2. x \in Nat /\ j \in Nat /\ x # j
                BY <1>6, <2>2, SetsOfIds
            <4> QED
                BY <4>1, <4>2
        <3> QED
            BY <3>1
    <2>4. tasks # {}
        BY <1>3, <1>6, <2>2, LargestOfSome
    <2>5. next \in tasks /\ \A j \in tasks : next <= j
        BY <1>6, <1>11, <2>4, LeastIsLeast
    <2>6. ASSUME NEW i \in S, i >= next PROVE i \in tasks
        <3>1. i = next \/ i > next
            BY <1>2, <1>6, <2>5, <2>6, SetsOfIds
        <3>2. CASE i > next
            <4>1. next \in probed
                BY <1>6, <2>5
            <4> HIDE DEF next, tasks
            <4>2. i \in probed
                BY <1>2, <1>3, <3>2, <4>1, LargestComeFirst
            <4> USE DEF tasks
            <4> HIDE DEF probed
            <4> QED
                BY <1>3, <1>6, <2>5, <3>2, <4>2, LargestComeFirst
        <3> QED
            BY <2>5, <3>1, <3>2
    <2> QED
        BY <1>6, <2>2, <2>3, <2>5, <2>6
<1> HIDE DEF probed, tasks, next
<1> DEFINE r == List(t, status, below, n)
<1> HIDE DEF r
<1>12. r.tasks = tasks /\ r.more = more /\ r.next = next
    <2>1. r = [tasks |-> tasks, more |-> more, next |-> next]
        BY <1>1 DEF r
    <2> QED
        BY <2>1
<1>13. tasks \subseteq S
    BY <1>6
<1>14. /\ r.tasks \in Pages /\ r.tasks \subseteq S
       /\ r.more \in BOOLEAN
    BY <1>5, <1>9, <1>12, <1>13, Zenon
<1>15. ~r.more => r.tasks = S /\ r.next = 0
    BY <1>10, <1>12, Zenon
<1>16. r.more => /\ r.next \in r.tasks /\ \A j \in r.tasks : r.next <= j
                 /\ \A i \in S : i >= r.next => i \in r.tasks
                 /\ \E x \in S : \A j \in r.tasks : x < j
    BY <1>11, <1>12, Zenon
<1> QED
    BY <1>14, <1>15, <1>16, Zenon DEF S, r, PageOf

-----------------------------------------------------------------------------
(* The walks.                                                              *)

\* Task i was there for c's walk all the time.
Always(c, i) == \A k \in begin[c]..Len(log) : Matches(log[k], filter[c], i)

Walking(c) == state[c] \in {"ready", "asking"}

TimesInv(c) ==
    /\ begin[c] <= floor /\ page[c].from \in 1..Len(log)
    /\ state[c] = "asking" => begin[c] <= base[c]

\* The cursor is the last task the walk has been given, once it has been given one.
CursorInv(c) ==
    Walking(c) =>
        /\ cursor[c] = 0 => returned[c] = {}
        /\ cursor[c] # 0 => cursor[c] \in returned[c] /\ \A j \in returned[c] : cursor[c] <= j

\* Down to the cursor the walk has missed nothing.
CoverInv(c) ==
    Walking(c) /\ cursor[c] # 0 =>
        \A i \in Ids : i >= cursor[c] /\ Always(c, i) => i \in returned[c]

Complete(c) == state[c] = "walked" => \A i \in Ids : Always(c, i) => i \in returned[c]

Exact(c) ==
    state[c] = "walked" \/ (state[c] = "ready" /\ cursor[c] # 0) =>
        /\ page[c].more <=> \E i \in Ids : /\ Matches(log[page[c].from], filter[c], i)
                                           /\ \A j \in returned[c] : i < j
        /\ page[c].more <=> page[c].next # 0

ClientInv(c) == TimesInv(c) /\ CursorInv(c) /\ CoverInv(c) /\ Complete(c) /\ Exact(c)

WalkInv == TypeOK /\ \A c \in Clients : ClientInv(c)

-----------------------------------------------------------------------------
(* One step of the log or of one client.                                   *)

\* The tables only grow in number, and writes are acknowledged in order.
LogGrows ==
    /\ log' \in Seq(Tables) /\ Len(log') \in Nat /\ Len(log) <= Len(log')
    /\ \A k \in 1..Len(log) : log'[k] = log[k]
    /\ floor' \in 1..Len(log') /\ floor <= floor'

ClientKept(c) ==
    /\ state'[c] = state[c] /\ filter'[c] = filter[c] /\ cursor'[c] = cursor[c]
    /\ base'[c] = base[c] /\ begin'[c] = begin[c] /\ page'[c] = page[c]
    /\ returned'[c] = returned[c]

clients == <<state, filter, limit, cursor, base, begin, page, returned>>

LEMMA Writes ==
    ASSUME TypeOK, Write
    PROVE  LogGrows /\ UNCHANGED clients /\ unused' \subseteq unused
<1> USE DEF TypeOK
<1>0. log \in Seq(Tables) /\ Len(log) \in Nat /\ Len(log) >= 1 /\ rows \in Tables
    BY DEF rows
<1>1. ASSUME NEW t \in Tables, Commit(t), floor' = floor PROVE LogGrows
    <2>1. log' = Append(log, t)
        BY <1>1 DEF Commit
    <2> HIDE DEF Tables
    <2>2. log' \in Seq(Tables) /\ Len(log') = Len(log) + 1 /\ \A k \in 1..Len(log) : log'[k] = log[k]
        BY <1>0, <2>1
    <2>3. floor \in 1..Len(log)
        OBVIOUS
    <2>4. floor' \in 1..Len(log') /\ floor <= floor' /\ Len(log') \in Nat /\ Len(log) <= Len(log')
        BY <1>0, <1>1, <2>2, <2>3
    <2> QED
        BY <2>2, <2>4 DEF LogGrows
<1>2. \A i \in Ids, s \in Statuses \cup {Gone} : [rows EXCEPT ![i] = s] \in Tables
    BY <1>0 DEF Tables
<1>3. ASSUME NEW i \in Ids, NEW s \in Statuses, Create(i, s) \/ SetStatus(i, s)
      PROVE  LogGrows /\ UNCHANGED clients /\ unused' \subseteq unused
    BY <1>1, <1>2, <1>3 DEF Create, SetStatus, clients
<1>4. ASSUME NEW i \in Ids, Delete(i)
      PROVE  LogGrows /\ UNCHANGED clients /\ unused' \subseteq unused
    BY <1>1, <1>2, <1>4 DEF Delete, clients
<1>5. CASE Acknowledge
    BY <1>0, <1>5 DEF Acknowledge, LogGrows, clients
<1> QED
    BY <1>3, <1>4, <1>5 DEF Write

\* Client c is given the response r, cut from the k-th table.
Answered(c, k, r) ==
    /\ PageOf(r, Candidates(log[k], filter[c], cursor[c]))
    /\ page' = [page EXCEPT ![c] =
            [tasks |-> r.tasks, next |-> r.next, more |-> r.more, from |-> k]]
    /\ returned' = [returned EXCEPT ![c] = returned[c] \cup r.tasks]
    /\ \/ /\ r.more
          /\ state' = [state EXCEPT ![c] = "ready"]
          /\ cursor' = [cursor EXCEPT ![c] = r.next]
       \/ /\ ~r.more
          /\ state' = [state EXCEPT ![c] = "walked"]
          /\ UNCHANGED cursor

LEMMA Answers ==
    ASSUME TypeOK, NEW c \in Clients, Answer(c)
    PROVE  /\ state[c] = "asking"
           /\ UNCHANGED <<log, floor, unused, filter, limit, base, begin>>
           /\ \E k \in base[c]..Len(log) : \E r : Answered(c, k, r)
<1>1. limit[c] \in Limits
    BY DEF TypeOK
<1>2. \A k : PageOf(List(log[k], filter[c], cursor[c], limit[c]),
                   Candidates(log[k], filter[c], cursor[c]))
    BY <1>1, OnePage
<1> QED
    BY <1>2, Zenon DEF Answer, Answered

LEMMA AnswerTypes ==
    ASSUME TypeOK, NEW c \in Clients, NEW k \in base[c]..Len(log), NEW r, Answered(c, k, r)
    PROVE  /\ k \in 1..Len(log) /\ r.tasks \subseteq Ids /\ r.next \in Ids \cup {0}
           /\ page' \in [Clients -> Response] /\ returned' \in [Clients -> SUBSET Ids]
           /\ state' \in [Clients -> {"idle", "ready", "asking", "walked", "failed"}]
           /\ cursor' \in [Clients -> Ids \cup {0}]
<1>1. /\ r.tasks \in Pages /\ r.more \in BOOLEAN
      /\ ~r.more => r.next = 0
      /\ r.more => r.next \in r.tasks
    BY Zenon DEF Answered, PageOf
<1>2. r.tasks \subseteq Ids
    BY <1>1 DEF Pages
<1>3. r.next \in Ids \cup {0}
    BY <1>1, <1>2, Zenon
<1>4. k \in Nat /\ k \in 1..Len(log)
    <2>1. base[c] \in 1..Len(log) /\ Len(log) \in Nat
        BY DEF TypeOK
    <2> QED
        BY <2>1
<1> DEFINE p == [tasks |-> r.tasks, next |-> r.next, more |-> r.more, from |-> k]
<1>5. p \in Response
    <2> DEFINE T == r.tasks
               X == r.next
               M == r.more
    <2>1. T \in Pages /\ X \in Ids \cup {0} /\ M \in BOOLEAN
        BY <1>1, <1>3
    <2> HIDE DEF T, X, M
    <2>2. [tasks |-> T, next |-> X, more |-> M, from |-> k] \in Response
        BY <1>4, <2>1 DEF Response
    <2> QED
        BY <2>2 DEF T, X, M
<1>6. /\ page' = [page EXCEPT ![c] = p]
      /\ returned' = [returned EXCEPT ![c] = returned[c] \cup r.tasks]
      /\ \/ /\ state' = [state EXCEPT ![c] = "ready"]
            /\ cursor' = [cursor EXCEPT ![c] = r.next]
         \/ /\ state' = [state EXCEPT ![c] = "walked"]
            /\ UNCHANGED cursor
    BY Zenon DEF Answered
<1> HIDE DEF p
<1>7. page' \in [Clients -> Response]
    <2> HIDE DEF Response
    <2> QED
        BY <1>5, <1>6 DEF TypeOK
<1> QED
    BY <1>2, <1>3, <1>4, <1>6, <1>7 DEF TypeOK

LEMMA TypesKept == TypeOK /\ [Next]_vars => TypeOK'
<1> SUFFICES ASSUME TypeOK, [Next]_vars PROVE TypeOK'
    OBVIOUS
<1>1. CASE Write
    <2>1. LogGrows /\ UNCHANGED clients /\ unused' \subseteq unused
        BY <1>1, Writes
    <2>2. base' \in [Clients -> 1..Len(log')] /\ begin' \in [Clients -> 1..Len(log')]
        BY <2>1 DEF TypeOK, LogGrows, clients
    <2> QED
        BY <2>1, <2>2 DEF TypeOK, LogGrows, clients
<1>2. ASSUME NEW c \in Clients, BeginWalk(c) PROVE TypeOK'
    <2>1. filter' \in [Clients -> Statuses \cup {AnyStatus}]
        BY <1>2, FiltersAssumption DEF TypeOK, BeginWalk
    <2> QED
        BY <1>2, <2>1 DEF TypeOK, BeginWalk
<1>3. ASSUME NEW c \in Clients, Ask(c) \/ Fail(c) PROVE TypeOK'
    BY <1>3 DEF TypeOK, Ask, Fail
<1>4. ASSUME NEW c \in Clients, Answer(c) PROVE TypeOK'
    <2>1. /\ UNCHANGED <<log, floor, unused, filter, limit, base, begin>>
          /\ \E k \in base[c]..Len(log) : \E r : Answered(c, k, r)
        BY <1>4, Answers
    <2>2. /\ page' \in [Clients -> Response] /\ returned' \in [Clients -> SUBSET Ids]
          /\ state' \in [Clients -> {"idle", "ready", "asking", "walked", "failed"}]
          /\ cursor' \in [Clients -> Ids \cup {0}]
        BY <2>1, AnswerTypes
    <2> QED
        BY <2>1, <2>2 DEF TypeOK
<1>5. CASE UNCHANGED vars
    BY <1>5 DEF vars, TypeOK
<1> QED
    BY <1>1, <1>2, <1>3, <1>4, <1>5 DEF Next, Walk

-----------------------------------------------------------------------------
(* The invariant.                                                          *)

LEMMA InitInv == Init => WalkInv
<1> SUFFICES ASSUME Init PROVE WalkInv
    OBVIOUS
<1>1. PICK t \in Tables : log = <<t>>
    BY DEF Init
<1>2. log \in Seq(Tables) /\ Len(log) = 1 /\ floor = 1
    <2> HIDE DEF Tables
    <2> QED
        BY <1>1 DEF Init
<1>3. [tasks |-> {}, next |-> 0, more |-> FALSE, from |-> 1] \in Response
    <2>1. {} \in Pages
        BY FS_EmptySet, LimitAssumption DEF Pages
    <2> QED
        BY <2>1 DEF Response
<1>4. TypeOK
    <2>1. unused \subseteq Ids /\ limit \in [Clients -> Limits]
        BY DEF Init
    <2>2. page \in [Clients -> Response]
        <3> HIDE DEF Response
        <3> QED
            BY <1>3 DEF Init
    <2> QED
        BY <1>2, <2>1, <2>2 DEF Init, TypeOK
<1>5. ASSUME NEW c \in Clients PROVE ClientInv(c)
    <2>1. /\ state[c] = "idle" /\ begin[c] = 1
          /\ page[c] = [tasks |-> {}, next |-> 0, more |-> FALSE, from |-> 1]
        BY DEF Init
    <2> QED
        BY <1>2, <2>1
        DEF ClientInv, TimesInv, CursorInv, CoverInv, Complete, Exact, Walking
<1> QED
    BY <1>4, <1>5 DEF WalkInv

\* Writes, and the requests of others, leave what is true of a client true.
LEMMA ClientFrame ==
    ASSUME TypeOK, LogGrows, NEW c \in Clients, ClientKept(c), ClientInv(c)
    PROVE  ClientInv(c)'
<1>1. Len(log) \in Nat /\ Len(log') \in Nat /\ floor \in 1..Len(log) /\ floor' \in 1..Len(log')
      /\ begin[c] \in 1..Len(log) /\ base[c] \in 1..Len(log)
    BY DEF TypeOK, LogGrows
<1>2. TimesInv(c)'
    BY <1>1 DEF ClientInv, TimesInv, ClientKept, LogGrows
<1>3. CursorInv(c)'
    BY DEF ClientInv, CursorInv, ClientKept, Walking
<1>4. ASSUME NEW i, Always(c, i)' PROVE Always(c, i)
    <2> SUFFICES ASSUME NEW k \in begin[c]..Len(log) PROVE Matches(log[k], filter[c], i)
        BY DEF Always
    <2>1. k \in begin'[c]..Len(log') /\ k \in 1..Len(log)
        BY <1>1 DEF ClientKept, LogGrows
    <2>2. log'[k] = log[k] /\ filter'[c] = filter[c]
        BY <2>1 DEF LogGrows, ClientKept
    <2>3. Matches(log'[k], filter'[c], i)
        BY <1>4, <2>1 DEF Always, Matches
    <2> QED
        BY <2>2, <2>3
<1>5. CoverInv(c)' /\ Complete(c)'
    BY <1>4 DEF ClientInv, CoverInv, Complete, ClientKept, Walking
<1>6. Exact(c)'
    <2>1. page[c].from \in 1..Len(log)
        BY DEF ClientInv, TimesInv
    <2>2. log'[page'[c].from] = log[page[c].from]
        BY <2>1 DEF LogGrows, ClientKept
    <2> QED
        BY <2>2, Zenon DEF ClientInv, Exact, ClientKept, Matches
<1> QED
    BY <1>2, <1>3, <1>5, <1>6 DEF ClientInv

\* A client's page lies below what its walk has been given so far.
LEMMA PageIsBelow ==
    ASSUME TypeOK, NEW c \in Clients, ClientInv(c), state[c] = "asking",
           NEW k \in 1..Len(log)
    PROVE  \A i \in Candidates(log[k], filter[c], cursor[c]), j \in returned[c] : i < j
<1>1. cursor[c] \in Ids \cup {0} /\ returned[c] \subseteq Nat /\ Ids \subseteq Nat
    <2>1. returned[c] \in SUBSET Ids /\ Ids \in SUBSET Ids
        BY DEF TypeOK
    <2> QED
        BY <2>1, SetsOfIds DEF TypeOK
<1>2. CASE cursor[c] = 0
    BY <1>2 DEF ClientInv, CursorInv, Walking
<1>3. CASE cursor[c] # 0
    <2>1. \A j \in returned[c] : cursor[c] <= j
        BY <1>3 DEF ClientInv, CursorInv, Walking
    <2>2. \A i \in Candidates(log[k], filter[c], cursor[c]) : i \in Ids /\ i < cursor[c]
        BY <1>1, <1>3, MaxIdAssumption DEF Candidates, Ids
    <2> QED
        BY <1>1, <2>1, <2>2
<1> QED
    BY <1>2, <1>3

\* The client that is answered.
LEMMA AnswerKeeps ==
    ASSUME TypeOK, NEW c \in Clients, ClientInv(c), Answer(c)
    PROVE  ClientInv(c)'
<1>1. /\ state[c] = "asking"
      /\ UNCHANGED <<log, floor, unused, filter, limit, base, begin>>
    BY Answers
<1>2. PICK k \in base[c]..Len(log) : \E r : Answered(c, k, r)
    BY Answers
<1>3. PICK r : Answered(c, k, r)
    BY <1>2
<1> DEFINE S == Candidates(log[k], filter[c], cursor[c])
<1>4. PageOf(r, S)
    BY <1>3 DEF Answered
<1>5. k \in 1..Len(log) /\ r.tasks \subseteq Ids /\ r.next \in Ids \cup {0}
    BY <1>3, AnswerTypes
<1>6. \A i \in S, j \in returned[c] : i < j
    BY <1>1, <1>5, PageIsBelow
<1>7. /\ page'[c].more = r.more /\ page'[c].next = r.next /\ page'[c].from = k
      /\ returned'[c] = returned[c] \cup r.tasks
    BY <1>3 DEF Answered, TypeOK
<1>8. /\ ~r.more => state'[c] = "walked"
      /\ r.more => state'[c] = "ready" /\ cursor'[c] = r.next
    <2>1. state \in [Clients -> {"idle", "ready", "asking", "walked", "failed"}]
          /\ cursor \in [Clients -> Ids \cup {0}]
        BY DEF TypeOK
    <2>2. CASE r.more
        <3>1. state' = [state EXCEPT ![c] = "ready"] /\ cursor' = [cursor EXCEPT ![c] = r.next]
            BY <1>3, <2>2, Zenon DEF Answered
        <3> QED
            BY <2>1, <2>2, <3>1
    <2>3. CASE ~r.more
        <3>1. state' = [state EXCEPT ![c] = "walked"]
            BY <1>3, <2>3, Zenon DEF Answered
        <3> QED
            BY <2>1, <2>3, <3>1
    <2> QED
        BY <2>2, <2>3
<1>9. /\ r.more \in BOOLEAN /\ r.tasks \subseteq S
      /\ ~r.more => r.tasks = S /\ r.next = 0
    BY <1>4, Zenon DEF PageOf
<1>10. r.more => /\ r.next \in r.tasks /\ r.next \in Ids /\ \A j \in r.tasks : r.next <= j
                 /\ \A i \in S : i >= r.next => i \in r.tasks
                 /\ \E x \in S : \A j \in r.tasks : x < j
    BY <1>4, <1>5, Zenon DEF PageOf
<1>11. returned[c] \subseteq Ids /\ Ids \subseteq Nat /\ S \subseteq Ids
    BY SetsOfIds DEF TypeOK, Candidates
<1>12. cursor[c] \in Nat /\ begin[c] \in Nat /\ begin[c] <= base[c]
    <2>1. cursor[c] \in Ids \cup {0} /\ Ids \subseteq Nat /\ begin[c] \in 1..Len(log) /\ Len(log) \in Nat
        BY <1>11 DEF TypeOK
    <2>2. begin[c] <= base[c]
        BY <1>1 DEF ClientInv, TimesInv
    <2>3. cursor[c] \in Nat
        <3>1. cursor[c] \in Ids \/ cursor[c] = 0
            BY <2>1, Zenon
        <3>2. \A i \in Ids : i \in Nat
            BY <2>1, Zenon
        <3> QED
            BY <3>1, <3>2
    <2>4. begin[c] \in Nat
        BY <2>1
    <2> QED
        BY <2>2, <2>3, <2>4
\* A task that was there all the time is on the page or has been given before.
<1>13. ASSUME NEW i \in Ids, Always(c, i)' PROVE i \in S \/ i \in returned[c]
    <2>1. Always(c, i)
        BY <1>1, <1>13 DEF Always, Matches
    <2>2. Matches(log[k], filter[c], i)
        <3>1. base[c] \in Nat /\ Len(log) \in Nat
            BY DEF TypeOK
        <3>2. k \in begin[c]..Len(log)
            BY <1>12, <3>1
        <3> QED
            BY <2>1, <3>2 DEF Always
    <2>3. CASE cursor[c] > 0 => i < cursor[c]
        BY <2>2, <2>3 DEF Candidates
    <2>4. CASE cursor[c] # 0 /\ i >= cursor[c]
        BY <1>1, <2>1, <2>4 DEF ClientInv, CoverInv, Walking
    <2> QED
        BY <1>11, <1>12, <2>3, <2>4
\* So does one of its table that is not above the page.
<1>14. ASSUME NEW i \in Ids, Matches(log[k], filter[c], i), i \notin S
       PROVE  \E j \in returned[c] : ~(i < j)
    <2>1. cursor[c] > 0 /\ ~(i < cursor[c])
        BY <1>14 DEF Candidates
    <2>2. cursor[c] \in returned[c]
        BY <1>1, <1>12, <2>1 DEF ClientInv, CursorInv, Walking
    <2> QED
        BY <2>1, <2>2
<1>15. TimesInv(c)'
    <2>1. begin'[c] = begin[c] /\ floor' = floor /\ log' = log
        BY <1>1
    <2> QED
        BY <1>5, <1>7, <1>8, <1>9, <2>1 DEF ClientInv, TimesInv
<1> HIDE DEF S
<1>16. CASE r.more
    <2>1. CursorInv(c)'
        <3>1. \A j \in returned[c] : r.next < j
            BY <1>6, <1>9, <1>10, <1>16
        <3>2. \A j \in returned'[c] : r.next <= j
            <4>1. r.next \in Nat
                BY <1>10, <1>11, <1>16
            <4>2. ASSUME NEW j \in returned[c] PROVE r.next <= j
                <5>1. j \in Nat /\ r.next < j
                    BY <1>11, <3>1, Zenon
                <5> QED
                    BY <4>1, <5>1
            <4> QED
                BY <1>7, <1>10, <1>16, <4>2, Zenon
        <3> QED
            BY <1>7, <1>8, <1>10, <1>11, <1>16, <3>2, MaxIdAssumption DEF CursorInv, Ids
    <2>2. CoverInv(c)'
        <3>1. ASSUME NEW i \in Ids, i >= r.next, Always(c, i)' PROVE i \in returned'[c]
            BY <1>7, <1>10, <1>13, <1>16, <3>1
        <3> QED
            BY <1>8, <1>16, <3>1 DEF CoverInv
    <2>3. Complete(c)'
        BY <1>8, <1>16 DEF Complete
    <2>4. Exact(c)'
        <3>1. PICK x \in S : \A j \in r.tasks : x < j
            BY <1>10, <1>16
        <3>2. x \in Ids /\ \A j \in returned'[c] : x < j
            BY <1>6, <1>7, <1>11, <3>1
        <3>3. Matches(log[k], filter[c], x)
            BY <3>1 DEF S, Candidates
        <3>4. r.next # 0
            BY <1>10, <1>16, MaxIdAssumption DEF Ids
        <3>5. page'[c].more /\ page'[c].next # 0 /\ page'[c].from = k /\ log' = log /\ filter' = filter
            BY <1>1, <1>7, <1>16, <3>4, Zenon
        <3>6. \E i \in Ids : /\ Matches(log[k], filter[c], i)
                             /\ \A j \in returned'[c] : i < j
            BY <3>2, <3>3
        <3> QED
            BY <3>5, <3>6, Zenon DEF Exact, Matches
    <2> QED
        BY <1>15, <2>1, <2>2, <2>3, <2>4 DEF ClientInv
<1>17. CASE ~r.more
    <2>1. CursorInv(c)' /\ CoverInv(c)'
        BY <1>8, <1>17 DEF CursorInv, CoverInv, Walking
    <2>2. Complete(c)'
        BY <1>7, <1>9, <1>13, <1>17 DEF Complete
    <2>3. Exact(c)'
        <3>1. ASSUME NEW i \in Ids, Matches(log[k], filter[c], i), \A j \in returned'[c] : i < j
              PROVE  FALSE
            <4>1. CASE i \in S
                <5>1. i \in returned'[c]
                    BY <1>7, <1>9, <1>17, <4>1
                <5>2. ~(i < i)
                    BY <1>11
                <5> QED
                    BY <3>1, <5>1, <5>2
            <4>2. CASE i \notin S
                <5>1. PICK j \in returned[c] : ~(i < j)
                    BY <1>14, <3>1, <4>2
                <5> QED
                    BY <1>7, <3>1, <5>1
            <4> QED
                BY <4>1, <4>2
        <3>2. ~page'[c].more /\ page'[c].next = 0 /\ page'[c].from = k /\ log' = log /\ filter' = filter
            BY <1>1, <1>7, <1>9, <1>17, Zenon
        <3> QED
            BY <3>1, <3>2, Zenon DEF Exact, Matches
    <2> QED
        BY <1>15, <2>1, <2>2, <2>3 DEF ClientInv
<1> QED
    BY <1>9, <1>16, <1>17

LEMMA StepInv == WalkInv /\ [Next]_vars => WalkInv'
<1> SUFFICES ASSUME WalkInv, [Next]_vars PROVE WalkInv'
    OBVIOUS
<1>1. TypeOK /\ TypeOK' /\ \A c \in Clients : ClientInv(c)
    BY TypesKept DEF WalkInv
<1> SUFFICES ASSUME NEW c \in Clients PROVE ClientInv(c)'
    BY <1>1 DEF WalkInv
<1>2. log \in Seq(Tables) /\ Len(log) \in Nat /\ floor \in 1..Len(log)
    BY <1>1 DEF TypeOK
<1>3. ASSUME UNCHANGED <<log, floor>> PROVE LogGrows
    BY <1>2, <1>3 DEF LogGrows
<1>4. CASE Write
    <2>1. LogGrows /\ ClientKept(c)
        BY <1>1, <1>4, Writes DEF clients, ClientKept
    <2> QED
        BY <1>1, <2>1, ClientFrame
<1>5. CASE UNCHANGED vars
    <2>1. LogGrows /\ ClientKept(c)
        BY <1>3, <1>5 DEF vars, ClientKept
    <2> QED
        BY <1>1, <2>1, ClientFrame
<1>6. ASSUME NEW d \in Clients, d # c, Walk(d) PROVE ClientInv(c)'
    <2>1. CASE BeginWalk(d) \/ Ask(d) \/ Fail(d)
        <3>1. LogGrows /\ ClientKept(c)
            BY <1>1, <1>3, <1>6, <2>1 DEF BeginWalk, Ask, Fail, ClientKept, TypeOK
        <3> QED
            BY <1>1, <3>1, ClientFrame
    <2>2. CASE Answer(d)
        <3>1. UNCHANGED <<log, floor, unused, filter, limit, base, begin>>
            BY <1>1, <2>2, Answers
        <3>2. PICK k \in base[d]..Len(log) : \E r : Answered(d, k, r)
            BY <1>1, <2>2, Answers
        <3>3. ClientKept(c)
            BY <1>1, <1>6, <3>1, <3>2 DEF Answered, ClientKept, TypeOK
        <3> QED
            BY <1>1, <1>3, <3>1, <3>3, ClientFrame
    <2> QED
        BY <1>6, <2>1, <2>2 DEF Walk
<1>7. CASE Answer(c)
    BY <1>1, <1>7, AnswerKeeps
<1>8. CASE BeginWalk(c)
    <2>1. /\ state'[c] = "ready" /\ cursor'[c] = 0 /\ returned'[c] = {} /\ begin'[c] = floor
          /\ page' = page /\ floor' = floor /\ log' = log
        BY <1>1, <1>8 DEF BeginWalk, TypeOK
    <2>2. TimesInv(c)'
        BY <1>1, <1>2, <2>1 DEF ClientInv, TimesInv
    <2> QED
        BY <2>1, <2>2 DEF ClientInv, CursorInv, CoverInv, Complete, Exact, Walking
<1>9. CASE Ask(c)
    <2>1. /\ state[c] = "ready" /\ state'[c] = "asking" /\ base'[c] = floor
          /\ UNCHANGED <<log, floor, unused, filter, limit, cursor, begin, page, returned>>
        BY <1>1, <1>9 DEF Ask, TypeOK
    <2>2. ClientInv(c)
        BY <1>1
    <2>3. TimesInv(c)' /\ CursorInv(c)' /\ Complete(c)' /\ Exact(c)'
        BY <2>1, <2>2 DEF ClientInv, TimesInv, CursorInv, Complete, Exact, Walking
    <2>4. CoverInv(c)'
        BY <2>1, <2>2 DEF ClientInv, CoverInv, Always, Matches, Walking
    <2> QED
        BY <2>3, <2>4 DEF ClientInv
<1>10. CASE Fail(c)
    <2>1. /\ state'[c] = "failed"
          /\ UNCHANGED <<log, floor, begin, page>>
        BY <1>1, <1>10 DEF Fail, TypeOK
    <2> QED
        BY <1>1, <2>1 DEF ClientInv, TimesInv, CursorInv, CoverInv, Complete, Exact, Walking
<1> QED
    BY <1>4, <1>5, <1>6, <1>7, <1>8, <1>9, <1>10 DEF Next, Walk

\* The invariant of the walks: a client that is still walking holds the cursor
\* of the last task Service.List gave it, and down to there it lacks nothing
\* that was in the table all along, whichever moments its pages came from.
THEOREM WalkInvariant == Spec => []WalkInv
<1> QED
    BY InitInv, StepInv, PTL DEF Spec

-----------------------------------------------------------------------------
(* The theorems.                                                           *)

\* Pages of Service.List hold at most MaxTaskListLimit tasks, and cursors, times
\* and sets of tasks are what their types say.
THEOREM WalkTypes == Spec => []TypeOK
<1>1. WalkInv => TypeOK
    BY DEF WalkInv
<1> QED
    BY <1>1, WalkInvariant, PTL

\* A walk along next_cursor that reaches its end has been given every task that
\* matched from before it began, for any number of clients, ids and writes.
THEOREM NothingIsMissed == Spec => []WalkMissesNothing
<1>1. WalkInv => WalkMissesNothing
    BY DEF WalkInv, ClientInv, Complete, Always, WalkMissesNothing
<1> QED
    BY <1>1, WalkInvariant, PTL

\* Probing for one task more than the page holds tells has_more exactly, for
\* every limit, the clamped ones included.
THEOREM MoreIsExact == Spec => []HasMoreIsExact
<1>1. WalkInv => HasMoreIsExact
    BY DEF WalkInv, ClientInv, Exact, HasMoreIsExact
<1> QED
    BY <1>1, WalkInvariant, PTL

\* Every page of a walk lies below the pages before it.
THEOREM PagesGoDown == Spec => PagesDescend
<1>1. ASSUME WalkInv, [Next]_vars, NEW c \in Clients,
             state[c] = "asking", state'[c] \in {"ready", "walked"}
      PROVE  \A i \in page'[c].tasks, j \in returned[c] : i < j
    <2>1. TypeOK /\ ClientInv(c)
        BY <1>1 DEF WalkInv
    <2>2. Answer(c)
        <3>1. ~Write /\ ~UNCHANGED vars
            BY <1>1, <2>1, Writes DEF vars, clients
        <3>2. ASSUME NEW d \in Clients, d # c PROVE ~Walk(d)
            <4>1. ~BeginWalk(d) /\ ~Ask(d) /\ ~Fail(d)
                BY <1>1, <2>1, <3>2 DEF BeginWalk, Ask, Fail, TypeOK
            <4>2. \A k, r : Answered(d, k, r) => state'[c] = state[c]
                BY <2>1, <3>2 DEF Answered, TypeOK
            <4>3. ~Answer(d)
                BY <1>1, <2>1, <4>2, Answers, Zenon
            <4> QED
                BY <4>1, <4>3 DEF Walk
        <3>3. ~BeginWalk(c) /\ ~Ask(c) /\ ~Fail(c)
            BY <1>1, <2>1 DEF BeginWalk, Ask, Fail, TypeOK
        <3> QED
            BY <1>1, <3>1, <3>2, <3>3, Zenon DEF Next, Walk
    <2>3. PICK k \in base[c]..Len(log) : \E r : Answered(c, k, r)
        BY <2>1, <2>2, Answers
    <2>4. PICK r : Answered(c, k, r)
        BY <2>3
    <2>5. r.tasks \subseteq Candidates(log[k], filter[c], cursor[c])
        BY <2>4, Zenon DEF Answered, PageOf
    <2>6. page'[c].tasks = r.tasks
        BY <2>1, <2>4 DEF Answered, TypeOK
    <2>7. k \in 1..Len(log)
        BY <2>1, <2>4, AnswerTypes
    <2> QED
        BY <1>1, <2>1, <2>5, <2>6, <2>7, PageIsBelow
<1>2. WalkInv /\ [Next]_vars =>
        [\A c \in Clients :
            state[c] = "asking" /\ state'[c] \in {"ready", "walked"} =>
                \A i \in page'[c].tasks, j \in returned[c] : i < j]_vars
    BY <1>1
<1> QED
    BY <1>2, WalkInvariant, PTL DEF Spec, PagesDescend

=============================================================================
