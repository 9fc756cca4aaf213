------------------------ MODULE StreamDelivery_proof ------------------------
(***************************************************************************)
(* That what the log keeps of a task are its newest rows, for any streams  *)
(* (LogSpec) and for this one, and that the delivery implements EventFeed  *)
(* and serves the sender whole: for every set of tasks and clients, limit, *)
(* batch, check interval, capacity of the hub and number of events.        *)
(***************************************************************************)
EXTENDS StreamDelivery, FiniteSetTheorems, TLAPS

-----------------------------------------------------------------------------
(* The log.                                                                  *)

(* The rows appended for a task carry later and later events, so no two are  *)
(* the same, and none has the seq 0, which is the client's "nothing yet".    *)
Rising ==
  \A t \in Task : \A i \in DOMAIN issued[t] :
    /\ issued[t][i].task = t /\ issued[t][i].seq > 0
    /\ \A j \in DOMAIN issued[t] : i < j => issued[t][i].event < issued[t][j].event

LogInv == LogTypeOK /\ IsFiniteSet(log) /\ Rising /\ KeepsNewest

(* The greatest element of a set of numbers is its Max.                      *)
LEMMA MaxIs ==
  ASSUME NEW S \in SUBSET Nat, NEW m \in S, \A x \in S : x <= m
  PROVE  Max(S) = m
<1>1. \A x \in S : (\A y \in S : x >= y) => x = m
  <2> SUFFICES ASSUME NEW x \in S, \A y \in S : x >= y PROVE x = m
    OBVIOUS
  <2>1. x \in Nat /\ m \in Nat /\ x <= m /\ x >= m
    OBVIOUS
  <2> QED
    BY <2>1
<1>2. \A y \in S : m >= y
  OBVIOUS
<1> QED
  BY <1>1, <1>2 DEF Max

(* A seq to append is one more than the last one appended, as long as the    *)
(* task has a row at all.                                                    *)
LEMMA NextSeqIs ==
  ASSUME LogInv, NEW t \in Task
  PROVE  /\ NextSeq(t) \in Nat \ {0}
         /\ \A i \in DOMAIN issued[t] :
              issued[t][i] \in log => NextSeq(t) = issued[t][i].seq + (Len(issued[t]) + 1 - i)
<1> USE DEF LogInv, LogTypeOK
<1> DEFINE n == Len(issued[t])
<1>0. /\ issued[t] \in Seq(Row) /\ n \in Nat /\ DOMAIN issued[t] = 1 .. n
      /\ \A i \in 1 .. n : /\ issued[t][i] \in Row /\ issued[t][i].seq \in Nat
                          /\ issued[t][i].task = t
  <2>1. issued[t] \in Seq(Row) /\ n \in Nat /\ DOMAIN issued[t] = 1 .. n
    OBVIOUS
  <2>2. \A i \in 1 .. n : issued[t][i] \in Row /\ issued[t][i].task = t
    BY <2>1 DEF Rising
  <2> QED
    BY <2>1, <2>2 DEF Row
<1>a. \A row \in log : row.task = t => row.seq \in Seqs(t)
  BY DEF Seqs, Rows
<1>1. CASE Seqs(t) = {}
  <2>1. \A i \in DOMAIN issued[t] : issued[t][i] \notin log
    BY <1>0, <1>a, <1>1
  <2> QED
    BY <1>1, <2>1 DEF NextSeq, LastSeq
<1>2. CASE Seqs(t) # {}
  <2>1. PICK k \in 1 .. n : issued[t][k] \in log
    BY <1>0, <1>2 DEF Seqs, Rows, KeepsNewest, HasNewest
  <2>2. issued[t][n] \in log /\ n \in 1 .. n
    BY <1>0, <2>1 DEF KeepsNewest, HasNewest
  <2>3. \A i \in 1 .. n : issued[t][i] \in log => issued[t][n].seq = issued[t][i].seq + (n - i)
    <3>1. \A i \in 1 .. n : i < n /\ issued[t][i] \in log
             => issued[t][n].seq = issued[t][i].seq + (n - i)
      BY <1>0, <2>2 DEF KeepsNewest, HasNewest
    <3>2. issued[t][n].seq = issued[t][n].seq + (n - n)
      BY <1>0, <2>2
    <3>3. \A i \in 1 .. n : i < n \/ i = n
      <4>1. \A m \in Nat : \A i \in 1 .. m : i < m \/ i = m
        OBVIOUS
      <4> QED
        BY <1>0, <4>1, Zenon
    <3> QED
      BY <3>1, <3>2, <3>3
  <2>4. Seqs(t) \subseteq Nat
    BY DEF Seqs, Rows, Row
  <2>5. issued[t][n].seq \in Seqs(t)
    BY <2>2 DEF Seqs, Rows, Rising
  <2>6. \A x \in Seqs(t) : x <= issued[t][n].seq
    <3> SUFFICES ASSUME NEW row \in log, row.task = t PROVE row.seq <= issued[t][n].seq
      BY DEF Seqs, Rows
    <3>1. PICK i \in 1 .. n : row = issued[t][i]
      BY <1>0 DEF KeepsNewest, HasNewest
    <3>2. issued[t][n].seq = row.seq + (n - i) /\ row.seq \in Nat
      BY <2>3, <3>1 DEF Row
    <3> QED
      BY <1>0, <3>1, <3>2
  <2>7. NextSeq(t) = issued[t][n].seq + 1
    BY <1>2, <2>4, <2>5, <2>6, MaxIs DEF NextSeq, LastSeq
  <2> QED
    BY <1>0, <2>2, <2>3, <2>7
<1> QED
  BY <1>1, <1>2

(* A cleanup that deletes rows of no greater seq than it leaves keeps the    *)
(* newest.                                                                   *)
LEMMA CleanupKeeps ==
  ASSUME NEW T \in SUBSET Row, NEW appended \in [Task -> Seq(Row)], HasNewest(T, appended),
         NEW D \in Oldest(T)
  PROVE  HasNewest(T \ D, appended)
<1>1. \A a \in D, b \in T \ D : a.seq <= b.seq
  BY DEF Oldest
<1>2. ASSUME NEW t \in Task, NEW i \in DOMAIN appended[t], NEW j \in DOMAIN appended[t],
             i < j, appended[t][i] \in T \ D
      PROVE  appended[t][j] \in T \ D /\ appended[t][j].seq = appended[t][i].seq + (j - i)
  <2>1. appended[t][j] \in T /\ appended[t][j].seq = appended[t][i].seq + (j - i)
    BY <1>2 DEF HasNewest
  <2>2. appended[t][i].seq \in Nat /\ i \in Nat /\ j \in Nat
    BY <1>2 DEF Row
  <2>3. ~(appended[t][j].seq <= appended[t][i].seq)
    BY <1>2, <2>1, <2>2
  <2> QED
    BY <1>1, <1>2, <2>1, <2>3
<1> QED
  BY <1>2 DEF HasNewest

(* Appending a later event keeps the invariant, the size check included.     *)
LEMMA AppendKeeps ==
  ASSUME LogInv, NEW t \in Task, NEW e \in Nat,
         \A i \in DOMAIN issued[t] : issued[t][i].event < e,
         DoAppend(t, e)
  PROVE  LogInv'
<1> USE DEF LogInv, LogTypeOK
<1> DEFINE n == Len(issued[t])
           row == [task |-> t, seq |-> NextSeq(t), event |-> e]
           table == log \cup {row}
<1>1. /\ n \in Nat /\ DOMAIN issued[t] = 1 .. n /\ row \in Row
      /\ row.task = t /\ row.event = e /\ row.seq = NextSeq(t) /\ row.seq > 0
      /\ \A i \in 1 .. n : issued[t][i] \in Row /\ issued[t][i].event < e
  <2>1. issued[t] \in Seq(Row) /\ n \in Nat /\ DOMAIN issued[t] = 1 .. n
    OBVIOUS
  <2>2. \A i \in 1 .. n : issued[t][i] \in Row /\ issued[t][i].event < e
    BY <2>1
  <2>3. NextSeq(t) \in Nat \ {0}
    BY NextSeqIs
  <2> QED
    BY <2>1, <2>2, <2>3 DEF Row
<1>2. /\ issued' = [issued EXCEPT ![t] = Append(@, row)]
      /\ \/ log' = table
         \/ \E D \in Oldest(table) : log' = table \ D
  BY DEF DoAppend, Cleanup
<1>3. /\ issued' \in [Task -> Seq(Row)] /\ DOMAIN issued'[t] = 1 .. n + 1
      /\ issued'[t][n + 1] = row
      /\ \A i \in 1 .. n : issued'[t][i] = issued[t][i]
      /\ \A u \in Task : u # t => issued'[u] = issued[u]
  BY <1>1, <1>2
<1> HIDE DEF row
<1>4. Rising'
  <2> SUFFICES ASSUME NEW u \in Task, NEW i \in DOMAIN issued'[u]
               PROVE  /\ issued'[u][i].task = u /\ issued'[u][i].seq > 0
                      /\ \A j \in DOMAIN issued'[u] : i < j => issued'[u][i].event < issued'[u][j].event
    BY DEF Rising
  <2>1. CASE u # t
    BY <1>3, <2>1 DEF Rising
  <2>2. CASE u = t /\ i \in 1 .. n
    <3>1. issued'[u][i] = issued[t][i] /\ issued[t][i].task = u /\ issued[t][i].seq > 0
      BY <1>1, <1>3, <2>2 DEF Rising
    <3>2. ASSUME NEW j \in 1 .. n, i < j PROVE issued'[u][i].event < issued'[u][j].event
      BY <1>1, <1>3, <2>2, <3>2 DEF Rising
    <3>3. issued'[u][i].event < issued'[u][n + 1].event
      BY <1>1, <1>3, <2>2, <3>1
    <3> QED
      BY <1>1, <1>3, <2>2, <3>1, <3>2, <3>3
  <2>3. CASE u = t /\ i = n + 1
    BY <1>1, <1>3, <2>3
  <2> QED
    BY <1>1, <1>3, <2>1, <2>2, <2>3
<1>5. HasNewest(table, issued')
  <2>1. ASSUME NEW u \in Task, NEW x \in table, x.task = u
        PROVE  \E i \in DOMAIN issued'[u] : x = issued'[u][i]
    <3>1. CASE x = row
      <4>1. u = t /\ n + 1 \in DOMAIN issued'[t]
        BY <1>1, <1>3, <2>1, <3>1
      <4> QED
        BY <1>3, <3>1, <4>1
    <3>2. CASE x \in log
      <4>1. PICK i \in DOMAIN issued[u] : x = issued[u][i]
        BY <2>1, <3>2 DEF KeepsNewest, HasNewest
      <4>2. i \in DOMAIN issued'[u] /\ issued'[u][i] = issued[u][i]
        <5>1. CASE u = t
          BY <1>1, <1>3, <4>1, <5>1
        <5>2. CASE u # t
          BY <1>3, <4>1, <5>2, Zenon
        <5> QED
          BY <5>1, <5>2
      <4> QED
        BY <4>1, <4>2
    <3> QED
      BY <3>1, <3>2
  <2>2. ASSUME NEW u \in Task, NEW i \in DOMAIN issued'[u], NEW j \in DOMAIN issued'[u],
               i < j, issued'[u][i] \in table
        PROVE  issued'[u][j] \in table /\ issued'[u][j].seq = issued'[u][i].seq + (j - i)
    <3>1. CASE u # t
      <4>1. issued'[u] = issued[u] /\ issued[u][i] \in log
        <5>1. issued'[u] = issued[u] /\ i \in DOMAIN issued[u]
          BY <1>3, <2>2, <3>1, Zenon
        <5>2. issued[u][i].task = u
          BY <5>1 DEF Rising
        <5>3. issued[u][i] # row
          BY <1>1, <3>1, <5>2
        <5> QED
          BY <2>2, <5>1, <5>3
      <4> QED
        BY <2>2, <4>1 DEF KeepsNewest, HasNewest
    <3>2. CASE u = t
      <4>1. i \in 1 .. n /\ issued'[t][i] = issued[t][i] /\ issued[t][i] \in log
        <5>1. i \in 1 .. n /\ issued'[t][i] = issued[t][i] /\ issued[t][i].event < e
          BY <1>1, <1>3, <2>2, <3>2 DEF Rising
        <5> QED
          BY <1>1, <2>2, <3>2, <5>1
      <4>2. CASE j = n + 1
        <5>1. issued'[t][j] = row /\ row \in table
          BY <1>3, <4>2
        <5>2. NextSeq(t) = issued[t][i].seq + (n + 1 - i)
          BY <1>1, <4>1, NextSeqIs
        <5> QED
          <6>1. issued'[u][j] = row /\ issued'[u][i] = issued[t][i]
            BY <3>2, <4>1, <5>1, Zenon
          <6>2. n + 1 - i = j - i
            BY <1>1, <4>1, <4>2
          <6>3. row.seq = issued[t][i].seq + (j - i)
            BY <1>1, <5>2, <6>2
          <6> QED
            BY <5>1, <6>1, <6>3, Zenon
      <4>3. CASE j \in 1 .. n
        <5>1. issued[t][j] \in log /\ issued[t][j].seq = issued[t][i].seq + (j - i)
          BY <1>1, <2>2, <4>1, <4>3 DEF KeepsNewest, HasNewest
        <5> QED
          BY <1>3, <3>2, <4>1, <4>3, <5>1
      <4> QED
        BY <1>1, <1>3, <2>2, <3>2, <4>2, <4>3
    <3> QED
      BY <3>1, <3>2
  <2> QED
    BY <2>1, <2>2 DEF HasNewest
<1>6. table \in SUBSET Row
  BY <1>1
<1>7. HasNewest(log', issued') /\ log' \in SUBSET Row
  <2>1. CASE log' = table
    BY <1>5, <1>6, <2>1
  <2>2. ASSUME NEW D \in Oldest(table), log' = table \ D
        PROVE  HasNewest(log', issued') /\ log' \in SUBSET Row
    <3>1. HasNewest(table \ D, issued')
      BY <1>3, <1>5, <1>6, CleanupKeeps
    <3> QED
      BY <1>6, <2>2, <3>1
  <2> QED
    BY <1>2, <2>1, <2>2 DEF row
<1>8. IsFiniteSet(table) /\ IsFiniteSet(log') /\ Cardinality(table) \in Nat
  <2>1. IsFiniteSet(table)
    BY FS_AddElement
  <2>2. log' \subseteq table
    BY <1>2
  <2> QED
    BY <2>1, <2>2, FS_Subset, FS_CardinalityType
<1>9. pages' \in Nat /\ sinceCheck' \in Nat
  <2>1. pages' = Max({pages, Cardinality(table)})
    BY DEF DoAppend, row
  <2>2. Max({pages, Cardinality(table)}) \in Nat
    <3> DEFINE S == {pages, Cardinality(table)}
    <3>1. S \in SUBSET Nat
      BY <1>8
    <3>2. \E m \in S : \A x \in S : x <= m
      <4>1. \A a, b \in Nat : \E m \in {a, b} : \A x \in {a, b} : x <= m
        OBVIOUS
      <4> QED
        BY <1>8, <4>1
    <3>3. PICK m \in S : \A x \in S : x <= m
      BY <3>2
    <3>4. Max(S) = m
      BY <3>1, <3>3, MaxIs
    <3> QED
      BY <3>1, <3>3, <3>4
  <2>3. sinceCheck' \in Nat
    BY DEF DoAppend
  <2> QED
    BY <1>8, <2>1, <2>2, <2>3
<1> QED
  BY <1>3, <1>4, <1>7, <1>8, <1>9 DEF KeepsNewest

(* What an append changes.                                                   *)
LEMMA AppendIs ==
  ASSUME LogInv, NEW t \in Task, NEW e \in Nat, DoAppend(t, e)
  PROVE  LET row == [task |-> t, seq |-> NextSeq(t), event |-> e]
         IN  /\ row \in Row /\ row.seq > 0
             /\ log' \subseteq log \cup {row}
             /\ \A u \in Task \ {t} : issued'[u] = issued[u]
             /\ Len(issued'[t]) = Len(issued[t]) + 1
             /\ issued'[t][Len(issued[t]) + 1] = row
             /\ \A i \in DOMAIN issued[t] : i \in DOMAIN issued'[t] /\ issued'[t][i] = issued[t][i]
<1> DEFINE row == [task |-> t, seq |-> NextSeq(t), event |-> e]
<1>1. row \in Row /\ row.seq > 0
  BY NextSeqIs DEF Row
<1>2. issued' = [issued EXCEPT ![t] = Append(@, row)] /\ log' \subseteq log \cup {row}
  BY DEF DoAppend, Cleanup
<1> QED
  BY <1>1, <1>2 DEF LogInv, LogTypeOK

(* A task to which nothing but its n-th event is appended as the n-th row.   *)
Counted(T) == \A t \in T : \A i \in DOMAIN issued[t] : issued[t][i].event <= i

(* Such a task stays one when an event is appended to it.                    *)
LEMMA CountedKeeps ==
  ASSUME LogInv, NEW T \in SUBSET Task, Counted(T), NEW t \in T, DoAppend(t, Len(issued[t]) + 1)
  PROVE  LogInv' /\ Counted(T)'
<1> DEFINE n == Len(issued[t])
<1>1. issued \in [Task -> Seq(Row)] /\ t \in Task /\ n \in Nat /\ DOMAIN issued[t] = 1 .. n
  BY DEF LogInv, LogTypeOK
<1>2. \A i \in 1 .. n : issued[t][i].event \in Nat /\ issued[t][i].event < n + 1
  <2> SUFFICES ASSUME NEW i \in 1 .. n
               PROVE  issued[t][i].event \in Nat /\ issued[t][i].event < n + 1
    OBVIOUS
  <2>1. issued[t][i] \in Row
    BY <1>1
  <2>2. issued[t][i].event <= i /\ i \in Nat /\ i <= n
    BY <1>1 DEF Counted
  <2> QED
    BY <1>1, <2>1, <2>2 DEF Row
<1>3. LogInv'
  BY <1>1, <1>2, AppendKeeps
<1>4. /\ \A u \in Task \ {t} : issued'[u] = issued[u]
      /\ Len(issued'[t]) = n + 1 /\ issued'[t][n + 1].event = n + 1
      /\ \A i \in DOMAIN issued[t] : issued'[t][i] = issued[t][i]
  <2> DEFINE row == [task |-> t, seq |-> NextSeq(t), event |-> n + 1]
  <2>1. n + 1 \in Nat
    BY <1>1
  <2>2. /\ \A u \in Task \ {t} : issued'[u] = issued[u]
        /\ Len(issued'[t]) = n + 1 /\ issued'[t][n + 1] = row
        /\ \A i \in DOMAIN issued[t] : issued'[t][i] = issued[t][i]
    BY <1>1, <2>1, AppendIs, Zenon
  <2> QED
    BY <2>2
<1>5. DOMAIN issued'[t] = 1 .. n + 1
  BY <1>1, <1>3, <1>4 DEF LogInv, LogTypeOK
<1>6. ASSUME NEW i \in 1 .. n + 1 PROVE issued'[t][i].event <= i
  <2>1. CASE i = n + 1
    BY <1>1, <1>4, <2>1
  <2>2. CASE i # n + 1
    BY <1>1, <1>4, <2>2 DEF Counted
  <2> QED
    BY <2>1, <2>2
<1>7. Counted(T)'
  BY <1>4, <1>5, <1>6 DEF Counted
<1> QED
  BY <1>3, <1>7

(* The empty log.                                                            *)
LEMMA LogInvInit == LogInit => LogInv /\ \A t \in Task : issued[t] = <<>>
<1> SUFFICES ASSUME LogInit PROVE LogInv /\ \A t \in Task : issued[t] = <<>>
  OBVIOUS
<1>1. log = {} /\ pages = 0 /\ sinceCheck = 0 /\ issued = [t \in Task |-> <<>>]
  BY DEF LogInit
<1>2. IsFiniteSet(log) /\ issued \in [Task -> Seq(Row)]
  BY <1>1, FS_EmptySet
<1>3. \A t \in Task : issued[t] = <<>> /\ DOMAIN issued[t] = {}
  BY <1>1
<1> QED
  BY <1>1, <1>2, <1>3 DEF LogInv, LogTypeOK, Rising, KeepsNewest, HasNewest

(* The invariant of the log for any streams.                                 *)
LEMMA LogInvHolds == LogSpec => [](LogInv /\ Counted(Task))
<1>1. LogInit => LogInv /\ Counted(Task)
  BY LogInvInit DEF Counted
<1>2. LogInv /\ Counted(Task) /\ [LogNext]_logVars => (LogInv /\ Counted(Task))'
  <2> SUFFICES ASSUME LogInv, Counted(Task), [LogNext]_logVars PROVE (LogInv /\ Counted(Task))'
    OBVIOUS
  <2>1. ASSUME NEW t \in Task, DoAppend(t, Len(issued[t]) + 1) PROVE (LogInv /\ Counted(Task))'
    BY <2>1, CountedKeeps
  <2>2. CASE Reopen
    BY <2>2 DEF Reopen, LogInv, LogTypeOK, Rising, KeepsNewest, Counted
  <2>3. CASE UNCHANGED logVars
    BY <2>3 DEF logVars, LogInv, LogTypeOK, Rising, KeepsNewest, Counted
  <2> QED
    BY <2>1, <2>2, <2>3 DEF LogNext
<1> QED
  BY <1>1, <1>2, PTL DEF LogSpec

(* KeepsNewest whatever streams use the log: a replay never has a hole,      *)
(* whatever is cleaned up in whatever order.                                 *)
THEOREM LogKeepsNewest == LogSpec => []KeepsNewest
BY LogInvHolds, PTL DEF LogInv

(* Of two rows appended for the task, one of them still in the log, the one  *)
(* with the greater seq is the later event.                                  *)
LEMMA LaterRow ==
  ASSUME LogInv, NEW k \in DOMAIN issued[Streamed], NEW row \in Rows(Streamed),
         row.seq > issued[Streamed][k].seq
  PROVE  row.event > issued[Streamed][k].event
<1> DEFINE S == issued[Streamed]
<1>1. Streamed \in Task /\ S \in Seq(Row)
  BY StreamDeliveryAssumption DEF LogInv, LogTypeOK
<1>2. PICK j \in DOMAIN S : row = S[j]
  BY <1>1 DEF LogInv, KeepsNewest, HasNewest, Rows
<1>3. /\ S[j] \in log /\ S[j] \in Row /\ S[k] \in Row /\ j \in Nat /\ k \in Nat
      /\ S[j].seq > S[k].seq
  BY <1>1, <1>2 DEF Rows
<1>4. ~(j < k)
  <2>1. j < k => S[k].seq = S[j].seq + (k - j)
    BY <1>1, <1>3 DEF LogInv, KeepsNewest, HasNewest
  <2> QED
    BY <1>3, <2>1 DEF Row
<1>5. j # k
  BY <1>3 DEF Row
<1>6. k < j
  BY <1>3, <1>4, <1>5
<1>7. S[k].event < S[j].event
  BY <1>1, <1>6 DEF LogInv, Rising
<1> QED
  BY <1>2, <1>3, <1>7 DEF Row

(* An interval that is not below its own start has its length in elements.   *)
LEMMA IntervalSize ==
  ASSUME NEW a \in Int, NEW b \in Int, a <= b + 1
  PROVE  IsFiniteSet(a .. b) /\ Cardinality(a .. b) = b - a + 1
<1>1. IsFiniteSet(a .. b) /\ Cardinality(a .. b) = IF a > b THEN 0 ELSE b - a + 1
  BY FS_Interval
<1> QED
  BY <1>1

(* A function whose values differ and exhaust its codomain is a bijection.   *)
LEMMA BijectionByCases ==
  ASSUME NEW D, NEW T, NEW f \in [D -> T],
         \A a, b \in D : a # b => f[a] # f[b],
         \A t \in T : \E d \in D : f[d] = t
  PROVE  f \in Bijection(D, T)
<1>1. IsInjective(f)
  BY DEF IsInjective
<1> QED
  BY <1>1 DEF Bijection, Injection, Surjection

(* The rows of the task above a seq are the last ones of it, so for each i   *)
(* up to their number there is the one that has i - 1 before it.             *)
LEMMA RankExists ==
  ASSUME LogInv, NEW after \in Nat,
         NEW R, R = {row \in Rows(Streamed) : row.seq > after},
         NEW i \in 1 .. Cardinality(R)
  PROVE  \E row \in R : Cardinality({r \in R : r.seq < row.seq}) = i - 1
<1> DEFINE S == issued[Streamed]
           n == Len(S)
           A == {k \in 1 .. n : S[k] \in R}
           s == Cardinality(R)
           k == n - s + i
           B == {r \in R : r.seq < S[k].seq}
           C == {j \in A : j < k}
<1>1. /\ Streamed \in Task /\ S \in Seq(Row) /\ n \in Nat /\ DOMAIN S = 1 .. n
      /\ \A j \in 1 .. n : S[j] \in Row /\ S[j].seq \in Nat /\ S[j].event \in Nat
  <2>1. Streamed \in Task /\ S \in Seq(Row) /\ n \in Nat /\ DOMAIN S = 1 .. n
    BY StreamDeliveryAssumption DEF LogInv, LogTypeOK
  <2>2. \A j \in 1 .. n : S[j] \in Row
    BY <2>1
  <2> QED
    BY <2>1, <2>2 DEF Row
<1>2. /\ \A r \in R : r \in log /\ r.task = Streamed /\ r.seq > after
      /\ \A r \in log : r.task = Streamed /\ r.seq > after => r \in R
  BY DEF Rows
<1>3. \A r \in R : \E j \in A : r = S[j]
  BY <1>1, <1>2 DEF LogInv, KeepsNewest, HasNewest
<1>4. \A a, b \in 1 .. n : a # b => S[a] # S[b]
  <2> SUFFICES ASSUME NEW a \in 1 .. n, NEW b \in 1 .. n, a < b PROVE S[a] # S[b]
    BY <1>1
  <2>1. S[a].event < S[b].event
    BY <1>1 DEF LogInv, Rising
  <2> QED
    BY <1>1, <2>1
<1>5. \A a \in A, b \in 1 .. n : a < b => b \in A /\ S[a].seq < S[b].seq
  <2> SUFFICES ASSUME NEW a \in A, NEW b \in 1 .. n, a < b
               PROVE  b \in A /\ S[a].seq < S[b].seq
    OBVIOUS
  <2>1. S[b] \in log /\ S[b].seq = S[a].seq + (b - a) /\ S[b].task = Streamed
    BY <1>1, <1>2 DEF LogInv, KeepsNewest, HasNewest, Rising
  <2>2. S[a].seq > after /\ a \in Nat /\ b \in Nat
    BY <1>1, <1>2
  <2>3. S[b].seq > after /\ S[a].seq < S[b].seq
    BY <1>1, <2>1, <2>2
  <2> QED
    BY <1>2, <2>1, <2>3
<1>6. IsFiniteSet(A) /\ Cardinality(A) = s /\ s \in Nat
  <2>1. IsFiniteSet(A)
    <3>1. IsFiniteSet(1 .. n) /\ A \in SUBSET (1 .. n)
      BY <1>1, FS_Interval
    <3> QED
      BY <3>1, FS_Subset
  <2>2. [j \in A |-> S[j]] \in Bijection(A, R)
    <3> DEFINE f == [j \in A |-> S[j]]
    <3>1. f \in [A -> R] /\ \A j \in A : f[j] = S[j]
      OBVIOUS
    <3>2. \A a, b \in A : a # b => f[a] # f[b]
      BY <1>4
    <3>3. \A r \in R : \E j \in A : f[j] = r
      BY <1>3
    <3> QED
      BY <3>1, <3>2, <3>3, BijectionByCases
  <2> QED
    BY <2>1, <2>2, FS_Bijection, FS_CardinalityType DEF ExistsBijection
<1>7. s <= n
  <2>1. A \in SUBSET (1 .. n)
    OBVIOUS
  <2>2. IsFiniteSet(1 .. n) /\ Cardinality(1 .. n) = n
    <3>1. 1 \in Int /\ n \in Int /\ 1 <= n + 1 /\ n - 1 + 1 = n
      BY <1>1
    <3> QED
      BY <3>1, IntervalSize
  <2> QED
    BY <1>6, <2>1, <2>2, FS_Subset
<1>8. \A j \in n - s + 1 .. n : j \in A
  <2> SUFFICES ASSUME NEW j \in n - s + 1 .. n, j \notin A PROVE FALSE
    OBVIOUS
  <2>0. j \in 1 .. n /\ j >= n - s + 1
    BY <1>1, <1>6, <1>7
  <2>1. A \in SUBSET (j + 1 .. n)
    BY <1>1, <1>5, <2>0
  <2>2. IsFiniteSet(j + 1 .. n) /\ Cardinality(j + 1 .. n) = n - j
    <3>1. j + 1 \in Int /\ n \in Int /\ j + 1 <= n + 1 /\ n - (j + 1) + 1 = n - j
      BY <1>1, <2>0
    <3> QED
      BY <3>1, IntervalSize
  <2>3. s <= n - j
    BY <1>6, <2>1, <2>2, FS_Subset
  <2> QED
    BY <1>1, <1>6, <2>0, <2>3
<1>9. \A j \in A : j >= n - s + 1
  <2> SUFFICES ASSUME NEW j \in A, ~(j >= n - s + 1) PROVE FALSE
    OBVIOUS
  <2>1. (j .. n) \in SUBSET A
    <3> SUFFICES ASSUME NEW b \in j .. n PROVE b \in A
      OBVIOUS
    <3>1. b = j \/ (b \in 1 .. n /\ j < b)
      BY <1>1
    <3> QED
      BY <1>5, <3>1
  <2>2. IsFiniteSet(j .. n) /\ Cardinality(j .. n) = n - j + 1
    <3>1. j \in Int /\ n \in Int /\ j <= n + 1
      BY <1>1
    <3> QED
      BY <3>1, IntervalSize
  <2>3. n - j + 1 <= s
    <3>1. Cardinality(j .. n) <= Cardinality(A)
      BY <1>6, <2>1, FS_Subset, Zenon
    <3> QED
      BY <1>6, <2>2, <3>1
  <2> QED
    BY <1>1, <1>6, <2>3
<1>10. k \in n - s + 1 .. n /\ k \in A /\ k \in 1 .. n
  <2>1. n \in Nat /\ s \in Nat /\ s <= n
    BY <1>1, <1>6, <1>7
  <2>2. k \in n - s + 1 .. n /\ k \in 1 .. n
    BY <2>1
  <2> QED
    BY <1>8, <2>2
<1>11. C = n - s + 1 .. k - 1
  <2>1. ASSUME NEW j \in C PROVE j \in n - s + 1 .. k - 1
    BY <1>1, <1>6, <1>9, <1>10
  <2>2. ASSUME NEW j \in n - s + 1 .. k - 1 PROVE j \in C
    <3>1. j \in n - s + 1 .. n /\ j < k
      <4>1. n \in Nat /\ s \in Nat /\ k \in Int /\ k <= n
        BY <1>1, <1>6, <1>10
      <4> QED
        BY <4>1
    <3> QED
      BY <1>8, <3>1
  <2> QED
    BY <2>1, <2>2
<1>12. IsFiniteSet(C) /\ Cardinality(C) = i - 1
  <2>1. /\ n - s + 1 \in Int /\ k - 1 \in Int
        /\ k - 1 - (n - s + 1) + 1 = i - 1
        /\ n - s + 1 > k - 1 => i - 1 = 0
    BY <1>1, <1>6, <1>7
  <2>2. /\ IsFiniteSet(n - s + 1 .. k - 1)
        /\ Cardinality(n - s + 1 .. k - 1) = i - 1
    BY <2>1, FS_Interval
  <2> QED
    BY <1>11, <2>2
<1>13. [j \in C |-> S[j]] \in Bijection(C, B)
  <2>1. \A j \in C : S[j] \in B
    BY <1>5, <1>10
  <2>2. ASSUME NEW r \in B PROVE \E j \in C : r = S[j]
    <3>1. PICK j \in A : r = S[j]
      BY <1>3
    <3>2. S[j].seq \in Nat /\ S[k].seq \in Nat /\ S[j].seq < S[k].seq
      BY <1>1, <1>10, <3>1
    <3>3. ~(k < j)
      <4>1. k < j => S[k].seq < S[j].seq
        BY <1>5, <1>10, <3>1
      <4> QED
        BY <3>2, <4>1
    <3>4. j # k
      BY <3>2
    <3>5. j \in Nat /\ k \in Nat
      BY <1>1, <1>10, <3>1
    <3>6. j < k
      BY <3>3, <3>4, <3>5
    <3> QED
      BY <3>1, <3>6
  <2> DEFINE f == [j \in C |-> S[j]]
  <2>3. f \in [C -> B] /\ \A j \in C : f[j] = S[j] /\ j \in 1 .. n
    BY <2>1
  <2>4. \A a, b \in C : a # b => f[a] # f[b]
    BY <1>4, <2>3
  <2>5. \A r \in B : \E j \in C : f[j] = r
    BY <2>2, <2>3
  <2> HIDE DEF f, B, C
  <2> QED
    BY <2>3, <2>4, <2>5 DEF Bijection, Injection, Surjection, IsInjective
<1>14. Cardinality(B) = i - 1
  BY <1>12, <1>13, FS_Bijection DEF ExistsBijection
<1> QED
  BY <1>10, <1>14

(* A replay is made of rows of the task above the seq asked for, in the      *)
(* order of their seqs.                                                      *)
LEMMA ReplayIs ==
  ASSUME LogInv, NEW after \in Nat
  PROVE  /\ Replay(after) \in Seq(Item)
         /\ \A k \in DOMAIN Replay(after) :
              /\ Replay(after)[k].seq > after
              /\ \E row \in Rows(Streamed) : Replay(after)[k] = AsItem(row)
         /\ \A j, k \in DOMAIN Replay(after) :
              j < k => Replay(after)[j].seq < Replay(after)[k].seq
<1> DEFINE R == {row \in Rows(Streamed) : row.seq > after}
           Before(row) == {r \in R : r.seq < row.seq}
           m == Min({HistoryLimit, Cardinality(R)})
           At(k) == CHOOSE row \in R : Cardinality(Before(row)) = k - 1
<1>1. IsFiniteSet(R) /\ Cardinality(R) \in Nat
  <2>1. IsFiniteSet(log) /\ R \in SUBSET log
    BY DEF LogInv, Rows
  <2> QED
    BY <2>1, FS_Subset, FS_CardinalityType
<1>2. m \in Nat /\ m <= Cardinality(R)
  <2>1. \A a, b \in Nat : Min({a, b}) \in Nat /\ Min({a, b}) <= b
    <3> SUFFICES ASSUME NEW a \in Nat, NEW b \in Nat
                 PROVE  Min({a, b}) \in Nat /\ Min({a, b}) <= b
      OBVIOUS
    <3>1. \E x \in {a, b} : \A y \in {a, b} : x <= y
      OBVIOUS
    <3>2. Min({a, b}) \in {a, b} /\ \A y \in {a, b} : Min({a, b}) <= y
      BY <3>1 DEF Min
    <3> QED
      BY <3>2
  <2> QED
    BY <1>1, <2>1, StreamDeliveryAssumption
<1>3. ASSUME NEW k \in 1 .. m
      PROVE  At(k) \in R /\ Cardinality(Before(At(k))) = k - 1
  <2>1. k \in 1 .. Cardinality(R)
    BY <1>1, <1>2
  <2>2. \E row \in R : Cardinality(Before(row)) = k - 1
    BY <2>1, RankExists
  <2> QED
    BY <2>2
<1>4. Replay(after) = [k \in 1 .. m |-> AsItem(At(k))]
  <2>1. EventsAfter(Streamed, after, HistoryLimit) = [k \in 1 .. m |-> At(k)]
    BY DEF EventsAfter
  <2> QED
    BY <2>1 DEF Replay
<1>5. \A r \in R : /\ r \in Rows(Streamed) /\ r \in Row /\ r.seq \in Nat /\ r.seq > after
                   /\ AsItem(r) \in Item /\ AsItem(r).seq = r.seq
  <2>1. R \subseteq Row
    BY DEF LogInv, LogTypeOK, Rows
  <2> QED
    BY <2>1 DEF Row, Item, AsItem
<1>6. ASSUME NEW j \in 1 .. m, NEW k \in 1 .. m, j < k PROVE At(j).seq < At(k).seq
  <2> SUFFICES ASSUME ~(At(j).seq < At(k).seq) PROVE FALSE
    OBVIOUS
  <2>0. At(j) \in R /\ At(k) \in R
    BY <1>3
  <2>1. Before(At(k)) \in SUBSET Before(At(j))
    <3> HIDE DEF R, At
    <3>1. /\ \A r \in R : r.seq \in Nat
          /\ At(j).seq \in Nat /\ At(k).seq \in Nat /\ At(k).seq <= At(j).seq
      BY <1>5, <2>0
    <3> QED
      BY <3>1
  <2>2. IsFiniteSet(Before(At(j)))
    <3>1. Before(At(j)) \in SUBSET R
      OBVIOUS
    <3> QED
      BY <1>1, <3>1, FS_Subset, Zenon
  <2>3. Cardinality(Before(At(k))) <= Cardinality(Before(At(j)))
    BY <2>1, <2>2, FS_Subset, Zenon
  <2> HIDE DEF At, Before, R, m
  <2>4. k - 1 <= j - 1
    BY <1>3, <2>3
  <2> QED
    BY <1>2, <1>6, <2>4
<1> HIDE DEF At, m, R
<1>7. \A k \in 1 .. m : /\ Replay(after)[k] = AsItem(At(k)) /\ AsItem(At(k)) \in Item
                        /\ AsItem(At(k)).seq = At(k).seq /\ At(k).seq > after
                        /\ At(k) \in Rows(Streamed)
  BY <1>3, <1>4, <1>5
<1>8. DOMAIN Replay(after) = 1 .. m /\ Replay(after) \in Seq(Item)
  BY <1>2, <1>4, <1>7
<1> QED
  BY <1>6, <1>7, <1>8

-----------------------------------------------------------------------------
(* The inductive invariant of the delivery.                                  *)

(* What the ids on the wire and in the channel stand for.                    *)
Logged(i) == \E k \in DOMAIN issued[Streamed] : i = AsItem(issued[Streamed][k])

Unlogged(i) == i.seq = 0 /\ \A k \in DOMAIN issued[Streamed] : issued[Streamed][k].event # i.event

Published == IF relay = "publish" THEN relayed - 1 ELSE relayed

Delivered == IF relay \in {"publish", "deliver"} THEN relayed - 1 ELSE relayed

(* The log: the event of a row has been taken by the relay.                  *)
TakenInv ==
  /\ \A k \in DOMAIN issued[Streamed] : issued[Streamed][k].event <= relayed
  /\ Counted(Task \ {Streamed})

(* The item in the relay's hands is the last event it has taken.             *)
ItemInv ==
  /\ relay \in {"publish", "deliver"} =>
       item.event = relayed /\ relayed > 0 /\ (Logged(item) \/ Unlogged(item))
  /\ relay = "publish" => Logged(item)

(* What was published: rows, in the order of their events.                   *)
ChannelInv ==
  /\ Len(channel) <= Published
  /\ \A k \in DOMAIN channel : Logged(channel[k]) /\ channel[k].event <= Published
  /\ \A j, k \in DOMAIN channel : j < k => channel[j].event < channel[k].event

(* What the sender has received and is on its way to it: event after event.  *)
WireInv ==
  /\ \A c \in Client : conn[c] = "direct" => c = Sender
  /\ conn[Sender] # "direct" => wire = <<>>
  /\ \A k \in DOMAIN wire : Logged(wire[k]) \/ Unlogged(wire[k])
  /\ conn[Sender] = "direct" =>
       /\ Len(received[Sender]) + Len(wire) = Delivered
       /\ \A k \in DOMAIN received[Sender] : received[Sender][k].event = k
       /\ \A k \in DOMAIN wire : wire[k].event = Len(received[Sender]) + k

(* The last event a client has received, with or without an id.              *)
NewestOf(c) == IF received[c] = <<>> THEN 0 ELSE received[c][Len(received[c])].event

(* The client's last id hides no event from it that it has not passed, nor   *)
(* shows it one that it has.                                                 *)
Ahead(c, i) == i.seq > LastId(c) => i.event > NewestOf(c)

Ids(c) == {k \in DOMAIN received[c] : received[c][k].seq > 0}

ClientInv(c) ==
  /\ Ids(c) # {} => \E m \in Ids(c) : \A k \in Ids(c) : k <= m
  /\ NewestOf(c) <= relayed
  /\ \A row \in Rows(Streamed) : Ahead(c, row)
  /\ relay = "publish" => Ahead(c, item)

QueueInv(c) ==
  /\ conn[c] # "resub" => queue[c] = <<>> /\ rx[c] = NotSubscribed
  /\ conn[c] = "resub" /\ queue[c] = <<>> => lastSeq[c] = LastId(c)
  /\ \A k \in DOMAIN queue[c] : Logged(queue[c][k]) /\ queue[c][k].event > NewestOf(c)
  /\ \A j, k \in DOMAIN queue[c] : j < k => queue[c][j].event < queue[c][k].event
  /\ rx[c] # NotSubscribed =>
       /\ queue[c] = <<>> /\ rx[c] <= Len(channel)
       /\ \A k \in DOMAIN channel : k > rx[c] => Ahead(c, channel[k])

DeliveryInv ==
  /\ TypeOK /\ LogInv
  /\ TakenInv /\ ItemInv /\ ChannelInv /\ WireInv
  /\ \A c \in Client : ClientInv(c) /\ QueueInv(c)

-----------------------------------------------------------------------------
(* What a logged item is.                                                    *)
LEMMA LoggedIs ==
  ASSUME DeliveryInv, NEW i, Logged(i)
  PROVE  i \in Item /\ i.seq > 0 /\ i.event <= relayed
<1>1. PICK k \in DOMAIN issued[Streamed] : i = AsItem(issued[Streamed][k])
  BY DEF Logged
<1>2. Streamed \in Task /\ issued[Streamed][k] \in Row
  BY StreamDeliveryAssumption DEF DeliveryInv, LogInv, LogTypeOK
<1>3. issued[Streamed][k].seq > 0 /\ issued[Streamed][k].event <= relayed
  BY <1>2 DEF DeliveryInv, LogInv, Rising, TakenInv
<1> QED
  BY <1>1, <1>2, <1>3 DEF AsItem, Item, Row

(* ... a row of the log as it is replayed.                                   *)
LEMMA RowsLogged ==
  ASSUME DeliveryInv, NEW row \in Rows(Streamed)
  PROVE  row \in Row /\ Logged(AsItem(row)) /\ AsItem(row).seq = row.seq /\ AsItem(row).event = row.event
<1>1. row \in Row /\ \E k \in DOMAIN issued[Streamed] : row = issued[Streamed][k]
  BY StreamDeliveryAssumption DEF DeliveryInv, LogInv, LogTypeOK, KeepsNewest, HasNewest, Rows
<1> QED
  BY <1>1 DEF Logged, AsItem

(* Of a logged item and a row, the one with the greater seq is later.        *)
LEMMA LaterThanLogged ==
  ASSUME DeliveryInv, NEW i, Logged(i), NEW row \in Rows(Streamed), row.seq > i.seq
  PROVE  row.event > i.event
<1>1. PICK k \in DOMAIN issued[Streamed] : i = AsItem(issued[Streamed][k])
  BY DEF Logged
<1>2. i.seq = issued[Streamed][k].seq /\ i.event = issued[Streamed][k].event
  BY <1>1 DEF AsItem
<1> QED
  BY <1>2, LaterRow DEF DeliveryInv

(* One event, one item.                                                      *)
LEMMA LoggedOnce ==
  ASSUME DeliveryInv, NEW i, NEW j, Logged(i), Logged(j), i.event = j.event
  PROVE  i = j
<1> DEFINE S == issued[Streamed]
<1>1. PICK a \in DOMAIN S, b \in DOMAIN S : i = AsItem(S[a]) /\ j = AsItem(S[b])
  BY DEF Logged
<1>2. S[a].event = S[b].event
  BY <1>1 DEF AsItem
<1>3. Streamed \in Task /\ S \in Seq(Row) /\ S[a] \in Row /\ S[b] \in Row /\ a \in Nat /\ b \in Nat
  BY StreamDeliveryAssumption DEF DeliveryInv, LogInv, LogTypeOK
<1>4. ~(a < b) /\ ~(b < a)
  <2>1. S[a].event \in Nat /\ S[b].event \in Nat
    BY <1>3 DEF Row
  <2>2. (a < b => S[a].event < S[b].event) /\ (b < a => S[b].event < S[a].event)
    BY <1>3 DEF DeliveryInv, LogInv, Rising
  <2> QED
    BY <1>2, <2>1, <2>2
<1> QED
  BY <1>1, <1>3, <1>4

(* What a client has seen is a number, its last id that of the newest item   *)
(* that has one.                                                             *)
LEMMA SeenType ==
  ASSUME DeliveryInv, NEW c \in Client
  PROVE  LastId(c) \in Nat /\ NewestOf(c) \in Nat
<1>1. received[c] \in Seq(Item) /\ \A k \in DOMAIN received[c] : received[c][k] \in Item
  BY DEF DeliveryInv, TypeOK
<1>2. NewestOf(c) \in Nat
  BY <1>1 DEF NewestOf, Item
<1>3. Ids(c) # {} => Max(Ids(c)) \in Ids(c)
  <2> SUFFICES ASSUME NEW m \in Ids(c), \A k \in Ids(c) : k <= m PROVE Max(Ids(c)) \in Ids(c)
    BY DEF DeliveryInv, ClientInv
  <2>1. Ids(c) \in SUBSET Nat
    BY <1>1 DEF Ids
  <2> QED
    BY <2>1, MaxIs
<1>4. LastId(c) = IF Ids(c) = {} THEN 0 ELSE received[c][Max(Ids(c))].seq
  BY DEF LastId, Ids
<1>5. Ids(c) \subseteq DOMAIN received[c]
  BY DEF Ids
<1> QED
  BY <1>1, <1>2, <1>3, <1>4, <1>5 DEF Item

(* What a client has seen stays when it receives nothing,                    *)
LEMMA SeenSame ==
  ASSUME NEW c \in Client, received'[c] = received[c]
  PROVE  LastId(c)' = LastId(c) /\ NewestOf(c)' = NewestOf(c) /\ Ids(c)' = Ids(c)
BY DEF LastId, NewestOf, Ids

(* ... and is the item it receives otherwise.                                *)
LEMMA SeenMore ==
  ASSUME DeliveryInv, NEW c \in Client, NEW i \in Item, Receive(c, i)
  PROVE  /\ received' \in [Client -> Seq(Item)]
         /\ received'[c] = Append(received[c], i)
         /\ \A d \in Client \ {c} : received'[d] = received[d]
         /\ NewestOf(c)' = i.event
         /\ LastId(c)' = IF i.seq > 0 THEN i.seq ELSE LastId(c)
         /\ Ids(c)' # {} => \E m \in Ids(c)' : \A k \in Ids(c)' : k <= m
<1> DEFINE n == Len(received[c])
<1>1. /\ received \in [Client -> Seq(Item)] /\ received[c] \in Seq(Item)
      /\ n \in Nat /\ DOMAIN received[c] = 1 .. n
  BY DEF DeliveryInv, TypeOK
<1>2. received' = [received EXCEPT ![c] = Append(@, i)]
  BY DEF Receive
<1>3. /\ received' \in [Client -> Seq(Item)]
      /\ received'[c] = Append(received[c], i)
      /\ \A d \in Client \ {c} : received'[d] = received[d]
  BY <1>1, <1>2
<1>4. /\ Len(received'[c]) = n + 1 /\ DOMAIN received'[c] = 1 .. n + 1
      /\ received'[c][n + 1] = i /\ received'[c] # <<>>
      /\ \A k \in 1 .. n : received'[c][k] = received[c][k]
  BY <1>1, <1>3
<1>5. NewestOf(c)' = i.event
  BY <1>4 DEF NewestOf
<1>6. i.seq \in Nat
  BY DEF Item
<1>7. LastId(c)' = IF Ids(c)' = {} THEN 0 ELSE received'[c][Max(Ids(c)')].seq
  BY DEF LastId, Ids
<1>8. CASE i.seq > 0
  <2>1. Ids(c)' = Ids(c) \cup {n + 1} /\ Ids(c) \subseteq 1 .. n
    BY <1>1, <1>4, <1>8 DEF Ids
  <2>2. /\ Ids(c)' \in SUBSET Nat /\ n + 1 \in Ids(c)'
        /\ \A k \in Ids(c)' : k <= n + 1
    BY <1>1, <2>1
  <2>3. Max(Ids(c)') = n + 1
    BY <2>2, MaxIs
  <2> QED
    BY <1>3, <1>4, <1>5, <1>7, <1>8, <2>2, <2>3
<1>9. CASE ~(i.seq > 0)
  <2>1. Ids(c)' = Ids(c) /\ Ids(c) \subseteq 1 .. n
    BY <1>1, <1>4, <1>9 DEF Ids
  <2>2. Ids(c) # {} => \E m \in Ids(c) : \A k \in Ids(c) : k <= m
    BY DEF DeliveryInv, ClientInv
  <2>3. Ids(c) # {} => Max(Ids(c)) \in 1 .. n
    <3> SUFFICES ASSUME NEW m \in Ids(c), \A k \in Ids(c) : k <= m PROVE Max(Ids(c)) \in 1 .. n
      BY <2>2
    <3>1. Ids(c) \in SUBSET Nat
      BY <1>1, <2>1
    <3>2. Max(Ids(c)) = m
      BY <3>1, MaxIs
    <3> QED
      BY <2>1, <3>2
  <2>4. LastId(c) = IF Ids(c) = {} THEN 0 ELSE received[c][Max(Ids(c))].seq
    BY DEF LastId, Ids
  <2>5. LastId(c)' = LastId(c)
    BY <1>4, <1>7, <2>1, <2>3, <2>4
  <2> QED
    BY <1>3, <1>5, <1>9, <2>1, <2>2, <2>5
<1> QED
  BY <1>8, <1>9

-----------------------------------------------------------------------------
(* The steps that do not append to the log ...                               *)
LogKept ==
  /\ UNCHANGED <<log, pages, issued>> /\ sinceCheck' \in {0, sinceCheck}
  /\ \/ relayed' = relayed
     \/ PersistFails

(* Every other step keeps the log.                                           *)
LEMMA Steps ==
  ASSUME [Next]_vars
  PROVE  Persist \/ OtherTask \/ LogKept
<1> USE DEF LogKept, logVars, relayVars, readerVars
<1>1. CASE Produce \/ EndStream \/ Publish \/ Deliver \/ Close \/ PersistFails
  BY <1>1 DEF Produce, EndStream, Publish, Deliver, Close, PersistFails
<1>2. ASSUME NEW c \in Client, ReadDirect(c) \/ DirectEnds(c) \/ Disconnect(c) \/ Resubscribe(c) PROVE LogKept
  BY <1>2 DEF ReadDirect, DirectEnds, Disconnect, Resubscribe
<1>3. ASSUME NEW c \in Client, Serve(c) PROVE LogKept
  BY <1>3 DEF Serve, ServeHistory, Subscribe, NoLiveTail, ServeLive, CatchUp, CatchUpFails, TailEnds
<1>4. CASE Restart
  BY <1>4 DEF Restart, Reopen
<1>5. CASE UNCHANGED vars
  BY <1>5 DEF vars
<1> QED
  BY <1>1, <1>2, <1>3, <1>4, <1>5 DEF Next, Relay

(* ... and what the log is after a step: what was logged stays so, and what  *)
(* could not be logged, too.                                                 *)
LEMMA LogStep ==
  ASSUME DeliveryInv, [Next]_vars
  PROVE  /\ LogInv' /\ TakenInv'
         /\ relayed \in Nat /\ relayed' \in Nat /\ relayed <= relayed'
         /\ \A i : Logged(i) => Logged(i)'
         /\ \A i : Unlogged(i) /\ i.event <= relayed => Unlogged(i)'
         /\ \A row \in Rows(Streamed)' :
              row \in Rows(Streamed) \/ (Persist /\ row.event = relayed')
<1> DEFINE S == issued[Streamed]
<1>0. /\ LogInv /\ TakenInv /\ relayed \in Nat
      /\ Streamed \in Task /\ S \in Seq(Row) /\ issued \in [Task -> Seq(Row)]
      /\ \A k \in DOMAIN S : S[k].event \in Nat /\ S[k].event <= relayed
  <2>1. /\ LogInv /\ TakenInv /\ relayed \in Nat
        /\ Streamed \in Task /\ S \in Seq(Row) /\ issued \in [Task -> Seq(Row)]
    BY StreamDeliveryAssumption DEF DeliveryInv, TypeOK, LogInv, LogTypeOK
  <2>2. \A k \in DOMAIN S : S[k] \in Row
    BY <2>1
  <2> QED
    BY <2>1, <2>2 DEF TakenInv, Row
<1>1. CASE Persist
  <2> DEFINE n == Len(S)
             row == [task |-> Streamed, seq |-> NextSeq(Streamed), event |-> relayed + 1]
  <2>1. /\ DoAppend(Streamed, relayed + 1) /\ relayed' = relayed + 1 /\ relayed + 1 \in Nat
        /\ n \in Nat /\ DOMAIN S = 1 .. n
    BY <1>0, <1>1 DEF Persist
  <2>2. LogInv'
    <3>1. \A k \in DOMAIN S : S[k].event < relayed + 1
      BY <1>0
    <3> QED
      BY <1>0, <2>1, <3>1, AppendKeeps
  <2>3. /\ log' \subseteq log \cup {row}
        /\ \A u \in Task \ {Streamed} : issued'[u] = issued[u]
        /\ Len(issued'[Streamed]) = n + 1
        /\ issued'[Streamed][n + 1] = row
        /\ \A k \in DOMAIN S : k \in DOMAIN issued'[Streamed] /\ issued'[Streamed][k] = S[k]
    BY <1>0, <2>1, AppendIs, Zenon
  <2>4. DOMAIN issued'[Streamed] = 1 .. n + 1 /\ row.event = relayed + 1
    BY <1>0, <2>2, <2>3 DEF LogInv, LogTypeOK
  <2> HIDE DEF row
  <2>5. \A k \in DOMAIN issued'[Streamed] : k \in DOMAIN S \/ issued'[Streamed][k] = row
    BY <2>1, <2>3, <2>4
  <2>6. TakenInv'
    <3>1. ASSUME NEW k \in DOMAIN issued'[Streamed] PROVE issued'[Streamed][k].event <= relayed'
      BY <1>0, <2>1, <2>3, <2>4, <2>5
    <3>2. Counted(Task \ {Streamed})'
      BY <1>0, <2>3 DEF TakenInv, Counted
    <3> QED
      BY <3>1, <3>2 DEF TakenInv
  <2>7. \A i : Logged(i) => Logged(i)'
    BY <2>3 DEF Logged
  <2>8. ASSUME NEW i, Unlogged(i), i.event <= relayed PROVE Unlogged(i)'
    <3>1. ASSUME NEW k \in DOMAIN issued'[Streamed], issued'[Streamed][k].event = i.event PROVE FALSE
      <4>1. k \notin DOMAIN S
        BY <2>3, <2>8, <3>1 DEF Unlogged
      <4>2. i.event = relayed + 1
        BY <2>4, <2>5, <3>1, <4>1
      <4> QED
        BY <1>0, <2>8, <4>2
    <3> QED
      BY <2>8, <3>1 DEF Unlogged
  <2>9. \A r \in Rows(Streamed)' : r \in Rows(Streamed) \/ (Persist /\ r.event = relayed')
    BY <1>1, <2>1, <2>3, <2>4 DEF Rows
  <2> QED
    BY <1>0, <2>1, <2>2, <2>6, <2>7, <2>8, <2>9
<1>2. CASE OtherTask
  <2>1. PICK t \in Task \ {Streamed} : DoAppend(t, Len(issued[t]) + 1)
    BY <1>2 DEF OtherTask
  <2>2. relayed' = relayed
    BY <1>2 DEF OtherTask, relayVars
  <2>3. LogInv' /\ Counted(Task \ {Streamed})'
    BY <1>0, <2>1, CountedKeeps DEF TakenInv
  <2> DEFINE row == [task |-> t, seq |-> NextSeq(t), event |-> Len(issued[t]) + 1]
  <2>4. issued'[Streamed] = S /\ log' \subseteq log \cup {row}
    <3>1. Len(issued[t]) + 1 \in Nat
      BY <1>0
    <3> QED
      BY <1>0, <2>1, <3>1, AppendIs, Zenon
  <2>5. Rows(Streamed)' \subseteq Rows(Streamed)
    BY <2>1, <2>4 DEF Rows
  <2> QED
    BY <1>0, <2>2, <2>3, <2>4, <2>5 DEF TakenInv, Logged, Unlogged
<1>3. CASE LogKept
  <2>1. LogInv'
    BY <1>0, <1>3 DEF LogKept, LogInv, LogTypeOK, Rising, KeepsNewest
  <2>2. relayed' \in Nat /\ relayed <= relayed'
    BY <1>0, <1>3 DEF LogKept, PersistFails
  <2>3. Rows(Streamed)' = Rows(Streamed) /\ issued' = issued
    BY <1>3 DEF LogKept, Rows
  <2>4. TakenInv'
    <3>1. \A k \in DOMAIN issued'[Streamed] : issued'[Streamed][k].event <= relayed'
      BY <1>0, <2>2, <2>3
    <3> QED
      BY <1>0, <2>3, <3>1 DEF TakenInv, Counted
  <2>5. /\ \A i : Logged(i) => Logged(i)'
        /\ \A i : Unlogged(i) => Unlogged(i)'
    <3> HIDE DEF S
    <3>1. ASSUME NEW i, Logged(i) PROVE Logged(i)'
      BY <2>3, <3>1 DEF Logged
    <3>2. ASSUME NEW i, Unlogged(i) PROVE Unlogged(i)'
      BY <2>3, <3>2 DEF Unlogged
    <3> QED
      BY <3>1, <3>2
  <2> QED
    BY <1>0, <2>1, <2>2, <2>3, <2>4, <2>5
<1> QED
  BY <1>0, <1>1, <1>2, <1>3, Steps

(* TypeOK, step by step: the relay's half and the readers'.                  *)
RelayTypes ==
  /\ produced \in 0 .. MaxEvents /\ relayed \in 0 .. produced /\ ended \in BOOLEAN
  /\ relay \in {"recv", "publish", "deliver", "done", "dead"}
  /\ item \in Item
  /\ wire \in Seq(Item)
  /\ hub \in {"none", "open", "closed"} /\ channel \in Seq(Item)

ReaderTypes ==
  /\ conn \in [Client -> {"direct", "resub", "off"}]
  /\ queue \in [Client -> Seq(Item)]
  /\ rx \in [Client -> 0 .. MaxEvents + 1]
  /\ lastSeq \in [Client -> Nat]
  /\ received \in [Client -> Seq(Item)]

(* A step keeps the types.                                                   *)
LEMMA TypeStep ==
  ASSUME DeliveryInv, [Next]_vars
  PROVE  TypeOK'
<1> USE DEF relayVars, readerVars, NotSubscribed
<1>0. /\ RelayTypes /\ ReaderTypes /\ LogTypeOK' /\ MaxEvents \in Nat /\ Sender \in Client
      /\ \A c \in Client : LastId(c) \in Nat
  BY LogStep, SeenType, EventLogAssumption, StreamDeliveryAssumption
     DEF DeliveryInv, LogInv, TypeOK, RelayTypes, ReaderTypes
<1>a. SUFFICES RelayTypes' /\ ReaderTypes'
  BY <1>0 DEF TypeOK, RelayTypes, ReaderTypes
<1>b. /\ MaxEvents + 1 \in 0 .. MaxEvents + 1 /\ NoItem \in Item /\ <<>> \in Seq(Item)
      /\ produced \in Nat /\ relayed \in Nat
  BY <1>0 DEF NoItem, Item, RelayTypes
<1>e. Len(channel) \in Nat /\ Len(channel) <= relayed /\ relayed <= MaxEvents
  <2>1. channel \in Seq(Item) /\ Len(channel) \in Nat
    BY <1>0 DEF RelayTypes
  <2>2. Published <= relayed /\ Published \in Int
    BY <1>b DEF Published
  <2>3. Len(channel) <= Published
    BY DEF DeliveryInv, ChannelInv
  <2>4. produced <= MaxEvents /\ relayed <= produced
    BY <1>0 DEF RelayTypes
  <2> QED
    BY <1>0, <1>b, <2>1, <2>2, <2>3, <2>4
<1>c. UNCHANGED readerVars => ReaderTypes'
  BY <1>0 DEF ReaderTypes
<1>d. UNCHANGED relayVars => RelayTypes'
  BY <1>0 DEF RelayTypes
<1>1. CASE Produce \/ EndStream \/ Close
  <2>1. produced' \in 0 .. MaxEvents /\ relayed' \in 0 .. produced'
    BY <1>0, <1>b, <1>1 DEF Produce, EndStream, Close, RelayTypes
  <2> QED
    BY <1>0, <1>c, <1>1, <2>1 DEF Produce, EndStream, Close, RelayTypes
<1>2. CASE Persist \/ PersistFails
  <2>1. NextSeq(Streamed) \in Nat
    BY NextSeqIs, StreamDeliveryAssumption DEF DeliveryInv
  <2>2. relayed' \in 0 .. produced /\ relayed' \in Nat
    BY <1>0, <1>b, <1>2 DEF Persist, PersistFails, RelayTypes
  <2>3. item' \in Item
    BY <1>2, <2>1, <2>2 DEF Persist, PersistFails, Item
  <2> QED
    BY <1>0, <1>c, <1>2, <2>2, <2>3 DEF Persist, PersistFails, RelayTypes
<1>3. CASE Publish \/ Deliver
  <2>1. Append(channel, item) \in Seq(Item) /\ Append(wire, item) \in Seq(Item)
    BY <1>0 DEF RelayTypes
  <2> QED
    BY <1>0, <1>b, <1>c, <1>3, <2>1 DEF Publish, Deliver, RelayTypes
<1>4. ASSUME NEW c \in Client, ReadDirect(c) PROVE RelayTypes' /\ ReaderTypes'
  <2>1. Head(wire) \in Item /\ Tail(wire) \in Seq(Item)
    BY <1>0, <1>4 DEF ReadDirect, RelayTypes
  <2>2. received' \in [Client -> Seq(Item)]
    BY <1>4, <2>1, SeenMore DEF ReadDirect
  <2>3. RelayTypes'
    BY <1>0, <1>4, <2>1 DEF ReadDirect, RelayTypes
  <2>4. ReaderTypes'
    BY <1>0, <1>4, <2>2 DEF ReadDirect, ReaderTypes
  <2> QED
    BY <2>3, <2>4
<1>5. ASSUME NEW c \in Client, HangUp(c) PROVE ReaderTypes'
  BY <1>0, <1>b, <1>5 DEF HangUp, ReaderTypes
<1>6. ASSUME NEW c \in Client, DirectEnds(c) \/ Disconnect(c) \/ NoLiveTail(c) \/ CatchUpFails(c) \/ TailEnds(c)
      PROVE  RelayTypes' /\ ReaderTypes'
  <2>1. HangUp(c)
    BY <1>6 DEF DirectEnds, Disconnect, NoLiveTail, CatchUpFails, TailEnds
  <2>2. RelayTypes'
    BY <1>0, <1>b, <1>6 DEF DirectEnds, Disconnect, NoLiveTail, CatchUpFails, TailEnds, RelayTypes
  <2> QED
    BY <1>5, <2>1, <2>2
<1>7. ASSUME NEW c \in Client, Resubscribe(c) PROVE RelayTypes' /\ ReaderTypes'
  <2> DEFINE q == Replay(LastId(c))
  <2>1. q \in Seq(Item)
    BY <1>0, ReplayIs DEF DeliveryInv
  <2> HIDE DEF q
  <2>2. queue' \in [Client -> Seq(Item)] /\ queue'[c] = q
    BY <1>0, <1>7, <2>1 DEF Resubscribe, ReaderTypes, q
  <2>3. q # <<>> => Last(q).seq \in Nat
    <3>1. q # <<>> => q[Len(q)] \in Item
      BY <2>1
    <3> QED
      BY <3>1 DEF Last, Item
  <2>4. lastSeq' \in [Client -> Nat]
    <3>1. (IF q = <<>> THEN LastId(c) ELSE Last(q).seq) \in Nat
      BY <1>0, <2>3
    <3>2. lastSeq' = [lastSeq EXCEPT ![c] = IF q = <<>> THEN LastId(c) ELSE Last(q).seq]
      BY <1>7, <2>2 DEF Resubscribe
    <3> QED
      BY <1>0, <3>1, <3>2 DEF ReaderTypes
  <2>5. conn' \in [Client -> {"direct", "resub", "off"}]
    BY <1>0, <1>7 DEF Resubscribe, ReaderTypes
  <2> QED
    BY <1>0, <1>d, <1>7, <2>2, <2>4, <2>5 DEF Resubscribe, ReaderTypes
<1>8. ASSUME NEW c \in Client, ServeHistory(c) PROVE RelayTypes' /\ ReaderTypes'
  <2>1. queue[c] \in Seq(Item) /\ Head(queue[c]) \in Item /\ Tail(queue[c]) \in Seq(Item)
    BY <1>0, <1>8 DEF ServeHistory, ReaderTypes
  <2>2. received' \in [Client -> Seq(Item)]
    BY <1>8, <2>1, SeenMore DEF ServeHistory
  <2>3. Head(queue[c]).seq \in Nat
    BY <2>1 DEF Item
  <2>4. queue' \in [Client -> Seq(Item)] /\ lastSeq' \in [Client -> Nat]
    BY <1>0, <1>8, <2>1, <2>3 DEF ServeHistory, ReaderTypes
  <2> QED
    BY <1>0, <1>d, <1>8, <2>2, <2>4 DEF ServeHistory, ReaderTypes
<1>9. ASSUME NEW c \in Client, Subscribe(c) PROVE RelayTypes' /\ ReaderTypes'
  <2>2. Len(channel) \in 0 .. MaxEvents + 1
    BY <1>0, <1>b, <1>e
  <2> QED
    BY <1>0, <1>d, <1>9, <2>2 DEF Subscribe, ReaderTypes
<1>10. ASSUME NEW c \in Client, ServeLive(c) PROVE RelayTypes' /\ ReaderTypes'
  <2> DEFINE next == channel[rx[c] + 1]
  <2>1. rx[c] \in Nat
    BY <1>0 DEF ReaderTypes
  <2>2. next \in Item /\ rx[c] + 1 \in 0 .. MaxEvents + 1
    BY <1>0, <1>b, <1>e, <1>10, <2>1 DEF ServeLive, RelayTypes
  <2>3. received' \in [Client -> Seq(Item)] /\ lastSeq' \in [Client -> Nat]
    <3>1. CASE Fresh(c, next)
      <4>1. next.seq \in Nat
        BY <2>2 DEF Item
      <4>2. Receive(c, next) /\ lastSeq' = [lastSeq EXCEPT ![c] = next.seq]
        BY <1>10, <3>1 DEF ServeLive
      <4> HIDE DEF next
      <4>3. received' \in [Client -> Seq(Item)]
        BY <2>2, <4>2, SeenMore
      <4> QED
        BY <1>0, <4>1, <4>2, <4>3 DEF ReaderTypes
    <3>2. CASE ~Fresh(c, next)
      BY <1>0, <1>10, <3>2 DEF ServeLive, ReaderTypes
    <3> QED
      BY <3>1, <3>2
  <2>4. rx' \in [Client -> 0 .. MaxEvents + 1]
    BY <1>0, <1>10, <2>2 DEF ServeLive, ReaderTypes
  <2> QED
    BY <1>0, <1>d, <1>10, <2>3, <2>4 DEF ServeLive, ReaderTypes
<1>11. ASSUME NEW c \in Client, CatchUp(c) PROVE RelayTypes' /\ ReaderTypes'
  <2>1. Replay(lastSeq[c]) \in Seq(Item)
    BY <1>0, ReplayIs DEF DeliveryInv, ReaderTypes
  <2> QED
    BY <1>0, <1>b, <1>d, <1>11, <2>1 DEF CatchUp, ReaderTypes
<1>12. CASE OtherTask
  BY <1>c, <1>d, <1>12 DEF OtherTask
<1>13. CASE Restart
  <2>1. RelayTypes'
    BY <1>0, <1>b, <1>13 DEF Restart, RelayTypes
  <2>2. ReaderTypes'
    BY <1>0, <1>b, <1>13 DEF Restart, ReaderTypes
  <2> QED
    BY <2>1, <2>2
<1>14. CASE UNCHANGED vars
  BY <1>c, <1>d, <1>14 DEF vars
<1> QED
  BY <1>1, <1>2, <1>3, <1>4, <1>6, <1>7, <1>8, <1>9, <1>10, <1>11, <1>12, <1>13, <1>14
     DEF Next, Relay, Serve

-----------------------------------------------------------------------------
(* The relay's item and the channel, step by step.                           *)
RelayKept == UNCHANGED <<relayed, relay, item, channel>>

(* Who changes them.                                                         *)
LEMMA RelaySteps ==
  ASSUME [Next]_vars
  PROVE  Persist \/ PersistFails \/ Publish \/ Deliver \/ Close \/ Restart \/ RelayKept
<1> USE DEF RelayKept, relayVars
<1>1. CASE Produce \/ EndStream \/ OtherTask
  BY <1>1 DEF Produce, EndStream, OtherTask
<1>2. ASSUME NEW c \in Client, ReadDirect(c) \/ DirectEnds(c) \/ Disconnect(c) \/ Resubscribe(c)
      PROVE  RelayKept
  BY <1>2 DEF ReadDirect, DirectEnds, Disconnect, Resubscribe
<1>3. ASSUME NEW c \in Client, Serve(c) PROVE RelayKept
  BY <1>3 DEF Serve, ServeHistory, Subscribe, NoLiveTail, ServeLive, CatchUp, CatchUpFails, TailEnds
<1>4. CASE UNCHANGED vars
  BY <1>4 DEF vars
<1> QED
  BY <1>1, <1>2, <1>3, <1>4 DEF Next, Relay

(* A step keeps ItemInv and ChannelInv.                                      *)
LEMMA RelayStep ==
  ASSUME DeliveryInv, [Next]_vars
  PROVE  ItemInv' /\ ChannelInv'
<1>0. /\ relayed \in Nat /\ relayed' \in Nat /\ relayed <= relayed'
      /\ \A i : Logged(i) => Logged(i)'
      /\ \A i : Unlogged(i) /\ i.event <= relayed => Unlogged(i)'
  BY LogStep
<1>1. /\ ItemInv /\ ChannelInv /\ item \in Item /\ channel \in Seq(Item)
      /\ Len(channel) \in Nat /\ DOMAIN channel = 1 .. Len(channel)
  BY DEF DeliveryInv, TypeOK
<1>2. \A k \in DOMAIN channel : channel[k].event \in Nat
  <2>1. \A k \in DOMAIN channel : channel[k] \in Item
    BY <1>1
  <2> QED
    BY <2>1 DEF Item
<1>3. ASSUME channel' = channel, Published \in Int, Published' \in Int, Published <= Published'
      PROVE  ChannelInv'
  BY <1>0, <1>1, <1>2, <1>3 DEF ChannelInv
<1>4. Published \in Int /\ Published' \in Int
  BY <1>0 DEF Published
<1>5. CASE Persist
  <2>1. relay = "recv" /\ relay' = "publish" /\ relayed' = relayed + 1 /\ channel' = channel
    BY <1>5 DEF Persist
  <2>2. ChannelInv'
    BY <1>0, <1>3, <1>4, <2>1 DEF Published
  <2>3. Logged(item)'
    <3> DEFINE n == Len(issued[Streamed])
               row == [task |-> Streamed, seq |-> NextSeq(Streamed), event |-> relayed + 1]
    <3>1. /\ DoAppend(Streamed, relayed + 1) /\ relayed + 1 \in Nat /\ Streamed \in Task
          /\ item' = [seq |-> NextSeq(Streamed), event |-> relayed + 1] /\ LogInv
      BY <1>0, <1>5, <2>1, StreamDeliveryAssumption DEF Persist, DeliveryInv
    <3>2. Len(issued'[Streamed]) = n + 1 /\ issued'[Streamed][n + 1] = row
      BY <3>1, AppendIs, Zenon
    <3>3. n + 1 \in DOMAIN issued'[Streamed]
      BY <3>1, <3>2, LogStep DEF LogInv, LogTypeOK
    <3>4. item' = AsItem(row)
      BY <3>1 DEF AsItem
    <3> QED
      BY <3>2, <3>3, <3>4 DEF Logged
  <2>4. item'.event = relayed' /\ relayed' > 0
    BY <1>0, <1>5, <2>1 DEF Persist
  <2> QED
    BY <2>2, <2>3, <2>4 DEF ItemInv
<1>6. CASE PersistFails
  <2>1. /\ relay = "recv" /\ relay' = "deliver" /\ relayed' = relayed + 1 /\ channel' = channel
        /\ item' = [seq |-> 0, event |-> relayed + 1] /\ issued' = issued
    BY <1>6 DEF PersistFails, logVars
  <2>2. ChannelInv'
    BY <1>0, <1>3, <1>4, <2>1 DEF Published
  <2>3. \A k \in DOMAIN issued[Streamed] : issued[Streamed][k].event # relayed + 1
    <3> SUFFICES ASSUME NEW k \in DOMAIN issued[Streamed], issued[Streamed][k].event = relayed + 1
                 PROVE  FALSE
      OBVIOUS
    <3>1. issued[Streamed][k].event <= relayed
      BY DEF DeliveryInv, TakenInv
    <3> QED
      BY <1>0, <3>1
  <2>4. Unlogged(item)'
    BY <2>1, <2>3 DEF Unlogged
  <2> QED
    BY <1>0, <2>1, <2>2, <2>4 DEF ItemInv
<1>7. CASE Publish
  <2> DEFINE n == Len(channel)
  <2>1. /\ relay = "publish" /\ relay' = "deliver" /\ relayed' = relayed /\ item' = item
        /\ channel' = Append(channel, item) /\ issued' = issued
    BY <1>7 DEF Publish, logVars
  <2>2. item.event = relayed /\ relayed > 0 /\ Logged(item)
    BY <1>1, <2>1 DEF ItemInv
  <2>3. /\ Len(channel') = n + 1 /\ DOMAIN channel' = 1 .. n + 1 /\ channel'[n + 1] = item
        /\ \A k \in 1 .. n : channel'[k] = channel[k]
    BY <1>1, <2>1
  <2>4. Published = relayed - 1 /\ Published' = relayed
    BY <2>1 DEF Published
  <2>5. /\ n <= relayed - 1
        /\ \A k \in 1 .. n : Logged(channel[k]) /\ channel[k].event <= relayed - 1
        /\ \A j, k \in 1 .. n : j < k => channel[j].event < channel[k].event
    BY <1>1, <2>4 DEF ChannelInv
  <2>6. \A k \in 1 .. n + 1 : Logged(channel[k])' /\ channel'[k].event <= relayed
    <3> SUFFICES ASSUME NEW k \in 1 .. n + 1 PROVE Logged(channel[k])' /\ channel'[k].event <= relayed
      OBVIOUS
    <3>1. CASE k = n + 1
      BY <1>0, <2>1, <2>2, <2>3, <3>1 DEF Logged
    <3>2. CASE k # n + 1
      <4>1. k \in 1 .. n /\ channel'[k] = channel[k]
        BY <1>1, <2>3, <3>2
      <4>2. channel[k].event <= relayed - 1 /\ channel[k].event \in Nat
        BY <1>1, <1>2, <2>5, <4>1
      <4> QED
        BY <1>0, <2>1, <2>5, <4>1, <4>2 DEF Logged
    <3> QED
      BY <3>1, <3>2
  <2>7. ASSUME NEW j \in 1 .. n + 1, NEW k \in 1 .. n + 1, j < k
        PROVE  channel'[j].event < channel'[k].event
    <3>1. j \in 1 .. n
      BY <1>1, <2>7
    <3>2. CASE k = n + 1
      BY <1>0, <1>1, <1>2, <2>2, <2>3, <2>5, <3>1, <3>2
    <3>3. CASE k # n + 1
      BY <1>1, <2>3, <2>5, <2>7, <3>1, <3>3
    <3> QED
      BY <3>2, <3>3
  <2>8. ChannelInv'
    BY <1>0, <1>1, <2>3, <2>4, <2>5, <2>6, <2>7 DEF ChannelInv
  <2>9. ItemInv'
    BY <2>1, <2>2 DEF ItemInv, Logged
  <2> QED
    BY <2>8, <2>9
<1>8. CASE Deliver \/ Close
  <2>1. /\ relay \in {"deliver", "recv"} /\ relay' \in {"recv", "done"}
        /\ relayed' = relayed /\ channel' = channel
    BY <1>8 DEF Deliver, Close
  <2>2. ChannelInv'
    BY <1>0, <1>3, <1>4, <2>1 DEF Published
  <2> QED
    BY <2>1, <2>2 DEF ItemInv
<1>9. CASE Restart
  <2>1. relay' = "dead" /\ channel' = <<>> /\ relayed' = relayed
    BY <1>9 DEF Restart
  <2> QED
    BY <1>0, <2>1 DEF ItemInv, ChannelInv, Published
<1>10. CASE RelayKept
  <2>1. relayed' = relayed /\ relay' = relay /\ item' = item /\ channel' = channel
    BY <1>10 DEF RelayKept
  <2>2. ChannelInv'
    BY <1>0, <1>3, <1>4, <2>1 DEF Published
  <2>3. Logged(item) => Logged(item)'
    BY <1>0, <2>1 DEF Logged
  <2>4. Unlogged(item) /\ item.event <= relayed => Unlogged(item)'
    BY <1>0, <2>1 DEF Unlogged
  <2> QED
    BY <1>0, <1>1, <2>1, <2>2, <2>3, <2>4 DEF ItemInv
<1> QED
  BY <1>5, <1>6, <1>7, <1>8, <1>9, <1>10, RelaySteps

-----------------------------------------------------------------------------
(* The sender's wire, step by step.                                          *)
LEMMA WireStep ==
  ASSUME DeliveryInv, [Next]_vars
  PROVE  WireInv'
<1> DEFINE seen == received[Sender]
<1>0. /\ WireInv /\ ItemInv /\ Sender \in Client /\ relayed \in Nat
      /\ wire \in Seq(Item) /\ seen \in Seq(Item) /\ item \in Item
      /\ conn \in [Client -> {"direct", "resub", "off"}]
      /\ received \in [Client -> Seq(Item)]
      /\ Len(wire) \in Nat /\ DOMAIN wire = 1 .. Len(wire)
      /\ Len(seen) \in Nat /\ DOMAIN seen = 1 .. Len(seen)
  BY StreamDeliveryAssumption DEF DeliveryInv, TypeOK
<1>1. /\ \A i : Logged(i) => Logged(i)'
      /\ \A i : Unlogged(i) /\ i.event <= relayed => Unlogged(i)'
  BY LogStep
<1>2. \A k \in DOMAIN wire : wire[k].event <= relayed
  <2>1. conn[Sender] # "direct" => DOMAIN wire = {}
    BY <1>0 DEF WireInv
  <2>2. ASSUME NEW k \in DOMAIN wire, conn[Sender] = "direct" PROVE wire[k].event <= relayed
    <3>1. wire[k].event = Len(seen) + k /\ Len(seen) + Len(wire) = Delivered
      BY <1>0, <2>2 DEF WireInv
    <3>2. k <= Len(wire) /\ k \in Nat
      BY <1>0
    <3> QED
      BY <1>0, <3>1, <3>2 DEF Delivered
  <2> QED
    BY <2>1, <2>2
<1>3. \A k \in DOMAIN wire : (wire'[k] = wire[k]) => Logged(wire[k])' \/ Unlogged(wire[k])'
  <2> SUFFICES ASSUME NEW k \in DOMAIN wire, wire'[k] = wire[k]
               PROVE  Logged(wire[k])' \/ Unlogged(wire[k])'
    OBVIOUS
  <2>1. Logged(wire[k]) \/ Unlogged(wire[k])
    BY <1>0 DEF WireInv
  <2>2. \A i : Logged(i) => Logged(i)'
    BY <1>1
  <2>3. Logged(wire[k]) => Logged(wire[k])'
    BY <1>1 DEF Logged
  <2>4. Unlogged(wire[k]) => Unlogged(wire[k])'
    BY <1>1, <1>2 DEF Unlogged
  <2> QED
    BY <2>1, <2>3, <2>4
(* Nothing the wire depends on, or it is gone.                               *)
<1>4. ASSUME wire' = wire, conn' = conn, received'[Sender] = seen \/ conn[Sender] # "direct",
             Delivered' = Delivered
      PROVE  WireInv'
  BY <1>0, <1>3, <1>4 DEF WireInv
<1>5. ASSUME wire' = <<>>, conn'[Sender] # "direct", \A c \in Client : conn'[c] = "direct" => conn[c] = "direct"
      PROVE  WireInv'
  BY <1>0, <1>5 DEF WireInv
<1>6. CASE Produce \/ EndStream \/ Close \/ OtherTask \/ Publish \/ UNCHANGED vars
  BY <1>4, <1>6 DEF Produce, EndStream, Close, OtherTask, Publish, vars, relayVars, readerVars, Delivered
<1>7. CASE Persist \/ PersistFails
  <2>1. /\ relay = "recv" /\ relay' \in {"publish", "deliver"} /\ relayed' = relayed + 1
        /\ wire' = wire /\ conn' = conn /\ received' = received
    BY <1>7 DEF Persist, PersistFails, readerVars
  <2>2. Delivered' = Delivered
    BY <1>0, <2>1 DEF Delivered
  <2> QED
    BY <1>4, <2>1, <2>2
<1>8. CASE Deliver
  <2>1. /\ relay = "deliver" /\ relay' = "recv" /\ relayed' = relayed
        /\ conn' = conn /\ received' = received /\ issued' = issued
    BY <1>8 DEF Deliver, readerVars, logVars
  <2>2. Delivered = relayed - 1 /\ Delivered' = relayed
    BY <2>1 DEF Delivered
  <2>3. CASE conn[Sender] # "direct"
    BY <1>0, <1>8, <2>1, <2>3 DEF Deliver, WireInv
  <2>4. CASE conn[Sender] = "direct"
    <3> DEFINE n == Len(wire)
    <3>1. /\ wire' = Append(wire, item)
          /\ item.event = relayed /\ (Logged(item) \/ Unlogged(item))
      BY <1>0, <1>8, <2>1, <2>4 DEF Deliver, ItemInv
    <3>2. /\ Len(wire') = n + 1 /\ DOMAIN wire' = 1 .. n + 1 /\ wire'[n + 1] = item
          /\ \A k \in 1 .. n : wire'[k] = wire[k]
      BY <1>0, <3>1
    <3>3. Len(seen) + (n + 1) = Delivered' /\ item.event = Len(seen) + (n + 1)
      BY <1>0, <2>2, <2>4, <3>1 DEF WireInv
    <3>4. ASSUME NEW k \in 1 .. n + 1
          PROVE  /\ Logged(wire[k])' \/ Unlogged(wire[k])'
                 /\ wire'[k].event = Len(seen) + k
      <4>1. CASE k = n + 1
        BY <2>1, <3>1, <3>2, <3>3, <4>1 DEF Logged, Unlogged
      <4>2. CASE k # n + 1
        <5>1. k \in 1 .. n /\ wire'[k] = wire[k]
          BY <1>0, <3>2, <4>2
        <5> QED
          BY <1>0, <1>3, <2>4, <5>1 DEF WireInv
      <4> QED
        BY <4>1, <4>2
    <3> QED
      BY <1>0, <2>1, <2>4, <3>2, <3>3, <3>4 DEF WireInv
  <2> QED
    BY <2>3, <2>4
<1>9. ASSUME NEW c \in Client, ReadDirect(c) PROVE WireInv'
  <2>1. /\ c = Sender /\ conn[Sender] = "direct" /\ wire # <<>> /\ wire' = Tail(wire)
        /\ Receive(Sender, Head(wire)) /\ conn' = conn /\ relay' = relay /\ relayed' = relayed
    BY <1>0, <1>9 DEF ReadDirect, WireInv
  <2> DEFINE n == Len(wire)
             m == Len(seen)
  <2>2. /\ n > 0 /\ Len(wire') = n - 1 /\ DOMAIN wire' = 1 .. n - 1 /\ Head(wire) = wire[1]
        /\ wire[1] \in Item /\ \A k \in 1 .. n - 1 : wire'[k] = wire[k + 1]
    BY <1>0, <2>1
  <2>3. received'[Sender] = Append(seen, wire[1])
    BY <1>0, <2>1, <2>2 DEF Receive
  <2>4. /\ Len(received'[Sender]) = m + 1 /\ DOMAIN received'[Sender] = 1 .. m + 1
        /\ received'[Sender][m + 1] = wire[1]
        /\ \A k \in 1 .. m : received'[Sender][k] = seen[k]
    BY <1>0, <2>2, <2>3
  <2>5. /\ m + n = Delivered /\ Delivered' = Delivered
        /\ \A k \in 1 .. m : seen[k].event = k
        /\ \A k \in 1 .. n : wire[k].event = m + k
        /\ \A k \in 1 .. n : Logged(wire[k]) \/ Unlogged(wire[k])
    BY <1>0, <2>1 DEF WireInv, Delivered
  <2>6. ASSUME NEW k \in 1 .. m + 1 PROVE received'[Sender][k].event = k
    <3>1. CASE k = m + 1
      BY <1>0, <2>2, <2>4, <2>5, <3>1
    <3>2. CASE k # m + 1
      <4>1. k \in 1 .. m
        BY <1>0, <3>2
      <4> QED
        BY <2>4, <2>5, <4>1
    <3> QED
      BY <3>1, <3>2
  <2>7. ASSUME NEW k \in 1 .. n - 1
        PROVE  /\ Logged(wire[k])' \/ Unlogged(wire[k])'
               /\ wire'[k].event = m + 1 + k
    <3>1. k + 1 \in 1 .. n /\ wire'[k] = wire[k + 1] /\ k \in Nat
      BY <1>0, <2>2
    <3>2. wire[k + 1].event = m + (k + 1) /\ (Logged(wire[k + 1]) \/ Unlogged(wire[k + 1]))
      BY <2>5, <3>1
    <3>3. issued' = issued
      BY <1>9 DEF ReadDirect, logVars
    <3>4. Logged(wire[k])' \/ Unlogged(wire[k])'
      BY <3>1, <3>2, <3>3 DEF Logged, Unlogged
    <3> QED
      BY <1>0, <3>1, <3>2, <3>4
  <2>8. m + 1 + (n - 1) = Delivered'
    BY <1>0, <2>5
  <2> QED
    BY <1>0, <2>1, <2>2, <2>4, <2>6, <2>7, <2>8 DEF WireInv
<1>10. ASSUME NEW c \in Client, DirectEnds(c) \/ Disconnect(c) \/ NoLiveTail(c) \/ CatchUpFails(c) \/ TailEnds(c)
       PROVE  WireInv'
  <2>1. /\ HangUp(c) /\ relay' = relay /\ relayed' = relayed /\ issued' = issued
        /\ wire' = wire \/ wire' = <<>>
        /\ conn[c] = "direct" => wire' = <<>>
    BY <1>10 DEF DirectEnds, Disconnect, NoLiveTail, CatchUpFails, TailEnds, Live, relayVars, logVars
  <2>2. conn' = [conn EXCEPT ![c] = "off"] /\ received' = received
    BY <2>1 DEF HangUp
  <2>3. CASE conn[Sender] = "direct" /\ c = Sender
    <3>1. wire' = <<>> /\ conn'[Sender] = "off" /\ \A d \in Client : conn'[d] = "direct" => conn[d] = "direct"
      BY <1>0, <2>1, <2>2, <2>3
    <3> QED
      BY <1>5, <3>1
  <2>4. CASE conn[Sender] # "direct"
    <3>1. wire' = <<>> /\ conn'[Sender] # "direct" /\ \A d \in Client : conn'[d] = "direct" => conn[d] = "direct"
      BY <1>0, <2>1, <2>2, <2>4 DEF WireInv
    <3> QED
      BY <1>5, <3>1
  <2>5. CASE conn[Sender] = "direct" /\ c # Sender
    <3>1. /\ conn'[Sender] = "direct" /\ \A d \in Client : conn'[d] = "direct" => conn[d] = "direct"
          /\ conn[c] # "direct" /\ Delivered' = Delivered
      BY <1>0, <2>1, <2>2, <2>5 DEF WireInv, Delivered
    <3>2. wire' = wire
      BY <1>10, <3>1 DEF DirectEnds, Disconnect, NoLiveTail, CatchUpFails, TailEnds, relayVars
    <3> QED
      BY <1>0, <1>3, <2>2, <2>5, <3>1, <3>2 DEF WireInv
  <2> QED
    BY <2>3, <2>4, <2>5
<1>11. ASSUME NEW c \in Client, Resubscribe(c) PROVE WireInv'
  <2>1. /\ conn[c] = "off" /\ conn' = [conn EXCEPT ![c] = "resub"] /\ received' = received
        /\ wire' = wire /\ relay' = relay /\ relayed' = relayed
    BY <1>11 DEF Resubscribe, relayVars
  <2>2. Delivered' = Delivered
    BY <2>1 DEF Delivered
  <2>3. \A d \in Client : conn'[d] = "direct" <=> conn[d] = "direct"
    BY <1>0, <2>1
  <2> QED
    BY <1>0, <1>3, <2>1, <2>2, <2>3 DEF WireInv
<1>12. ASSUME NEW c \in Client,
              ServeHistory(c) \/ Subscribe(c) \/ ServeLive(c) \/ CatchUp(c)
       PROVE  WireInv'
  <2>1. /\ wire' = wire /\ conn' = conn /\ relay' = relay /\ relayed' = relayed /\ conn[c] = "resub"
        /\ \/ received' = received
           \/ \E i : Receive(c, i)
    BY <1>12 DEF ServeHistory, Subscribe, ServeLive, CatchUp, Live, relayVars
  <2>2. received'[Sender] = seen \/ conn[Sender] # "direct"
    BY <1>0, <2>1 DEF Receive
  <2>3. Delivered' = Delivered
    BY <2>1 DEF Delivered
  <2> QED
    BY <1>4, <2>1, <2>2, <2>3
<1>13. CASE Restart
  <2>1. wire' = <<>> /\ conn' = [c \in Client |-> "off"]
    BY <1>13 DEF Restart
  <2>2. conn'[Sender] # "direct" /\ \A c \in Client : conn'[c] # "direct"
    BY <1>0, <2>1
  <2> QED
    BY <1>5, <2>1, <2>2
<1> QED
  BY <1>6, <1>7, <1>8, <1>9, <1>10, <1>11, <1>12, <1>13 DEF Next, Relay, Serve

-----------------------------------------------------------------------------
(* What a client receives is later than what it has, and what it may still   *)
(* be given is later than that.                                              *)
Due(c, i) ==
  /\ i \in Item /\ i.event > NewestOf(c) /\ i.event <= relayed
  /\ \/ Logged(i)
     \/ /\ Unlogged(i) /\ i.event = NewestOf(c) + 1
        /\ relay = "publish" => i.event < relayed

(* A client that receives what is due has its invariant afterwards.          *)
LEMMA ClientReceives ==
  ASSUME DeliveryInv, NEW c \in Client, NEW i, Due(c, i), Receive(c, i),
         UNCHANGED <<logVars, relayed, relay, item>>
  PROVE  ClientInv(c)'
<1>1. /\ NewestOf(c)' = i.event
      /\ LastId(c)' = IF i.seq > 0 THEN i.seq ELSE LastId(c)
      /\ Ids(c)' # {} => \E m \in Ids(c)' : \A k \in Ids(c)' : k <= m
  BY SeenMore DEF Due
<1>2. /\ log' = log /\ relayed' = relayed /\ relay' = relay /\ item' = item
      /\ Rows(Streamed)' = Rows(Streamed)
  BY DEF logVars, Rows
<1>3. /\ ClientInv(c) /\ ItemInv /\ LastId(c) \in Nat /\ NewestOf(c) \in Nat /\ relayed \in Nat
      /\ i.event \in Nat /\ i.seq \in Nat /\ i.event <= relayed
      /\ item.event \in Nat /\ item.seq \in Nat
  BY SeenType DEF DeliveryInv, TypeOK, Due, Item
<1>4. ASSUME NEW row \in Rows(Streamed), row.seq > LastId(c)'
      PROVE  row.event > i.event
  <2>0. row \in Row /\ row.seq \in Nat /\ row.event \in Nat /\ Logged(AsItem(row)) /\ AsItem(row).event = row.event
    BY RowsLogged DEF Row
  <2>1. CASE Logged(i)
    <3>1. LastId(c)' = i.seq
      BY <1>1, <2>1, LoggedIs
    <3> QED
      BY <1>4, <2>1, <3>1, LaterThanLogged
  <2>2. CASE ~Logged(i)
    <3>1. Unlogged(i) /\ i.event = NewestOf(c) + 1 /\ LastId(c)' = LastId(c)
      BY <1>1, <2>2 DEF Due, Unlogged
    <3>2. row.event > NewestOf(c)
      BY <1>3, <1>4, <3>1 DEF ClientInv, Ahead
    <3>3. row.event # i.event
      <4>1. \E k \in DOMAIN issued[Streamed] : row = issued[Streamed][k]
        BY StreamDeliveryAssumption DEF DeliveryInv, LogInv, KeepsNewest, HasNewest, Rows
      <4> QED
        BY <3>1, <4>1 DEF Unlogged
    <3> QED
      BY <1>3, <2>0, <3>1, <3>2, <3>3
  <2> QED
    BY <2>1, <2>2
<1>5. ASSUME relay = "publish", item.seq > LastId(c)'
      PROVE  item.event > i.event
  <2>1. item.event = relayed /\ Logged(item)
    BY <1>3, <1>5 DEF ItemInv
  <2>2. CASE Logged(i)
    <3>1. LastId(c)' = i.seq
      BY <1>1, <2>2, LoggedIs
    <3>2. item.event # i.event
      <4>1. item.event = i.event => item = i
        BY <2>1, <2>2, LoggedOnce
      <4> QED
        BY <1>3, <1>5, <3>1, <4>1
    <3> QED
      BY <1>3, <2>1, <3>2
  <2>3. CASE ~Logged(i)
    BY <1>3, <1>5, <2>1, <2>3 DEF Due
  <2> QED
    BY <2>2, <2>3
<1>6. \A row \in Rows(Streamed) : Ahead(c, row)'
  BY <1>1, <1>4 DEF Ahead
<1>7. relay = "publish" => Ahead(c, item)'
  BY <1>1, <1>2, <1>5 DEF Ahead
<1> QED
  BY <1>1, <1>2, <1>3, <1>6, <1>7 DEF ClientInv

(* What is due: to the sender from its wire ...                              *)
LEMMA DirectNext ==
  ASSUME DeliveryInv, NEW c \in Client, ReadDirect(c)
  PROVE  Due(c, Head(wire)) /\ Receive(c, Head(wire))
<1>0. /\ WireInv /\ wire \in Seq(Item) /\ wire # <<>> /\ received[c] \in Seq(Item) /\ relayed \in Nat
      /\ Receive(c, Head(wire)) /\ conn[c] = "direct" /\ c = Sender
  BY DEF DeliveryInv, TypeOK, ReadDirect, WireInv
<1> DEFINE m == Len(received[c])
<1>1. /\ Len(wire) \in Nat /\ Len(wire) > 0 /\ 1 \in DOMAIN wire /\ Head(wire) = wire[1] /\ wire[1] \in Item
      /\ m \in Nat /\ DOMAIN received[c] = 1 .. m
  BY <1>0
<1>2. /\ wire[1].event = m + 1 /\ m + Len(wire) = Delivered
      /\ Logged(wire[1]) \/ Unlogged(wire[1])
  BY <1>0, <1>1 DEF WireInv
<1>3. NewestOf(c) = m
  <2>1. CASE m = 0
    BY <1>0, <1>1, <2>1 DEF NewestOf
  <2>2. CASE m # 0
    <3>1. m \in DOMAIN received[c] /\ received[c] # <<>>
      BY <1>0, <1>1, <2>2
    <3> QED
      BY <1>0, <3>1 DEF NewestOf, WireInv
  <2> QED
    BY <2>1, <2>2
<1>4. m + 1 <= Delivered
  BY <1>1, <1>2 DEF Delivered
<1>5. m + 1 <= relayed /\ (relay = "publish" => m + 1 < relayed)
  BY <1>0, <1>1, <1>4 DEF Delivered
<1> QED
  BY <1>0, <1>1, <1>2, <1>3, <1>5 DEF Due

(* ... from its queue ...                                                    *)
LEMMA HistoryNext ==
  ASSUME DeliveryInv, NEW c \in Client, ServeHistory(c)
  PROVE  Due(c, Head(queue[c])) /\ Receive(c, Head(queue[c]))
<1>1. /\ queue[c] \in Seq(Item) /\ queue[c] # <<>> /\ Receive(c, Head(queue[c])) /\ QueueInv(c)
  BY DEF DeliveryInv, TypeOK, ServeHistory
<1>2. 1 \in DOMAIN queue[c] /\ Head(queue[c]) = queue[c][1]
  BY <1>1
<1>3. Logged(queue[c][1]) /\ queue[c][1].event > NewestOf(c)
  BY <1>1, <1>2 DEF QueueInv
<1>4. queue[c][1] \in Item /\ queue[c][1].event <= relayed
  BY <1>3, LoggedIs
<1> QED
  BY <1>1, <1>2, <1>3, <1>4 DEF Due

(* ... and from the channel.                                                 *)
LEMMA LiveNext ==
  ASSUME DeliveryInv, NEW c \in Client, ServeLive(c), Fresh(c, channel[rx[c] + 1])
  PROVE  /\ Due(c, channel[rx[c] + 1]) /\ Receive(c, channel[rx[c] + 1])
         /\ channel[rx[c] + 1].seq > LastId(c)
<1> DEFINE next == channel[rx[c] + 1]
<1>1. /\ conn[c] = "resub" /\ rx[c] # NotSubscribed /\ rx[c] < Len(channel) /\ rx[c] \in Nat
      /\ Receive(c, next) /\ QueueInv(c) /\ ChannelInv /\ channel \in Seq(Item)
  BY EventLogAssumption DEF DeliveryInv, TypeOK, ServeLive, Live, NotSubscribed
<1>2. rx[c] + 1 \in DOMAIN channel /\ rx[c] + 1 > rx[c]
  BY <1>1
<1>3. next.seq > LastId(c)
  BY <1>1 DEF Fresh, QueueInv
<1>4. Logged(next) /\ next.event > NewestOf(c)
  BY <1>1, <1>2, <1>3 DEF QueueInv, ChannelInv, Ahead
<1>5. next \in Item /\ next.event <= relayed
  BY <1>4, LoggedIs
<1> QED
  BY <1>1, <1>3, <1>4, <1>5 DEF Due

(* A client receives what is due to it, or nothing.                          *)
LEMMA SeenSteps ==
  ASSUME DeliveryInv, [Next]_vars, NEW c \in Client
  PROVE  \/ received'[c] = received[c]
         \/ \E i : Due(c, i) /\ Receive(c, i) /\ UNCHANGED <<logVars, relayed, relay, item>>
<1> USE DEF relayVars, readerVars
<1>1. CASE Produce \/ EndStream \/ Relay \/ OtherTask \/ Restart \/ UNCHANGED vars
  BY <1>1 DEF Produce, EndStream, Relay, Persist, PersistFails, Publish, Deliver, Close, OtherTask, Restart, vars
<1>2. ASSUME NEW d \in Client, NEW i, Receive(d, i), d # c PROVE received'[c] = received[c]
  BY <1>2 DEF Receive, DeliveryInv, TypeOK
<1>3. ASSUME NEW d \in Client,
             DirectEnds(d) \/ Disconnect(d) \/ Resubscribe(d) \/ Subscribe(d) \/ NoLiveTail(d)
               \/ CatchUp(d) \/ CatchUpFails(d) \/ TailEnds(d)
      PROVE  received'[c] = received[c]
  BY <1>3 DEF DirectEnds, Disconnect, Resubscribe, Subscribe, NoLiveTail, CatchUp, CatchUpFails, TailEnds, HangUp
<1>4. ASSUME NEW d \in Client, ReadDirect(d)
      PROVE  \/ received'[c] = received[c]
             \/ \E i : Due(c, i) /\ Receive(c, i) /\ UNCHANGED <<logVars, relayed, relay, item>>
  <2>1. Due(d, Head(wire)) /\ Receive(d, Head(wire)) /\ UNCHANGED <<logVars, relayed, relay, item>>
    BY <1>4, DirectNext DEF ReadDirect
  <2> QED
    BY <1>2, <2>1
<1>5. ASSUME NEW d \in Client, ServeHistory(d)
      PROVE  \/ received'[c] = received[c]
             \/ \E i : Due(c, i) /\ Receive(c, i) /\ UNCHANGED <<logVars, relayed, relay, item>>
  <2>1. Due(d, Head(queue[d])) /\ Receive(d, Head(queue[d])) /\ UNCHANGED <<logVars, relayed, relay, item>>
    BY <1>5, HistoryNext DEF ServeHistory
  <2> QED
    BY <1>2, <2>1
<1>6. ASSUME NEW d \in Client, ServeLive(d)
      PROVE  \/ received'[c] = received[c]
             \/ \E i : Due(c, i) /\ Receive(c, i) /\ UNCHANGED <<logVars, relayed, relay, item>>
  <2> DEFINE next == channel[rx[d] + 1]
  <2>1. UNCHANGED <<logVars, relayed, relay, item>>
    BY <1>6 DEF ServeLive
  <2>2. CASE Fresh(d, next)
    <3>1. Due(d, next) /\ Receive(d, next)
      BY <1>6, <2>2, LiveNext
    <3> QED
      BY <1>2, <2>1, <3>1
  <2>3. CASE ~Fresh(d, next)
    BY <1>6, <2>3 DEF ServeLive
  <2> QED
    BY <2>2, <2>3
<1> QED
  BY <1>1, <1>3, <1>4, <1>5, <1>6 DEF Next, Serve

(* The clients, step by step.                                                *)
LEMMA ClientStep ==
  ASSUME DeliveryInv, [Next]_vars, NEW c \in Client
  PROVE  ClientInv(c)'
<1>1. ASSUME NEW i, Due(c, i), Receive(c, i), UNCHANGED <<logVars, relayed, relay, item>>
      PROVE  ClientInv(c)'
  BY <1>1, ClientReceives
<1>2. ASSUME received'[c] = received[c] PROVE ClientInv(c)'
  <2>0. /\ LastId(c)' = LastId(c) /\ NewestOf(c)' = NewestOf(c) /\ Ids(c)' = Ids(c)
        /\ ClientInv(c) /\ NewestOf(c) \in Nat /\ NewestOf(c) <= relayed
    BY <1>2, SeenSame, SeenType DEF DeliveryInv, ClientInv
  <2>1. /\ relayed \in Nat /\ relayed' \in Nat /\ relayed <= relayed'
        /\ \A row \in Rows(Streamed)' : row \in Rows(Streamed) \/ (Persist /\ row.event = relayed')
    BY LogStep
  <2>2. NewestOf(c)' <= relayed'
    BY <2>0, <2>1
  <2>3. Persist => relayed' > NewestOf(c)
    BY <2>0, <2>1 DEF Persist
  <2>4. \A row \in Rows(Streamed)' : Ahead(c, row)'
    <3> SUFFICES ASSUME NEW row \in Rows(Streamed)', row.seq > LastId(c) PROVE row.event > NewestOf(c)
      BY <2>0 DEF Ahead
    <3> QED
      BY <2>0, <2>1, <2>3 DEF ClientInv, Ahead
  <2>5. relay' = "publish" => Ahead(c, item)'
    <3>1. CASE Persist
      <4>1. item'.event = relayed'
        BY <3>1 DEF Persist
      <4> QED
        BY <2>0, <2>3, <3>1, <4>1 DEF Ahead
    <3>2. CASE RelayKept
      BY <2>0, <3>2 DEF RelayKept, ClientInv, Ahead
    <3>3. CASE PersistFails \/ Publish \/ Deliver \/ Close \/ Restart
      BY <3>3 DEF PersistFails, Publish, Deliver, Close, Restart
    <3> QED
      BY <3>1, <3>2, <3>3, RelaySteps
  <2> QED
    BY <2>0, <2>2, <2>4, <2>5 DEF ClientInv
<1> QED
  BY <1>1, <1>2, SeenSteps

(* A replay from the last id is due, in its order.                           *)
LEMMA ReplayDue ==
  ASSUME DeliveryInv, NEW c \in Client
  PROVE  LET q == Replay(LastId(c))
         IN  /\ q \in Seq(Item)
             /\ \A k \in DOMAIN q : Logged(q[k]) /\ q[k].event > NewestOf(c)
             /\ \A j, k \in DOMAIN q : j < k => q[j].event < q[k].event
<1> DEFINE q == Replay(LastId(c))
<1>1. /\ q \in Seq(Item)
      /\ \A k \in DOMAIN q : /\ q[k].seq > LastId(c)
                              /\ \E row \in Rows(Streamed) : q[k] = AsItem(row)
      /\ \A j, k \in DOMAIN q : j < k => q[j].seq < q[k].seq
  <2>1. LogInv /\ LastId(c) \in Nat
    BY SeenType DEF DeliveryInv
  <2> QED
    BY <2>1, ReplayIs
<1> HIDE DEF q
<1>2. ASSUME NEW k \in DOMAIN q PROVE Logged(q[k]) /\ q[k].event > NewestOf(c)
  <2>1. PICK row \in Rows(Streamed) : q[k] = AsItem(row)
    BY <1>1
  <2>2. Logged(q[k]) /\ q[k].seq = row.seq /\ q[k].event = row.event
    BY <2>1, RowsLogged
  <2>3. Ahead(c, row)
    BY DEF DeliveryInv, ClientInv
  <2> QED
    BY <1>1, <2>2, <2>3 DEF Ahead
<1>3. ASSUME NEW j \in DOMAIN q, NEW k \in DOMAIN q, j < k PROVE q[j].event < q[k].event
  <2>1. PICK row \in Rows(Streamed) : q[k] = AsItem(row)
    BY <1>1
  <2>2. q[k].seq = row.seq /\ q[k].event = row.event
    BY <2>1, RowsLogged
  <2>3. Logged(q[j]) /\ q[j] \in Item /\ q[k] \in Item
    BY <1>1, <1>2
  <2>4. row.seq > q[j].seq
    BY <1>1, <1>3, <2>2, <2>3 DEF Item
  <2>5. row.event > q[j].event
    BY <2>3, <2>4, LaterThanLogged
  <2> QED
    BY <2>2, <2>3, <2>5 DEF Item
<1> QED
  BY <1>1, <1>2, <1>3 DEF q

(* The resubscriptions, step by step.                                        *)
LEMMA QueueStep ==
  ASSUME DeliveryInv, [Next]_vars, NEW c \in Client
  PROVE  QueueInv(c)'
<1> DEFINE n == Len(channel)
<1>0. /\ QueueInv(c) /\ ChannelInv /\ ClientInv(c)
      /\ channel \in Seq(Item) /\ n \in Nat /\ DOMAIN channel = 1 .. n
      /\ conn \in [Client -> {"direct", "resub", "off"}]
      /\ queue \in [Client -> Seq(Item)] /\ rx \in [Client -> 0 .. NotSubscribed]
      /\ lastSeq \in [Client -> Nat] /\ NotSubscribed \in Nat
      /\ queue[c] \in Seq(Item) /\ rx[c] \in Nat /\ LastId(c) \in Nat
  BY SeenType, EventLogAssumption DEF DeliveryInv, TypeOK, NotSubscribed
<1>1. \A i : Logged(i) => Logged(i)'
  BY LogStep
(* A step that is not the client's.                                          *)
<1>2. ASSUME conn'[c] = conn[c], queue'[c] = queue[c], rx'[c] = rx[c], lastSeq'[c] = lastSeq[c],
             received'[c] = received[c], channel' = channel \/ Publish
      PROVE  QueueInv(c)'
  <2>1. LastId(c)' = LastId(c) /\ NewestOf(c)' = NewestOf(c)
    BY <1>2, SeenSame
  <2>2. \A k \in DOMAIN queue[c] : Logged(queue[c][k])'
    BY <1>0, <1>1, <1>2 DEF QueueInv, Logged
  <2>3. NotSubscribed' = NotSubscribed
    BY DEF NotSubscribed
  <2>4. ASSUME rx[c] # NotSubscribed
        PROVE  rx[c] <= Len(channel') /\ \A k \in DOMAIN channel' : k > rx[c] => Ahead(c, channel[k])'
    <3>1. rx[c] <= n /\ \A k \in 1 .. n : k > rx[c] => Ahead(c, channel[k])
      BY <1>0, <2>4 DEF QueueInv
    <3>2. CASE channel' = channel
      BY <1>0, <2>1, <3>1, <3>2 DEF Ahead
    <3>3. CASE Publish
      <4>1. channel' = Append(channel, item) /\ item \in Item /\ Ahead(c, item)
        BY <1>0, <3>3 DEF Publish, ClientInv, DeliveryInv, TypeOK
      <4>2. /\ Len(channel') = n + 1 /\ DOMAIN channel' = 1 .. n + 1 /\ channel'[n + 1] = item
            /\ \A k \in 1 .. n : channel'[k] = channel[k]
        BY <1>0, <4>1
      <4>3. ASSUME NEW k \in 1 .. n + 1, k > rx[c] PROVE Ahead(c, channel[k])'
        <5>1. CASE k = n + 1
          BY <2>1, <4>1, <4>2, <5>1 DEF Ahead
        <5>2. CASE k # n + 1
          <6>1. k \in 1 .. n /\ channel'[k] = channel[k]
            BY <1>0, <4>2, <5>2
          <6> QED
            BY <2>1, <3>1, <4>3, <6>1 DEF Ahead
        <5> QED
          BY <5>1, <5>2
      <4> QED
        BY <1>0, <3>1, <4>2, <4>3
    <3> QED
      BY <1>2, <3>2, <3>3
  <2> QED
    BY <1>0, <1>2, <2>1, <2>2, <2>3, <2>4 DEF QueueInv
<1>3. CASE Produce \/ EndStream \/ Relay \/ OtherTask \/ UNCHANGED vars
  BY <1>2, <1>3 DEF Produce, EndStream, Relay, Persist, PersistFails, Publish, Deliver, Close, OtherTask,
                    vars, relayVars, readerVars
<1>4. ASSUME NEW d \in Client,
             ReadDirect(d) \/ DirectEnds(d) \/ Disconnect(d) \/ Resubscribe(d) \/ Serve(d), d # c
      PROVE  QueueInv(c)'
  <2>1. channel' = channel /\ received'[c] = received[c]
    BY <1>4 DEF ReadDirect, DirectEnds, Disconnect, Resubscribe, Serve, ServeHistory, Subscribe, NoLiveTail,
                ServeLive, CatchUp, CatchUpFails, TailEnds, HangUp, Receive, relayVars, DeliveryInv, TypeOK
  <2>2. conn'[c] = conn[c] /\ queue'[c] = queue[c]
    BY <1>0, <1>4 DEF ReadDirect, DirectEnds, Disconnect, Resubscribe, Serve, ServeHistory, Subscribe, NoLiveTail,
                ServeLive, CatchUp, CatchUpFails, TailEnds, HangUp
  <2>3. rx'[c] = rx[c] /\ lastSeq'[c] = lastSeq[c]
    BY <1>0, <1>4 DEF ReadDirect, DirectEnds, Disconnect, Resubscribe, Serve, ServeHistory, Subscribe, NoLiveTail,
                ServeLive, CatchUp, CatchUpFails, TailEnds, HangUp
  <2> QED
    BY <1>2, <2>1, <2>2, <2>3
(* The client's own.                                                         *)
<1>5. ASSUME queue'[c] = <<>>, conn'[c] = "off", rx'[c] = NotSubscribed PROVE QueueInv(c)'
  BY <1>5 DEF QueueInv, NotSubscribed
<1>6. CASE DirectEnds(c) \/ Disconnect(c) \/ NoLiveTail(c) \/ CatchUpFails(c) \/ TailEnds(c)
  <2>1. HangUp(c)
    BY <1>6 DEF DirectEnds, Disconnect, NoLiveTail, CatchUpFails, TailEnds
  <2> QED
    BY <1>0, <1>5, <2>1 DEF HangUp
<1>7. CASE ReadDirect(c)
  <2>1. /\ conn[c] = "direct" /\ conn' = conn /\ queue' = queue /\ rx' = rx
    BY <1>7 DEF ReadDirect
  <2>2. queue[c] = <<>> /\ rx[c] = NotSubscribed
    BY <1>0, <2>1 DEF QueueInv
  <2> QED
    BY <2>1, <2>2 DEF QueueInv, NotSubscribed
<1>8. ASSUME queue'[c] = Replay(LastId(c)), conn'[c] = "resub", rx'[c] = NotSubscribed,
             queue'[c] = <<>> => lastSeq'[c] = LastId(c), received' = received
      PROVE  QueueInv(c)'
  <2> DEFINE q == Replay(LastId(c))
  <2>1. LastId(c)' = LastId(c) /\ NewestOf(c)' = NewestOf(c)
    BY <1>8, SeenSame
  <2>2. /\ \A k \in DOMAIN q : Logged(q[k]) /\ q[k].event > NewestOf(c)
        /\ \A j, k \in DOMAIN q : j < k => q[j].event < q[k].event
    BY ReplayDue
  <2> HIDE DEF q
  <2>3. \A k \in DOMAIN q : Logged(queue[c][k])'
    BY <1>1, <1>8, <2>2 DEF Logged, q
  <2>4. queue'[c] = q /\ NotSubscribed' = NotSubscribed
    BY <1>8 DEF q, NotSubscribed
  <2> QED
    BY <1>8, <2>1, <2>2, <2>3, <2>4 DEF QueueInv
<1>9. CASE Resubscribe(c)
  <2>1. /\ conn[c] = "off" /\ queue' = [queue EXCEPT ![c] = Replay(LastId(c))]
        /\ conn' = [conn EXCEPT ![c] = "resub"] /\ rx' = rx /\ received' = received
        /\ lastSeq' = [lastSeq EXCEPT ![c] = IF queue'[c] = <<>> THEN LastId(c) ELSE Last(queue'[c]).seq]
    BY <1>9 DEF Resubscribe
  <2>2. rx[c] = NotSubscribed
    BY <1>0, <2>1 DEF QueueInv
  <2> QED
    BY <1>0, <1>8, <2>1, <2>2
<1>10. CASE CatchUp(c)
  <2>1. /\ conn[c] = "resub" /\ rx[c] # NotSubscribed /\ conn' = conn /\ received' = received /\ lastSeq' = lastSeq
        /\ queue' = [queue EXCEPT ![c] = Replay(lastSeq[c])] /\ rx' = [rx EXCEPT ![c] = NotSubscribed]
    BY <1>10 DEF CatchUp, Live
  <2>2. lastSeq[c] = LastId(c)
    BY <1>0, <2>1 DEF QueueInv
  <2> QED
    BY <1>0, <1>8, <2>1, <2>2
<1>11. CASE Subscribe(c)
  <2>1. /\ conn[c] = "resub" /\ queue[c] = <<>> /\ conn' = conn /\ queue' = queue /\ lastSeq' = lastSeq
        /\ received' = received /\ channel' = channel /\ rx'[c] = n
    BY <1>0, <1>11 DEF Subscribe, relayVars
  <2>2. LastId(c)' = LastId(c)
    BY <2>1, SeenSame
  <2>3. lastSeq[c] = LastId(c)
    BY <1>0, <2>1 DEF QueueInv
  <2>4. rx'[c] <= Len(channel') /\ \A k \in DOMAIN channel' : ~(k > rx'[c])
    BY <1>0, <2>1
  <2>5. queue'[c] = <<>> /\ conn'[c] = "resub"
    BY <2>1
  <2> QED
    BY <2>1, <2>2, <2>3, <2>4, <2>5 DEF QueueInv
<1>12. CASE ServeHistory(c)
  <2> DEFINE q == queue[c]
             i == Head(queue[c])
  <2>1. /\ conn[c] = "resub" /\ q # <<>> /\ conn' = conn /\ rx' = rx
        /\ queue'[c] = Tail(q) /\ lastSeq'[c] = i.seq
    BY <1>0, <1>12 DEF ServeHistory
  <2>2. rx[c] = NotSubscribed
    BY <1>0, <2>1 DEF QueueInv
  <2>3. /\ Len(q) \in Nat /\ Len(q) > 0 /\ DOMAIN q = 1 .. Len(q) /\ i = q[1]
        /\ DOMAIN Tail(q) = 1 .. Len(q) - 1
        /\ \A k \in 1 .. Len(q) - 1 : Tail(q)[k] = q[k + 1]
    BY <1>0, <2>1
  <2>4. /\ \A k \in 1 .. Len(q) : Logged(q[k])
        /\ \A j, k \in 1 .. Len(q) : j < k => q[j].event < q[k].event
    BY <1>0, <2>3 DEF QueueInv
  <2>5. i \in Item /\ i.seq > 0 /\ Receive(c, i)
    <3>1. 1 \in 1 .. Len(q)
      BY <2>3
    <3> QED
      BY <1>12, <2>3, <2>4, <3>1, LoggedIs DEF ServeHistory
  <2>6. NewestOf(c)' = i.event /\ LastId(c)' = i.seq
    BY <2>5, SeenMore
  <2>7. ASSUME NEW k \in 1 .. Len(q) - 1
        PROVE  /\ k + 1 \in 1 .. Len(q) /\ Tail(q)[k] = q[k + 1]
               /\ Logged(queue[c][k])' /\ Tail(q)[k].event > i.event
    <3>1. k + 1 \in 1 .. Len(q) /\ 1 \in 1 .. Len(q) /\ 1 < k + 1 /\ Tail(q)[k] = q[k + 1]
      BY <2>3
    <3>2. Logged(q[k + 1]) /\ q[1].event < q[k + 1].event
      BY <2>4, <3>1
    <3>3. q[1] \in Item /\ q[k + 1] \in Item
      BY <2>4, <3>1, LoggedIs
    <3>4. Logged(queue[c][k])'
      BY <1>1, <2>1, <3>1, <3>2 DEF Logged
    <3> QED
      BY <2>3, <3>1, <3>2, <3>3, <3>4 DEF Item
  <2>8. ASSUME NEW j \in 1 .. Len(q) - 1, NEW k \in 1 .. Len(q) - 1, j < k
        PROVE  Tail(q)[j].event < Tail(q)[k].event
    <3>1. j + 1 < k + 1
      BY <2>3, <2>8
    <3> QED
      BY <2>4, <2>7, <3>1
  <2> HIDE DEF q, i
  <2>9. NotSubscribed' = NotSubscribed
    BY DEF NotSubscribed
  <2> QED
    BY <2>1, <2>2, <2>3, <2>6, <2>7, <2>8, <2>9 DEF QueueInv
<1>13. CASE ServeLive(c)
  <2> DEFINE next == channel[rx[c] + 1]
  <2>1. /\ conn[c] = "resub" /\ rx[c] # NotSubscribed /\ rx[c] < n
        /\ conn' = conn /\ queue' = queue /\ channel' = channel /\ rx'[c] = rx[c] + 1
    BY <1>0, <1>13 DEF ServeLive, Live, relayVars
  <2>2. /\ queue[c] = <<>> /\ lastSeq[c] = LastId(c)
        /\ \A k \in 1 .. n : k > rx[c] => Ahead(c, channel[k])
    BY <1>0, <2>1 DEF QueueInv
  <2>3. rx[c] + 1 \in 1 .. n
    BY <1>0, <2>1
  <2>4. CASE Fresh(c, next)
    <3>1. /\ Due(c, next) /\ Receive(c, next) /\ next.seq > LastId(c) /\ lastSeq'[c] = next.seq
      BY <1>0, <1>13, <2>4, LiveNext DEF ServeLive
    <3>2. next \in Item /\ next.seq > 0 /\ next.event \in Nat
      BY <1>0, <3>1 DEF Due, Item
    <3>3. NewestOf(c)' = next.event /\ LastId(c)' = next.seq
      BY <3>1, <3>2, SeenMore
    <3>4. ASSUME NEW k \in 1 .. n, k > rx[c] + 1 PROVE Ahead(c, channel[k])'
      <4>1. next.event < channel[k].event
        BY <1>0, <2>3, <3>4 DEF ChannelInv
      <4>2. channel[k].event \in Nat
        <5>1. channel[k] \in Item
          BY <1>0
        <5> QED
          BY <5>1 DEF Item
      <4> QED
        BY <2>1, <3>2, <3>3, <4>1, <4>2 DEF Ahead
    <3> HIDE DEF next
    <3> QED
      BY <1>0, <2>1, <2>2, <2>3, <3>1, <3>3, <3>4 DEF QueueInv
  <2>5. CASE ~Fresh(c, next)
    <3>1. received' = received /\ lastSeq' = lastSeq
      BY <1>13, <2>5 DEF ServeLive
    <3>2. LastId(c)' = LastId(c) /\ NewestOf(c)' = NewestOf(c)
      BY <3>1, SeenSame
    <3>3. ASSUME NEW k \in 1 .. n, k > rx[c] + 1 PROVE Ahead(c, channel[k])'
      <4>1. k > rx[c]
        BY <1>0, <3>3
      <4> QED
        BY <2>1, <2>2, <3>2, <4>1 DEF Ahead
    <3> HIDE DEF next
    <3> QED
      BY <1>0, <2>1, <2>2, <2>3, <3>1, <3>2, <3>3 DEF QueueInv
  <2> QED
    BY <2>4, <2>5
<1>14. CASE Restart
  <2>1. queue'[c] = <<>> /\ conn'[c] = "off" /\ rx'[c] = NotSubscribed
    BY <1>14 DEF Restart
  <2> QED
    BY <1>5, <2>1
<1> QED
  BY <1>3, <1>4, <1>6, <1>7, <1>9, <1>10, <1>11, <1>12, <1>13, <1>14 DEF Next, Serve

-----------------------------------------------------------------------------
(* It holds at the start.                                                    *)
LEMMA DeliveryInit == Init => DeliveryInv
<1> SUFFICES ASSUME Init PROVE DeliveryInv
  OBVIOUS
<1>1. /\ LogInv /\ issued[Streamed] = <<>> /\ Rows(Streamed) = {}
      /\ \A t \in Task : issued[t] = <<>>
  BY LogInvInit, StreamDeliveryAssumption DEF Init, LogInit, Rows
<1>2. /\ produced = 0 /\ relayed = 0 /\ relay = "recv" /\ item = NoItem /\ ended = FALSE
      /\ wire = <<>> /\ channel = <<>> /\ hub = "none"
      /\ conn = [c \in Client |-> IF c = Sender /\ ~Detached THEN "direct" ELSE "off"]
      /\ queue = [c \in Client |-> <<>>] /\ rx = [c \in Client |-> NotSubscribed]
      /\ lastSeq = [c \in Client |-> 0] /\ received = [c \in Client |-> <<>>]
  BY DEF Init
<1>3. \A c \in Client : /\ received[c] = <<>> /\ queue[c] = <<>> /\ rx[c] = NotSubscribed
                        /\ conn[c] # "resub" /\ (conn[c] = "direct" => c = Sender)
  BY <1>2
<1>4. TypeOK
  <2>1. MaxEvents \in Nat /\ NotSubscribed \in 0 .. NotSubscribed /\ NoItem \in Item
    BY EventLogAssumption DEF NotSubscribed, NoItem, Item
  <2>2. LogTypeOK /\ (<<>> \in Seq(Item)) /\ produced \in 0 .. MaxEvents /\ relayed \in 0 .. produced
    BY <1>1, <1>2, <2>1 DEF LogInv
  <2> QED
    BY <1>2, <2>1, <2>2 DEF TypeOK
<1>5. TakenInv /\ ItemInv /\ ChannelInv
  BY <1>1, <1>2 DEF TakenInv, ItemInv, ChannelInv, Counted, Published
<1>6. WireInv
  <2>1. Sender \in Client /\ received[Sender] = <<>>
    BY <1>3, StreamDeliveryAssumption
  <2> QED
    BY <1>2, <1>3, <2>1 DEF WireInv, Delivered
<1>7. ASSUME NEW c \in Client PROVE ClientInv(c) /\ QueueInv(c)
  <2>1. Ids(c) = {} /\ NewestOf(c) = 0
    BY <1>3 DEF Ids, NewestOf
  <2> QED
    BY <1>1, <1>2, <1>3, <2>1 DEF ClientInv, QueueInv
<1> QED
  BY <1>1, <1>4, <1>5, <1>6, <1>7 DEF DeliveryInv

(* The invariant holds throughout.                                           *)
LEMMA Inductive == Spec => []DeliveryInv
<1>1. DeliveryInv /\ [Next]_vars => DeliveryInv'
  <2> SUFFICES ASSUME DeliveryInv, [Next]_vars PROVE DeliveryInv'
    OBVIOUS
  <2>1. TypeOK' /\ LogInv' /\ TakenInv' /\ ItemInv' /\ ChannelInv' /\ WireInv'
    BY TypeStep, LogStep, RelayStep, WireStep
  <2>2. \A c \in Client : ClientInv(c)' /\ QueueInv(c)'
    BY ClientStep, QueueStep
  <2> QED
    BY <2>1, <2>2 DEF DeliveryInv
<1> QED
  BY <1>1, DeliveryInit, PTL DEF Spec

(* The types of the relay, the hub, the log and the resubscriptions.         *)
THEOREM TypeCorrect == Spec => []TypeOK
BY Inductive, PTL DEF DeliveryInv

(* KeepsNewest: what the log keeps of a task are its newest rows, although   *)
(* a cleanup goes by seq over all tasks.                                     *)
THEOREM KeepsNewestHolds == Spec => []KeepsNewest
BY Inductive, PTL DEF DeliveryInv, LogInv

(* DirectComplete: a sender that stays connected misses nothing, whatever    *)
(* fails to be persisted and whatever is cleaned up.                         *)
THEOREM DirectCompleteHolds == Spec => []DirectComplete
<1>1. DeliveryInv => DirectComplete
  <2> SUFFICES ASSUME DeliveryInv, conn[Sender] = "direct"
               PROVE  Events(received[Sender] \o wire) = [i \in 1 .. Delivered |-> i]
    BY DEF DirectComplete, Delivered
  <2> DEFINE got == received[Sender]
             seen == got \o wire
             m == Len(got)
             n == Len(wire)
  <2>1. /\ got \in Seq(Item) /\ wire \in Seq(Item) /\ m \in Nat /\ n \in Nat
        /\ DOMAIN got = 1 .. m /\ DOMAIN wire = 1 .. n
    BY StreamDeliveryAssumption DEF DeliveryInv, TypeOK
  <2>2. /\ m + n = Delivered
        /\ \A k \in 1 .. m : got[k].event = k
        /\ \A k \in 1 .. n : wire[k].event = m + k
    BY <2>1 DEF DeliveryInv, WireInv
  <2>3. DOMAIN seen = 1 .. Delivered
    BY <2>1, <2>2
  <2>4. ASSUME NEW i \in 1 .. Delivered PROVE seen[i].event = i
    <3>1. CASE i <= m
      BY <2>1, <2>2, <3>1
    <3>2. CASE ~(i <= m)
      <4>1. seen[i] = wire[i - m] /\ i - m \in 1 .. n
        BY <2>1, <2>2, <3>2
      <4>2. wire[i - m].event = m + (i - m)
        BY <2>2, <4>1
      <4> QED
        BY <2>1, <2>2, <4>1, <4>2
    <3> QED
      BY <3>1, <3>2
  <2> HIDE DEF seen
  <2>5. Events(seen) = [i \in 1 .. Delivered |-> i]
    BY <2>3, <2>4 DEF Events
  <2> QED
    BY <2>5 DEF seen
<1> QED
  BY <1>1, Inductive, PTL

(* InOrderOnce: the delivery implements EventFeed.  A step of the relay that *)
(* takes an event yields it, one in which a client receives an item gets it, *)
(* and all others stutter.                                                   *)
THEOREM InOrderOnceHolds == Spec => InOrderOnce
<1> DEFINE got == [c \in Client |-> Events(received[c])]
<1>1. Init => Feed!FeedInit
  <2> SUFFICES ASSUME Init PROVE Feed!FeedInit
    OBVIOUS
  <2>1. relayed = 0 /\ \A c \in Client : received[c] = <<>>
    BY DEF Init
  <2>2. \A c \in Client : Events(received[c]) = <<>>
    BY <2>1 DEF Events
  <2> QED
    BY <2>1, <2>2 DEF Feed!FeedInit
<1>2. DeliveryInv /\ [Next]_vars => [Feed!FeedNext]_<<relayed, got>>
  <2> SUFFICES ASSUME DeliveryInv, [Next]_vars PROVE [Feed!FeedNext]_<<relayed, got>>
    OBVIOUS
  <2>0. relayed \in Nat /\ received \in [Client -> Seq(Item)]
    BY DEF DeliveryInv, TypeOK
  <2>1. CASE received' = received
    <3>1. got' = got
      BY <2>1
    <3>2. relayed' = relayed \/ relayed' = relayed + 1
      <4>1. RelayKept \/ Publish \/ Deliver \/ Close \/ Restart => relayed' = relayed
        BY DEF RelayKept, Publish, Deliver, Close, Restart
      <4>2. Persist \/ PersistFails => relayed' = relayed + 1
        BY DEF Persist, PersistFails
      <4> QED
        BY <4>1, <4>2, RelaySteps
    <3> QED
      BY <3>1, <3>2 DEF Feed!FeedNext, Feed!Yield
  <2>2. ASSUME NEW c \in Client, NEW i, Due(c, i), Receive(c, i), relayed' = relayed
        PROVE  Feed!FeedNext
    <3> DEFINE n == Len(received[c])
    <3>1. /\ received' = [received EXCEPT ![c] = Append(@, i)] /\ i \in Item /\ n \in Nat
          /\ received[c] \in Seq(Item) /\ DOMAIN received[c] = 1 .. n
      BY <2>0, <2>2 DEF Receive, Due
    <3>2. /\ received'[c] = Append(received[c], i)
          /\ \A d \in Client \ {c} : received'[d] = received[d]
      BY <2>0, <3>1
    <3>3. Events(Append(received[c], i)) = Append(Events(received[c]), i.event)
      BY <3>1 DEF Events
    <3>4. got' = [got EXCEPT ![c] = Append(@, i.event)]
      <4>1. \A d \in Client : got'[d] = [got EXCEPT ![c] = Append(@, i.event)][d]
        BY <3>2, <3>3
      <4> QED
        BY <4>1
    <3>5. Feed!Newest(c) = NewestOf(c)
      <4>1. Events(received[c]) = <<>> <=> received[c] = <<>>
        BY <3>1 DEF Events
      <4>2. received[c] # <<>> =>
              /\ Len(Events(received[c])) = n
              /\ Events(received[c])[n] = received[c][n].event
        BY <3>1 DEF Events
      <4> QED
        BY <4>1, <4>2 DEF Feed!Newest, NewestOf
    <3>6. i.event \in Feed!Newest(c) + 1 .. relayed
      <4>1. NewestOf(c) \in Nat /\ i.event \in Nat /\ i.event > NewestOf(c) /\ i.event <= relayed
        BY <2>2, SeenType DEF Due, Item
      <4> QED
        BY <2>0, <3>5, <4>1
    <3> HIDE DEF got
    <3>7. Feed!Get(c)
      BY <2>2, <3>4, <3>6 DEF Feed!Get, got
    <3> QED
      BY <3>7 DEF Feed!FeedNext
  <2>3. CASE received' # received
    <3>1. PICK c \in Client : received'[c] # received[c]
      <4>1. received' \in [Client -> Seq(Item)]
        BY TypeStep DEF TypeOK
      <4> QED
        BY <2>0, <2>3, <4>1
    <3>2. PICK i : Due(c, i) /\ Receive(c, i) /\ relayed' = relayed
      BY <3>1, SeenSteps
    <3> QED
      BY <2>2, <3>2
  <2> QED
    BY <2>1, <2>3
<1> QED
  BY <1>1, <1>2, Inductive, PTL DEF Spec, InOrderOnce, Feed!FeedSpec

=============================================================================
