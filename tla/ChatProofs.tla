----------------------------- MODULE ChatProofs -----------------------------
(***************************************************************************)
(* Proofs about Chat, for any number of requests, threads, versions and    *)
(* turns and any length of the history.                                    *)
(*                                                                         *)
(* Nothing keeps a version while a request goes by it, so what a request   *)
(* has read says nothing of the versions that are there.  What does is a   *)
(* stored turn: the version it used cannot be deleted any more, and turns  *)
(* are only ever appended.  A request that pins the version its client     *)
(* named has stored such a turn.                                           *)
(***************************************************************************)
EXTENDS Chat, FiniteSetTheorems, WellFoundedInduction, TLAPS

(***************************************************************************)
(* Operators on sets and sequences.                                        *)
(***************************************************************************)

\* Messages of whole turns.
Whole(S) == \A m \in S : {<<m[1], 1>>, <<m[1], 2>>} \subseteq S

LEMMA LeastOK ==
    ASSUME NEW S \in SUBSET Nat, S # {}
    PROVE  \E x \in S : \A y \in S : x <= y
<1>1. PICK x \in S : \A y \in S : ~(<<y, x>> \in OpToRel(<, Nat))
  BY NatLessThanWellFounded, WFMin
<1>2. \A y \in S : ~(y < x)
  BY <1>1 DEF OpToRel
<1> QED BY <1>2

LEMMA MaxOK ==
    ASSUME NEW n \in Nat, NEW V \in SUBSET (1 .. n), V # {}
    PROVE  Max(V) \in V
<1> DEFINE below == {n - v : v \in V}
<1>1. \A v \in V : v \in 1 .. n /\ n - v \in Nat
  OBVIOUS
<1>2. below \subseteq Nat /\ below # {}
  BY <1>1
<1>3. PICK v \in V : \A y \in below : n - v <= y
  BY <1>2, LeastOK
<1>4. \A w \in V : v >= w
  BY <1>1, <1>3
<1> QED BY <1>4 DEF Max

LEMMA MinOK ==
    ASSUME NEW a \in Nat, NEW b \in Nat
    PROVE  Min({a, b}) = IF a <= b THEN a ELSE b
BY DEF Min

\* The pair of neighbours a place belongs to.
LEMMA HalfOK ==
    ASSUME NEW x \in Nat \ {0}
    PROVE  \E i \in Nat \ {0} : x = 2 * i - 1 \/ x = 2 * i
<1>1. CASE x % 2 = 0
  <2>1. x \div 2 \in Nat \ {0} /\ x = 2 * (x \div 2)
    BY <1>1
  <2> QED BY <2>1
<1>2. CASE x % 2 = 1
  <2>1. (x \div 2) + 1 \in Nat \ {0} /\ x = 2 * ((x \div 2) + 1) - 1
    BY <1>2
  <2> QED BY <2>1
<1> QED BY <1>1, <1>2

LEMMA MessageOK ==
    ASSUME NEW m \in Message
    PROVE  m[1] \in 1 .. MaxTurns /\ m[1] \in Nat /\ m[2] \in {1, 2} /\ m = <<m[1], m[2]>>
BY ChatAssumption DEF Message

\* In a list of whole turns, latest first, the messages of a turn are neighbours,
\* the first of them at an odd place.
LEMMA PairsOK ==
    ASSUME NEW R \in SUBSET Message, Whole(R), NEW n \in Nat, NEW s \in [1 .. n -> R],
           \A j, k \in 1 .. n : j # k => s[j] # s[k],
           \A m \in R : \E j \in 1 .. n : s[j] = m,
           \A j, k \in 1 .. n : j < k => s[j][1] >= s[k][1]
    PROVE  \A k \in Nat \ {0} : 2 * k <= n => s[2 * k - 1][1] = s[2 * k][1]
<1> DEFINE split == {k \in Nat \ {0} : 2 * k <= n /\ s[2 * k - 1][1] # s[2 * k][1]}
<1> SUFFICES ASSUME split # {} PROVE FALSE
  OBVIOUS
<1>1. PICK k \in split : \A i \in split : k <= i
  BY LeastOK
<1> DEFINE a == s[2 * k - 1][1]
           b == s[2 * k - 1][2]
<1>2. /\ k \in Nat \ {0} /\ 2 * k <= n
      /\ 2 * k - 1 \in 1 .. n /\ 2 * k \in 1 .. n /\ s[2 * k][1] # a
  BY <1>1
<1>3. \A i \in 1 .. n : /\ s[i] \in R /\ s[i][1] \in Nat /\ s[i][2] \in {1, 2}
                        /\ s[i] = <<s[i][1], s[i][2]>>
  BY MessageOK
<1>4. <<a, 3 - b>> \in R /\ b \in {1, 2}
  <2>1. s[2 * k - 1] \in R /\ b \in {1, 2}
    BY <1>2, <1>3
  <2>2. <<a, 1>> \in R /\ <<a, 2>> \in R
    BY <2>1 DEF Whole
  <2>3. 3 - b = 1 \/ 3 - b = 2
    BY <2>1
  <2> QED BY <2>1, <2>2, <2>3
<1>5. PICK j \in 1 .. n : s[j] = <<a, 3 - b>>
  BY <1>4
<1>6. s[j][1] = a /\ s[j][2] = 3 - b /\ j # 2 * k - 1 /\ j # 2 * k
  <2>1. s[j][1] = a /\ s[j][2] = 3 - b
    BY <1>5
  <2>2. 3 - b # b
    BY <1>4
  <2> QED BY <1>2, <2>1, <2>2
<1>7. CASE j > 2 * k
  <2>1. a >= s[2 * k][1] /\ s[2 * k][1] >= a
    BY <1>2, <1>6, <1>7
  <2> QED BY <1>2, <1>3, <2>1
<1>8. CASE j < 2 * k - 1
  <2>1. PICK i \in Nat \ {0} : j = 2 * i - 1 \/ j = 2 * i
    <3>1. j \in Nat \ {0}
      BY <1>2
    <3> QED BY <3>1, HalfOK
  <2>2. i < k /\ 2 * i <= n /\ 2 * i - 1 \in 1 .. n /\ 2 * i \in 1 .. n
    BY <1>2, <1>8, <2>1
  <2>3. i \notin split
    BY <1>1, <1>2, <2>2
  <2>4. s[2 * i - 1][1] = s[2 * i][1]
    BY <2>2, <2>3
  <2>5. s[2 * i - 1][1] = a /\ s[2 * i][1] = a
    BY <1>6, <2>1, <2>4
  <2>6. /\ s[2 * i - 1] # s[2 * i] /\ s[2 * i - 1] # s[2 * k - 1] /\ s[2 * i] # s[2 * k - 1]
    BY <1>2, <2>2
  <2> HIDE DEF a
  <2>7. /\ s[2 * i - 1] = <<a, s[2 * i - 1][2]>> /\ s[2 * i - 1][2] \in {1, 2}
        /\ s[2 * i] = <<a, s[2 * i][2]>> /\ s[2 * i][2] \in {1, 2}
        /\ s[2 * k - 1] = <<a, b>>
    BY <1>2, <1>3, <2>2, <2>5 DEF a
  <2> QED BY <1>4, <2>6, <2>7
<1> QED BY <1>2, <1>6, <1>7, <1>8

LEMMA LimitedOK ==
    ASSUME NEW t \in Threads, turns \in Seq(Turn), Len(turns) <= MaxTurns,
           NEW s \in Listings(t)
    PROVE  /\ Reverse(Limited(s)) \in Seq(Message)
           /\ Len(Reverse(Limited(s))) <= HistoryLimit
           /\ HistoryLimit % 2 = 0 => Whole(Range(Reverse(Limited(s))))
<1> DEFINE rows == {m \in Message : m[1] \in DOMAIN turns /\ turns[m[1]].thread = t}
           n    == Cardinality(rows)
           l    == IF n <= HistoryLimit THEN n ELSE HistoryLimit
           r    == Reverse(Limited(s))
<1>1. IsFiniteSet(Message)
  <2>1. IsFiniteSet(1 .. MaxTurns)
    BY ChatAssumption, FS_Interval
  <2>2. IsFiniteSet({1, 2})
    <3>1. IsFiniteSet({1})
      BY FS_Singleton
    <3>2. IsFiniteSet({1} \cup {2})
      BY <3>1, FS_AddElement
    <3>3. {1} \cup {2} = {1, 2}
      OBVIOUS
    <3> QED BY <3>2, <3>3
  <2> QED BY <2>1, <2>2, FS_Product DEF Message
<1>2. rows \in SUBSET Message /\ IsFiniteSet(rows) /\ n \in Nat
  BY <1>1, FS_Subset, FS_CardinalityType
<1>3. Whole(rows)
  BY ChatAssumption DEF Whole, Message
<1> HIDE DEF rows
<1>4. /\ s \in [1 .. n -> rows]
      /\ \A j, k \in 1 .. n : j # k => s[j] # s[k]
      /\ \A j, k \in DOMAIN s : j < k => s[j][1] >= s[k][1]
  BY DEF Listings, SetToSeqs, rows
<1>5. \A m \in rows : \E j \in 1 .. n : s[j] = m
  <2>1. s \in Injection(1 .. n, rows)
    BY <1>4 DEF Injection, IsInjective
  <2>2. Cardinality(1 .. n) = n
    BY <1>2, FS_Interval
  <2>3. s \in Surjection(1 .. n, rows)
    BY <1>2, <2>1, <2>2, FS_Injection
  <2> QED BY <2>3 DEF Surjection
<1>6. \A k \in Nat \ {0} : 2 * k <= n => s[2 * k - 1][1] = s[2 * k][1]
  BY <1>2, <1>3, <1>4, <1>5, PairsOK
<1> HIDE DEF n
<1>7. Len(s) = n
  BY <1>2, <1>4
<1>8. Limited(s) = SubSeq(s, 1, l)
  BY <1>2, <1>7, MinOK, ChatAssumption DEF Limited
<1>9. l \in Nat /\ l <= n /\ l <= HistoryLimit
  BY <1>2, ChatAssumption
<1>10. s \in Seq(rows)
  BY <1>2, <1>4
<1> HIDE DEF l
<1>11. /\ Limited(s) \in Seq(rows) /\ Len(Limited(s)) = l
       /\ \A i \in 1 .. l : Limited(s)[i] = s[i]
  BY <1>7, <1>8, <1>9, <1>10
<1>12. /\ r \in [1 .. l -> rows]
       /\ \A i \in 1 .. l : r[i] = s[l - i + 1]
  <2>1. r = [i \in 1 .. l |-> Limited(s)[l - i + 1]]
    BY <1>11 DEF Reverse
  <2>2. \A i \in 1 .. l : l - i + 1 \in 1 .. l /\ l - i + 1 \in 1 .. n
    BY <1>2, <1>9
  <2>3. \A i \in 1 .. l : Limited(s)[l - i + 1] = s[l - i + 1] /\ s[l - i + 1] \in rows
    BY <1>4, <1>11, <2>2
  <2> HIDE DEF r
  <2> QED BY <2>1, <2>3
<1> HIDE DEF r
<1>13. r \in Seq(Message) /\ Len(r) = l
  <2>1. r \in [1 .. l -> Message]
    BY <1>2, <1>12
  <2> QED BY <1>9, <2>1
<1>14. ASSUME HistoryLimit % 2 = 0, NEW m \in Range(r)
       PROVE  {<<m[1], 1>>, <<m[1], 2>>} \subseteq Range(r)
  <2>1. \A i \in 1 .. l : s[i] \in Range(r)
    <3> TAKE i \in 1 .. l
    <3>1. l - i + 1 \in 1 .. l /\ l - (l - i + 1) + 1 = i
      BY <1>9
    <3>2. r[l - i + 1] = s[i]
      BY <1>12, <3>1
    <3> QED BY <1>12, <3>1, <3>2 DEF Range
  <2>2. PICK i \in 1 .. l : m = s[i]
    <3>1. PICK j \in 1 .. l : m = r[j]
      BY <1>12 DEF Range
    <3>2. m = s[l - j + 1] /\ l - j + 1 \in 1 .. l
      BY <1>9, <1>12, <3>1
    <3> QED BY <3>2
  <2>3. m \in rows
    BY <1>2, <1>4, <1>9, <2>2
  <2>4. CASE l = n
    <3>1. \A x \in rows : x \in Range(r)
      BY <1>5, <2>1, <2>4
    <3> QED BY <1>3, <2>3, <3>1 DEF Whole
  <2>5. CASE l = HistoryLimit
    <3>1. PICK k \in Nat \ {0} : i = 2 * k - 1 \/ i = 2 * k
      <4>1. i \in Nat \ {0}
        BY <1>9
      <4> QED BY <4>1, HalfOK
    <3>2. 2 * k <= l
      BY <1>9, <1>14, <2>5, <3>1
    <3>3. /\ 2 * k <= n /\ 2 * k - 1 \in 1 .. n /\ 2 * k \in 1 .. n
          /\ 2 * k - 1 \in 1 .. l /\ 2 * k \in 1 .. l
      BY <1>2, <1>9, <3>1, <3>2
    <3>4. s[2 * k - 1][1] = m[1] /\ s[2 * k][1] = m[1] /\ s[2 * k - 1] # s[2 * k]
      BY <1>4, <1>6, <2>2, <3>1, <3>3
    <3>5. s[2 * k - 1] \in Message /\ s[2 * k] \in Message
      BY <1>2, <1>4, <3>3
    <3>6. /\ s[2 * k - 1] = <<m[1], s[2 * k - 1][2]>> /\ s[2 * k - 1][2] \in {1, 2}
          /\ s[2 * k] = <<m[1], s[2 * k][2]>> /\ s[2 * k][2] \in {1, 2}
      BY <3>4, <3>5, MessageOK
    <3>7. s[2 * k - 1] \in Range(r) /\ s[2 * k] \in Range(r)
      BY <2>1, <3>3
    <3> QED BY <3>4, <3>6, <3>7
  <2> QED BY <2>4, <2>5 DEF l
<1> QED BY <1>9, <1>13, <1>14 DEF Whole, r

-----------------------------------------------------------------------------
(***************************************************************************)
(* The state.                                                              *)
(***************************************************************************)

\* The versions the stored turns have used.
Used == {turns[i].used : i \in DOMAIN turns}

Pinning == {"rebind", "pick", "write"}

SoundJob == {j \in Job :
    /\ Len(j.history) <= HistoryLimit
    /\ HistoryLimit % 2 = 0 => Whole(Range(j.history))
    /\ j.kind = "post" /\ j.pc \in Pinning => j.asked \in Used \ {NoId}
    /\ j.kind = "post" /\ j.pc = "thread" => j.asked = NoId
    /\ /\ j.kind = "post"
       /\ j.pc \in {"version", "history", "llm", "check", "turn"}
       /\ j.asked # NoId
       => j.used = j.asked}

\* What the foreign keys see to: versions that are named are there.
References ==
    /\ current \in versions \cup {NoId}
    /\ \A t \in Threads : threads[t].pin \in versions \cup {NoId}
    /\ \A i \in DOMAIN turns : turns[i].used \in versions \cup {NoId}

IInv ==
    /\ TypeOK
    /\ References
    /\ job \in [Procs -> SoundJob]

LEMMA IdleSound == Idle \in SoundJob
<1>1. Idle \in Job /\ Idle.history = <<>> /\ Idle.pc = "idle"
  BY ChatAssumption DEF Idle, Job, Kinds, Message, Ids
<1>2. Whole(Range(<<>>)) /\ Len(<<>>) <= HistoryLimit
  BY ChatAssumption DEF Whole, Range
<1> QED BY <1>1, <1>2 DEF SoundJob, Pinning

LEMMA FinishOK ==
    ASSUME IInv, NEW p \in Procs, Finish(p)
    PROVE  job' \in [Procs -> SoundJob]
BY IdleSound DEF Finish, IInv

\* Request p goes on as j.
LEMMA JobOK ==
    ASSUME IInv, NEW p \in Procs, NEW j \in SoundJob, job' = [job EXCEPT ![p] = j]
    PROVE  job' \in [Procs -> SoundJob]
BY DEF IInv

LEMMA SoundIsJob ==
    ASSUME NEW j, j \in [Procs -> SoundJob]
    PROVE  j \in [Procs -> Job] /\ \A p \in Procs : Len(j[p].history) <= HistoryLimit
BY DEF SoundJob

\* A request never starts from anything but this.
LEMMA StartOK ==
    ASSUME IInv, NEW p \in Procs, NEW j \in Job, j.history = <<>>,
           ~(j.kind = "post" /\ j.pc \in Pinning),
           j.kind = "post" /\ j.pc = "thread" => j.asked = NoId,
           j.kind = "post" /\ j.asked # NoId => j.used = j.asked,
           job' = [job EXCEPT ![p] = j]
    PROVE  job' \in [Procs -> SoundJob]
<1>1. Whole(Range(<<>>)) /\ Len(<<>>) <= HistoryLimit
  BY ChatAssumption DEF Whole, Range
<1>2. j \in SoundJob
  BY <1>1 DEF SoundJob
<1> QED BY <1>2, JobOK

\* A step that only moves a request on.
LEMMA MoveOK ==
    ASSUME IInv, job' \in [Procs -> SoundJob], UNCHANGED <<store, threads, turns>>,
           gone' \in BOOLEAN, purged' \in BOOLEAN
    PROVE  IInv'
<1>1. SoundJob' = SoundJob
  BY DEF SoundJob, Used
<1>2. job' \in [Procs -> Job] /\ \A p \in Procs : Len(job'[p].history) <= HistoryLimit
  BY SoundIsJob
<1>3. TypeOK'
  BY <1>2 DEF IInv, TypeOK, store
<1>4. References'
  BY DEF IInv, References, store
<1> QED BY <1>1, <1>3, <1>4 DEF IInv

\* A step on the versions leaves the requests alone and every version named by a
\* turn, a thread or the project in place.
LEMMA VersionsOK ==
    ASSUME IInv, UNCHANGED <<gone, threads, turns>>, purged' \in BOOLEAN,
           job' \in [Procs -> SoundJob],
           made' \in 0 .. MaxVersions, made <= made', versions' \subseteq 1 .. made',
           analyses' \subseteq versions', saving' \subseteq 1 .. made',
           current' \in versions' \cup {NoId},
           \A v \in versions : Referenced(v) => v \in versions'
    PROVE  TypeOK' /\ References' /\ job' \in [Procs -> SoundJob']
<1>1. SoundJob' = SoundJob
  BY DEF SoundJob, Used
<1>2. job' \in [Procs -> Job] /\ \A p \in Procs : Len(job'[p].history) <= HistoryLimit
  BY SoundIsJob
<1>3. current' \in Ids \cup {NoId}
  BY ChatAssumption DEF Ids
<1>4. TypeOK'
  BY <1>2, <1>3 DEF IInv, TypeOK
<1>5. \A t \in Threads : threads[t].pin \in versions' \cup {NoId}
  BY DEF IInv, References, Referenced
<1>6. \A i \in DOMAIN turns : turns[i].used \in versions' \cup {NoId}
  BY DEF IInv, References, Referenced
<1>7. References'
  BY <1>5, <1>6 DEF References
<1> QED BY <1>1, <1>4, <1>7

LEMMA IdsOK ==
    ASSUME IInv
    PROVE  made \in Nat /\ 1 .. made \subseteq Ids
BY ChatAssumption DEF IInv, TypeOK, Ids

LEMMA InitOK == Init => IInv
<1> SUFFICES ASSUME Init PROVE IInv
  OBVIOUS
<1>1. job \in [Procs -> SoundJob]
  BY IdleSound DEF Init
<1>2. threads \in [Threads -> Thread] /\ \A t \in Threads : threads[t].pin = NoId
  BY DEF Init, NoThread, Thread
<1>3. TypeOK
  <2>1. job \in [Procs -> Job] /\ \A p \in Procs : Len(job[p].history) <= HistoryLimit
    BY <1>1, SoundIsJob
  <2>2. turns \in Seq(Turn) /\ Len(turns) <= MaxTurns
    BY ChatAssumption DEF Init
  <2>3. made \in 0 .. MaxVersions
    BY ChatAssumption DEF Init
  <2> QED BY <1>2, <2>1, <2>2, <2>3 DEF Init, TypeOK
<1>4. References
  BY <1>2 DEF Init, References
<1> QED BY <1>1, <1>3, <1>4 DEF IInv

LEMMA CreateThreadOK ==
    ASSUME IInv, NEW p \in Procs, NEW t \in Threads,
           NEW m \in {"FOLLOW_LATEST", "PINNED"}, CreateThread(p, t, m)
    PROVE  IInv'
<1> DEFINE j == [Idle EXCEPT !.pc = "insert", !.kind = "create", !.thread = t, !.mode = m]
<1>1. /\ j \in Job /\ j.history = <<>> /\ j.kind = "create"
  BY IdleSound DEF Idle, SoundJob, Job, Kinds
<1>2. job' = [job EXCEPT ![p] = j]
  BY DEF CreateThread
<1> HIDE DEF j
<1>3. job' \in [Procs -> SoundJob]
  BY <1>1, <1>2, StartOK
<1> QED BY <1>3, MoveOK DEF CreateThread, IInv, TypeOK

\* A thread's row is written, with a version that is there or none.
LEMMA ThreadOK ==
    ASSUME IInv, NEW p \in Procs, Finish(p), UNCHANGED <<gone, purged, store, turns>>,
           NEW t \in Threads, NEW m \in {"FOLLOW_LATEST", "PINNED"},
           NEW v \in Ids \cup {NoId}, v \in versions \cup {NoId},
           threads' = [threads EXCEPT ![t] = [there |-> TRUE, mode |-> m, pin |-> v]]
    PROVE  IInv'
<1>1. SoundJob' = SoundJob
  BY DEF SoundJob, Used
<1>2. job' \in [Procs -> SoundJob]
  BY FinishOK
<1>3. job' \in [Procs -> Job] /\ \A q \in Procs : Len(job'[q].history) <= HistoryLimit
  BY <1>2, SoundIsJob
<1>4. threads' \in [Threads -> Thread]
  BY DEF IInv, TypeOK, Thread
<1>5. TypeOK'
  BY <1>3, <1>4 DEF IInv, TypeOK, store
<1>6. \A u \in Threads : threads'[u].pin \in versions \cup {NoId}
  BY DEF IInv, TypeOK, References
<1>7. References'
  BY <1>6 DEF IInv, References, store
<1> QED BY <1>1, <1>2, <1>5, <1>7 DEF IInv

LEMMA InsertThreadOK ==
    ASSUME IInv, NEW p \in Procs, InsertThread(p)
    PROVE  IInv'
<1>1. job[p] \in Job
  BY DEF IInv, TypeOK
<1>2. job[p].thread \in Threads /\ job[p].mode \in {"FOLLOW_LATEST", "PINNED"}
  BY <1>1 DEF Job
<1> QED BY <1>2, ThreadOK DEF InsertThread

LEMMA BindOK ==
    ASSUME IInv, NEW p \in Procs, NEW t \in Threads,
           NEW m \in {"FOLLOW_LATEST", "PINNED"}, NEW v \in (1 .. made) \cup {NoId},
           Bind(p, t, m, v)
    PROVE  IInv'
<1> DEFINE pc == IF m = "PINNED" THEN "pick" ELSE "write"
           j  == [Idle EXCEPT !.kind = "bind", !.thread = t, !.asked = v, !.mode = m, !.pc = pc]
<1>1. v \in Ids \cup {NoId}
  BY IdsOK
<1>2. pc \in {"pick", "write"}
  OBVIOUS
<1>3. job' = [job EXCEPT ![p] = j]
  BY DEF Bind
<1> HIDE DEF pc
<1>4. j \in Job /\ j.history = <<>> /\ j.kind = "bind"
  BY <1>1, <1>2, IdleSound DEF Idle, SoundJob, Job, Kinds
<1> HIDE DEF j
<1>5. job' \in [Procs -> SoundJob]
  BY <1>3, <1>4, StartOK
<1> QED BY <1>5, MoveOK DEF Bind, IInv, TypeOK

LEMMA RebindOK ==
    ASSUME IInv, NEW p \in Procs, Rebind(p)
    PROVE  IInv'
<1>1. job[p] \in SoundJob /\ job[p] \in Job /\ job[p].pc = "rebind"
  BY DEF IInv, SoundJob, Rebind, At
<1>2. CASE gone
  BY <1>2, FinishOK, MoveOK DEF Rebind, IInv, TypeOK
<1>3. CASE ~gone
  <2> DEFINE j == [job[p] EXCEPT !.pc = "pick", !.mode = "PINNED", !.used = NoId]
  <2>1. j \in SoundJob
    BY <1>1 DEF SoundJob, Job, Pinning
  <2>2. job' = [job EXCEPT ![p] = j]
    BY <1>3 DEF Rebind
  <2>3. job' \in [Procs -> SoundJob]
    BY <2>1, <2>2, JobOK
  <2> QED BY <2>3, MoveOK DEF Rebind, IInv, TypeOK
<1> QED BY <1>2, <1>3

LEMMA PickOK ==
    ASSUME IInv, NEW p \in Procs, Pick(p)
    PROVE  IInv'
<1> DEFINE candidates == IF job[p].asked = NoId THEN versions ELSE versions \cap {job[p].asked}
           v          == Max(candidates)
<1>1. job[p] \in SoundJob /\ job[p] \in Job /\ job[p].pc = "pick"
  BY DEF IInv, SoundJob, Pick, At
<1>2. candidates \in SUBSET (1 .. made) /\ made \in Nat /\ 1 .. made \subseteq Ids
  BY IdsOK DEF IInv, TypeOK
<1>3. CASE candidates = {}
  BY <1>3, FinishOK, MoveOK DEF Pick, IInv, TypeOK
<1>4. CASE candidates # {}
  <2>1. v \in Ids
    <3> HIDE DEF candidates
    <3> QED BY <1>2, <1>4, MaxOK
  <2> DEFINE j == [job[p] EXCEPT !.pc = "write", !.used = v]
  <2>2. job' = [job EXCEPT ![p] = j]
    BY <1>4 DEF Pick
  <2> HIDE DEF v
  <2>3. j \in SoundJob
    BY <1>1, <2>1 DEF SoundJob, Job, Pinning
  <2>4. job' \in [Procs -> SoundJob]
    BY <2>2, <2>3, JobOK
  <2> QED BY <2>4, MoveOK DEF Pick, IInv, TypeOK
<1> QED BY <1>3, <1>4

LEMMA WriteBindingOK ==
    ASSUME IInv, NEW p \in Procs, WriteBinding(p)
    PROVE  IInv'
<1>1. job[p] \in Job
  BY DEF IInv, TypeOK
<1>2. /\ job[p].thread \in Threads /\ job[p].mode \in {"FOLLOW_LATEST", "PINNED"}
      /\ job[p].used \in Ids \cup {NoId}
  BY <1>1 DEF Job
<1>3. CASE Accepted(job[p].used) /\ UNCHANGED <<gone, purged, store, turns>>
           /\ threads' = [threads EXCEPT ![job[p].thread] =
                            [there |-> TRUE, mode |-> job[p].mode, pin |-> job[p].used]]
  BY <1>2, <1>3, ThreadOK DEF WriteBinding, Accepted
<1>4. CASE UNCHANGED threads
  BY <1>4, FinishOK, MoveOK DEF WriteBinding, IInv, TypeOK
<1> QED BY <1>3, <1>4 DEF WriteBinding

LEMMA PostMessageOK ==
    ASSUME IInv, NEW p \in Procs, NEW t \in Threads, NEW v \in (1 .. made) \cup {NoId},
           PostMessage(p, t, v)
    PROVE  IInv'
<1> DEFINE u  == IF v = NoId THEN current ELSE v
           pc == IF v = NoId THEN "thread" ELSE "version"
           j  == [Idle EXCEPT !.thread = t, !.asked = v, !.used = u, !.pc = pc]
<1>1. v \in Ids \cup {NoId} /\ current \in Ids \cup {NoId}
  <2>1. v \in Ids \cup {NoId}
    BY IdsOK
  <2>2. current \in Ids \cup {NoId}
    BY DEF IInv, TypeOK
  <2> QED BY <2>1, <2>2
<1>2. /\ u \in Ids \cup {NoId} /\ (v # NoId => u = v)
      /\ pc \in {"thread", "version"} /\ (pc = "thread" => v = NoId)
  BY <1>1
<1>3. job' = [job EXCEPT ![p] = j]
  BY DEF PostMessage
<1> HIDE DEF u, pc
<1>4. /\ j \in Job /\ j.history = <<>> /\ j.pc = pc /\ j.asked = v /\ j.used = u
  BY <1>1, <1>2, IdleSound DEF Idle, SoundJob, Job, Kinds
<1> HIDE DEF j
<1>5. job' \in [Procs -> SoundJob]
  BY <1>2, <1>3, <1>4, StartOK DEF Pinning
<1> QED BY <1>5, MoveOK DEF PostMessage, IInv, TypeOK

\* Request p goes on at another step, as it is.
LEMMA GotoStep ==
    ASSUME IInv, NEW p \in Procs, NEW pc \in {"version", "history", "check", "turn"},
           job[p].pc \in {"thread", "version", "check"}, Goto(p, pc),
           UNCHANGED <<gone, purged, store, threads, turns>>
    PROVE  IInv'
<1> DEFINE j == [job[p] EXCEPT !.pc = pc]
<1>1. job[p] \in SoundJob /\ job[p] \in Job
  BY DEF IInv, SoundJob
<1>2. j \in SoundJob
  BY <1>1 DEF SoundJob, Job, Pinning
<1>3. job' = [job EXCEPT ![p] = j]
  BY DEF Goto
<1>4. job' \in [Procs -> SoundJob]
  BY <1>2, <1>3, JobOK
<1> QED BY <1>4, MoveOK DEF IInv, TypeOK

LEMMA EndStep ==
    ASSUME IInv, NEW p \in Procs, Finish(p),
           UNCHANGED <<gone, purged, store, threads, turns>>
    PROVE  IInv'
BY FinishOK, MoveOK DEF IInv, TypeOK

LEMMA ResolveThreadOK ==
    ASSUME IInv, NEW p \in Procs, ResolveThread(p)
    PROVE  IInv'
<1> DEFINE t  == threads[job[p].thread]
           u  == IF t.mode = "PINNED" THEN t.pin ELSE job[p].used
           pc == IF u = NoId THEN "history" ELSE "version"
           j  == [job[p] EXCEPT !.used = u, !.pc = pc]
<1>1. job[p] \in SoundJob /\ job[p] \in Job /\ job[p].pc = "thread"
  BY DEF IInv, SoundJob, ResolveThread, At
<1>2. u \in Ids \cup {NoId} /\ pc \in {"history", "version"}
  <2>1. t \in Thread
    BY <1>1 DEF IInv, TypeOK, Job
  <2>2. t.pin \in Ids \cup {NoId} /\ job[p].used \in Ids \cup {NoId}
    BY <1>1, <2>1 DEF Thread, Job
  <2> QED BY <2>2
<1>3. job' = [job EXCEPT ![p] = j]
  BY DEF ResolveThread
<1> HIDE DEF u, pc
<1>4. j \in SoundJob
  BY <1>1, <1>2 DEF SoundJob, Job, Pinning
<1>5. job' \in [Procs -> SoundJob]
  BY <1>3, <1>4, JobOK
<1> QED BY <1>5, MoveOK DEF ResolveThread, IInv, TypeOK

LEMMA ReadVersionOK ==
    ASSUME IInv, NEW p \in Procs, ReadVersion(p)
    PROVE  IInv'
BY GotoStep, EndStep DEF ReadVersion, At

LEMMA ReadHistoryOK ==
    ASSUME IInv, NEW p \in Procs, ReadHistory(p)
    PROVE  IInv'
<1>1. job[p] \in SoundJob /\ job[p] \in Job /\ job[p].pc = "history"
  BY DEF IInv, SoundJob, ReadHistory, At
<1>2. job[p].thread \in Threads
  BY <1>1 DEF Job
<1>3. PICK s \in Listings(job[p].thread) :
        job' = [job EXCEPT ![p].pc = "llm", ![p].history = Reverse(Limited(s))]
  BY DEF ReadHistory
<1> DEFINE h == Reverse(Limited(s))
           j == [job[p] EXCEPT !.pc = "llm", !.history = h]
<1>4. job' = [job EXCEPT ![p] = j]
  BY <1>3
<1>5. /\ h \in Seq(Message) /\ Len(h) <= HistoryLimit
      /\ HistoryLimit % 2 = 0 => Whole(Range(h))
  BY <1>2, LimitedOK DEF IInv, TypeOK
<1> HIDE DEF h
<1>6. j \in Job /\ j.history = h /\ j.pc = "llm" /\ j.kind = job[p].kind
      /\ j.asked = job[p].asked /\ j.used = job[p].used
  BY <1>1, <1>5 DEF Job
<1> HIDE DEF j
<1>7. j \in SoundJob
  BY <1>1, <1>5, <1>6 DEF SoundJob, Pinning
<1>8. job' \in [Procs -> SoundJob]
  BY <1>4, <1>7, JobOK
<1> QED BY <1>8, MoveOK DEF ReadHistory, IInv, TypeOK

LEMMA AskLLMOK ==
    ASSUME IInv, NEW p \in Procs, AskLLM(p)
    PROVE  IInv'
<1>1. job[p] \in SoundJob /\ job[p] \in Job /\ job[p].pc = "llm"
  BY DEF IInv, SoundJob, AskLLM, At
<1>2. CASE job' = [job EXCEPT ![p].pc = "check", ![p].history = <<>>]
  <2> DEFINE j == [job[p] EXCEPT !.pc = "check", !.history = <<>>]
  <2>1. Whole(Range(<<>>)) /\ Len(<<>>) <= HistoryLimit /\ <<>> \in Seq(Message)
    BY ChatAssumption DEF Whole, Range
  <2>2. j \in Job /\ j.history = <<>> /\ j.pc = "check" /\ j.kind = job[p].kind
        /\ j.asked = job[p].asked /\ j.used = job[p].used
    BY <1>1, <2>1 DEF Job
  <2>3. job' = [job EXCEPT ![p] = j]
    BY <1>2
  <2> HIDE DEF j
  <2>4. j \in SoundJob
    BY <1>1, <2>1, <2>2 DEF SoundJob, Pinning
  <2>5. job' \in [Procs -> SoundJob]
    BY <2>3, <2>4, JobOK
  <2> QED BY <2>5, MoveOK DEF AskLLM, IInv, TypeOK
<1>3. CASE Finish(p)
  BY <1>3, EndStep DEF AskLLM
<1> QED BY <1>2, <1>3 DEF AskLLM

LEMMA CheckProjectOK ==
    ASSUME IInv, NEW p \in Procs, CheckProject(p)
    PROVE  IInv'
BY GotoStep, EndStep DEF CheckProject, At

\* A turn is stored: what was used stays used, and so does what it used.
LEMMA TurnOK ==
    ASSUME IInv, NEW n \in Turn, n.used \in versions \cup {NoId}, Len(turns) < MaxTurns,
           turns' = Append(turns, n)
    PROVE  /\ turns' \in Seq(Turn) /\ Len(turns') <= MaxTurns
           /\ Used \subseteq Used' /\ n.used \in Used'
           /\ \A i \in DOMAIN turns' : turns'[i].used \in versions \cup {NoId}
<1>1. turns \in Seq(Turn) /\ Len(turns) \in Nat
  BY DEF IInv, TypeOK
<1>2. /\ turns' \in Seq(Turn) /\ Len(turns') = Len(turns) + 1
      /\ \A i \in 1 .. Len(turns) : turns'[i] = turns[i]
      /\ turns'[Len(turns) + 1] = n
  BY <1>1
<1>3. DOMAIN turns = 1 .. Len(turns) /\ DOMAIN turns' = 1 .. (Len(turns) + 1)
  BY <1>1, <1>2
<1>4. Len(turns') <= MaxTurns
  BY <1>1, <1>2, ChatAssumption
<1>5. \A i \in DOMAIN turns : i \in DOMAIN turns' /\ turns'[i] = turns[i]
  BY <1>1, <1>2, <1>3
<1>6. Used \subseteq Used'
  BY <1>5 DEF Used
<1>7. Len(turns) + 1 \in DOMAIN turns'
  BY <1>1, <1>3
<1>8. n.used \in Used'
  BY <1>2, <1>7 DEF Used
<1>9. \A i \in DOMAIN turns' : turns'[i].used \in versions \cup {NoId}
  <2> TAKE i \in DOMAIN turns'
  <2>1. i \in DOMAIN turns \/ i = Len(turns) + 1
    BY <1>1, <1>3
  <2> QED BY <1>2, <1>5, <2>1 DEF IInv, References
<1> QED BY <1>2, <1>4, <1>6, <1>8, <1>9

LEMMA InsertTurnOK ==
    ASSUME IInv, NEW p \in Procs, InsertTurn(p)
    PROVE  IInv'
<1>1. job[p] \in SoundJob /\ job[p] \in Job /\ job[p].pc = "turn"
  BY DEF IInv, SoundJob, InsertTurn, At
<1> DEFINE n == [thread |-> job[p].thread, used |-> job[p].used]
<1>2. CASE /\ Accepted(job[p].used) /\ Len(turns) < MaxTurns /\ turns' = Append(turns, n)
           /\ IF job[p].asked = NoId THEN Finish(p) ELSE Goto(p, "rebind")
  <2>1. n \in Turn /\ n.used = job[p].used /\ n.used \in versions \cup {NoId}
    BY <1>1, <1>2 DEF Turn, Job, Accepted
  <2> HIDE DEF n
  <2>2. /\ turns' \in Seq(Turn) /\ Len(turns') <= MaxTurns
        /\ Used \subseteq Used' /\ job[p].used \in Used'
        /\ \A i \in DOMAIN turns' : turns'[i].used \in versions \cup {NoId}
    BY <1>2, <2>1, TurnOK
  <2>3. SoundJob \subseteq SoundJob'
    BY <2>2 DEF SoundJob
  <2>4. job' \in [Procs -> SoundJob']
    <3>1. CASE job[p].asked = NoId
      BY <1>2, <2>3, <3>1, FinishOK
    <3>2. CASE job[p].asked # NoId
      <4> DEFINE j == [job[p] EXCEPT !.pc = "rebind"]
      <4>1. /\ j \in Job /\ j.pc = "rebind" /\ j.kind = job[p].kind
            /\ j.asked = job[p].asked /\ j.used = job[p].used /\ j.history = job[p].history
        BY <1>1 DEF Job
      <4>2. job' = [job EXCEPT ![p] = j]
        BY <1>2, <3>2 DEF Goto
      <4> HIDE DEF j
      <4>3. j.kind = "post" => j.asked \in Used' \ {NoId}
        BY <1>1, <2>2, <3>2, <4>1 DEF SoundJob
      <4>4. j \in SoundJob'
        BY <1>1, <4>1, <4>3 DEF SoundJob
      <4> QED BY <2>3, <4>2, <4>4 DEF IInv
    <3> QED BY <3>1, <3>2
  <2>5. job' \in [Procs -> Job] /\ \A q \in Procs : Len(job'[q].history) <= HistoryLimit
    BY <2>4 DEF SoundJob
  <2>6. UNCHANGED <<gone, purged, store, threads>>
    BY DEF InsertTurn
  <2>7. TypeOK'
    BY <2>2, <2>5, <2>6 DEF IInv, TypeOK, store
  <2>8. References'
    BY <2>2, <2>6 DEF IInv, References, store
  <2> QED BY <2>4, <2>7, <2>8 DEF IInv
<1>3. CASE Finish(p) /\ UNCHANGED turns
  BY <1>3, EndStep DEF InsertTurn
<1> QED BY <1>2, <1>3 DEF InsertTurn

LEMMA SoftDeleteOK ==
    ASSUME IInv, NEW p \in Procs, SoftDelete(p)
    PROVE  IInv'
<1> DEFINE j == [Idle EXCEPT !.pc = "purge", !.kind = "delete"]
<1>1. j \in Job /\ j.history = <<>> /\ j.kind = "delete"
  BY IdleSound DEF Idle, SoundJob, Job, Kinds
<1>2. job' = [job EXCEPT ![p] = j]
  BY DEF SoftDelete
<1> HIDE DEF j
<1>3. job' \in [Procs -> SoundJob]
  BY <1>1, <1>2, StartOK
<1> QED BY <1>3, MoveOK DEF SoftDelete, IInv, TypeOK

\* What no turn and no thread names may go.
LEMMA RemovedOK ==
    ASSUME IInv, NEW V \in SUBSET versions, \A v \in V : ~Referenced(v), Removed(V)
    PROVE  /\ made' \in 0 .. MaxVersions /\ made <= made' /\ versions' \subseteq 1 .. made'
           /\ analyses' \subseteq versions' /\ saving' \subseteq 1 .. made'
           /\ current' \in versions' \cup {NoId}
           /\ \A v \in versions : Referenced(v) => v \in versions'
<1>1. /\ made' = made /\ made \in Nat /\ saving' = saving
      /\ versions' = versions \ V /\ analyses' = analyses \ V
  BY IdsOK DEF Removed
<1>2. current' \in versions' \cup {NoId}
  BY DEF Removed, IInv, References
<1> QED BY <1>1, <1>2 DEF IInv, TypeOK

LEMMA DeleteByProjectOK ==
    ASSUME IInv, NEW p \in Procs, DeleteByProject(p)
    PROVE  IInv'
<1>1. job' \in [Procs -> SoundJob]
  BY FinishOK DEF DeleteByProject
<1>2. SoundJob' = SoundJob /\ purged' \in BOOLEAN /\ UNCHANGED <<gone, threads, turns>>
  BY DEF DeleteByProject, SoundJob, Used
<1>3. CASE (\A v \in analyses : ~Referenced(v)) /\ Removed(analyses)
  <2>1. analyses \in SUBSET versions
    BY DEF IInv, TypeOK
  <2>2. /\ made' \in 0 .. MaxVersions /\ made <= made' /\ versions' \subseteq 1 .. made'
        /\ analyses' \subseteq versions' /\ saving' \subseteq 1 .. made'
        /\ current' \in versions' \cup {NoId}
        /\ \A v \in versions : Referenced(v) => v \in versions'
    BY <1>3, <2>1, RemovedOK
  <2> QED BY <1>1, <1>2, <2>2, VersionsOK DEF IInv
<1>4. CASE UNCHANGED store
  BY <1>1, <1>2, <1>4, MoveOK DEF IInv, TypeOK
<1> QED BY <1>3, <1>4 DEF DeleteByProject

LEMMA DeleteVersionOK ==
    ASSUME IInv, NEW v \in analyses, DeleteVersion(v)
    PROVE  IInv'
<1>1. {v} \in SUBSET versions /\ (\A w \in {v} : ~Referenced(w)) /\ Removed({v})
  BY DEF DeleteVersion, IInv, TypeOK
<1>2. job' \in [Procs -> SoundJob] /\ UNCHANGED <<gone, purged, threads, turns>>
  BY DEF DeleteVersion, IInv
<1>3. /\ made' \in 0 .. MaxVersions /\ made <= made' /\ versions' \subseteq 1 .. made'
      /\ analyses' \subseteq versions' /\ saving' \subseteq 1 .. made'
      /\ current' \in versions' \cup {NoId}
      /\ \A w \in versions : Referenced(w) => w \in versions'
  BY <1>1, RemovedOK
<1> QED BY <1>2, <1>3, VersionsOK DEF IInv, TypeOK

LEMMA CreatedOK ==
    ASSUME IInv, Created
    PROVE  /\ made' \in 0 .. MaxVersions /\ made <= made' /\ versions' \subseteq 1 .. made'
           /\ versions \subseteq versions' /\ made + 1 \in versions'
           /\ 1 .. made \subseteq 1 .. made' /\ made + 1 \in 1 .. made'
<1>1. made' = made + 1 /\ made' \in 0 .. MaxVersions /\ made \in Nat
  BY IdsOK, ChatAssumption DEF Created
<1>2. versions' = versions \cup {made + 1} /\ versions \subseteq 1 .. made
  BY DEF Created, IInv, TypeOK
<1>3. 1 .. made \subseteq 1 .. made' /\ made + 1 \in 1 .. made'
  BY <1>1
<1> QED BY <1>1, <1>2, <1>3

LEMMA CreateVersionOK ==
    ASSUME IInv, CreateVersion
    PROVE  IInv'
<1>1. /\ job' \in [Procs -> SoundJob] /\ current' = made + 1
      /\ UNCHANGED <<gone, purged, analyses, saving, threads, turns>>
  BY DEF CreateVersion, IInv
<1>2. /\ made' \in 0 .. MaxVersions /\ made <= made' /\ versions' \subseteq 1 .. made'
      /\ versions \subseteq versions' /\ made + 1 \in versions' /\ 1 .. made \subseteq 1 .. made'
  BY CreatedOK DEF CreateVersion
<1>3. analyses' \subseteq versions' /\ saving' \subseteq 1 .. made'
  BY <1>1, <1>2 DEF IInv, TypeOK
<1>4. current' \in versions' \cup {NoId} /\ \A v \in versions : Referenced(v) => v \in versions'
  BY <1>1, <1>2
<1> QED BY <1>1, <1>2, <1>3, <1>4, VersionsOK DEF IInv, TypeOK

LEMMA SaveOK ==
    ASSUME IInv, Save
    PROVE  IInv'
<1>1. /\ job' \in [Procs -> SoundJob] /\ analyses' = analyses \cup {made + 1}
      /\ saving' = saving \cup {made + 1}
      /\ UNCHANGED <<gone, purged, current, threads, turns>>
  BY DEF Save, IInv
<1>2. /\ made' \in 0 .. MaxVersions /\ made <= made' /\ versions' \subseteq 1 .. made'
      /\ versions \subseteq versions' /\ made + 1 \in versions'
      /\ 1 .. made \subseteq 1 .. made' /\ made + 1 \in 1 .. made'
  BY CreatedOK DEF Save
<1>3. analyses' \subseteq versions' /\ saving' \subseteq 1 .. made'
  BY <1>1, <1>2 DEF IInv, TypeOK
<1>4. current' \in versions' \cup {NoId} /\ \A v \in versions : Referenced(v) => v \in versions'
  BY <1>1, <1>2 DEF IInv, References
<1> QED BY <1>1, <1>2, <1>3, <1>4, VersionsOK DEF IInv, TypeOK

LEMMA SavePointOK ==
    ASSUME IInv, NEW v \in saving, SavePoint(v)
    PROVE  IInv'
<1>1. /\ job' \in [Procs -> SoundJob] /\ saving' = saving \ {v}
      /\ UNCHANGED <<gone, purged, made, versions, analyses, threads, turns>>
  BY DEF SavePoint, IInv
<1>2. made' \in 0 .. MaxVersions /\ made <= made'
  BY <1>1, IdsOK DEF IInv, TypeOK
<1>3. /\ versions' \subseteq 1 .. made' /\ analyses' \subseteq versions'
      /\ saving' \subseteq 1 .. made'
  BY <1>1 DEF IInv, TypeOK
<1>4. current' \in versions' \cup {NoId} /\ \A w \in versions : Referenced(w) => w \in versions'
  BY <1>1 DEF SavePoint, IInv, References
<1> QED BY <1>1, <1>2, <1>3, <1>4, VersionsOK DEF IInv, TypeOK

LEMMA StepOK ==
    ASSUME IInv, NEW p \in Procs, Step(p)
    PROVE  IInv'
BY CreateThreadOK, BindOK, PostMessageOK, InsertThreadOK, RebindOK, PickOK, WriteBindingOK,
   ResolveThreadOK, ReadVersionOK, ReadHistoryOK, AskLLMOK, CheckProjectOK, InsertTurnOK,
   SoftDeleteOK, DeleteByProjectOK, EndStep
   DEF Step, Fail

LEMMA NextOK == IInv /\ [Next]_vars => IInv'
<1> SUFFICES ASSUME IInv, [Next]_vars PROVE IInv'
  OBVIOUS
<1>1. CASE Next
  BY <1>1, CreateVersionOK, SaveOK, SavePointOK, DeleteVersionOK, StepOK DEF Next
<1>2. CASE UNCHANGED vars
  <2>1. UNCHANGED <<gone, purged, store, threads, turns, job>>
    BY <1>2 DEF vars
  <2> QED BY <2>1, MoveOK DEF IInv, TypeOK
<1> QED BY <1>1, <1>2

THEOREM Invariant == Spec => []IInv
BY InitOK, NextOK, PTL DEF Spec

-----------------------------------------------------------------------------
(***************************************************************************)
(* The results.                                                            *)
(***************************************************************************)

\* Every value of the state stays in its type: in particular a request is sent
\* no more of the history than the limit says.
THEOREM ChatTypeCorrect == Spec => []TypeOK
BY Invariant, PTL DEF IInv

\* When PostMessage pins the version its client named, the version is there.
THEOREM OverridePinned == Spec => []OverrideStays
<1>1. IInv => OverrideStays
  <2> SUFFICES ASSUME IInv, NEW p \in Procs, job[p].kind = "post", job[p].pc \in Pinning
               PROVE  job[p].asked \in versions
    BY DEF OverrideStays, Pinning
  <2>1. job[p].asked \in Used \ {NoId}
    BY DEF IInv, SoundJob
  <2> QED BY <2>1 DEF IInv, References, Used
<1> QED BY <1>1, Invariant, PTL

\* With a limit that is even, as 20 is, the history sent to the LLM service is made
\* of whole turns, although the rows of a turn are told apart by nothing.
THEOREM HistoryOfWholeTurns ==
    ASSUME HistoryLimit % 2 = 0
    PROVE  Spec => []HistoryWhole
<1>1. IInv => HistoryWhole
  BY DEF IInv, SoundJob, Whole, HistoryWhole
<1> QED BY <1>1, Invariant, PTL

=============================================================================
