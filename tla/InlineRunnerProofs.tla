------------------------- MODULE InlineRunnerProofs -------------------------
(***************************************************************************)
(* The inline runner, for any number of jobs, threads and parts and any    *)
(* limits: both limits hold, no job is handed to the executor twice, no    *)
(* job that could start is left waiting, and a cancellation is never       *)
(* undone.  The parts of the invariant say whose the lock is, what the     *)
(* lists have to do with the futures, and what holds while the lock is not *)
(* with a pool thread.                                                     *)
(***************************************************************************)
EXTENDS InlineRunner, SequenceTheorems, FiniteSetTheorems, TLAPS

-----------------------------------------------------------------------------
(* What the operators leave of the list of queued jobs and the executor's queue. *)

Distinct(s) == \A i, k \in DOMAIN s : s[i] = s[k] => i = k

\* What removing a position leaves.
LEMMA RemoveAtElements ==
    ASSUME NEW S, NEW s \in Seq(S), NEW i \in 1..Len(s)
    PROVE  /\ RemoveAt(s, i) \in Seq(S)
           /\ Len(RemoveAt(s, i)) = Len(s) - 1
           /\ \A k \in 1..(Len(s) - 1) : RemoveAt(s, i)[k] = IF k < i THEN s[k] ELSE s[k + 1]
<1>1. Len(s) \in Nat /\ i \in Nat /\ s \in [1..Len(s) -> S]
  OBVIOUS
<1>2. /\ SubSeq(s, 1, i - 1) \in Seq(S) /\ Len(SubSeq(s, 1, i - 1)) = i - 1
      /\ \A k \in 1..(i - 1) : SubSeq(s, 1, i - 1)[k] = s[k]
  BY <1>1, SubSeqProperties
<1>3. /\ SubSeq(s, i + 1, Len(s)) \in Seq(S) /\ Len(SubSeq(s, i + 1, Len(s))) = Len(s) - i
      /\ \A k \in 1..(Len(s) - i) : SubSeq(s, i + 1, Len(s))[k] = s[k + i]
  <2>1. /\ SubSeq(s, i + 1, Len(s)) \in Seq(S)
        /\ Len(SubSeq(s, i + 1, Len(s))) = IF i + 1 <= Len(s) THEN Len(s) - (i + 1) + 1 ELSE 0
        /\ \A k \in 1..(Len(s) - (i + 1) + 1) : SubSeq(s, i + 1, Len(s))[k] = s[(i + 1) + k - 1]
    BY <1>1, SubSeqProperties
  <2> DEFINE l == Len(SubSeq(s, i + 1, Len(s)))
             n == Len(s)
  <2>a. l = IF i + 1 <= n THEN n - (i + 1) + 1 ELSE 0
    BY <2>1
  <2>b. n \in Nat /\ i \in 1..n
    BY <1>1
  <2> HIDE DEF l, n
  <2>c. l = n - i
    BY <2>a, <2>b
  <2>2. Len(SubSeq(s, i + 1, Len(s))) = Len(s) - i
    BY <2>c DEF l, n
  <2>3. ASSUME NEW k \in 1..(Len(s) - i)
        PROVE  k \in 1..(Len(s) - (i + 1) + 1) /\ (i + 1) + k - 1 = k + i
    BY <1>1
  <2>4. ASSUME NEW k \in 1..(Len(s) - i)
        PROVE  SubSeq(s, i + 1, Len(s))[k] = s[k + i]
    BY <2>1, <2>3
  <2> QED
    BY <2>1, <2>2, <2>4
<1> DEFINE a == SubSeq(s, 1, i - 1)
           b == SubSeq(s, i + 1, Len(s))
<1> HIDE DEF a, b
<1>4. RemoveAt(s, i) = a \o b
  BY DEF RemoveAt, a, b
<1>5. /\ a \in Seq(S) /\ Len(a) = i - 1 /\ \A k \in 1..(i - 1) : a[k] = s[k]
      /\ b \in Seq(S) /\ Len(b) = Len(s) - i /\ \A k \in 1..(Len(s) - i) : b[k] = s[k + i]
  BY <1>2, <1>3 DEF a, b
<1>6. /\ a \o b \in Seq(S) /\ Len(a \o b) = Len(s) - 1
      /\ \A k \in 1..(Len(s) - 1) : (a \o b)[k] = IF k < i THEN a[k] ELSE b[k - i + 1]
  <2>1. /\ a \o b \in Seq(S) /\ Len(a \o b) = Len(a) + Len(b)
        /\ \A k \in 1..(Len(a) + Len(b)) :
              (a \o b)[k] = IF k <= Len(a) THEN a[k] ELSE b[k - Len(a)]
    BY <1>5, ConcatProperties
  <2>2. Len(a) + Len(b) = Len(s) - 1
    BY <1>1, <1>5
  <2>3. ASSUME NEW k \in 1..(Len(s) - 1)
        PROVE  (k <= Len(a) <=> k < i) /\ k - Len(a) = k - i + 1
    BY <1>1, <1>5
  <2> QED
    BY <2>1, <2>2, <2>3
<1>7. ASSUME NEW k \in 1..(Len(s) - 1)
      PROVE  (a \o b)[k] = IF k < i THEN s[k] ELSE s[k + 1]
  <2>1. CASE k < i
    BY <1>1, <1>5, <1>6, <2>1
  <2>2. CASE ~(k < i)
    <3>1. k - i + 1 \in 1..(Len(s) - i) /\ (k - i + 1) + i = k + 1
      BY <1>1, <2>2
    <3> QED
      BY <1>5, <1>6, <2>2, <3>1
  <2> QED
    BY <2>1, <2>2
<1> QED
  BY <1>4, <1>6, <1>7

\* A list without repetitions loses exactly the one that is removed.
LEMMA Removal ==
    ASSUME NEW S, NEW s \in Seq(S), Distinct(s), NEW i \in 1..Len(s)
    PROVE  /\ RemoveAt(s, i) \in Seq(S)
           /\ Distinct(RemoveAt(s, i))
           /\ Range(RemoveAt(s, i)) = Range(s) \ {s[i]}
<1> DEFINE r == RemoveAt(s, i)
<1>1. /\ r \in Seq(S) /\ DOMAIN r = 1..(Len(s) - 1) /\ DOMAIN s = 1..Len(s)
      /\ \A k \in 1..(Len(s) - 1) : r[k] = IF k < i THEN s[k] ELSE s[k + 1]
  BY RemoveAtElements
<1> HIDE DEF r
<1>2. \A k \in DOMAIN r : r[k] \in Range(s) \ {s[i]}
  BY <1>1 DEF Range, Distinct
<1>3. ASSUME NEW x \in Range(s), x # s[i]
      PROVE  x \in Range(r)
  <2>1. PICK k \in 1..Len(s) : s[k] = x
    BY <1>1 DEF Range
  <2>2. CASE k < i
    BY <1>1, <2>1, <2>2 DEF Range
  <2>3. CASE k > i
    <3>1. k - 1 \in DOMAIN r /\ r[k - 1] = x
      BY <1>1, <2>1, <2>3
    <3> QED
      BY <3>1 DEF Range
  <2> QED
    BY <1>3, <2>1, <2>2, <2>3
<1>4. Distinct(r)
  BY <1>1 DEF Distinct
<1>5. Range(r) = Range(s) \ {s[i]}
  BY <1>2, <1>3 DEF Range
<1> QED
  BY <1>1, <1>4, <1>5 DEF r

\* Appending something new keeps a list without repetitions.
LEMMA Appending ==
    ASSUME NEW S, NEW s \in Seq(S), Distinct(s), NEW e \in S, e \notin Range(s)
    PROVE  /\ Append(s, e) \in Seq(S)
           /\ Distinct(Append(s, e))
           /\ Range(Append(s, e)) = Range(s) \cup {e}
<1>1. /\ Append(s, e) \in Seq(S) /\ DOMAIN Append(s, e) = 1..(Len(s) + 1) /\ DOMAIN s = 1..Len(s)
      /\ \A k \in 1..Len(s) : Append(s, e)[k] = s[k]
      /\ Append(s, e)[Len(s) + 1] = e
  OBVIOUS
<1> DEFINE a == Append(s, e)
<1> HIDE DEF a
<1>2. Distinct(a)
  BY <1>1 DEF Distinct, Range, a
<1>3. Range(a) = Range(s) \cup {e}
  <2>1. \A k \in DOMAIN a : a[k] \in Range(s) \cup {e}
    BY <1>1 DEF Range, a
  <2>2. \A k \in DOMAIN s : s[k] \in Range(a)
    <3>1. \A k \in DOMAIN s : k \in DOMAIN a /\ a[k] = s[k]
      BY <1>1 DEF a
    <3> QED
      BY <3>1 DEF Range
  <2>3. Len(s) + 1 \in DOMAIN a /\ a[Len(s) + 1] = e
    BY <1>1 DEF a
  <2> QED
    BY <2>1, <2>2, <2>3 DEF Range
<1> QED
  BY <1>1, <1>2, <1>3 DEF a

\* So does taking the first of it.
LEMMA Taking ==
    ASSUME NEW S, NEW s \in Seq(S), Distinct(s), s # <<>>
    PROVE  /\ Head(s) \in Range(s) /\ Head(s) \in S
           /\ Tail(s) \in Seq(S)
           /\ Distinct(Tail(s))
           /\ Range(Tail(s)) = Range(s) \ {Head(s)}
<1> DEFINE r == Tail(s)
<1>1. /\ r \in Seq(S) /\ DOMAIN r = 1..(Len(s) - 1) /\ DOMAIN s = 1..Len(s)
      /\ Len(s) >= 1 /\ Len(s) \in Nat /\ Head(s) = s[1]
      /\ \A k \in 1..(Len(s) - 1) : r[k] = s[k + 1]
  OBVIOUS
<1> HIDE DEF r
<1>2. \A k \in DOMAIN r : r[k] \in Range(s) \ {s[1]}
  <2> SUFFICES ASSUME NEW k \in DOMAIN r PROVE r[k] \in Range(s) /\ r[k] # s[1]
    OBVIOUS
  <2>1. k \in Nat /\ k >= 1 /\ k + 1 \in DOMAIN s /\ 1 \in DOMAIN s /\ r[k] = s[k + 1] /\ k + 1 # 1
    BY <1>1
  <2> QED
    BY <2>1 DEF Range, Distinct
<1>3. ASSUME NEW x \in Range(s), x # s[1]
      PROVE  x \in Range(r)
  <2>1. PICK k \in 1..Len(s) : s[k] = x
    BY <1>1 DEF Range
  <2>2. k - 1 \in DOMAIN r /\ r[k - 1] = x
    BY <1>1, <1>3, <2>1
  <2> QED
    BY <2>2 DEF Range
<1>4. Distinct(r)
  <2> SUFFICES ASSUME NEW i \in DOMAIN r, NEW k \in DOMAIN r, r[i] = r[k] PROVE i = k
    BY DEF Distinct
  <2>1. /\ i \in Nat /\ i + 1 \in DOMAIN s /\ r[i] = s[i + 1]
        /\ k \in Nat /\ k + 1 \in DOMAIN s /\ r[k] = s[k + 1]
    BY <1>1
  <2>2. i + 1 = k + 1
    BY <2>1 DEF Distinct
  <2> QED
    BY <2>1, <2>2
<1>5. Range(r) = Range(s) \ {s[1]}
  BY <1>2, <1>3 DEF Range
<1>6. s[1] \in Range(s) /\ s[1] \in S
  BY <1>1 DEF Range
<1> QED
  BY <1>1, <1>4, <1>5, <1>6 DEF r

-----------------------------------------------------------------------------
(* The inductive invariant. *)

Types ==
    /\ RunnerTypeOK
    /\ at \in [Threads -> LoopControl \cup PoolControl]
    /\ at[Loop] = "submit" => unsent # {}

\* A thread of the executor that has a job and has not finished its future.
Executes(t) == at[t] \in {"begin", "run", "resolve"}

\* A job is first to be submitted, then queued, then in the executor, then with
\* one thread, and in one of these only.
HandInv ==
    /\ Distinct(queue) /\ Distinct(pool)
    /\ \A j \in Range(queue) : future[j] = "none" /\ state[j] # "absent" /\ j \notin unsent
    /\ \A j \in unsent : future[j] = "none" /\ state[j] # "absent"
    /\ \A j \in Jobs : state[j] = "absent" => future[j] = "none"
    /\ \A j \in Range(pool) : future[j] \in {"waiting", "cancelled"}
    /\ \A t \in Pool : Executes(t) => cur[t] \in Jobs /\ future[cur[t]] = "running"
    /\ \A t, u \in Pool : Executes(t) /\ Executes(u) /\ cur[t] = cur[u] => t = u

\* A thread that starts jobs has the lock.
LockInv == \A t \in Threads : at[t] \in {"refill", "register"} => lock = t

\* As long as no callback is at work, nothing that waits could start.
WorkInv ==
    lock \notin Pool /\ ~down /\ HasRoom(inflight) =>
        \A j \in Range(queue) : state[j] = "pending" => ~CanStart(j, inflight)

LimitInv == BackPressure /\ PartsInflightLimited

CancelInv == \A j \in Jobs : cancelled[j] => state[j] = "failed"

Inv == Types /\ HandInv /\ LockInv /\ WorkInv /\ LimitInv /\ CancelInv

-----------------------------------------------------------------------------
(* Numbers. *)

\* A set of numbers has a least one.
LEMMA Least ==
    ASSUME NEW S \in SUBSET Nat, S # {}
    PROVE  First(S) \in S
<1> DEFINE R == OpToRel(<, Nat)
<1>0. S \subseteq Nat
  OBVIOUS
<1>1. IsWellFoundedOn(R, Nat)
  BY NatLessThanWellFounded
<1>2. PICK x \in S : \A y \in S : ~(<<y, x>> \in R)
  <2> HIDE DEF R
  <2> QED
    BY <1>1, WFMin
<1>3. \A y \in S : ~(y < x)
  BY <1>0, <1>2 DEF OpToRel
<1>4. \A y \in S : x <= y
  BY <1>0, <1>3
<1> QED
  BY <1>4 DEF First

-----------------------------------------------------------------------------
(* The operators of the runner. *)

\* The first of the jobs of a call is one of them.
LEMMA FirstTodo ==
    ASSUME Types, unsent # {}
    PROVE  First(unsent) \in unsent /\ First(unsent) \in Jobs
<1>1. unsent \in SUBSET Jobs /\ Jobs \in SUBSET Nat
  BY RunnerAssumption DEF Types, RunnerTypeOK, Jobs
<1>2. First(unsent) \in unsent
  BY <1>1, Least
<1> QED
  BY <1>1, <1>2

\* The position that is refilled is one of a job that may start.
LEMMA FirstStartable ==
    ASSUME Types, Startable(inflight) # {}
    PROVE  LET i == First(Startable(inflight)) IN
           /\ i \in 1..Len(queue) /\ queue[i] \in Jobs /\ queue[i] \in Range(queue)
           /\ state[queue[i]] = "pending" /\ CanStart(queue[i], inflight)
<1> DEFINE i == First(Startable(inflight))
<1>1. DOMAIN queue = 1..Len(queue) /\ \A k \in 1..Len(queue) : queue[k] \in Jobs
  BY DEF Types, RunnerTypeOK
<1>2. Startable(inflight) \in SUBSET Nat
  BY <1>1 DEF Startable
<1>3. i \in Startable(inflight)
  BY <1>2, Least
<1>4. i \in 1..Len(queue) /\ state[queue[i]] = "pending" /\ CanStart(queue[i], inflight)
  BY <1>1, <1>3 DEF Startable
<1> HIDE DEF i
<1>5. queue[i] \in Range(queue)
  BY <1>1, <1>4 DEF Range
<1> QED
  BY <1>1, <1>4, <1>5 DEF i

\* What a cancel leaves of the queue.
LEMMA Dequeued ==
    ASSUME Types, Distinct(queue), NEW j
    PROVE  /\ Dequeue(j) \in Seq(Jobs)
           /\ Distinct(Dequeue(j))
           /\ Range(Dequeue(j)) \subseteq Range(queue)
<1>1. CASE j \in Range(queue)
  <2> DEFINE i == CHOOSE k \in DOMAIN queue : queue[k] = j
  <2>1. i \in DOMAIN queue
    BY <1>1 DEF Range
  <2>2. queue \in Seq(Jobs) /\ DOMAIN queue = 1..Len(queue)
    BY DEF Types, RunnerTypeOK
  <2>3. Dequeue(j) = RemoveAt(queue, i)
    BY <1>1 DEF Dequeue
  <2> HIDE DEF i
  <2>4. i \in 1..Len(queue)
    BY <2>1, <2>2
  <2> QED
    BY <2>2, <2>3, <2>4, Removal
<1>2. CASE j \notin Range(queue)
  BY <1>2 DEF Dequeue, Types, RunnerTypeOK
<1> QED
  BY <1>1, <1>2

\* The jobs in flight are finitely many.
LEMMA FiniteInflight ==
    ASSUME Types, NEW S \in SUBSET inflight
    PROVE  IsFiniteSet(S) /\ Cardinality(S) \in Nat
<1>1. IsFiniteSet(Jobs)
  BY FS_Interval, RunnerAssumption DEF Jobs
<1>2. IsFiniteSet(S)
  BY <1>1, FS_Subset DEF Types, RunnerTypeOK
<1> QED
  BY <1>2, FS_CardinalityType

\* One more element makes a set larger by one at most.
LEMMA OneMore ==
    ASSUME NEW S, IsFiniteSet(S), NEW x
    PROVE  /\ Cardinality(S) \in Nat /\ Cardinality(S \cup {x}) \in Nat
           /\ Cardinality(S \cup {x}) <= Cardinality(S) + 1
<1>1. Cardinality(S) \in Nat
  BY FS_CardinalityType
<1>2. CASE x \in S
  <2>1. S \cup {x} = S
    BY <1>2
  <2> QED
    BY <1>1, <2>1
<1>3. CASE x \notin S
  <2>1. Cardinality(S \cup {x}) = Cardinality(S) + 1
    BY <1>3, FS_AddElement
  <2> QED
    BY <1>1, <2>1
<1> QED
  BY <1>2, <1>3

\* The parts of the parent of p that are in flight.
Siblings(p, active) == {i \in active \cap PartJobs : Parent[i] = Parent[p]}

\* With more jobs in flight no more can start.
LEMMA FewerCanStart ==
    ASSUME Types, NEW j, NEW k \in Jobs, CanStart(j, inflight \cup {k})
    PROVE  CanStart(j, inflight)
<1>1. CASE j \in PartJobs /\ PartLimit > 0
  <2> DEFINE big == Siblings(j, inflight \cup {k})
             small == Siblings(j, inflight)
  <2>1. Cardinality(big) < PartLimit
    BY <1>1 DEF CanStart, Siblings
  <2>2. small \subseteq big /\ small \subseteq inflight /\ inflight \cup {k} \subseteq Jobs /\ big \subseteq Jobs
    BY DEF Siblings, Types, RunnerTypeOK
  <2>3. IsFiniteSet(Jobs)
    BY FS_Interval, RunnerAssumption DEF Jobs
  <2> HIDE DEF big, small
  <2>4. IsFiniteSet(big)
    BY <2>2, <2>3, FS_Subset
  <2>5. Cardinality(small) <= Cardinality(big) /\ IsFiniteSet(small)
    BY <2>2, <2>4, FS_Subset
  <2>6. Cardinality(small) \in Nat /\ Cardinality(big) \in Nat
    BY <2>4, <2>5, FS_CardinalityType
  <2>7. Cardinality(small) < PartLimit
    BY <2>1, <2>5, <2>6, RunnerAssumption
  <2> QED
    BY <2>7 DEF CanStart, Siblings, small
<1>2. CASE ~(j \in PartJobs /\ PartLimit > 0)
  BY <1>2 DEF CanStart
<1> QED
  BY <1>1, <1>2

\* With more jobs in flight there is less room.
LEMMA FewerHaveRoom ==
    ASSUME Types, NEW k \in Jobs, HasRoom(inflight \cup {k})
    PROVE  HasRoom(inflight)
<1>1. inflight \cup {k} \subseteq Jobs /\ inflight \subseteq inflight \cup {k}
  BY DEF Types, RunnerTypeOK
<1>2. IsFiniteSet(Jobs)
  BY FS_Interval, RunnerAssumption DEF Jobs
<1>3. IsFiniteSet(inflight \cup {k})
  BY <1>1, <1>2, FS_Subset
<1>4. Cardinality(inflight) <= Cardinality(inflight \cup {k}) /\ IsFiniteSet(inflight)
  BY <1>1, <1>3, FS_Subset
<1>5. Cardinality(inflight) \in Nat /\ Cardinality(inflight \cup {k}) \in Nat
  BY <1>3, <1>4, FS_CardinalityType
<1> QED
  BY <1>4, <1>5, RunnerAssumption DEF HasRoom

\* A job that is started when there is room and its parent allows it breaks no limit.
LEMMA StartKeepsLimits ==
    ASSUME Types, LimitInv, NEW j \in Jobs,
           HasRoom(inflight), CanStart(j, inflight), inflight' = inflight \cup {j}
    PROVE  LimitInv'
<1>1. IsFiniteSet(inflight) /\ Cardinality(inflight) \in Nat
  BY FiniteInflight
<1>2. Cardinality(inflight \cup {j}) <= MaxInflight
  <2>1. Cardinality(inflight \cup {j}) \in Nat /\ Cardinality(inflight \cup {j}) <= Cardinality(inflight) + 1
    BY <1>1, OneMore
  <2> QED
    BY <1>1, <2>1, RunnerAssumption DEF HasRoom
<1>3. ASSUME PartLimit > 0, NEW p \in PartJobs
      PROVE  Cardinality(Siblings(p, inflight \cup {j})) <= PartLimit
  <2>1. /\ IsFiniteSet(Siblings(p, inflight)) /\ Cardinality(Siblings(p, inflight)) \in Nat
        /\ Cardinality(Siblings(p, inflight)) <= PartLimit
    BY <1>3, FiniteInflight DEF LimitInv, PartsInflightLimited, Siblings
  <2>2. CASE j \in PartJobs /\ Parent[j] = Parent[p]
    <3>1. Siblings(p, inflight \cup {j}) = Siblings(p, inflight) \cup {j}
      BY <2>2 DEF Siblings
    <3>2. Siblings(j, inflight) = Siblings(p, inflight)
      BY <2>2 DEF Siblings
    <3>3. Cardinality(Siblings(p, inflight)) < PartLimit
      BY <1>3, <2>2, <3>2 DEF CanStart, Siblings
    <3>4. /\ Cardinality(Siblings(p, inflight) \cup {j}) <= Cardinality(Siblings(p, inflight)) + 1
          /\ Cardinality(Siblings(p, inflight) \cup {j}) \in Nat
      BY <2>1, OneMore
    <3>5. PartLimit \in Nat
      BY RunnerAssumption
    <3> QED
      BY <2>1, <3>1, <3>3, <3>4, <3>5
  <2>3. CASE ~(j \in PartJobs /\ Parent[j] = Parent[p])
    <3>1. Siblings(p, inflight \cup {j}) = Siblings(p, inflight)
      BY <2>3 DEF Siblings
    <3> QED
      BY <2>1, <3>1
  <2> QED
    BY <2>2, <2>3
<1> QED
  BY <1>2, <1>3 DEF LimitInv, BackPressure, PartsInflightLimited, Siblings

\* Fewer jobs in flight break none either.
LEMMA EndKeepsLimits ==
    ASSUME Types, LimitInv, inflight' \subseteq inflight
    PROVE  LimitInv'
<1>1. IsFiniteSet(inflight) /\ Cardinality(inflight) \in Nat
  BY FiniteInflight
<1>2. Cardinality(inflight') <= Cardinality(inflight) /\ Cardinality(inflight') \in Nat
  BY <1>1, FS_Subset, FS_CardinalityType
<1>3. ASSUME PartLimit > 0, NEW p \in PartJobs
      PROVE  Cardinality(Siblings(p, inflight')) <= PartLimit
  <2>1. /\ IsFiniteSet(Siblings(p, inflight)) /\ Cardinality(Siblings(p, inflight)) \in Nat
        /\ Cardinality(Siblings(p, inflight)) <= PartLimit
    BY <1>3, FiniteInflight DEF LimitInv, PartsInflightLimited, Siblings
  <2>2. Siblings(p, inflight') \subseteq Siblings(p, inflight)
    BY DEF Siblings
  <2>3. /\ Cardinality(Siblings(p, inflight')) <= Cardinality(Siblings(p, inflight))
        /\ Cardinality(Siblings(p, inflight')) \in Nat
    BY <2>1, <2>2, FS_Subset, FS_CardinalityType
  <2> QED
    BY <2>1, <2>3, RunnerAssumption
<1> QED
  BY <1>1, <1>2, <1>3, RunnerAssumption DEF LimitInv, BackPressure, PartsInflightLimited, Siblings

-----------------------------------------------------------------------------
(* Types. *)

\* Starting a job keeps the types.
LEMMA ScheduleTypes ==
    ASSUME Types, NEW t \in Threads, NEW j \in Jobs, Schedule(t, j)
    PROVE  /\ inflight' \subseteq Jobs
           /\ future' \in [Jobs -> {"none", "waiting", "running", "finished", "cancelled"}]
           /\ pool' \in Seq(Jobs)
           /\ cur' \in [Threads -> Jobs \cup {NoJob}]
           /\ lock' \in Threads \cup {Free}
           /\ at' = [at EXCEPT ![t] = "register"]
BY DEF Schedule, Types, RunnerTypeOK

\* The control of one thread changes.
LEMMA ControlTypes ==
    ASSUME Types, NEW t \in Threads, NEW c, at' = [at EXCEPT ![t] = c],
           t \in Pool => c \in PoolControl, t = Loop => c \in LoopControl
    PROVE  /\ \A u \in Pool : at'[u] \in PoolControl
           /\ at'[Loop] \in LoopControl
           /\ at' \in [Threads -> LoopControl \cup PoolControl]
           /\ at'[t] = c /\ \A u \in Threads \ {t} : at'[u] = at[u]
BY RunnerAssumption DEF Types, RunnerTypeOK, Threads

\* Every step of the event loop keeps the types.
LEMMA ApiTypes ==
    ASSUME Types, HandInv, LoopStep \/ HostCall
    PROVE  Types'
<1> Loop \in Threads /\ Loop \notin Pool
  BY RunnerAssumption DEF Threads
<1>1. ASSUME NEW j \in Jobs, Insert(j)
      PROVE  Types'
  BY <1>1, ControlTypes DEF Insert, MoveTo, shared, Types, RunnerTypeOK, LoopControl
<1>2. CASE NothingToInsert
  BY <1>2, ControlTypes DEF NothingToInsert, MoveTo, rows, shared, Types, RunnerTypeOK, LoopControl
<1>3. CASE SubmitExisting
  <2>1. First(unsent) \in unsent /\ First(unsent) \in Jobs
    BY <1>3, FirstTodo DEF SubmitExisting, Types
  <2>2. CASE HasRoom(inflight) /\ CanStart(First(unsent), inflight)
    <3>1. Schedule(Loop, First(unsent)) /\ UNCHANGED <<queue, state, cancelled, callback, down>>
          /\ unsent' = unsent \ {First(unsent)}
      BY <1>3, <2>2 DEF SubmitExisting, rows
    <3> QED
      BY <2>1, <3>1, ScheduleTypes, ControlTypes DEF Types, RunnerTypeOK, LoopControl
  <2>3. CASE ~(HasRoom(inflight) /\ CanStart(First(unsent), inflight))
    <3>1. /\ queue' = IF First(unsent) \in PartJobs THEN Append(queue, First(unsent)) ELSE queue
          /\ at' = [at EXCEPT ![Loop] = IF unsent = {First(unsent)} THEN "idle" ELSE "submit"]
          /\ UNCHANGED <<inflight, future, pool, cur, lock, state, cancelled, callback, down>>
          /\ unsent' = unsent \ {First(unsent)}
      BY <1>3, <2>3 DEF SubmitExisting, rows
    <3>2. queue' \in Seq(Jobs)
      BY <2>1, <3>1 DEF Types, RunnerTypeOK
    <3>3. at'[Loop] = IF unsent = {First(unsent)} THEN "idle" ELSE "submit"
      BY <3>1 DEF Types
    <3>4. at'[Loop] = "submit" => unsent' # {}
      BY <2>1, <3>1, <3>3
    <3> QED
      BY <3>1, <3>2, <3>4, ControlTypes DEF Types, RunnerTypeOK, LoopControl
  <2> QED
    BY <2>2, <2>3
<1>4. CASE RegisterLoop
  BY <1>4, ControlTypes DEF RegisterLoop, Register, rows, Types, RunnerTypeOK, LoopControl
<1>5. CASE RegisterTooLate(Loop)
  BY <1>5, ControlTypes DEF RegisterTooLate, MoveTo, rows, shared, Types, RunnerTypeOK, LoopControl
<1>6. CASE CancelJobRead
  BY <1>6, ControlTypes DEF CancelJobRead, MoveTo, rows, shared, Types, RunnerTypeOK, LoopControl
<1>7. CASE CancelJobWrite
  BY <1>7, ControlTypes DEF CancelJobWrite, MoveTo, shared, Types, RunnerTypeOK, LoopControl
<1>8. CASE CheckCapacity
  BY <1>8, ControlTypes DEF CheckCapacity, MoveTo, rows, shared, Types, RunnerTypeOK, LoopControl
<1>9. ASSUME NEW S \in SUBSET PartJobs, InsertParts(S)
      PROVE  Types'
  <2>1. S \subseteq Jobs
    BY RunnerAssumption DEF PartJobs
  <2> QED
    BY <1>9, <2>1, ControlTypes DEF InsertParts, MoveTo, shared, Types, RunnerTypeOK, LoopControl
<1>10. ASSUME NEW j \in Jobs, CancelPart(j)
       PROVE  Types'
  <2>1. Dequeue(j) \in Seq(Jobs)
    BY Dequeued DEF HandInv
  <2> QED
    BY <1>10, <2>1 DEF CancelPart, Types, RunnerTypeOK
<1>11. ASSUME NEW j \in Jobs, CancelJob(j)
       PROVE  Types'
  <2>1. Dequeue(j) \in Seq(Jobs)
    BY Dequeued DEF HandInv
  <2>2. /\ queue' = Dequeue(j) /\ cur' = [cur EXCEPT ![Loop] = j]
        /\ UNCHANGED <<state, cancelled, inflight, callback, pool, unsent, down>>
        /\ \/ future' = [future EXCEPT ![j] = "cancelled"] /\ lock' = Loop
           \/ UNCHANGED <<future, lock>>
        /\ \E c \in {"hung", "cancelRead"} : at' = [at EXCEPT ![Loop] = c]
    BY <1>11 DEF CancelJob, rows
  <2> QED
    BY <2>1, <2>2, ControlTypes DEF Types, RunnerTypeOK, LoopControl
<1>12. CASE Shutdown
  BY <1>12 DEF Shutdown, rows, shared, Types, RunnerTypeOK
<1> QED
  BY <1>1, <1>2, <1>3, <1>4, <1>5, <1>6, <1>7, <1>8, <1>9, <1>10, <1>11, <1>12 DEF LoopStep, HostCall

\* So does every step of the pool.
LEMMA PoolTypes ==
    ASSUME Types, HandInv, NEW t \in Pool, PoolStep(t)
    PROVE  Types'
<1> t \in Threads /\ t # Loop
  BY RunnerAssumption DEF Threads
<1>1. CASE Take(t)
  <2>1. Head(pool) \in Jobs /\ Tail(pool) \in Seq(Jobs)
    BY <1>1 DEF Take, Types, RunnerTypeOK
  <2>2. CASE future[Head(pool)] = "waiting"
    <3>1. /\ future' = [future EXCEPT ![Head(pool)] = "running"]
          /\ cur' = [cur EXCEPT ![t] = Head(pool)]
          /\ at' = [at EXCEPT ![t] = "begin"] /\ pool' = Tail(pool)
          /\ UNCHANGED <<state, cancelled, inflight, queue, callback, lock, unsent, down>>
      BY <1>1, <2>2 DEF Take, rows
    <3>2. /\ future' \in [Jobs -> {"none", "waiting", "running", "finished", "cancelled"}]
          /\ cur' \in [Threads -> Jobs \cup {NoJob}]
      BY <2>1, <3>1 DEF Types, RunnerTypeOK
    <3> QED
      BY <2>1, <3>1, <3>2, ControlTypes DEF Types, RunnerTypeOK, PoolControl
  <2>3. CASE future[Head(pool)] # "waiting"
    BY <1>1, <2>1, <2>3 DEF Take, rows, Types, RunnerTypeOK
  <2> QED
    BY <2>2, <2>3
<1>2. CASE Begin(t)
  <2>1. /\ state' = [state EXCEPT ![cur[t]] = IF MayExecute(cur[t]) THEN "active" ELSE @]
        /\ at' = [at EXCEPT ![t] = IF MayExecute(cur[t]) THEN "run" ELSE "resolve"]
        /\ UNCHANGED <<cancelled, inflight, queue, future, callback, pool, lock, cur, unsent, down>>
    BY <1>2 DEF Begin, MoveTo, shared
  <2>2. state' \in [Jobs -> {"absent", "pending", "active", "done", "failed"}]
    BY <2>1 DEF Types, RunnerTypeOK
  <2> QED
    BY <2>1, <2>2, ControlTypes DEF Types, RunnerTypeOK, PoolControl
<1>3. ASSUME NEW newState \in {"done", "failed", "active"}, Finish(t, newState)
      PROVE  Types'
  <2>1. /\ state' = [state EXCEPT ![cur[t]] = IF @ = "active" THEN newState ELSE @]
        /\ at' = [at EXCEPT ![t] = "resolve"]
        /\ UNCHANGED <<cancelled, inflight, queue, future, callback, pool, lock, cur, unsent, down>>
    BY <1>3 DEF Finish, MoveTo, shared
  <2>2. state' \in [Jobs -> {"absent", "pending", "active", "done", "failed"}]
    BY <2>1 DEF Types, RunnerTypeOK
  <2> QED
    BY <2>1, <2>2, ControlTypes DEF Types, RunnerTypeOK, PoolControl
<1>4. CASE Resolve(t)
  <2>1. /\ future' = [future EXCEPT ![cur[t]] = "finished"]
        /\ at' = [at EXCEPT ![t] = IF callback[cur[t]] THEN "done" ELSE "idle"]
        /\ UNCHANGED <<state, cancelled, inflight, queue, callback, pool, lock, cur, unsent, down>>
    BY <1>4 DEF Resolve, MoveTo, rows
  <2>2. future' \in [Jobs -> {"none", "waiting", "running", "finished", "cancelled"}]
    BY <2>1 DEF Types, RunnerTypeOK
  <2> QED
    BY <2>1, <2>2, ControlTypes DEF Types, RunnerTypeOK, PoolControl
<1>5. CASE JobDone(t)
  BY <1>5, ControlTypes DEF JobDone, MoveTo, rows, Types, RunnerTypeOK, PoolControl
<1>6. CASE Refill(t)
  <2> DEFINE i == First(Startable(inflight))
  <2>1. i \in 1..Len(queue) /\ queue[i] \in Jobs
    BY <1>6, FirstStartable DEF Refill
  <2>2. /\ queue' = RemoveAt(queue, i)
        /\ UNCHANGED <<state, cancelled, callback, unsent, down>>
        /\ \/ /\ at' = [at EXCEPT ![t] = "idle"] /\ lock' = Free
              /\ UNCHANGED <<inflight, future, pool, cur>>
           \/ Schedule(t, queue[i])
    BY <1>6 DEF Refill, Without, rows
  <2> HIDE DEF i
  <2>3. queue' \in Seq(Jobs)
    BY <2>1, <2>2, Removal DEF Types, RunnerTypeOK, HandInv
  <2>4. CASE Schedule(t, queue[i])
    <3>1. /\ inflight' \subseteq Jobs
          /\ future' \in [Jobs -> {"none", "waiting", "running", "finished", "cancelled"}]
          /\ pool' \in Seq(Jobs)
          /\ cur' \in [Threads -> Jobs \cup {NoJob}]
          /\ lock' \in Threads \cup {Free}
          /\ at' = [at EXCEPT ![t] = "register"]
      BY <2>1, <2>4, ScheduleTypes
    <3>2. /\ \A u \in Pool : at'[u] \in PoolControl
          /\ at'[Loop] \in LoopControl
          /\ at' \in [Threads -> LoopControl \cup PoolControl]
          /\ at'[Loop] = at[Loop]
      BY <3>1, ControlTypes DEF PoolControl, Threads
    <3> QED
      BY <2>2, <2>3, <3>1, <3>2 DEF Types, RunnerTypeOK
  <2>5. CASE /\ at' = [at EXCEPT ![t] = "idle"] /\ lock' = Free
             /\ UNCHANGED <<inflight, future, pool, cur>>
    BY <2>2, <2>3, <2>5, ControlTypes DEF Types, RunnerTypeOK, PoolControl
  <2> QED
    BY <2>2, <2>4, <2>5
<1>7. CASE RefillOver(t)
  BY <1>7, ControlTypes DEF RefillOver, MoveTo, rows, shared, Types, RunnerTypeOK, PoolControl
<1>8. CASE RegisterPool(t)
  <2>1. /\ callback' = [callback EXCEPT ![cur[t]] = TRUE]
        /\ at' = [at EXCEPT ![t] = "refill"]
        /\ UNCHANGED <<state, cancelled, inflight, queue, future, pool, lock, cur, unsent, down>>
    BY <1>8 DEF RegisterPool, Register, rows
  <2>2. callback' \in [Jobs -> BOOLEAN]
    BY <2>1 DEF Types, RunnerTypeOK
  <2> QED
    BY <2>1, <2>2, ControlTypes DEF Types, RunnerTypeOK, PoolControl
<1>9. CASE RegisterTooLate(t)
  BY <1>9, ControlTypes DEF RegisterTooLate, MoveTo, rows, shared, Types, RunnerTypeOK, PoolControl
<1> QED
  BY <1>1, <1>2, <1>3, <1>4, <1>5, <1>6, <1>7, <1>8, <1>9 DEF PoolStep

-----------------------------------------------------------------------------
(* Every job is in one place. *)

\* The members of the lists are jobs.
LEMMA ListsOfJobs ==
    ASSUME Types
    PROVE  Range(queue) \subseteq Jobs /\ Range(pool) \subseteq Jobs /\ unsent \subseteq Jobs
BY DEF Types, RunnerTypeOK, Range

\* Steps that give nobody a job leave every job where it is.
LEMMA HandKept ==
    ASSUME Types, HandInv,
           Distinct(queue'), Range(queue') \subseteq Range(queue),
           Distinct(pool'), Range(pool') \subseteq Range(pool),
           future' = future, unsent' = unsent,
           \A j \in Jobs : state'[j] = "absent" => state[j] = "absent",
           \A t \in Pool : Executes(t)' => Executes(t) /\ cur'[t] = cur[t]
    PROVE  HandInv'
<1>1. Range(queue) \subseteq Jobs /\ unsent \subseteq Jobs
  BY ListsOfJobs
<1>2. \A j \in Range(queue') : future'[j] = "none" /\ state'[j] # "absent" /\ j \notin unsent'
  BY <1>1 DEF HandInv
<1>3. \A j \in unsent' : future'[j] = "none" /\ state'[j] # "absent"
  BY <1>1 DEF HandInv
<1>4. \A j \in Jobs : state'[j] = "absent" => future'[j] = "none"
  BY DEF HandInv
<1>5. \A t \in Pool : Executes(t)' => cur'[t] \in Jobs /\ future'[cur'[t]] = "running"
  BY DEF HandInv
<1>6. \A t, u \in Pool : Executes(t)' /\ Executes(u)' /\ cur'[t] = cur'[u] => t = u
  BY DEF HandInv
<1>7. Distinct(pool') /\ \A j \in Range(pool') : future'[j] \in {"waiting", "cancelled"}
  BY DEF HandInv
<1> QED
  BY <1>2, <1>3, <1>4, <1>5, <1>6, <1>7 DEF HandInv

\* What a job that is handed to the executor comes from: a list of the runner.
LEMMA HandStarted ==
    ASSUME Types, HandInv, NEW t \in Threads, NEW j \in Jobs, Schedule(t, j),
           future[j] = "none", state[j] # "absent",
           Distinct(queue'), Range(queue') \subseteq Range(queue) \ {j},
           unsent' \subseteq unsent \ {j}, UNCHANGED state
    PROVE  HandInv'
<1>1. /\ future' = [future EXCEPT ![j] = "waiting"]
      /\ pool' = Append(pool, j) /\ cur' = [cur EXCEPT ![t] = j]
      /\ at' = [at EXCEPT ![t] = "register"]
      /\ Range(queue) \subseteq Jobs /\ Range(pool) \subseteq Jobs /\ unsent \subseteq Jobs
  BY ListsOfJobs DEF Schedule, Types, RunnerTypeOK
<1>2. j \notin Range(pool)
  BY DEF HandInv
<1>3. Distinct(pool') /\ Range(pool') = Range(pool) \cup {j}
  BY <1>1, <1>2, Appending DEF Types, RunnerTypeOK, HandInv
<1>4. future'[j] = "waiting" /\ \A i \in Jobs \ {j} : future'[i] = future[i]
  BY <1>1 DEF Types, RunnerTypeOK
<1>5. \A i \in Range(queue') : future'[i] = "none" /\ state'[i] # "absent" /\ i \notin unsent'
  BY <1>1, <1>4 DEF HandInv
<1>6. \A i \in unsent' : future'[i] = "none" /\ state'[i] # "absent"
  BY <1>1, <1>4 DEF HandInv
<1>7. \A i \in Jobs : state'[i] = "absent" => future'[i] = "none"
  BY <1>4 DEF HandInv
<1>8. \A i \in Range(pool') : future'[i] \in {"waiting", "cancelled"}
  BY <1>1, <1>3, <1>4 DEF HandInv
<1>9. ASSUME NEW u \in Pool, Executes(u)'
      PROVE  Executes(u) /\ cur'[u] = cur[u]
  <2>1. u # t /\ u \in Threads
    BY <1>1, <1>9 DEF Types, Executes, Threads
  <2> QED
    BY <1>1, <1>9, <2>1 DEF Types, RunnerTypeOK, Executes
<1>10. ASSUME NEW u \in Pool, Executes(u)'
       PROVE  cur'[u] \in Jobs /\ future'[cur'[u]] = "running"
  BY <1>4, <1>9, <1>10 DEF HandInv
<1>11. \A u, v \in Pool : Executes(u)' /\ Executes(v)' /\ cur'[u] = cur'[v] => u = v
  BY <1>9 DEF HandInv
<1> QED
  BY <1>3, <1>5, <1>6, <1>7, <1>8, <1>10, <1>11 DEF HandInv

\* Rows that are created go to the list of what is to be submitted.
LEMMA HandCreated ==
    ASSUME Types, HandInv, NEW S \in SUBSET Jobs,
           \A j \in S : state[j] = "absent",
           unsent' = S, \A j \in Jobs : state'[j] = IF j \in S THEN "pending" ELSE state[j],
           UNCHANGED <<queue, pool, future, cur>>,
           \A t \in Pool : at'[t] = at[t]
    PROVE  HandInv'
<1>1. Range(queue) \subseteq Jobs
  BY ListsOfJobs
<1>2. \A j \in Range(queue') : future'[j] = "none" /\ state'[j] # "absent" /\ j \notin unsent'
  BY <1>1 DEF HandInv
<1>3. \A j \in unsent' : future'[j] = "none" /\ state'[j] # "absent"
  BY DEF HandInv
<1>4. \A j \in Jobs : state'[j] = "absent" => future'[j] = "none"
  BY DEF HandInv
<1>5. \A t \in Pool : Executes(t)' = Executes(t)
  BY DEF Executes
<1>6. /\ \A t \in Pool : Executes(t)' => cur'[t] \in Jobs /\ future'[cur'[t]] = "running"
      /\ \A t, u \in Pool : Executes(t)' /\ Executes(u)' /\ cur'[t] = cur'[u] => t = u
  BY <1>5 DEF HandInv
<1>7. Distinct(queue') /\ Distinct(pool') /\ \A j \in Range(pool') : future'[j] \in {"waiting", "cancelled"}
  BY DEF HandInv
<1> QED
  BY <1>2, <1>3, <1>4, <1>6, <1>7 DEF HandInv

\* A future that has been taken or cancelled is changed to what it may be now.
LEMMA HandMoved ==
    ASSUME Types, HandInv, NEW j \in Jobs, NEW f, future[j] # "none",
           f # "none", future' = [future EXCEPT ![j] = f],
           j \in Range(pool') => f \in {"waiting", "cancelled"},
           Distinct(pool'), Range(pool') \subseteq Range(pool),
           Distinct(queue'), Range(queue') \subseteq Range(queue),
           UNCHANGED <<unsent, state>>,
           \A t \in Pool : Executes(t)' /\ cur'[t] # j => Executes(t) /\ cur'[t] = cur[t],
           \A t \in Pool : Executes(t)' /\ cur'[t] = j => f = "running",
           \A t, u \in Pool : Executes(t)' /\ Executes(u)' /\ cur'[t] = j /\ cur'[u] = j => t = u
    PROVE  HandInv'
<1>1. future'[j] = f /\ \A i \in Jobs \ {j} : future'[i] = future[i]
  BY DEF Types, RunnerTypeOK
<1>2. Range(queue) \subseteq Jobs /\ Range(pool) \subseteq Jobs /\ unsent \subseteq Jobs
  BY ListsOfJobs
<1>3. \A i \in Range(queue') : future'[i] = "none" /\ state'[i] # "absent" /\ i \notin unsent'
  BY <1>1, <1>2 DEF HandInv
<1>4. \A i \in unsent' : future'[i] = "none" /\ state'[i] # "absent"
  BY <1>1, <1>2 DEF HandInv
<1>5. \A i \in Jobs : state'[i] = "absent" => future'[i] = "none"
  BY <1>1 DEF HandInv
<1>6. \A i \in Range(pool') : future'[i] \in {"waiting", "cancelled"}
  BY <1>1, <1>2 DEF HandInv
<1>7. \A t \in Pool : Executes(t)' => cur'[t] \in Jobs /\ future'[cur'[t]] = "running"
  BY <1>1 DEF HandInv
<1>8. ASSUME NEW t \in Pool, NEW u \in Pool, Executes(t)', Executes(u)', cur'[t] = cur'[u]
      PROVE  t = u
  <2>1. CASE cur'[t] = j
    BY <1>8, <2>1
  <2>2. CASE cur'[t] # j
    BY <1>8, <2>2 DEF HandInv
  <2> QED
    BY <2>1, <2>2
<1> QED
  BY <1>3, <1>4, <1>5, <1>6, <1>7, <1>8 DEF HandInv

\* The event loop keeps every job in one place.
LEMMA ApiHand ==
    ASSUME Types, HandInv, LoopStep \/ HostCall
    PROVE  HandInv'
<1>0. /\ Distinct(queue) /\ Distinct(pool) /\ Loop \in Threads /\ Loop \notin Pool
      /\ \A c : \A t \in Pool : [at EXCEPT ![Loop] = c][t] = at[t]
      /\ \A j : \A t \in Pool : [cur EXCEPT ![Loop] = j][t] = cur[t]
  BY RunnerAssumption DEF HandInv, Threads, Types, RunnerTypeOK
<1>1. ASSUME NEW j \in Jobs, Insert(j)
      PROVE  HandInv'
  <2>1. /\ state[j] = "absent" /\ unsent' = {j} /\ state' = [state EXCEPT ![j] = "pending"]
        /\ UNCHANGED <<queue, pool, future, cur>> /\ \A t \in Pool : at'[t] = at[t]
    BY <1>0, <1>1 DEF Insert, MoveTo, shared
  <2>2. \A i \in Jobs : state'[i] = IF i \in {j} THEN "pending" ELSE state[i]
    BY <2>1 DEF Types, RunnerTypeOK
  <2> QED
    BY <2>1, <2>2, HandCreated
<1>2. ASSUME NEW S \in SUBSET PartJobs, InsertParts(S)
      PROVE  HandInv'
  <2>1. /\ \A j \in S : state[j] = "absent"
        /\ unsent' = S /\ state' = [j \in Jobs |-> IF j \in S THEN "pending" ELSE state[j]]
        /\ UNCHANGED <<queue, pool, future, cur>> /\ \A t \in Pool : at'[t] = at[t]
    BY <1>0, <1>2 DEF InsertParts, MoveTo, shared
  <2>2. S \in SUBSET Jobs
    BY RunnerAssumption DEF PartJobs
  <2>3. \A j \in Jobs : state'[j] = IF j \in S THEN "pending" ELSE state[j]
    BY <2>1
  <2> QED
    BY <2>1, <2>2, <2>3, HandCreated
<1>3. CASE SubmitExisting
  <2> DEFINE j == First(unsent)
  <2>1. j \in unsent /\ j \in Jobs
    BY <1>3, FirstTodo DEF SubmitExisting, Types
  <2>2. unsent' = unsent \ {j} /\ state' = state /\ pool \in Seq(Jobs) /\ queue \in Seq(Jobs)
    BY <1>3 DEF SubmitExisting, rows, Types, RunnerTypeOK
  <2>3. future[j] = "none" /\ state[j] # "absent" /\ j \notin Range(queue)
    BY <2>1 DEF HandInv
  <2>4. CASE HasRoom(inflight) /\ CanStart(j, inflight)
    <3>1. Schedule(Loop, j) /\ queue' = queue
      BY <1>3, <2>4 DEF SubmitExisting
    <3> HIDE DEF j
    <3>2. Range(queue') \subseteq Range(queue) \ {j} /\ Distinct(queue') /\ unsent' \subseteq unsent \ {j}
      BY <1>0, <2>2, <2>3, <3>1
    <3> QED
      BY <1>0, <2>1, <2>2, <2>3, <3>1, <3>2, HandStarted
  <2>5. CASE ~(HasRoom(inflight) /\ CanStart(j, inflight))
    <3>1. /\ queue' = IF j \in PartJobs THEN Append(queue, j) ELSE queue
          /\ UNCHANGED <<future, pool, cur>>
          /\ \A t \in Pool : at'[t] = at[t]
      BY <1>0, <1>3, <2>5 DEF SubmitExisting
    <3> HIDE DEF j
    <3>2. Distinct(queue') /\ Range(queue') \subseteq Range(queue) \cup {j}
      BY <1>0, <2>1, <2>2, <2>3, <3>1, Appending
    <3>3. \A i \in Range(queue') : future'[i] = "none" /\ state'[i] # "absent" /\ i \notin unsent'
      BY <2>2, <2>3, <3>1, <3>2 DEF HandInv
    <3>4. \A i \in unsent' : future'[i] = "none" /\ state'[i] # "absent"
      BY <2>2, <3>1 DEF HandInv
    <3>5. \A t \in Pool : Executes(t)' = Executes(t)
      BY <3>1 DEF Executes
    <3>6. /\ \A t \in Pool : Executes(t)' => cur'[t] \in Jobs /\ future'[cur'[t]] = "running"
          /\ \A t, u \in Pool : Executes(t)' /\ Executes(u)' /\ cur'[t] = cur'[u] => t = u
      BY <3>1, <3>5 DEF HandInv
    <3>7. /\ Distinct(pool') /\ \A i \in Range(pool') : future'[i] \in {"waiting", "cancelled"}
          /\ \A i \in Jobs : state'[i] = "absent" => future'[i] = "none"
      BY <2>2, <3>1 DEF HandInv
    <3> QED
      BY <3>2, <3>3, <3>4, <3>6, <3>7 DEF HandInv
  <2> QED
    BY <2>4, <2>5
<1>4. ASSUME NEW j \in Jobs, CancelPart(j)
      PROVE  HandInv'
  <2>1. /\ queue' = Dequeue(j) /\ state' = [state EXCEPT ![j] = "failed"]
        /\ UNCHANGED <<future, pool, cur, at, unsent>>
    BY <1>4 DEF CancelPart
  <2>2. Distinct(queue') /\ Range(queue') \subseteq Range(queue)
    BY <1>0, <2>1, Dequeued
  <2>3. \A i \in Jobs : state'[i] = "absent" => state[i] = "absent"
    BY <2>1 DEF Types, RunnerTypeOK
  <2>4. \A t \in Pool : Executes(t)' => Executes(t) /\ cur'[t] = cur[t]
    BY <2>1 DEF Executes
  <2> QED
    BY <1>0, <2>1, <2>2, <2>3, <2>4, HandKept
<1>5. ASSUME NEW j \in Jobs, CancelJob(j)
      PROVE  HandInv'
  <2>1. /\ queue' = Dequeue(j) /\ UNCHANGED <<state, pool, unsent>>
        /\ cur' = [cur EXCEPT ![Loop] = j] /\ \E c : at' = [at EXCEPT ![Loop] = c]
    BY <1>5 DEF CancelJob, rows
  <2>p. \A t \in Pool : at'[t] = at[t] /\ cur'[t] = cur[t]
    BY <1>0, <2>1
  <2>2. Distinct(queue') /\ Range(queue') \subseteq Range(queue)
    BY <1>0, <2>1, Dequeued
  <2>3. \A t \in Pool : Executes(t)' => Executes(t) /\ cur'[t] = cur[t]
    BY <2>p DEF Executes
  <2>4. CASE future[j] = "waiting"
    <3>1. future' = [future EXCEPT ![j] = "cancelled"]
      BY <1>5, <2>4 DEF CancelJob
    <3>2. \A t \in Pool : Executes(t)' => cur'[t] # j
      BY <2>3, <2>4 DEF HandInv
    <3> QED
      BY <1>0, <2>1, <2>2, <2>3, <2>4, <3>1, <3>2, HandMoved
  <2>5. CASE future[j] # "waiting"
    <3>1. future' = future
      BY <1>5, <2>5 DEF CancelJob
    <3> QED
      BY <1>0, <2>1, <2>2, <2>3, <3>1, HandKept
  <2> QED
    BY <2>4, <2>5
<1>6. CASE CancelJobWrite
  <2>1. /\ state' = [state EXCEPT ![cur[Loop]] = "failed"]
        /\ UNCHANGED <<queue, future, pool, cur, unsent>> /\ \A t \in Pool : at'[t] = at[t]
    BY <1>0, <1>6 DEF CancelJobWrite, MoveTo, shared
  <2>2. \A i \in Jobs : state'[i] = "absent" => state[i] = "absent"
    BY <2>1 DEF Types, RunnerTypeOK
  <2>3. \A t \in Pool : Executes(t)' => Executes(t) /\ cur'[t] = cur[t]
    BY <2>1 DEF Executes
  <2> QED
    BY <1>0, <2>1, <2>2, <2>3, HandKept
<1>7. CASE \/ NothingToInsert \/ RegisterLoop \/ RegisterTooLate(Loop)
           \/ CancelJobRead \/ CheckCapacity \/ Shutdown
  <2>1. /\ UNCHANGED <<state, queue, future, pool, cur, unsent>>
        /\ at' = at \/ \E c : at' = [at EXCEPT ![Loop] = c]
    BY <1>7 DEF NothingToInsert, RegisterLoop, Register, RegisterTooLate, CancelJobRead,
                CheckCapacity, Shutdown, MoveTo, rows, shared
  <2>p. \A t \in Pool : at'[t] = at[t]
    BY <1>0, <2>1
  <2>2. \A t \in Pool : Executes(t)' => Executes(t) /\ cur'[t] = cur[t]
    BY <2>1, <2>p DEF Executes
  <2> QED
    BY <1>0, <2>1, <2>2, HandKept
<1> QED
  BY <1>1, <1>2, <1>3, <1>4, <1>5, <1>6, <1>7 DEF LoopStep, HostCall

\* So do the threads of the pool.
LEMMA PoolHand ==
    ASSUME Types, HandInv, NEW t \in Pool, PoolStep(t)
    PROVE  HandInv'
<1>0. /\ Distinct(queue) /\ Distinct(pool) /\ t \in Threads /\ Pool \subseteq Threads
      /\ pool \in Seq(Jobs) /\ queue \in Seq(Jobs)
      /\ \A c : [at EXCEPT ![t] = c][t] = c /\ \A u \in Pool \ {t} : [at EXCEPT ![t] = c][u] = at[u]
  BY RunnerAssumption DEF HandInv, Threads, Types, RunnerTypeOK
<1>1. CASE Take(t)
  <2> DEFINE j == Head(pool)
  <2>1. j \in Jobs /\ j \in Range(pool) /\ Distinct(pool') /\ Range(pool') = Range(pool) \ {j}
    BY <1>0, <1>1, Taking DEF Take
  <2>2. UNCHANGED <<state, queue, unsent>>
    BY <1>1 DEF Take, rows
  <2>3. CASE future[j] = "waiting"
    <3>1. /\ future' = [future EXCEPT ![j] = "running"] /\ cur' = [cur EXCEPT ![t] = j]
          /\ at' = [at EXCEPT ![t] = "begin"]
      BY <1>1, <2>3 DEF Take
    <3>2. cur'[t] = j /\ \A u \in Pool \ {t} : cur'[u] = cur[u] /\ at'[u] = at[u]
      BY <1>0, <3>1 DEF Types, RunnerTypeOK
    <3> HIDE DEF j
    <3>3. \A u \in Pool : Executes(u)' /\ cur'[u] # j => Executes(u) /\ cur'[u] = cur[u]
      BY <3>2 DEF Executes
    <3>4. \A u \in Pool : Executes(u)' /\ cur'[u] = j => u = t
      BY <2>3, <3>2 DEF Executes, HandInv
    <3> QED
      BY <1>0, <2>1, <2>2, <2>3, <3>1, <3>3, <3>4, HandMoved
  <2>4. CASE future[j] # "waiting"
    <3>1. UNCHANGED <<future, cur, at>>
      BY <1>1, <2>4 DEF Take
    <3>2. \A u \in Pool : Executes(u)' => Executes(u) /\ cur'[u] = cur[u]
      BY <3>1 DEF Executes
    <3> QED
      BY <1>0, <2>1, <2>2, <3>1, <3>2, HandKept
  <2> QED
    BY <2>3, <2>4
<1>2. CASE Begin(t) \/ \E newState \in {"done", "failed", "active"} : Finish(t, newState)
  <2>1. /\ UNCHANGED <<queue, future, pool, cur, unsent>> /\ Executes(t)
        /\ \E c : at' = [at EXCEPT ![t] = c]
        /\ \E s \in {"done", "failed", "active"} :
              state' = state \/ state' = [state EXCEPT ![cur[t]] = s]
                  \/ state' = [state EXCEPT ![cur[t]] = IF @ = "active" THEN s ELSE @]
                  \/ state' = [state EXCEPT ![cur[t]] = IF MayExecute(cur[t]) THEN s ELSE @]
    BY <1>2 DEF Begin, Finish, MoveTo, shared, Executes
  <2>2. \A i \in Jobs : state'[i] = "absent" => state[i] = "absent"
    BY <2>1 DEF Types, RunnerTypeOK
  <2>3. \A u \in Pool : Executes(u)' => Executes(u) /\ cur'[u] = cur[u]
    BY <1>0, <2>1 DEF Executes
  <2> QED
    BY <1>0, <2>1, <2>2, <2>3, HandKept
<1>3. CASE Resolve(t)
  <2> DEFINE j == cur[t]
  <2>1. /\ future' = [future EXCEPT ![j] = "finished"]
        /\ UNCHANGED <<state, queue, pool, cur, unsent>> /\ Executes(t)
    BY <1>3 DEF Resolve, MoveTo, rows, Executes
  <2>c. PICK c \in {"done", "idle"} : at' = [at EXCEPT ![t] = c]
    BY <1>3 DEF Resolve, MoveTo
  <2>2. j \in Jobs /\ future[j] = "running" /\ j \notin Range(pool)
    BY <2>1 DEF HandInv
  <2>3. ~Executes(t)' /\ \A u \in Pool \ {t} : Executes(u)' = Executes(u)
    BY <1>0, <2>c DEF Executes
  <2>4. \A u \in Pool : Executes(u)' => Executes(u) /\ cur'[u] = cur[u] /\ cur'[u] # j
    BY <2>1, <2>3 DEF HandInv
  <2> HIDE DEF j
  <2> QED
    BY <1>0, <2>1, <2>2, <2>4, HandMoved
<1>4. CASE JobDone(t) \/ RefillOver(t) \/ RegisterPool(t) \/ RegisterTooLate(t)
  <2>1. /\ UNCHANGED <<state, queue, future, pool, cur, unsent>>
        /\ \E c \in {"refill", "idle", "hung"} : at' = [at EXCEPT ![t] = c]
    BY <1>4 DEF JobDone, RefillOver, RegisterPool, Register, RegisterTooLate, MoveTo, rows, shared
  <2>2. \A u \in Pool : Executes(u)' => Executes(u) /\ cur'[u] = cur[u]
    BY <1>0, <2>1 DEF Executes
  <2> QED
    BY <1>0, <2>1, <2>2, HandKept
<1>5. CASE Refill(t)
  <2> DEFINE i == First(Startable(inflight))
             j == queue[i]
  <2>1. i \in 1..Len(queue) /\ j \in Jobs /\ j \in Range(queue) /\ state[j] = "pending"
    BY <1>5, FirstStartable DEF Refill
  <2>2. /\ queue' = RemoveAt(queue, i) /\ UNCHANGED <<state, unsent>>
        /\ \/ at' = [at EXCEPT ![t] = "idle"] /\ UNCHANGED <<future, pool, cur>>
           \/ Schedule(t, j)
    BY <1>5 DEF Refill, Without, rows
  <2> HIDE DEF i
  <2>3. Distinct(queue') /\ Range(queue') = Range(queue) \ {j}
    BY <1>0, <2>1, <2>2, Removal
  <2>4. future[j] = "none" /\ state[j] # "absent" /\ j \notin unsent
    BY <2>1 DEF HandInv
  <2> HIDE DEF j
  <2>5. CASE Schedule(t, j)
    BY <1>0, <2>1, <2>2, <2>3, <2>4, <2>5, HandStarted
  <2>6. CASE at' = [at EXCEPT ![t] = "idle"] /\ UNCHANGED <<future, pool, cur>>
    <3>1. \A u \in Pool : Executes(u)' => Executes(u) /\ cur'[u] = cur[u]
      BY <1>0, <2>6 DEF Executes
    <3> QED
      BY <1>0, <2>2, <2>3, <2>6, <3>1, HandKept
  <2> QED
    BY <2>2, <2>5, <2>6
<1> QED
  BY <1>1, <1>2, <1>3, <1>4, <1>5 DEF PoolStep

-----------------------------------------------------------------------------
(* The lock, the limits and the cancelled jobs. *)

\* A step either leaves the lock, the control of one thread and the lists as they
\* are to the invariants below, or starts jobs, or ends one.
LEMMA LockStep ==
    ASSUME Types, LockInv, RunnerNext
    PROVE  LockInv'
<1>0. /\ \A t \in Threads : \A c : [at EXCEPT ![t] = c][t] = c
      /\ \A t \in Threads : \A c : \A u \in Threads \ {t} : [at EXCEPT ![t] = c][u] = at[u]
      /\ Loop \in Threads /\ Pool \subseteq Threads /\ Free \notin Threads
  BY RunnerAssumption DEF Types, Threads, Free
<1>1. ASSUME NEW t \in Threads, at' = [at EXCEPT ![t] = "register"], lock' = t,
             lock = Free \/ lock = t
      PROVE  LockInv'
  BY <1>0, <1>1 DEF LockInv
<1>2. ASSUME NEW t \in Threads, NEW c, at' = [at EXCEPT ![t] = c], c \notin {"refill", "register"},
             lock' = lock \/ at[t] \in {"refill", "register"} \/ lock = Free
      PROVE  LockInv'
  BY <1>0, <1>2 DEF LockInv
<1>3. ASSUME UNCHANGED <<at, lock>>
      PROVE  LockInv'
  BY <1>3 DEF LockInv
<1>4. CASE SubmitExisting
  <2>1. lock = Free
    BY <1>4 DEF SubmitExisting
  <2>2. \/ at' = [at EXCEPT ![Loop] = "register"] /\ lock' = Loop
        \/ \E c \in {"idle", "submit"} : at' = [at EXCEPT ![Loop] = c] /\ lock' = lock
    BY <1>4 DEF SubmitExisting, Schedule
  <2> QED
    BY <1>0, <1>1, <1>2, <2>1, <2>2
<1>5. ASSUME NEW t \in Pool, Refill(t)
      PROVE  LockInv'
  <2>1. lock = t /\ at[t] = "refill" /\ t \in Threads
    BY <1>0, <1>5 DEF Refill, LockInv
  <2>2. \/ at' = [at EXCEPT ![t] = "register"] /\ lock' = t
        \/ at' = [at EXCEPT ![t] = "idle"]
    BY <1>5 DEF Refill, Schedule
  <2> QED
    BY <1>1, <1>2, <2>1, <2>2
<1>6. ASSUME NEW t \in Pool, JobDone(t)
      PROVE  LockInv'
  <2>1. lock = Free /\ lock' = t /\ at' = [at EXCEPT ![t] = "refill"]
    BY <1>6 DEF JobDone, MoveTo
  <2> QED
    BY <1>0, <2>1 DEF LockInv
<1>7. ASSUME NEW t \in Pool, RegisterPool(t)
      PROVE  LockInv'
  <2>1. at[t] = "register" /\ lock' = lock /\ at' = [at EXCEPT ![t] = "refill"]
    BY <1>7 DEF RegisterPool, Register
  <2> QED
    BY <1>0, <2>1 DEF LockInv
<1>8. ASSUME NEW t \in Pool, RefillOver(t)
      PROVE  LockInv'
  <2>1. at[t] = "refill" /\ at' = [at EXCEPT ![t] = "idle"]
    BY <1>8 DEF RefillOver, MoveTo
  <2> QED
    BY <1>0, <1>2, <2>1
<1>9. CASE RegisterLoop
  <2>1. at[Loop] = "register" /\ \E c \in {"idle", "submit"} : at' = [at EXCEPT ![Loop] = c]
    BY <1>9 DEF RegisterLoop, Register
  <2> QED
    BY <1>0, <1>2, <2>1
<1>10. ASSUME NEW t \in Threads, RegisterTooLate(t)
       PROVE  LockInv'
  <2>1. lock' = lock /\ at' = [at EXCEPT ![t] = "hung"]
    BY <1>10 DEF RegisterTooLate, MoveTo
  <2> QED
    BY <1>2, <2>1
<1>11. ASSUME NEW t \in Pool,
              Take(t) \/ Begin(t) \/ Resolve(t)
                  \/ \E newState \in {"done", "failed", "active"} : Finish(t, newState)
       PROVE  LockInv'
  <2>1. /\ lock' = lock
        /\ at' = at \/ \E c \in {"begin", "run", "resolve", "done", "idle"} : at' = [at EXCEPT ![t] = c]
    BY <1>11 DEF Take, Begin, Resolve, Finish, MoveTo, shared
  <2> QED
    BY <1>0, <1>2, <1>3, <2>1
<1>12. ASSUME NEW j \in Jobs, CancelJob(j)
       PROVE  LockInv'
  <2>1. lock = Free /\ \E c \in {"hung", "cancelRead"} : at' = [at EXCEPT ![Loop] = c]
    BY <1>12 DEF CancelJob
  <2> QED
    BY <1>0, <1>2, <2>1
<1>13. ASSUME \/ \E j \in Jobs : Insert(j) \/ CancelPart(j)
              \/ NothingToInsert \/ CancelJobRead \/ CancelJobWrite \/ CheckCapacity \/ Shutdown
              \/ \E S \in SUBSET PartJobs : InsertParts(S)
       PROVE  LockInv'
  <2>1. /\ lock' = lock
        /\ at' = at \/ \E c \in {"submit", "idle", "cancelWrite", "insert"} : at' = [at EXCEPT ![Loop] = c]
    BY <1>13 DEF Insert, CancelPart, NothingToInsert, CancelJobRead, CancelJobWrite, CheckCapacity,
                 Shutdown, InsertParts, MoveTo, shared
  <2> QED
    BY <1>0, <1>2, <1>3, <2>1
<1> QED
  BY <1>0, <1>4, <1>5, <1>6, <1>7, <1>8, <1>9, <1>10, <1>11, <1>12, <1>13
     DEF RunnerNext, LoopStep, HostCall, PoolStep

\* Jobs are started one at a time, with room and with their parent's consent; every
\* other step leaves inflight as it is or makes it smaller.
LEMMA LimitStep ==
    ASSUME Types, LimitInv, RunnerNext
    PROVE  LimitInv'
<1>1. CASE inflight' \subseteq inflight
  BY <1>1, EndKeepsLimits
<1>2. CASE SubmitExisting
  <2>1. First(unsent) \in Jobs
    BY <1>2, FirstTodo DEF SubmitExisting, Types
  <2>2. \/ inflight' = inflight
        \/ /\ HasRoom(inflight) /\ CanStart(First(unsent), inflight)
           /\ inflight' = inflight \cup {First(unsent)}
    BY <1>2 DEF SubmitExisting, Schedule
  <2> QED
    BY <1>1, <2>1, <2>2, StartKeepsLimits
<1>3. ASSUME NEW t \in Pool, Refill(t)
      PROVE  LimitInv'
  <2> DEFINE j == queue[First(Startable(inflight))]
  <2>1. j \in Jobs /\ CanStart(j, inflight) /\ HasRoom(inflight)
    BY <1>3, FirstStartable DEF Refill
  <2>2. inflight' = inflight \/ inflight' = inflight \cup {j}
    BY <1>3 DEF Refill, Schedule
  <2> HIDE DEF j
  <2> QED
    BY <1>1, <2>1, <2>2, StartKeepsLimits
<1>4. ASSUME NEW t \in Pool, JobDone(t)
      PROVE  LimitInv'
  BY <1>1, <1>4 DEF JobDone
<1>5. ASSUME \/ \E j \in Jobs : Insert(j) \/ CancelPart(j) \/ CancelJob(j)
             \/ NothingToInsert \/ CancelJobRead \/ CancelJobWrite \/ CheckCapacity \/ Shutdown \/ RegisterLoop
             \/ \E S \in SUBSET PartJobs : InsertParts(S)
             \/ \E t \in Threads : RegisterTooLate(t)
      PROVE  LimitInv'
  BY <1>1, <1>5 DEF Insert, CancelPart, CancelJob, NothingToInsert, CancelJobRead, CancelJobWrite,
                    CheckCapacity, Shutdown, RegisterLoop, Register, InsertParts, RegisterTooLate, shared
<1>6. ASSUME NEW t \in Pool,
             Take(t) \/ Begin(t) \/ Resolve(t) \/ RefillOver(t) \/ RegisterPool(t)
                 \/ \E newState \in {"done", "failed", "active"} : Finish(t, newState)
      PROVE  LimitInv'
  BY <1>1, <1>6 DEF Take, Begin, Resolve, RefillOver, RegisterPool, Register, Finish, shared
<1> QED
  BY <1>2, <1>3, <1>4, <1>5, <1>6 DEF RunnerNext, LoopStep, HostCall, PoolStep, Threads

\* A cancelled job is failed, and no statement makes a failed row anything else.
LEMMA CancelStep ==
    ASSUME Types, CancelInv, RunnerNext
    PROVE  \A j \in Jobs : /\ cancelled[j] => cancelled'[j]
                           /\ cancelled'[j] => state'[j] = "failed"
<1> SUFFICES ASSUME NEW j \in Jobs
             PROVE  (cancelled[j] => cancelled'[j]) /\ (cancelled'[j] => state'[j] = "failed")
  OBVIOUS
<1>1. /\ cancelled[j] => state[j] = "failed"
      /\ \A i, c : [state EXCEPT ![i] = c][j] = IF i = j THEN c ELSE state[j]
      /\ \A i : [cancelled EXCEPT ![i] = TRUE][j] = IF i = j THEN TRUE ELSE cancelled[j]
  BY DEF CancelInv, Types, RunnerTypeOK
<1>2. ASSUME NEW i \in Jobs, Insert(i)
      PROVE  (cancelled[j] => cancelled'[j]) /\ (cancelled'[j] => state'[j] = "failed")
  BY <1>1, <1>2 DEF Insert
<1>3. ASSUME NEW S \in SUBSET PartJobs, InsertParts(S)
      PROVE  (cancelled[j] => cancelled'[j]) /\ (cancelled'[j] => state'[j] = "failed")
  <2>1. /\ cancelled' = cancelled /\ \A i \in S : state[i] = "absent"
        /\ state' = [i \in Jobs |-> IF i \in S THEN "pending" ELSE state[i]]
    BY <1>3 DEF InsertParts
  <2>2. state[j] = "failed" => state'[j] = "failed"
    BY <2>1
  <2>3. cancelled[j] => state[j] = "failed"
    BY <1>1
  <2> QED
    BY <2>1, <2>2, <2>3
<1>4. ASSUME NEW i \in Jobs, CancelPart(i)
      PROVE  (cancelled[j] => cancelled'[j]) /\ (cancelled'[j] => state'[j] = "failed")
  <2>1. cancelled' = [cancelled EXCEPT ![i] = TRUE] /\ state' = [state EXCEPT ![i] = "failed"]
    BY <1>4 DEF CancelPart
  <2>2. CASE i = j
    BY <2>1, <2>2 DEF Types, RunnerTypeOK
  <2>3. CASE i # j
    <3>1. cancelled'[j] = cancelled[j] /\ state'[j] = state[j]
      BY <2>1, <2>3 DEF Types, RunnerTypeOK
    <3> QED
      BY <1>1, <3>1
  <2> QED
    BY <2>2, <2>3
<1>5. CASE CancelJobWrite
  <2>1. cancelled' = [cancelled EXCEPT ![cur[Loop]] = TRUE] /\ state' = [state EXCEPT ![cur[Loop]] = "failed"]
    BY <1>5 DEF CancelJobWrite
  <2>2. CASE cur[Loop] = j
    BY <2>1, <2>2 DEF Types, RunnerTypeOK
  <2>3. CASE cur[Loop] # j
    <3>1. cancelled'[j] = cancelled[j] /\ state'[j] = state[j]
      BY <2>1, <2>3 DEF Types, RunnerTypeOK
    <3> QED
      BY <1>1, <3>1
  <2> QED
    BY <2>2, <2>3
<1>6. ASSUME NEW t \in Pool, Begin(t)
      PROVE  (cancelled[j] => cancelled'[j]) /\ (cancelled'[j] => state'[j] = "failed")
  <2>1. cancelled' = cancelled /\ (state' = state \/ (state[cur[t]] = "pending" /\ state' = [state EXCEPT ![cur[t]] = "active"]))
    <3>1. state' = [state EXCEPT ![cur[t]] = IF MayExecute(cur[t]) THEN "active" ELSE @] /\ cancelled' = cancelled
      BY <1>6 DEF Begin
    <3>2. state \in [Jobs -> {"absent", "pending", "active", "done", "failed"}]
      BY DEF Types, RunnerTypeOK
    <3> QED
      BY <3>1, <3>2 DEF MayExecute
  <2> QED
    BY <1>1, <2>1
<1>7. ASSUME NEW t \in Pool, NEW newState, Finish(t, newState)
      PROVE  (cancelled[j] => cancelled'[j]) /\ (cancelled'[j] => state'[j] = "failed")
  <2>1. cancelled' = cancelled /\ (state' = state \/ (state[cur[t]] = "active" /\ state' = [state EXCEPT ![cur[t]] = newState]))
    <3>1. state' = [state EXCEPT ![cur[t]] = IF @ = "active" THEN newState ELSE @] /\ cancelled' = cancelled
      BY <1>7 DEF Finish
    <3>2. state \in [Jobs -> {"absent", "pending", "active", "done", "failed"}]
      BY DEF Types, RunnerTypeOK
    <3> QED
      BY <3>1, <3>2
  <2> QED
    BY <1>1, <2>1
<1>8. CASE UNCHANGED rows
  BY <1>1, <1>8 DEF rows
<1>9. CASE \/ NothingToInsert \/ SubmitExisting \/ RegisterLoop \/ RegisterTooLate(Loop) \/ CancelJobRead
           \/ CheckCapacity \/ Shutdown \/ \E i \in Jobs : CancelJob(i)
  BY <1>8, <1>9 DEF NothingToInsert, SubmitExisting, RegisterLoop, Register, RegisterTooLate, CancelJobRead,
                    CheckCapacity, Shutdown, CancelJob
<1>10. ASSUME NEW t \in Pool,
              \/ Take(t) \/ Resolve(t) \/ JobDone(t) \/ Refill(t) \/ RefillOver(t)
              \/ RegisterPool(t) \/ RegisterTooLate(t)
       PROVE  (cancelled[j] => cancelled'[j]) /\ (cancelled'[j] => state'[j] = "failed")
  BY <1>8, <1>10 DEF Take, Resolve, JobDone, Refill, RefillOver, RegisterPool, Register, RegisterTooLate
<1> QED
  BY <1>2, <1>3, <1>4, <1>5, <1>6, <1>7, <1>9, <1>10 DEF RunnerNext, LoopStep, HostCall, PoolStep

-----------------------------------------------------------------------------
(* Nothing that could start is left waiting. *)

\* More jobs in flight, fewer in the queue and fewer pending ones let none start
\* that could not start before.
LEMMA WorkKept ==
    ASSUME Types, WorkInv,
           lock \notin Pool, down => down',
           inflight' = inflight \/ \E k \in Jobs : inflight' = inflight \cup {k},
           Range(queue') \subseteq Range(queue),
           \A j \in Range(queue) : state'[j] = "pending" => state[j] = "pending"
    PROVE  WorkInv'
<1> SUFFICES ASSUME ~down', HasRoom(inflight'), NEW j \in Range(queue'), state'[j] = "pending",
                    CanStart(j, inflight')
             PROVE  FALSE
  BY DEF WorkInv
<1>1. HasRoom(inflight) /\ CanStart(j, inflight)
  BY FewerHaveRoom, FewerCanStart
<1> QED
  BY <1>1 DEF WorkInv

\* The callbacks leave nothing behind that could start, and nothing that the event
\* loop does in between lets a waiting job start.
LEMMA WorkStep ==
    ASSUME Types, HandInv, LockInv, WorkInv, RunnerNext
    PROVE  WorkInv'
<1>0. /\ Loop \notin Pool /\ Free \notin Pool /\ Distinct(queue) /\ Range(queue) \subseteq Jobs
      /\ \A j \in Range(queue) : state[j] # "absent"
  BY ListsOfJobs, RunnerAssumption DEF Free, Threads, HandInv
<1>1. ASSUME UNCHANGED <<lock, inflight, queue>>, down => down',
             \A j \in Range(queue) : state'[j] = "pending" => state[j] = "pending"
      PROVE  WorkInv'
  BY <1>1, WorkKept DEF WorkInv
<1>2. CASE lock' \in Pool \/ down'
  BY <1>2 DEF WorkInv
<1>3. CASE SubmitExisting
  <2> DEFINE j == First(unsent)
  <2>1. j \in Jobs /\ lock = Free /\ UNCHANGED <<state, down>> /\ queue \in Seq(Jobs) /\ j \notin Range(queue)
    BY <1>3, FirstTodo DEF SubmitExisting, rows, Types, RunnerTypeOK, HandInv
  <2>2. CASE HasRoom(inflight) /\ CanStart(j, inflight)
    <3>1. inflight' = inflight \cup {j} /\ queue' = queue
      BY <1>3, <2>2 DEF SubmitExisting, Schedule
    <3> HIDE DEF j
    <3> QED
      BY <1>0, <2>1, <3>1, WorkKept
  <2>3. CASE ~(HasRoom(inflight) /\ CanStart(j, inflight))
    <3>1. inflight' = inflight /\ (queue' = queue \/ queue' = Append(queue, j))
      BY <1>3, <2>3 DEF SubmitExisting
    <3> HIDE DEF j
    <3>2. Range(queue') \subseteq Range(queue) \cup {j}
      BY <1>0, <2>1, <3>1, Appending
    <3> QED
      BY <1>0, <2>1, <2>3, <3>1, <3>2 DEF WorkInv
  <2> QED
    BY <2>2, <2>3
<1>4. ASSUME NEW t \in Pool, Refill(t)
      PROVE  WorkInv'
  BY <1>2, <1>4 DEF Refill, Schedule
<1>5. ASSUME NEW t \in Pool, JobDone(t)
      PROVE  WorkInv'
  BY <1>2, <1>5 DEF JobDone
<1>6. ASSUME NEW t \in Pool, RefillOver(t)
      PROVE  WorkInv'
  <2>1. /\ UNCHANGED <<state, inflight, queue, down>>
        /\ ~HasRoom(inflight) \/ Startable(inflight) = {}
    BY <1>6 DEF RefillOver, rows, shared
  <2>2. ASSUME HasRoom(inflight), NEW j \in Range(queue), state[j] = "pending"
        PROVE  ~CanStart(j, inflight)
    BY <2>1, <2>2 DEF Startable, Range
  <2> QED
    BY <2>1, <2>2 DEF WorkInv
<1>7. ASSUME NEW t \in Pool, RegisterPool(t)
      PROVE  WorkInv'
  <2>1. lock' = t
    BY <1>7 DEF RegisterPool, Register, LockInv, Threads
  <2> QED
    BY <1>2, <2>1
<1>8. CASE RegisterLoop
  <2>1. lock = Loop /\ UNCHANGED <<state, inflight, queue, down>>
    BY <1>8 DEF RegisterLoop, Register, LockInv, Threads, rows
  <2> QED
    BY <1>0, <2>1, WorkKept
<1>9. ASSUME NEW t \in Pool, Begin(t) \/ \E newState \in {"done", "failed", "active"} : Finish(t, newState)
      PROVE  WorkInv'
  <2>1. /\ UNCHANGED <<lock, inflight, queue, down>>
        /\ \/ state' = [state EXCEPT ![cur[t]] = IF MayExecute(cur[t]) THEN "active" ELSE @]
           \/ \E s \in {"done", "failed", "active"} :
                 state' = [state EXCEPT ![cur[t]] = IF @ = "active" THEN s ELSE @]
    BY <1>9 DEF Begin, Finish, shared
  <2>2. \A j \in Jobs : state'[j] = "pending" => state[j] = "pending"
    BY <2>1 DEF Types, RunnerTypeOK
  <2> QED
    BY <1>0, <1>1, <2>1, <2>2
<1>10. ASSUME NEW j \in Jobs, Insert(j)
       PROVE  WorkInv'
  <2>1. /\ UNCHANGED <<lock, inflight, queue, down>>
        /\ state[j] = "absent" /\ state' = [state EXCEPT ![j] = "pending"]
    BY <1>10 DEF Insert, shared
  <2>2. \A i \in Range(queue) : state'[i] = "pending" => state[i] = "pending"
    BY <1>0, <2>1 DEF Types, RunnerTypeOK
  <2> QED
    BY <1>1, <2>1, <2>2
<1>11. ASSUME NEW S \in SUBSET PartJobs, InsertParts(S)
       PROVE  WorkInv'
  <2>1. /\ UNCHANGED <<lock, inflight, queue, down>> /\ \A j \in S : state[j] = "absent"
        /\ state' = [j \in Jobs |-> IF j \in S THEN "pending" ELSE state[j]]
    BY <1>11 DEF InsertParts, shared
  <2>2. \A i \in Range(queue) : state'[i] = "pending" => state[i] = "pending"
    BY <1>0, <2>1
  <2> QED
    BY <1>1, <2>1, <2>2
<1>12. ASSUME NEW j \in Jobs, CancelPart(j) \/ CancelJob(j)
       PROVE  WorkInv'
  <2>1. /\ lock = Free /\ UNCHANGED <<inflight, down>> /\ queue' = Dequeue(j)
        /\ state' = state \/ state' = [state EXCEPT ![j] = "failed"]
    BY <1>12 DEF CancelPart, CancelJob, rows
  <2>2. Range(queue') \subseteq Range(queue)
    BY <1>0, <2>1, Dequeued
  <2>3. \A i \in Jobs : state'[i] = "pending" => state[i] = "pending"
    BY <2>1 DEF Types, RunnerTypeOK
  <2> QED
    BY <1>0, <2>1, <2>2, <2>3, WorkKept
<1>13. CASE CancelJobWrite
  <2>1. UNCHANGED <<lock, inflight, queue, down>> /\ state' = [state EXCEPT ![cur[Loop]] = "failed"]
    BY <1>13 DEF CancelJobWrite, shared
  <2>2. \A i \in Jobs : state'[i] = "pending" => state[i] = "pending"
    BY <2>1 DEF Types, RunnerTypeOK
  <2> QED
    BY <1>0, <1>1, <2>1, <2>2
<1>14. CASE Shutdown
  BY <1>2, <1>14 DEF Shutdown
<1>15. ASSUME \/ NothingToInsert \/ CancelJobRead \/ CheckCapacity
              \/ \E t \in Threads : RegisterTooLate(t)
              \/ \E t \in Pool : Take(t) \/ Resolve(t)
       PROVE  WorkInv'
  <2>1. UNCHANGED <<state, lock, inflight, queue, down>>
    BY <1>15 DEF NothingToInsert, CancelJobRead, CheckCapacity, RegisterTooLate, Take, Resolve, rows, shared
  <2> QED
    BY <1>1, <2>1
<1> QED
  BY <1>3, <1>4, <1>5, <1>6, <1>7, <1>8, <1>9, <1>10, <1>11, <1>12, <1>13, <1>14, <1>15
     DEF RunnerNext, LoopStep, HostCall, PoolStep, Threads

-----------------------------------------------------------------------------
(* The theorems. *)

\* The invariant holds while nothing has been submitted ...
LEMMA InvInit == RunnerInit => Inv
<1> SUFFICES ASSUME RunnerInit PROVE Inv
  OBVIOUS
<1> /\ DOMAIN queue = {} /\ DOMAIN pool = {} /\ Range(queue) = {} /\ Range(pool) = {}
  BY DEF RunnerInit, Range
<1>1. Types
  <2>1. /\ at = [t \in Threads |-> "idle"] /\ Loop \in Threads /\ Pool \subseteq Threads
        /\ "idle" \in LoopControl /\ "idle" \in PoolControl
    BY DEF RunnerInit, Threads, LoopControl, PoolControl
  <2>2. queue \in Seq(Jobs) /\ pool \in Seq(Jobs)
    BY DEF RunnerInit
  <2>3. /\ \A t \in Pool : at[t] \in PoolControl
        /\ at[Loop] \in LoopControl /\ at[Loop] # "submit"
        /\ at \in [Threads -> LoopControl \cup PoolControl]
    BY <2>1
  <2>4. /\ state \in [Jobs -> {"absent", "pending", "active", "done", "failed"}]
        /\ cancelled \in [Jobs -> BOOLEAN] /\ inflight \subseteq Jobs
        /\ future \in [Jobs -> {"none", "waiting", "running", "finished", "cancelled"}]
        /\ callback \in [Jobs -> BOOLEAN] /\ lock \in Threads \cup {Free}
        /\ cur \in [Threads -> Jobs \cup {NoJob}] /\ unsent \subseteq Jobs /\ down \in BOOLEAN
    BY DEF RunnerInit
  <2> QED
    BY <2>2, <2>3, <2>4 DEF Types, RunnerTypeOK
<1>2. HandInv
  BY DEF RunnerInit, HandInv, Distinct, Executes, Threads
<1>3. LockInv
  BY DEF RunnerInit, LockInv
<1>4. WorkInv
  BY DEF RunnerInit, WorkInv
<1>5. LimitInv
  <2>1. \A p \in PartJobs : {i \in inflight \cap PartJobs : Parent[i] = Parent[p]} = {}
    BY DEF RunnerInit
  <2>2. Cardinality({}) = 0
    BY FS_EmptySet
  <2> QED
    BY <2>1, <2>2, RunnerAssumption DEF RunnerInit, LimitInv, BackPressure, PartsInflightLimited
<1>6. CancelInv
  BY DEF RunnerInit, CancelInv
<1> QED
  BY <1>1, <1>2, <1>3, <1>4, <1>5, <1>6 DEF Inv

\* ... and every step keeps it ...
LEMMA InvStep == Inv /\ [RunnerNext]_runnerVars => Inv'
<1> SUFFICES ASSUME Inv, [RunnerNext]_runnerVars PROVE Inv'
  OBVIOUS
<1>0. Types /\ HandInv /\ LockInv /\ WorkInv /\ LimitInv /\ CancelInv
  BY DEF Inv
<1>1. CASE RunnerNext
  <2>1. Types' /\ HandInv'
    BY <1>0, <1>1, ApiTypes, PoolTypes, ApiHand, PoolHand DEF RunnerNext
  <2>2. LockInv' /\ WorkInv' /\ LimitInv'
    BY <1>0, <1>1, LockStep, WorkStep, LimitStep
  <2>3. CancelInv'
    BY <1>0, <1>1, CancelStep DEF CancelInv
  <2> QED
    BY <2>1, <2>2, <2>3 DEF Inv
<1>2. CASE UNCHANGED runnerVars
  <2>1. Types' /\ HandInv' /\ LockInv'
    BY <1>0, <1>2 DEF runnerVars, rows, shared, Types, RunnerTypeOK, HandInv, Distinct, Executes, LockInv, Range
  <2>2. WorkInv' /\ LimitInv' /\ CancelInv'
    BY <1>0, <1>2 DEF runnerVars, rows, shared, WorkInv, LimitInv, BackPressure, PartsInflightLimited, CancelInv,
                      Range, HasRoom, CanStart
  <2> QED
    BY <2>1, <2>2 DEF Inv
<1> QED
  BY <1>1, <1>2

\* ... so it always holds.
LEMMA RunnerInvariant == RunnerSpec => []Inv
BY InvInit, InvStep, PTL DEF RunnerSpec

\* The state is well typed, no more than max_inflight_jobs are with the executor and
\* no more than max_active_parts_per_doc of one parent, whoever starts them: the
\* event loop after a check without the lock, or the callbacks of other jobs.
THEOREM RunnerLimits == RunnerSpec => []LimitsHold
<1>1. Inv => LimitsHold
  BY DEF Inv, Types, LimitInv, LimitsHold
<1> QED
  BY <1>1, RunnerInvariant, PTL

\* A job is handed to the executor at most once, and no two threads execute it.
THEOREM RunnerHandsOverOnce == RunnerSpec => []HandedOverOnce
<1>1. Inv => HandedOverOnce
  BY DEF Inv, HandInv, Distinct, Executes, HandedOverOnce, Queued
<1> QED
  BY <1>1, RunnerInvariant, PTL

\* While the lock is free and there is room, no queued job could start: no callback
\* forgets one, and no call of the host makes one startable unseen.
THEOREM RunnerWorks == RunnerSpec => []WorkConserving
<1>1. Inv => WorkConserving
  BY RunnerAssumption DEF Inv, WorkInv, WorkConserving, Queued, HasRoom, Free, Threads
<1> QED
  BY <1>1, RunnerInvariant, PTL

\* A job that was cancelled is never executed afterwards and stays cancelled, though
\* a future may be taken, and a callback may refill, at the same time.
THEOREM RunnerCancelsForGood == RunnerSpec => CancelledStaysCancelled
<1>1. Inv /\ [RunnerNext]_runnerVars
        => [\A j \in Jobs : cancelled[j] => cancelled'[j] /\ state'[j] = "failed"]_runnerVars
  BY CancelStep DEF Inv
<1> QED
  BY <1>1, RunnerInvariant, PTL DEF RunnerSpec, CancelledStaysCancelled
=============================================================================
