-------------------------- MODULE CatalogRunProofs --------------------------
(***************************************************************************)
(* Proofs about CatalogRun, for every number of parts, processes, calls    *)
(* and faults: what the ledger reports done is on the disk, an attempt     *)
(* directory is never met by another task unless calls overlap, a part     *)
(* that is done stays done, and a manifest lists what was audited.         *)
(*                                                                         *)
(* The operators that the invariant is built from take the disk as         *)
(* parameters (D the attempt directories, O the orphans, L the ledger), so *)
(* that the lemmas about them are about values and serve before and after  *)
(* a step.                                                                 *)
(***************************************************************************)
EXTENDS CatalogRun, FiniteSetTheorems, TLAPS

Labels == {"idle", "select", "save", "replace", "loop", "submit", "batch", "shutdown"}
Nexts == {"select", "submit", "batch", "idle"}
TaskStates == {"queued", "running", "ok", "error"}
Dirs == [Parts \X Attempts -> [st : {"absent", "open", "complete"}, by : 0..MaxCalls]]
Locals == [pc : Labels, then : Nexts, call : 0..MaxCalls,
           mem : Ledgers, queue : Seq(Parts), futures : SUBSET Tasks,
           batch : SUBSET Tasks, late : BOOLEAN, broken : BOOLEAN]

Types ==
    /\ ledger \in Ledgers /\ temps \subseteq Pids /\ dirs \in Dirs
    /\ report \in [passed : BOOLEAN, full : BOOLEAN, ledger : Ledgers]
    /\ manifest \in [written : BOOLEAN, shards : Ledgers, audited : Ledgers]
    /\ co \in [Pids -> Locals]
    /\ orphans \subseteq Tasks
    /\ overlapped \in BOOLEAN
    /\ calls \in 0..MaxCalls /\ faults \in 0..MaxFaults

\* The head of the queue is marked and not yet submitted.
Launching(t) == t.pc = "submit" \/ (t.pc \in {"save", "replace"} /\ t.then = "submit")

\* A call queues parts that wait for an attempt, each once, and none that it has
\* submitted.
QueueOK(t) ==
    /\ Launching(t) => t.queue # <<>> /\ t.mem[t.queue[1]].st = "running"
    /\ \A i \in 1..Len(t.queue) :
         /\ ~(Launching(t) /\ i = 1) =>
              t.mem[t.queue[i]].st \in {"pending", "failed"} /\ t.mem[t.queue[i]].tries < t.call
         /\ \A k \in 1..Len(t.queue) : t.queue[i] = t.queue[k] => i = k
         /\ \A f \in t.futures : f.part # t.queue[i]

\* It has one task for a part, which its ledger calls running.
FuturesOK(t) ==
    /\ \A f \in t.futures : /\ f.by = t.call
                            /\ t.mem[f.part].st = "running"
                            /\ \A g \in t.futures : f.part = g.part => f = g
    /\ \A f \in t.batch : f \in t.futures /\ f.st \in {"ok", "error"}

LocalOK(t) ==
    /\ t \in Locals
    /\ t.pc = "idle" => t = Idle
    /\ t.pc # "idle" => t.call >= 1
    /\ \A p \in Parts : t.mem[p].tries <= t.call
    /\ t.pc # "shutdown" => QueueOK(t)
    /\ FuturesOK(t)

\* The directory of a task that has started is its own.
Owned(D, f) ==
    /\ f.st = "running" => D[<<f.part, f.attempt>>] = [st |-> "open", by |-> f.by]
    /\ f.st = "ok" => D[<<f.part, f.attempt>>] = [st |-> "complete", by |-> f.by]
Owns(D, F) == \A f \in F : Owned(D, f)

\* What a ledger reports done is on the disk.
Backed(D, l) ==
    \A p \in Parts : l[p].st = "done" => D[<<p, l[p].at>>] = [st |-> "complete", by |-> l[p].sha]

\* The locals of the calls are sound, and no two calls have the same number.
CallInv ==
    \A c \in Pids : /\ LocalOK(co[c]) /\ Owns(dirs, co[c].futures) /\ Backed(dirs, co[c].mem)
                    /\ co[c].call <= calls
                    /\ \A d \in Pids : co[c].call = co[d].call => c = d \/ co[c].call = 0

\* The tasks that killed calls have left behind.
OrphanInv ==
    \A f \in orphans : /\ f.st \in {"queued", "running"} /\ f.by <= calls /\ Owned(dirs, f)
                       /\ \A c \in Pids : f.by # co[c].call
                       /\ \A g \in orphans : f.by = g.by /\ f.part = g.part => f = g

LedgerInv == Backed(dirs, ledger) /\ \A p \in Parts : ledger[p].tries <= calls

\* Attempt a of part p has a directory, or a task that may make it.
Used(D, O, p, a) == D[<<p, a>>].st # "absent" \/ \E g \in O : g.part = p /\ g.attempt = a

\* The disk knows of every attempt that was used, and the one call there is
\* knows what is on the disk.
Bounded(L, D, O) == \A p \in Parts, a \in Attempts : Used(D, O, p, a) => a <= L[p].tries
Fresh(L, D, O, t) ==
    /\ \A p \in Parts : L[p].tries <= t.mem[p].tries
    /\ \A p \in Parts : L[p].st = "done" => t.mem[p] = L[p]
    /\ Launching(t) => \A a \in Attempts :
           Used(D, O, t.queue[1], a) => a < t.mem[t.queue[1]].tries
    /\ t.pc = "submit" => L[t.queue[1]].tries = t.mem[t.queue[1]].tries
    /\ \A f \in t.futures : /\ f.attempt <= L[f.part].tries
                            /\ f.st = "queued" => ~Used(D, O, f.part, f.attempt)

AloneInv ==
    ~overlapped =>
        /\ Bounded(ledger, dirs, orphans)
        /\ \A c \in Pids : co[c].pc # "idle" =>
              /\ Fresh(ledger, dirs, orphans, co[c])
              /\ \A d \in Pids : co[d].pc # "idle" => c = d

ReportInv ==
    /\ report.full => \A p \in Parts : report.ledger[p].st = "done"
    /\ ~overlapped /\ report.full => ledger = report.ledger
    /\ ManifestIsAudited

Inv == Types /\ CallInv /\ OrphanInv /\ LedgerInv /\ AloneInv /\ ReportInv
-----------------------------------------------------------------------------

-----------------------------------------------------------------------------
(* Records.  The sets of the values of the fields stay folded here, so that *)
(* an update of a record is seen to be one.                                 *)

\* The fields of a call.
LEMMA Fields ==
    ASSUME NEW t \in Locals
    PROVE  /\ t.pc \in Labels /\ t.then \in Nexts /\ t.call \in 0..MaxCalls /\ t.mem \in Ledgers
           /\ t.queue \in Seq(Parts) /\ t.futures \in SUBSET Tasks /\ t.batch \in SUBSET Tasks
           /\ t.late \in BOOLEAN /\ t.broken \in BOOLEAN
BY DEF Locals

\* What t and u have in common, whatever their labels.
Same(t, u) ==
    u.call = t.call /\ u.mem = t.mem /\ u.queue = t.queue /\ u.futures = t.futures /\ u.batch = t.batch

\* The fields of a call that goes from one statement to another.
LEMMA AtFields ==
    ASSUME NEW t \in Locals, NEW x \in Labels
    PROVE  LET u == [t EXCEPT !.pc = x]
           IN  u \in Locals /\ u.pc = x /\ u.then = t.then /\ Same(t, u)
<1> DEFINE A == Labels  B == Nexts  C == 0..MaxCalls  D == Ledgers  E == Seq(Parts)  F == SUBSET Tasks
           R == [pc : A, then : B, call : C, mem : D, queue : E, futures : F, batch : F,
                 late : BOOLEAN, broken : BOOLEAN]
<1>1. R = Locals /\ x \in A
  BY DEF Locals
<1> HIDE DEF A, B, C, D, E, F
<1> QED
  BY <1>1 DEF Same

\* The fields of a call that saves its ledger.
LEMMA SavingFields ==
    ASSUME NEW t \in Locals, NEW y \in Nexts
    PROVE  LET u == Saving(t, y)
           IN  u \in Locals /\ u.pc = "save" /\ u.then = y /\ Same(t, u)
<1> DEFINE A == Labels  B == Nexts  C == 0..MaxCalls  D == Ledgers  E == Seq(Parts)  F == SUBSET Tasks
           R == [pc : A, then : B, call : C, mem : D, queue : E, futures : F, batch : F,
                 late : BOOLEAN, broken : BOOLEAN]
<1>1. R = Locals /\ "save" \in A /\ y \in B
  BY DEF Locals, Labels
<1> HIDE DEF A, B, C, D, E, F
<1> QED
  BY <1>1 DEF Saving, Same

\* The fields of a call that submits a task.
Submitting(t, q, G) == [t EXCEPT !.pc = "loop", !.queue = q, !.futures = G]

\* What submitting leaves in the fields.
LEMMA SubmitFields ==
    ASSUME NEW t \in Locals, NEW q \in Seq(Parts), NEW G \in SUBSET Tasks
    PROVE  LET u == Submitting(t, q, G)
           IN  /\ u \in Locals /\ u.pc = "loop" /\ u.then = t.then /\ u.call = t.call
               /\ u.mem = t.mem /\ u.queue = q /\ u.futures = G /\ u.batch = t.batch
<1> DEFINE A == Labels  B == Nexts  C == 0..MaxCalls  D == Ledgers  E == Seq(Parts)  F == SUBSET Tasks
           R == [pc : A, then : B, call : C, mem : D, queue : E, futures : F, batch : F,
                 late : BOOLEAN, broken : BOOLEAN]
<1>1. R = Locals /\ "loop" \in A /\ q \in E /\ G \in F
  BY DEF Locals, Labels
<1> HIDE DEF A, B, C, D, E, F
<1> QED
  BY <1>1 DEF Submitting

\* The fields of a call that has got a batch of futures.
LEMMA WaitFields ==
    ASSUME NEW t \in Locals, NEW G \in SUBSET Tasks
    PROVE  LET u == [t EXCEPT !.pc = "batch", !.batch = G]
           IN  /\ u \in Locals /\ u.pc = "batch" /\ u.then = t.then /\ u.call = t.call
               /\ u.mem = t.mem /\ u.queue = t.queue /\ u.futures = t.futures /\ u.batch = G
<1> DEFINE A == Labels  B == Nexts  C == 0..MaxCalls  D == Ledgers  E == Seq(Parts)  F == SUBSET Tasks
           R == [pc : A, then : B, call : C, mem : D, queue : E, futures : F, batch : F,
                 late : BOOLEAN, broken : BOOLEAN]
<1>1. R = Locals /\ "batch" \in A /\ G \in F
  BY DEF Locals, Labels
<1> HIDE DEF A, B, C, D, E, F
<1> QED
  BY <1>1

\* The fields of a call that marks a part.
LEMMA MarkFields ==
    ASSUME NEW t \in Locals, NEW m \in Ledgers
    PROVE  LET u == [t EXCEPT !.mem = m]
           IN  /\ u \in Locals /\ u.pc = t.pc /\ u.then = t.then /\ u.call = t.call
               /\ u.mem = m /\ u.queue = t.queue /\ u.futures = t.futures /\ u.batch = t.batch
<1> DEFINE A == Labels  B == Nexts  C == 0..MaxCalls  D == Ledgers  E == Seq(Parts)  F == SUBSET Tasks
           R == [pc : A, then : B, call : C, mem : D, queue : E, futures : F, batch : F,
                 late : BOOLEAN, broken : BOOLEAN]
<1>1. R = Locals /\ m \in D
  BY DEF Locals
<1> HIDE DEF A, B, C, D, E, F
<1> QED
  BY <1>1

\* The fields of a call that writes down the result of a future.
Collecting(t, G, H, m) == [t EXCEPT !.futures = G, !.batch = H, !.mem = m]

\* What writing down a result leaves in the fields.
LEMMA CollectFields ==
    ASSUME NEW t \in Locals, NEW G \in SUBSET Tasks, NEW H \in SUBSET Tasks, NEW m \in Ledgers
    PROVE  LET u == Collecting(t, G, H, m)
           IN  /\ u \in Locals /\ u.pc = t.pc /\ u.then = t.then /\ u.call = t.call
               /\ u.mem = m /\ u.queue = t.queue /\ u.futures = G /\ u.batch = H
<1> DEFINE A == Labels  B == Nexts  C == 0..MaxCalls  D == Ledgers  E == Seq(Parts)  F == SUBSET Tasks
           R == [pc : A, then : B, call : C, mem : D, queue : E, futures : F, batch : F,
                 late : BOOLEAN, broken : BOOLEAN]
<1>1. R = Locals /\ G \in F /\ H \in F /\ m \in D
  BY DEF Locals
<1> HIDE DEF A, B, C, D, E, F
<1> QED
  BY <1>1 DEF Collecting

\* The fields of a call whose tasks have moved, whose pool broke, whose time is over.
LEMMA PoolFields ==
    ASSUME NEW t \in Locals, NEW G \in SUBSET Tasks
    PROVE  /\ LET u == [t EXCEPT !.futures = G]
              IN  /\ u \in Locals /\ u.pc = t.pc /\ u.then = t.then /\ u.call = t.call
                  /\ u.mem = t.mem /\ u.queue = t.queue /\ u.futures = G /\ u.batch = t.batch
           /\ LET u == [t EXCEPT !.broken = TRUE, !.futures = G]
              IN  /\ u \in Locals /\ u.pc = t.pc /\ u.then = t.then /\ u.call = t.call
                  /\ u.mem = t.mem /\ u.queue = t.queue /\ u.futures = G /\ u.batch = t.batch
           /\ LET u == [t EXCEPT !.late = TRUE]
              IN  u \in Locals /\ u.pc = t.pc /\ u.then = t.then /\ Same(t, u)
<1> DEFINE A == Labels  B == Nexts  C == 0..MaxCalls  D == Ledgers  E == Seq(Parts)  F == SUBSET Tasks
           R == [pc : A, then : B, call : C, mem : D, queue : E, futures : F, batch : F,
                 late : BOOLEAN, broken : BOOLEAN]
<1>1. R = Locals /\ G \in F
  BY DEF Locals
<1> HIDE DEF A, B, C, D, E, F
<1> QED
  BY <1>1 DEF Same

\* The entry of a part in a ledger.
States == {"pending", "running", "done", "failed"}
Entry == [st : States, tries : Attempts, at : Attempts, sha : 0..MaxCalls]

\* The entries of a ledger and their fields.
LEMMA EntryFields ==
    ASSUME NEW m \in Ledgers, NEW p \in Parts
    PROVE  /\ m[p] \in Entry /\ m[p].st \in States
           /\ m[p].tries \in Attempts /\ m[p].at \in Attempts /\ m[p].sha \in 0..MaxCalls
BY DEF Ledgers, Entry, States

\* A ledger in which the entry of one part was replaced.
LEMMA LedgerChange ==
    ASSUME NEW m \in Ledgers, NEW p \in Parts, NEW e \in Entry
    PROVE  /\ [m EXCEPT ![p] = e] \in Ledgers
           /\ [m EXCEPT ![p] = e][p] = e
           /\ \A q \in Parts \ {p} : [m EXCEPT ![p] = e][q] = m[q]
<1>1. Ledgers = [Parts -> Entry]
  BY DEF Ledgers, Entry, States
<1> QED
  BY <1>1

\* What the steps of a call make of an entry.
LEMMA EntryMarked ==
    ASSUME NEW e \in Entry, NEW n \in Attempts
    PROVE  LET d == [e EXCEPT !.st = "running", !.tries = n]
           IN  d \in Entry /\ d.st = "running" /\ d.tries = n
<1> DEFINE A == Attempts  B == States  C == 0..MaxCalls
<1>1. Entry = [st : B, tries : A, at : A, sha : C] /\ n \in A /\ "running" \in B
  BY DEF Entry, States
<1> HIDE DEF A, B, C
<1> QED
  BY <1>1

\* An entry with another state, and that of a part that is done.
WithSt(e, s) == [e EXCEPT !.st = s]
WithResult(e, n, k) == [e EXCEPT !.st = "done", !.at = n, !.sha = k]

\* A new state changes nothing else of an entry.
LEMMA EntrySt ==
    ASSUME NEW e \in Entry, NEW s \in States
    PROVE  LET d == WithSt(e, s)
           IN  d \in Entry /\ d.st = s /\ d.tries = e.tries /\ d.at = e.at /\ d.sha = e.sha
<1> DEFINE A == Attempts  B == States  C == 0..MaxCalls
<1>1. Entry = [st : B, tries : A, at : A, sha : C] /\ s \in B
  BY DEF Entry
<1> HIDE DEF A, B, C
<1> QED
  BY <1>1 DEF WithSt

\* A result changes nothing of an entry but its state, attempt and hash.
LEMMA EntryDone ==
    ASSUME NEW e \in Entry, NEW n \in Attempts, NEW k \in 0..MaxCalls
    PROVE  LET d == WithResult(e, n, k)
           IN  d \in Entry /\ d.st = "done" /\ d.tries = e.tries /\ d.at = n /\ d.sha = k
<1> DEFINE A == Attempts  B == States  C == 0..MaxCalls
<1>1. Entry = [st : B, tries : A, at : A, sha : C] /\ n \in A /\ k \in C /\ "done" \in B
  BY DEF Entry, States
<1> HIDE DEF A, B, C
<1> QED
  BY <1>1 DEF WithResult

\* A task, and a task whose state changes.
LEMMA TaskFields ==
    ASSUME NEW f \in Tasks
    PROVE  /\ f.part \in Parts /\ f.attempt \in Attempts /\ f.by \in 1..MaxCalls
           /\ f.st \in TaskStates
BY DEF Tasks, TaskStates

\* A new state changes nothing else of a task.
LEMMA TaskSt ==
    ASSUME NEW f \in Tasks, NEW s \in TaskStates
    PROVE  LET g == [f EXCEPT !.st = s]
           IN  g \in Tasks /\ g.st = s /\ g.part = f.part /\ g.attempt = f.attempt /\ g.by = f.by
<1> DEFINE A == Attempts  B == TaskStates  C == 1..MaxCalls  D == Parts
<1>1. Tasks = [part : D, attempt : A, by : C, st : B] /\ s \in B
  BY DEF Tasks, TaskStates
<1> HIDE DEF A, B, C, D
<1> QED
  BY <1>1

-----------------------------------------------------------------------------
(* What each step makes of the locals of a call, t before it and u after it. *)

\* A step from one statement to another.
Moved(t, u) ==
    /\ u \in Locals /\ u.pc # "idle"
    /\ u.call = t.call /\ u.mem = t.mem /\ u.queue = t.queue /\ u.futures = t.futures
    /\ \A f \in u.batch : f \in t.batch \/ f \in Finished(t)
    /\ u.pc # "shutdown" => t.pc # "shutdown" /\ (Launching(u) <=> Launching(t))

\* The next part is marked: e is its new entry.
Launched(t, u, e) ==
    /\ u \in Locals /\ u.pc = "save" /\ u.then = "submit"
    /\ u.call = t.call /\ u.queue = t.queue /\ u.futures = t.futures /\ u.batch = t.batch
    /\ e \in Entry /\ e.st = "running" /\ e.tries = t.mem[t.queue[1]].tries + 1
    /\ u.mem = [t.mem EXCEPT ![t.queue[1]] = e]

\* The marked part is submitted as task f.
Submitted(t, u, f) ==
    /\ u \in Locals /\ u.pc = "loop" /\ u.call = t.call /\ u.mem = t.mem /\ u.batch = t.batch
    /\ u.queue = Tail(t.queue) /\ u.futures = t.futures \cup {f}
    /\ f \in Tasks /\ f.part = t.queue[1] /\ f.attempt = t.mem[t.queue[1]].tries
    /\ f.by = t.call /\ f.st = "queued"

\* The result of task f is written down: e is the new entry of its part.
Collected(t, u, f, e) ==
    /\ u \in Locals /\ u.pc = "save" /\ u.then = "batch"
    /\ u.call = t.call /\ u.queue = t.queue
    /\ f \in t.batch /\ u.futures = t.futures \ {f} /\ u.batch = t.batch \ {f}
    /\ e \in Entry /\ e.tries = t.mem[f.part].tries
    /\ e.st = "done" => f.st = "ok" /\ e.at = f.attempt /\ e.sha = f.by
    /\ u.mem = [t.mem EXCEPT ![f.part] = e]

\* Tasks go on or fail, none that is over changes.
Pooled(t, u) ==
    /\ u \in Locals /\ u.pc = t.pc /\ u.then = t.then
    /\ u.call = t.call /\ u.mem = t.mem /\ u.queue = t.queue /\ u.batch = t.batch
    /\ \A g \in u.futures : \E f \in t.futures :
          /\ g.part = f.part /\ g.attempt = f.attempt /\ g.by = f.by
          /\ g.st \in {"queued", "running"} => f.st \in {"queued", "running"}
          /\ g.st = "queued" => f.st = "queued"
          /\ f.st \in {"ok", "error"} => g = f
    /\ \A f \in t.futures : f.st \in {"ok", "error"} => f \in u.futures
    /\ \A g, h \in u.futures : g.part = h.part => g = h

\* The parts of a queue.
LEMMA QueueFacts ==
    ASSUME NEW q \in Seq(Parts)
    PROVE  /\ Len(q) \in Nat
           /\ \A i \in 1..Len(q) : q[i] \in Parts
           /\ q # <<>> => /\ Head(q) = q[1] /\ 1 \in 1..Len(q) /\ q[1] \in Parts
                          /\ Tail(q) \in Seq(Parts) /\ Len(Tail(q)) = Len(q) - 1
                          /\ \A i \in 1..Len(Tail(q)) : i + 1 \in 1..Len(q) /\ Tail(q)[i] = q[i + 1]
OBVIOUS

\* Nothing is under way in a process that makes no call.
LEMMA IdleOK == /\ LocalOK(Idle) /\ Idle.call = 0 /\ Idle.pc = "idle" /\ Idle.futures = {}
                /\ Idle.mem = NoLedger /\ NoLedger \in Ledgers
                /\ \A p \in Parts : NoLedger[p].st = "pending" /\ NoLedger[p].tries = 0
<1>1. NoLedger \in Ledgers
  BY CatalogAssumption DEF NoLedger, Ledgers, Attempts
<1>2. /\ Idle.pc = "idle" /\ Idle.then = "idle" /\ Idle.call = 0 /\ Idle.mem = NoLedger
      /\ Idle.queue = <<>> /\ Idle.futures = {} /\ Idle.batch = {}
  BY DEF Idle
<1>3. Idle \in Locals
  <2> DEFINE D == Ledgers  E == Seq(Parts)  F == SUBSET Tasks
  <2>1. NoLedger \in D /\ <<>> \in E /\ {} \in F /\ 0 \in 0..MaxCalls
    BY <1>1, CatalogAssumption
  <2>2. \A u : u \in [pc : Labels, then : Nexts, call : 0..MaxCalls, mem : D, queue : E,
                      futures : F, batch : F, late : BOOLEAN, broken : BOOLEAN] => u \in Locals
    BY DEF Locals
  <2> HIDE DEF D, E, F
  <2> QED
    BY <2>1, <2>2 DEF Idle, Labels, Nexts
<1>4. \A p \in Parts : NoLedger[p].tries = 0 /\ NoLedger[p].st = "pending"
  BY DEF NoLedger
<1>5. QueueOK(Idle) /\ FuturesOK(Idle)
  BY <1>2 DEF QueueOK, FuturesOK, Launching
<1> QED
  BY <1>1, <1>2, <1>3, <1>4, <1>5 DEF LocalOK

\* A call that goes on stays sound.
LEMMA MovedOK ==
    ASSUME NEW t, LocalOK(t), t.pc # "idle", NEW u, Moved(t, u)
    PROVE  LocalOK(u)
<1>1. FuturesOK(u)
  BY DEF LocalOK, FuturesOK, Finished, Moved
<1>2. u.pc # "shutdown" => QueueOK(u)
  BY DEF LocalOK, QueueOK, Moved
<1> QED
  BY <1>1, <1>2 DEF LocalOK, Moved

\* One attempt more for the head of the queue, which waited for one.
LEMMA LaunchedOK ==
    ASSUME NEW t, LocalOK(t), t.pc = "loop", t.queue # <<>>, NEW u, NEW e, Launched(t, u, e)
    PROVE  /\ LocalOK(u) /\ Launching(u)
           /\ t.queue[1] \in Parts /\ t.mem[t.queue[1]].st \in {"pending", "failed"}
           /\ t.mem[t.queue[1]].tries \in Nat
           /\ u.mem[t.queue[1]] = e /\ \A p \in Parts \ {t.queue[1]} : u.mem[p] = t.mem[p]
<1> DEFINE h == t.queue[1]
<1>1. /\ t \in Locals /\ t.mem \in Ledgers /\ t.queue \in Seq(Parts) /\ QueueOK(t) /\ FuturesOK(t)
      /\ t.call \in 0..MaxCalls /\ ~Launching(t) /\ t.call >= 1 /\ t.futures \subseteq Tasks
  BY Fields DEF LocalOK, Launching
<1>2. h \in Parts /\ 1 \in 1..Len(t.queue)
  BY <1>1, QueueFacts
<1>3. t.mem[h].st \in {"pending", "failed"} /\ t.mem[h].tries < t.call
  BY <1>1, <1>2 DEF QueueOK
<1>4. t.mem[h].tries \in Nat
  BY <1>1, <1>2, EntryFields, CatalogAssumption DEF Attempts
<1>5. /\ u \in Locals /\ u.pc = "save" /\ u.then = "submit"
      /\ u.call = t.call /\ u.queue = t.queue /\ u.futures = t.futures /\ u.batch = t.batch
      /\ e.st = "running" /\ e.tries = t.mem[h].tries + 1
  BY DEF Launched
<1>6. u.mem[h] = e /\ \A p \in Parts \ {h} : u.mem[p] = t.mem[p]
  BY <1>1, <1>2, LedgerChange DEF Launched
<1>7. Launching(u)
  BY <1>5 DEF Launching
<1>8. \A f \in t.futures : f.part # h /\ f.part \in Parts
  BY <1>1, <1>2, TaskFields DEF QueueOK
<1>9. FuturesOK(u)
  BY <1>1, <1>5, <1>6, <1>8 DEF FuturesOK
<1>10. QueueOK(u)
  <2>1. ASSUME NEW i \in 1..Len(u.queue), i # 1
        PROVE  u.mem[u.queue[i]].st \in {"pending", "failed"} /\ u.mem[u.queue[i]].tries < u.call
    <3>1. t.queue[i] # h /\ t.queue[i] \in Parts
      BY <1>1, <1>2, <1>5, <2>1, QueueFacts DEF QueueOK
    <3>2. t.mem[t.queue[i]].st \in {"pending", "failed"} /\ t.mem[t.queue[i]].tries < t.call
      BY <1>1, <1>5 DEF QueueOK
    <3> QED
      BY <1>5, <1>6, <3>1, <3>2
  <2>2. \A i \in 1..Len(u.queue) : /\ \A k \in 1..Len(u.queue) : u.queue[i] = u.queue[k] => i = k
                                   /\ \A f \in u.futures : f.part # u.queue[i]
    BY <1>1, <1>5 DEF QueueOK
  <2> QED
    BY <1>5, <1>6, <1>7, <2>1, <2>2 DEF QueueOK
<1>11. \A p \in Parts : u.mem[p].tries <= u.call
  <2>1. e.tries <= t.call
    BY <1>1, <1>3, <1>4, <1>5
  <2> QED
    BY <1>5, <1>6, <2>1 DEF LocalOK
<1> QED
  BY <1>1, <1>2, <1>3, <1>4, <1>5, <1>6, <1>7, <1>9, <1>10, <1>11 DEF LocalOK

\* The task is the only one for its part, which leaves the queue.
LEMMA SubmittedOK ==
    ASSUME NEW t, LocalOK(t), t.pc = "submit", NEW u, NEW f, Submitted(t, u, f)
    PROVE  LocalOK(u) /\ ~Launching(u)
<1> DEFINE h == t.queue[1]
<1>1. /\ t \in Locals /\ t.mem \in Ledgers /\ t.queue \in Seq(Parts) /\ QueueOK(t) /\ FuturesOK(t)
      /\ t.call \in 0..MaxCalls /\ t.call >= 1 /\ Launching(t)
  BY Fields DEF LocalOK, Launching
<1>2. t.queue # <<>> /\ t.mem[h].st = "running"
  BY <1>1 DEF QueueOK
<1>3. /\ h \in Parts /\ 1 \in 1..Len(t.queue) /\ Tail(t.queue) \in Seq(Parts)
      /\ Len(Tail(t.queue)) = Len(t.queue) - 1 /\ Len(t.queue) \in Nat
      /\ \A i \in 1..Len(Tail(t.queue)) : i + 1 \in 1..Len(t.queue) /\ Tail(t.queue)[i] = t.queue[i + 1]
  BY <1>1, <1>2, QueueFacts
<1>4. /\ u \in Locals /\ u.pc = "loop" /\ u.call = t.call /\ u.mem = t.mem /\ u.batch = t.batch
      /\ u.queue = Tail(t.queue) /\ u.futures = t.futures \cup {f}
      /\ f.part = h /\ f.by = t.call
  BY DEF Submitted
<1>5. ~Launching(u)
  BY <1>4 DEF Launching
<1>6. \A g \in t.futures : g.part # h
  BY <1>1, <1>3 DEF QueueOK
<1>7. FuturesOK(u)
  BY <1>1, <1>2, <1>4, <1>6 DEF FuturesOK
<1>8. QueueOK(u)
  <2> SUFFICES ASSUME NEW i \in 1..Len(u.queue)
               PROVE  /\ u.mem[u.queue[i]].st \in {"pending", "failed"}
                      /\ u.mem[u.queue[i]].tries < u.call
                      /\ \A k \in 1..Len(u.queue) : u.queue[i] = u.queue[k] => i = k
                      /\ \A g \in u.futures : g.part # u.queue[i]
    BY <1>5 DEF QueueOK
  <2>1. i + 1 \in 1..Len(t.queue) /\ u.queue[i] = t.queue[i + 1] /\ i + 1 # 1 /\ i \in Nat
    BY <1>3, <1>4
  <2>2. t.mem[t.queue[i + 1]].st \in {"pending", "failed"} /\ t.mem[t.queue[i + 1]].tries < t.call
    BY <1>1, <2>1 DEF QueueOK
  <2>3. t.queue[i + 1] # h
    BY <1>1, <1>3, <2>1 DEF QueueOK
  <2>4. \A g \in u.futures : g.part # u.queue[i]
    BY <1>1, <1>4, <2>1, <2>3 DEF QueueOK
  <2>5. ASSUME NEW k \in 1..Len(u.queue), u.queue[i] = u.queue[k] PROVE i = k
    <3>1. k + 1 \in 1..Len(t.queue) /\ u.queue[k] = t.queue[k + 1] /\ k \in Nat
      BY <1>3, <1>4
    <3>2. i + 1 = k + 1
      BY <1>1, <2>1, <2>5, <3>1 DEF QueueOK
    <3> QED
      BY <2>1, <3>1, <3>2
  <2> QED
    BY <1>4, <2>1, <2>2, <2>4, <2>5
<1> QED
  BY <1>1, <1>4, <1>5, <1>7, <1>8 DEF LocalOK

\* The part of a result that is written down was running.
LEMMA CollectedOK ==
    ASSUME NEW t, LocalOK(t), t.pc = "batch", NEW u, NEW f, NEW e, Collected(t, u, f, e)
    PROVE  /\ LocalOK(u) /\ ~Launching(u) /\ f \in t.futures /\ f.part \in Parts
           /\ t.mem[f.part].st = "running"
           /\ u.mem[f.part] = e /\ \A p \in Parts \ {f.part} : u.mem[p] = t.mem[p]
<1> DEFINE h == f.part
<1>1. /\ t \in Locals /\ t.mem \in Ledgers /\ QueueOK(t) /\ FuturesOK(t)
      /\ t.queue \in Seq(Parts) /\ ~Launching(t) /\ t.call >= 1 /\ t.futures \subseteq Tasks
  BY Fields DEF LocalOK, Launching
<1>2. /\ u \in Locals /\ u.pc = "save" /\ u.then = "batch"
      /\ u.call = t.call /\ u.queue = t.queue
      /\ f \in t.batch /\ u.futures = t.futures \ {f} /\ u.batch = t.batch \ {f}
      /\ e.tries = t.mem[h].tries
  BY DEF Collected
<1>3. f \in t.futures /\ h \in Parts /\ t.mem[h].st = "running"
  BY <1>1, <1>2, TaskFields DEF FuturesOK
<1>4. u.mem[h] = e /\ \A p \in Parts \ {h} : u.mem[p] = t.mem[p]
  BY <1>1, <1>3, LedgerChange DEF Collected
<1>5. ~Launching(u)
  BY <1>2 DEF Launching
<1>6. \A g \in u.futures : g.part \in Parts \ {h}
  BY <1>1, <1>2, <1>3, TaskFields DEF FuturesOK
<1>7. FuturesOK(u)
  BY <1>1, <1>2, <1>4, <1>6 DEF FuturesOK
<1>8. \A i \in 1..Len(t.queue) : t.queue[i] \in Parts \ {h}
  BY <1>1, <1>3, QueueFacts DEF QueueOK
<1>9. QueueOK(u)
  BY <1>1, <1>2, <1>4, <1>5, <1>8 DEF QueueOK
<1>10. \A p \in Parts : u.mem[p].tries <= u.call
  BY <1>2, <1>4 DEF LocalOK
<1> QED
  BY <1>1, <1>2, <1>3, <1>4, <1>5, <1>7, <1>9, <1>10 DEF LocalOK

\* A call whose tasks went on stays sound.
LEMMA PooledOK ==
    ASSUME NEW t, LocalOK(t), t.pc # "idle", NEW u, Pooled(t, u)
    PROVE  LocalOK(u) /\ (Launching(u) <=> Launching(t))
<1>1. /\ u \in Locals /\ u.pc = t.pc /\ u.then = t.then
      /\ u.call = t.call /\ u.mem = t.mem /\ u.queue = t.queue /\ u.batch = t.batch
  BY DEF Pooled
<1>2. Launching(u) <=> Launching(t)
  BY <1>1 DEF Launching
<1>3. FuturesOK(u)
  BY <1>1 DEF FuturesOK, LocalOK, Pooled
<1>4. u.pc # "shutdown" => QueueOK(u)
  BY <1>1, <1>2 DEF QueueOK, LocalOK, Pooled
<1> QED
  BY <1>1, <1>2, <1>3, <1>4 DEF LocalOK

-----------------------------------------------------------------------------
(* The attempt directories, D before and E after a step of task f.          *)

Worked(D, E, f, s) ==
    /\ E \in Dirs
    /\ \/ /\ s = "running" /\ f.st = "queued" /\ D[<<f.part, f.attempt>>].st = "absent"
          /\ E[<<f.part, f.attempt>>] = [st |-> "open", by |-> f.by]
       \/ s = "error" /\ f.st \in {"queued", "running"} /\ E = D
       \/ /\ s = "ok" /\ f.st = "running"
          /\ E[<<f.part, f.attempt>>] = [st |-> "complete", by |-> f.by]
    /\ \A p \in Parts, a \in Attempts :
          p # f.part \/ a # f.attempt => E[<<p, a>>] = D[<<p, a>>]

\* A directory that one task has changed.
LEMMA DirChange ==
    ASSUME NEW D \in Dirs, NEW p \in Parts, NEW a \in Attempts,
           NEW d \in [st : {"absent", "open", "complete"}, by : 0..MaxCalls]
    PROVE  LET E == [D EXCEPT ![<<p, a>>] = d]
           IN  /\ E \in Dirs /\ E[<<p, a>>] = d
               /\ \A q \in Parts, b \in Attempts : q # p \/ b # a => E[<<q, b>>] = D[<<q, b>>]
BY DEF Dirs

\* What Work does to the directories.
LEMMA WorkIs ==
    ASSUME Types, NEW f \in Tasks, NEW s, Work(f, s)
    PROVE  Worked(dirs, dirs', f, s)
<1>1. dirs \in Dirs /\ f.part \in Parts /\ f.attempt \in Attempts /\ f.by \in 0..MaxCalls
  BY TaskFields DEF Types
<1>2. CASE f.st = "queued" /\ dirs[<<f.part, f.attempt>>].st = "absent" /\ s = "running"
           /\ dirs' = [dirs EXCEPT ![<<f.part, f.attempt>>] = [st |-> "open", by |-> f.by]]
  <2> DEFINE d == [st |-> "open", by |-> f.by]
             E == [dirs EXCEPT ![<<f.part, f.attempt>>] = d]
  <2>1. d \in [st : {"absent", "open", "complete"}, by : 0..MaxCalls]
    BY <1>1
  <2>2. /\ E \in Dirs /\ E[<<f.part, f.attempt>>] = d
        /\ \A q \in Parts, b \in Attempts : q # f.part \/ b # f.attempt => E[<<q, b>>] = dirs[<<q, b>>]
    BY <1>1, <2>1, DirChange
  <2>3. dirs' = E
    BY <1>2
  <2> HIDE DEF E
  <2> QED
    BY <1>2, <2>2, <2>3 DEF Worked
<1>3. CASE f.st \in {"queued", "running"} /\ s = "error" /\ UNCHANGED dirs
  BY <1>1, <1>3 DEF Worked
<1>4. CASE f.st = "running" /\ s = "ok"
           /\ dirs' = [dirs EXCEPT ![<<f.part, f.attempt>>] = [st |-> "complete", by |-> f.by]]
  <2> DEFINE d == [st |-> "complete", by |-> f.by]
             E == [dirs EXCEPT ![<<f.part, f.attempt>>] = d]
  <2>1. d \in [st : {"absent", "open", "complete"}, by : 0..MaxCalls]
    BY <1>1
  <2>2. /\ E \in Dirs /\ E[<<f.part, f.attempt>>] = d
        /\ \A q \in Parts, b \in Attempts : q # f.part \/ b # f.attempt => E[<<q, b>>] = dirs[<<q, b>>]
    BY <1>1, <2>1, DirChange
  <2>3. dirs' = E
    BY <1>4
  <2> HIDE DEF E
  <2> QED
    BY <1>4, <2>2, <2>3 DEF Worked
<1> QED
  BY <1>2, <1>3, <1>4 DEF Work

\* A complete directory stays as it is.
LEMMA BackedStays ==
    ASSUME NEW D, NEW E, NEW f \in Tasks, NEW s, Worked(D, E, f, s), Owned(D, f),
           NEW l \in Ledgers, Backed(D, l)
    PROVE  Backed(E, l)
<1> SUFFICES ASSUME NEW p \in Parts, l[p].st = "done"
             PROVE  E[<<p, l[p].at>>] = [st |-> "complete", by |-> l[p].sha]
  BY DEF Backed
<1>1. l[p].at \in Attempts /\ D[<<p, l[p].at>>] = [st |-> "complete", by |-> l[p].sha]
  BY EntryFields DEF Backed
<1>2. CASE p # f.part \/ l[p].at # f.attempt
  BY <1>1, <1>2 DEF Worked
<1>3. CASE p = f.part /\ l[p].at = f.attempt
  <2>1. D[<<p, l[p].at>>].st = "complete"
    BY <1>1
  <2>2. f.st = "running" => D[<<f.part, f.attempt>>].st = "open"
    BY DEF Owned
  <2> QED
    BY <1>1, <1>3, <2>1, <2>2 DEF Worked
<1> QED
  BY <1>2, <1>3

\* The directories of the other tasks stay as they are.
LEMMA OthersOwn ==
    ASSUME NEW D, NEW E, NEW f \in Tasks, NEW s, Worked(D, E, f, s), Owned(D, f),
           NEW g \in Tasks, Owned(D, g), g.part # f.part \/ g.by # f.by
    PROVE  Owned(E, g)
<1>1. g.part \in Parts /\ g.attempt \in Attempts
  BY TaskFields
<1>2. CASE g.part # f.part \/ g.attempt # f.attempt
  <2>1. E[<<g.part, g.attempt>>] = D[<<g.part, g.attempt>>]
    BY <1>1, <1>2 DEF Worked
  <2> QED
    BY <2>1 DEF Owned
<1>3. CASE g.part = f.part /\ g.attempt = f.attempt
  <2>1. CASE g.st \in {"running", "ok"}
    <3>1. D[<<f.part, f.attempt>>].st # "absent" /\ D[<<f.part, f.attempt>>].by = g.by
      BY <1>3, <2>1 DEF Owned
    <3>2. f.st = "running" => D[<<f.part, f.attempt>>].by = f.by
      BY DEF Owned
    <3>3. E = D
      BY <1>3, <3>1, <3>2 DEF Worked
    <3> QED
      BY <3>3
  <2>2. CASE g.st \notin {"running", "ok"}
    BY <2>2 DEF Owned
  <2> QED
    BY <2>1, <2>2
<1> QED
  BY <1>2, <1>3

\* And so is the directory of the task that made the step.
LEMMA WorkerOwns ==
    ASSUME NEW D, NEW E, NEW f \in Tasks, NEW s, Worked(D, E, f, s),
           NEW g, g.st = s, g.part = f.part, g.attempt = f.attempt, g.by = f.by
    PROVE  Owned(E, g)
BY DEF Worked, Owned

\* A task uses the attempt that was its own.
LEMMA WorkUses ==
    ASSUME NEW D, NEW E, NEW f \in Tasks, NEW s, Worked(D, E, f, s), Owned(D, f),
           NEW O, NEW p \in Parts, NEW a \in Attempts, Used(E, O, p, a)
    PROVE  Used(D, O, p, a) \/ (p = f.part /\ a = f.attempt)
BY DEF Worked, Used

-----------------------------------------------------------------------------
(* What is fresh stays fresh.                                              *)

\* While nothing more is used.
LEMMA FreshAnyway ==
    ASSUME NEW L, NEW D, NEW E, NEW O, NEW P, NEW t \in Locals, Fresh(L, D, O, t),
           Launching(t) => t.queue[1] \in Parts,
           \A p \in Parts, a \in Attempts : Used(E, P, p, a) => Used(D, O, p, a)
    PROVE  Fresh(L, E, P, t)
<1>1. \A f \in t.futures : f.part \in Parts /\ f.attempt \in Attempts
  BY Fields, TaskFields
<1> QED
  BY <1>1 DEF Fresh

\* When a call goes on.
LEMMA FreshMoved ==
    ASSUME NEW L, NEW D, NEW O, NEW t, Fresh(L, D, O, t), NEW u, Moved(t, u),
           u.pc = "submit" => t.pc = "submit"
    PROVE  Fresh(L, D, O, u)
<1>1. Launching(u) => Launching(t)
  BY DEF Moved, Launching
<1> QED
  BY <1>1 DEF Fresh, Moved

\* When it takes a new number for an attempt.
LEMMA FreshLaunched ==
    ASSUME NEW L \in Ledgers, NEW D, NEW O, Bounded(L, D, O),
           NEW t, LocalOK(t), t.pc = "loop", t.queue # <<>>, Fresh(L, D, O, t),
           NEW u, NEW e, Launched(t, u, e)
    PROVE  Fresh(L, D, O, u)
<1> DEFINE h == t.queue[1]
<1>1. /\ LocalOK(u) /\ Launching(u)
      /\ h \in Parts /\ t.mem[h].st \in {"pending", "failed"} /\ t.mem[h].tries \in Nat
      /\ u.mem[h] = e /\ \A p \in Parts \ {h} : u.mem[p] = t.mem[p]
  BY LaunchedOK
<1>2. /\ u.pc = "save" /\ u.queue = t.queue /\ u.futures = t.futures
      /\ e.st = "running" /\ e.tries = t.mem[h].tries + 1
  BY DEF Launched
<1>3. L[h].tries \in Nat /\ L[h].tries <= t.mem[h].tries
  BY <1>1, EntryFields, CatalogAssumption DEF Attempts, Fresh
<1>4. L[h].st # "done"
  BY <1>1 DEF Fresh
<1>5. \A p \in Parts : L[p].tries <= u.mem[p].tries
  <2>1. L[h].tries <= e.tries
    BY <1>1, <1>2, <1>3
  <2> QED
    BY <1>1, <2>1 DEF Fresh
<1>6. \A p \in Parts : L[p].st = "done" => u.mem[p] = L[p]
  BY <1>1, <1>4 DEF Fresh
<1>7. \A a \in Attempts : Used(D, O, h, a) => a < e.tries
  <2> SUFFICES ASSUME NEW a \in Attempts, Used(D, O, h, a) PROVE a < e.tries
    OBVIOUS
  <2>1. a <= L[h].tries
    BY <1>1 DEF Bounded
  <2>2. a \in Nat
    BY CatalogAssumption DEF Attempts
  <2> QED
    BY <1>1, <1>2, <1>3, <2>1, <2>2
<1> QED
  BY <1>1, <1>2, <1>5, <1>6, <1>7 DEF Fresh

\* When it submits the task for that attempt.
LEMMA FreshSubmitted ==
    ASSUME NEW L \in Ledgers, NEW D, NEW O,
           NEW t, LocalOK(t), t.pc = "submit", Fresh(L, D, O, t), NEW u, NEW f, Submitted(t, u, f)
    PROVE  Fresh(L, D, O, u)
<1> DEFINE h == t.queue[1]
<1>1. t \in Locals /\ Launching(t) /\ LocalOK(u) /\ ~Launching(u)
  BY SubmittedOK DEF LocalOK, Launching
<1>2. /\ u.pc = "loop" /\ u.mem = t.mem /\ u.futures = t.futures \cup {f}
      /\ f \in Tasks /\ f.part = h /\ f.attempt = t.mem[h].tries
  BY DEF Submitted
<1>3. h \in Parts /\ f.attempt \in Attempts
  BY <1>2, TaskFields
<1>4. t.mem[h].tries \in Nat /\ L[h].tries = t.mem[h].tries
  BY <1>2, <1>3, CatalogAssumption DEF Fresh, Attempts
<1>5. ~Used(D, O, f.part, f.attempt)
  BY <1>1, <1>2, <1>3, <1>4 DEF Fresh
<1>6. f.attempt <= L[f.part].tries
  BY <1>2, <1>4
<1> QED
  BY <1>1, <1>2, <1>5, <1>6 DEF Fresh

\* When it writes down a result.
LEMMA FreshCollected ==
    ASSUME NEW L \in Ledgers, NEW D, NEW O,
           NEW t, LocalOK(t), t.pc = "batch", Fresh(L, D, O, t),
           NEW u, NEW f, NEW e, Collected(t, u, f, e)
    PROVE  Fresh(L, D, O, u)
<1>1. /\ LocalOK(u) /\ ~Launching(u) /\ f.part \in Parts /\ t.mem[f.part].st = "running"
      /\ u.mem[f.part] = e /\ \A p \in Parts \ {f.part} : u.mem[p] = t.mem[p]
  BY CollectedOK
<1>2. /\ u.pc = "save" /\ u.futures \subseteq t.futures /\ e.tries = t.mem[f.part].tries
  BY DEF Collected
<1>3. L[f.part].st # "done"
  BY <1>1 DEF Fresh
<1> QED
  BY <1>1, <1>2, <1>3 DEF Fresh

\* When its tasks go on and use no attempt but their own.
LEMMA FreshPooled ==
    ASSUME NEW L \in Ledgers, NEW D, NEW O, NEW t, LocalOK(t), t.pc # "idle", Fresh(L, D, O, t),
           NEW u, Pooled(t, u)
    PROVE  Fresh(L, D, O, u)
<1>1. Launching(u) <=> Launching(t)
  BY PooledOK
<1>2. u.pc = t.pc /\ u.mem = t.mem /\ u.queue = t.queue
  BY DEF Pooled
<1>3. \A g \in u.futures : /\ g.attempt <= L[g.part].tries
                           /\ g.st = "queued" => ~Used(D, O, g.part, g.attempt)
  BY DEF Pooled, Fresh
<1> QED
  BY <1>1, <1>2, <1>3 DEF Fresh

\* When one of its tasks makes its directory.
LEMMA FreshWorked ==
    ASSUME NEW L \in Ledgers, NEW D, NEW E, NEW O,
           NEW u, LocalOK(u), Fresh(L, D, O, u), NEW f \in Tasks, NEW s, Worked(D, E, f, s),
           NEW g \in u.futures, g.st = s, g.part = f.part, Owned(D, f)
    PROVE  Fresh(L, E, O, u)
<1>1. u \in Locals /\ (Launching(u) => u.pc # "shutdown") /\ FuturesOK(u)
  BY DEF LocalOK, Launching
<1>2. \A p \in Parts, a \in Attempts : p # f.part /\ Used(E, O, p, a) => Used(D, O, p, a)
  BY WorkUses
<1>3. Launching(u) => u.queue[1] \in Parts /\ u.queue[1] # f.part
  <2> SUFFICES ASSUME Launching(u) PROVE u.queue[1] \in Parts /\ u.queue[1] # f.part
    OBVIOUS
  <2>1. QueueOK(u) /\ u.queue \in Seq(Parts)
    BY <1>1, Fields DEF LocalOK
  <2>2. u.queue # <<>>
    BY <2>1 DEF QueueOK
  <2>3. 1 \in 1..Len(u.queue) /\ u.queue[1] \in Parts
    BY <2>1, <2>2, QueueFacts
  <2> QED
    BY <2>1, <2>3 DEF QueueOK
<1>4. \A h \in u.futures : h.st = "queued" => ~Used(E, O, h.part, h.attempt)
  <2> SUFFICES ASSUME NEW h \in u.futures, h.st = "queued" PROVE ~Used(E, O, h.part, h.attempt)
    OBVIOUS
  <2>1. h # g
    BY DEF Worked
  <2>2. h.part # f.part /\ h.part \in Parts /\ h.attempt \in Attempts
    BY <1>1, <2>1, Fields, TaskFields DEF FuturesOK
  <2> QED
    BY <1>2, <2>2 DEF Fresh
<1> QED
  BY <1>2, <1>3, <1>4 DEF Fresh

-----------------------------------------------------------------------------
(* A call goes on without touching the disk.                               *)

GoesOn(D, t, u) ==
    \/ Moved(t, u) /\ (u.pc = "submit" => t.pc = "submit")
    \/ t.pc = "loop" /\ t.queue # <<>> /\ \E e : Launched(t, u, e)
    \/ t.pc = "submit" /\ \E f : Submitted(t, u, f)
    \/ t.pc = "batch" /\ \E f, e : Collected(t, u, f, e)
    \/ Pooled(t, u) /\ Owns(D, u.futures)

\* A call that goes on stays sound, and its tasks and results on the disk.
LEMMA GoesOnOK ==
    ASSUME NEW D, NEW t, LocalOK(t), t.pc # "idle", Owns(D, t.futures), Backed(D, t.mem),
           NEW u, GoesOn(D, t, u)
    PROVE  /\ LocalOK(u) /\ Owns(D, u.futures) /\ Backed(D, u.mem)
           /\ u.call = t.call /\ u.pc # "idle"
<1>1. CASE Moved(t, u)
  BY <1>1, MovedOK DEF Moved
<1>2. ASSUME t.pc = "loop", t.queue # <<>>, NEW e, Launched(t, u, e)
      PROVE  /\ LocalOK(u) /\ Owns(D, u.futures) /\ Backed(D, u.mem)
             /\ u.call = t.call /\ u.pc # "idle"
  <2>1. /\ LocalOK(u) /\ t.queue[1] \in Parts
        /\ u.mem[t.queue[1]] = e /\ \A p \in Parts \ {t.queue[1]} : u.mem[p] = t.mem[p]
    BY <1>2, LaunchedOK
  <2>2. e.st # "done" /\ u.futures = t.futures /\ u.call = t.call /\ u.pc = "save"
    BY <1>2 DEF Launched
  <2>3. Backed(D, u.mem)
    BY <2>1, <2>2 DEF Backed
  <2> QED
    BY <2>1, <2>2, <2>3
<1>3. ASSUME t.pc = "submit", NEW f, Submitted(t, u, f)
      PROVE  /\ LocalOK(u) /\ Owns(D, u.futures) /\ Backed(D, u.mem)
             /\ u.call = t.call /\ u.pc # "idle"
  <2>1. LocalOK(u)
    BY <1>3, SubmittedOK
  <2>2. /\ u.mem = t.mem /\ u.futures = t.futures \cup {f} /\ f.st = "queued" /\ u.call = t.call
        /\ u.pc = "loop"
    BY <1>3 DEF Submitted
  <2>3. Owns(D, u.futures)
    BY <2>2 DEF Owns, Owned
  <2> QED
    BY <2>1, <2>2, <2>3
<1>4. ASSUME t.pc = "batch", NEW f, NEW e, Collected(t, u, f, e)
      PROVE  /\ LocalOK(u) /\ Owns(D, u.futures) /\ Backed(D, u.mem)
             /\ u.call = t.call /\ u.pc # "idle"
  <2>1. /\ LocalOK(u) /\ f \in t.futures
        /\ u.mem[f.part] = e /\ \A p \in Parts \ {f.part} : u.mem[p] = t.mem[p]
    BY <1>4, CollectedOK
  <2>2. /\ u.futures \subseteq t.futures /\ u.call = t.call /\ u.pc = "save"
        /\ e.st = "done" => f.st = "ok" /\ e.at = f.attempt /\ e.sha = f.by
    BY <1>4 DEF Collected
  <2>3. e.st = "done" => D[<<f.part, e.at>>] = [st |-> "complete", by |-> e.sha]
    BY <2>1, <2>2 DEF Owns, Owned
  <2>4. Backed(D, u.mem)
    BY <2>1, <2>3 DEF Backed
  <2> QED
    BY <2>1, <2>2, <2>4 DEF Owns
<1>5. CASE Pooled(t, u) /\ Owns(D, u.futures)
  BY <1>5, PooledOK DEF Pooled
<1> QED
  BY <1>1, <1>2, <1>3, <1>4, <1>5 DEF GoesOn

\* A call that goes on still knows of every attempt that was used.
LEMMA GoesOnFresh ==
    ASSUME NEW L \in Ledgers, NEW D, NEW O, Bounded(L, D, O),
           NEW t, LocalOK(t), t.pc # "idle", Fresh(L, D, O, t), NEW u, GoesOn(D, t, u)
    PROVE  Fresh(L, D, O, u)
BY FreshMoved, FreshLaunched, FreshSubmitted, FreshCollected, FreshPooled DEF GoesOn

\* The locals of one process change.
LEMMA OneProcess ==
    ASSUME Types, NEW c \in Pids, NEW u, co' = [co EXCEPT ![c] = u]
    PROVE  co'[c] = u /\ \A d \in Pids \ {c} : co'[d] = co[d]
BY DEF Types

\* A step that changes only the locals of one call keeps the invariant.
LEMMA LocalStep ==
    ASSUME Inv, NEW c \in Pids, co[c].pc # "idle", NEW u, GoesOn(dirs, co[c], u),
           co' = [co EXCEPT ![c] = u], temps' \subseteq Pids, faults' \in 0..MaxFaults,
           UNCHANGED <<ledger, dirs, report, manifest, orphans, overlapped, calls>>
    PROVE  Inv'
<1>1. co'[c] = u /\ \A d \in Pids \ {c} : co'[d] = co[d]
  BY OneProcess DEF Inv
<1>2. /\ LocalOK(u) /\ Owns(dirs, u.futures) /\ Backed(dirs, u.mem)
      /\ u.call = co[c].call /\ u.pc # "idle"
  BY GoesOnOK DEF Inv, CallInv
<1>3. u \in Locals
  BY <1>2 DEF LocalOK
<1>4. Types'
  BY <1>3 DEF Inv, Types
<1>5. CallInv'
  <2>1. ASSUME NEW d \in Pids
        PROVE  /\ LocalOK(co'[d]) /\ Owns(dirs, co'[d].futures) /\ Backed(dirs, co'[d].mem)
               /\ co'[d].call = co[d].call
    BY <1>1, <1>2 DEF Inv, CallInv
  <2> QED
    BY <2>1 DEF Inv, CallInv
<1>6. OrphanInv'
  <2>1. \A d \in Pids : co'[d].call = co[d].call
    BY <1>1, <1>2
  <2> QED
    BY <2>1 DEF Inv, OrphanInv
<1>7. LedgerInv' /\ ReportInv'
  BY DEF Inv, LedgerInv, ReportInv, ManifestIsAudited
<1>8. AloneInv'
  <2> SUFFICES ASSUME ~overlapped
               PROVE  /\ Bounded(ledger, dirs, orphans)
                      /\ \A d \in Pids : co'[d].pc # "idle" =>
                            /\ Fresh(ledger, dirs, orphans, co'[d])
                            /\ \A b \in Pids : co'[b].pc # "idle" => d = b
    BY DEF AloneInv
  <2>1. /\ Bounded(ledger, dirs, orphans) /\ ledger \in Ledgers
        /\ \A d \in Pids : co[d].pc # "idle" =>
              /\ Fresh(ledger, dirs, orphans, co[d])
              /\ \A b \in Pids : co[b].pc # "idle" => d = b
    BY DEF Inv, AloneInv, Types
  <2>2. Fresh(ledger, dirs, orphans, u)
    BY <2>1, GoesOnFresh DEF Inv, CallInv
  <2> QED
    BY <1>1, <2>1, <2>2
<1> QED
  BY <1>4, <1>5, <1>6, <1>7, <1>8 DEF Inv

-----------------------------------------------------------------------------
(* The steps of a call that only change its locals.                        *)

\* A call that goes on to the loop, to the shutdown or in a save.
LEMMA AtMoves ==
    ASSUME NEW t, LocalOK(t), t.pc # "shutdown",
           NEW x \in {"loop", "shutdown", "replace"},
           x = "loop" => ~Launching(t), x = "replace" => t.pc = "save"
    PROVE  Moved(t, At(t, x)) /\ At(t, x).pc # "submit"
<1> DEFINE u == At(t, x)
<1> SUFFICES Moved(t, u) /\ u.pc # "submit"
  OBVIOUS
<1>1. t \in Locals /\ x \in Labels
  BY DEF LocalOK, Labels
<1>2. u = [t EXCEPT !.pc = x]
  BY DEF At
<1>3. u \in Locals /\ u.pc = x /\ u.then = t.then /\ Same(t, u)
  BY <1>1, <1>2, AtFields
<1> HIDE DEF u
<1> QED
  BY <1>3 DEF Moved, Same, Launching

\* A call that saves its ledger.
LEMMA SavingMoves ==
    ASSUME NEW t, LocalOK(t), t.pc # "shutdown", ~Launching(t), NEW y \in {"idle", "batch", "select"}
    PROVE  Moved(t, Saving(t, y)) /\ Saving(t, y).pc # "submit"
<1> DEFINE u == Saving(t, y)
<1> SUFFICES Moved(t, u) /\ u.pc # "submit"
  OBVIOUS
<1>1. t \in Locals /\ y \in Nexts
  BY DEF LocalOK, Nexts
<1>2. u \in Locals /\ u.pc = "save" /\ u.then = y /\ Same(t, u)
  BY <1>1, SavingFields
<1> HIDE DEF u
<1> QED
  BY <1>2 DEF Moved, Same, Launching

\* Launch marks the head of the queue.
LEMMA LaunchIs ==
    ASSUME NEW t, LocalOK(t), t.pc = "loop", t.queue # <<>>,
           NEW u, u = Saving([t EXCEPT !.mem[Head(t.queue)] =
                     [t.mem[Head(t.queue)] EXCEPT !.st = "running", !.tries = @ + 1]], "submit")
    PROVE  \E e : Launched(t, u, e)
<1> DEFINE h == t.queue[1]
           e == [t.mem[h] EXCEPT !.st = "running", !.tries = t.mem[h].tries + 1]
           m == [t.mem EXCEPT ![h] = e]
           v == [t EXCEPT !.mem = m]
<1>1. /\ t \in Locals /\ t.mem \in Ledgers /\ t.queue \in Seq(Parts) /\ QueueOK(t)
      /\ t.call \in 0..MaxCalls /\ ~Launching(t)
  BY Fields DEF LocalOK, Launching
<1>2. h \in Parts /\ Head(t.queue) = h /\ 1 \in 1..Len(t.queue)
  BY <1>1, QueueFacts
<1>3. t.mem[h].tries < t.call
  BY <1>1, <1>2 DEF QueueOK
<1>4. t.mem[h] \in Entry /\ t.mem[h].tries + 1 \in Attempts
  <2>1. t.mem[h] \in Entry /\ t.mem[h].tries \in 0..MaxCalls
    BY <1>1, <1>2, EntryFields DEF Attempts
  <2> QED
    BY <1>1, <1>3, <2>1, CatalogAssumption DEF Attempts
<1>5. e \in Entry /\ e.st = "running" /\ e.tries = t.mem[h].tries + 1
  BY <1>4, EntryMarked
<1>6. m \in Ledgers
  BY <1>1, <1>2, <1>5, LedgerChange
<1>7. u = Saving(v, "submit")
  <2>1. v = [t EXCEPT !.mem[Head(t.queue)] =
                [t.mem[Head(t.queue)] EXCEPT !.st = "running", !.tries = @ + 1]]
    BY <1>2
  <2> HIDE DEF v
  <2> QED
    BY <2>1
<1>8. /\ v \in Locals /\ v.call = t.call /\ v.mem = m /\ v.queue = t.queue
      /\ v.futures = t.futures /\ v.batch = t.batch
  BY <1>1, <1>6, MarkFields
<1>9. u \in Locals /\ u.pc = "save" /\ u.then = "submit" /\ Same(v, u)
  BY <1>7, <1>8, SavingFields DEF Nexts
<1> HIDE DEF v, e
<1>10. Launched(t, u, e)
  BY <1>5, <1>8, <1>9 DEF Launched, Same
<1> QED
  BY <1>10

\* The task that a call submits.
TaskOf(t) == [part |-> Head(t.queue), attempt |-> t.mem[Head(t.queue)].tries, by |-> t.call,
              st |-> "queued"]

\* Submit submits the task of the marked part.
LEMMA SubmitIs ==
    ASSUME NEW t, LocalOK(t), t.pc = "submit", NEW u
    PROVE  u = [t EXCEPT !.pc = "loop", !.queue = Tail(@), !.futures = @ \cup {TaskOf(t)}]
               => \E f : Submitted(t, u, f)
<1>1. SUFFICES
        ASSUME u = [t EXCEPT !.pc = "loop", !.queue = Tail(@), !.futures = @ \cup {TaskOf(t)}]
        PROVE  \E f : Submitted(t, u, f)
  OBVIOUS
<1> DEFINE h == t.queue[1]
<1>2. /\ t \in Locals /\ t.mem \in Ledgers /\ t.queue \in Seq(Parts) /\ QueueOK(t)
      /\ t.call \in 0..MaxCalls /\ t.call >= 1 /\ t.futures \in SUBSET Tasks
  BY Fields DEF LocalOK, Launching
<1>3. t.queue # <<>>
  BY <1>2 DEF QueueOK, Launching
<1>4. h \in Parts /\ Head(t.queue) = h /\ Tail(t.queue) \in Seq(Parts)
  BY <1>2, <1>3, QueueFacts
<1>5. t.mem[h].tries \in Attempts /\ t.call \in 1..MaxCalls
  BY <1>2, <1>4, EntryFields, CatalogAssumption
<1>6. PICK f : /\ f = TaskOf(t) /\ f \in Tasks /\ f.part = h /\ f.attempt = t.mem[h].tries
               /\ f.by = t.call /\ f.st = "queued"
  <2> DEFINE A == Attempts  B == {"queued", "running", "ok", "error"}  C == 1..MaxCalls  D == Parts
  <2>1. Tasks = [part : D, attempt : A, by : C, st : B] /\ "queued" \in B
    BY DEF Tasks
  <2>2. h \in D /\ t.mem[h].tries \in A /\ t.call \in C
    BY <1>4, <1>5
  <2>3. TaskOf(t) = [part |-> h, attempt |-> t.mem[h].tries, by |-> t.call, st |-> "queued"]
    BY <1>4 DEF TaskOf
  <2> HIDE DEF A, B, C, D
  <2>4. TaskOf(t) \in Tasks
    BY <2>1, <2>2, <2>3
  <2> QED
    BY <2>3, <2>4
<1>7. PICK q, G : /\ q = Tail(t.queue) /\ G = t.futures \cup {f}
                  /\ q \in Seq(Parts) /\ G \in SUBSET Tasks
  BY <1>2, <1>4, <1>6
<1>8. u = Submitting(t, q, G)
  BY <1>1, <1>6, <1>7 DEF Submitting
<1>9. /\ u \in Locals /\ u.pc = "loop" /\ u.then = t.then /\ u.call = t.call
      /\ u.mem = t.mem /\ u.queue = q /\ u.futures = G /\ u.batch = t.batch
  <2>1. t \in Locals /\ q \in Seq(Parts) /\ G \in SUBSET Tasks
    BY <1>2, <1>7
  <2> QED
    BY <1>8, <2>1, SubmitFields
<1>10. Submitted(t, u, f)
  BY <1>6, <1>7, <1>9 DEF Submitted
<1> QED
  BY <1>10

\* Collect writes down the result of a future.
LEMMA CollectIs ==
    ASSUME NEW t, LocalOK(t), t.pc = "batch", NEW f \in t.batch, NEW u
    PROVE  u = Saving([t EXCEPT
                   !.futures = @ \ {f}, !.batch = @ \ {f},
                   !.mem[f.part] =
                       IF f.st = "ok"
                       THEN [@ EXCEPT !.st = "done", !.at = f.attempt, !.sha = f.by]
                       ELSE [@ EXCEPT !.st = "failed"]], "batch")
               => \E e : Collected(t, u, f, e)
<1>1. SUFFICES
        ASSUME u = Saving([t EXCEPT
                   !.futures = @ \ {f}, !.batch = @ \ {f},
                   !.mem[f.part] =
                       IF f.st = "ok"
                       THEN [@ EXCEPT !.st = "done", !.at = f.attempt, !.sha = f.by]
                       ELSE [@ EXCEPT !.st = "failed"]], "batch")
        PROVE  \E e : Collected(t, u, f, e)
  OBVIOUS
<1>2. /\ t \in Locals /\ t.mem \in Ledgers /\ FuturesOK(t)
      /\ t.futures \in SUBSET Tasks /\ t.batch \in SUBSET Tasks
  BY Fields DEF LocalOK
<1>3. f \in Tasks /\ f.part \in Parts /\ f.attempt \in Attempts /\ f.by \in 0..MaxCalls
  BY <1>2, TaskFields
<1>4. t.mem[f.part] \in Entry /\ "failed" \in States
  BY <1>2, <1>3, EntryFields DEF States
<1>5. PICK e : /\ e = IF f.st = "ok"
                      THEN [t.mem[f.part] EXCEPT !.st = "done", !.at = f.attempt, !.sha = f.by]
                      ELSE [t.mem[f.part] EXCEPT !.st = "failed"]
               /\ e \in Entry /\ e.tries = t.mem[f.part].tries
               /\ e.st = "done" => f.st = "ok" /\ e.at = f.attempt /\ e.sha = f.by
  <2> DEFINE good == WithResult(t.mem[f.part], f.attempt, f.by)
             bad == WithSt(t.mem[f.part], "failed")
  <2>1. /\ good \in Entry /\ good.st = "done" /\ good.tries = t.mem[f.part].tries
        /\ good.at = f.attempt /\ good.sha = f.by
    BY <1>3, <1>4, EntryDone
  <2>2. bad \in Entry /\ bad.st = "failed" /\ bad.tries = t.mem[f.part].tries
    BY <1>4, EntrySt
  <2>3. CASE f.st = "ok"
    BY <2>1, <2>3 DEF WithResult
  <2>4. CASE f.st # "ok"
    BY <2>2, <2>4 DEF WithSt
  <2> QED
    BY <2>3, <2>4
<1>6. PICK m : m = [t.mem EXCEPT ![f.part] = e] /\ m \in Ledgers
  <2>1. t.mem \in Ledgers /\ f.part \in Parts /\ e \in Entry
    BY <1>2, <1>3, <1>5
  <2>2. Ledgers = [Parts -> Entry]
    BY DEF Ledgers, Entry, States
  <2>3. [t.mem EXCEPT ![f.part] = e] \in Ledgers
    BY <2>1, <2>2
  <2> QED
    BY <2>3
<1> DEFINE G == t.futures \ {f}
           H == t.batch \ {f}
<1>7. G \in SUBSET Tasks /\ H \in SUBSET Tasks
  BY <1>2
<1>8. PICK v : v = Collecting(t, G, H, m)
  OBVIOUS
<1>9. u = Saving(v, "batch")
  BY <1>1, <1>5, <1>6, <1>7, <1>8 DEF Collecting
<1>10. /\ v \in Locals /\ v.call = t.call /\ v.mem = m /\ v.queue = t.queue
       /\ v.futures = G /\ v.batch = H
  <2>1. t \in Locals /\ G \in SUBSET Tasks /\ H \in SUBSET Tasks /\ m \in Ledgers
    BY <1>2, <1>6, <1>7
  <2> HIDE DEF G, H
  <2> QED
    BY <1>8, <2>1, CollectFields
<1>11. u \in Locals /\ u.pc = "save" /\ u.then = "batch" /\ Same(v, u)
  BY <1>9, <1>10, SavingFields DEF Nexts
<1>12. Collected(t, u, f, e)
  BY <1>5, <1>6, <1>7, <1>10, <1>11 DEF Collected, Same
<1> QED
  BY <1>12

\* wait() changes the batch alone.
LEMMA WaitMoves ==
    ASSUME NEW t, LocalOK(t), t.pc = "loop",
           NEW u, u = [t EXCEPT !.pc = "batch", !.batch = Finished(t)]
    PROVE  Moved(t, u) /\ u.pc # "submit"
<1> DEFINE G == Finished(t)
<1>1. t \in Locals /\ G \in SUBSET Tasks
  BY Fields DEF LocalOK, Finished
<1> HIDE DEF G
<1>2. /\ u \in Locals /\ u.pc = "batch" /\ u.call = t.call
      /\ u.mem = t.mem /\ u.queue = t.queue /\ u.futures = t.futures /\ u.batch = G
  BY <1>1, WaitFields DEF G
<1> QED
  BY <1>2 DEF Moved, Launching, G

\* The deadline changes nothing of the work.
LEMMA LateMoves ==
    ASSUME NEW t, LocalOK(t), t.pc = "loop", NEW u, u = [t EXCEPT !.late = TRUE]
    PROVE  Moved(t, u) /\ u.pc # "submit"
<1>1. t \in Locals /\ t.futures \in SUBSET Tasks
  BY Fields DEF LocalOK
<1>2. u \in Locals /\ u.pc = t.pc /\ u.then = t.then /\ Same(t, u)
  BY <1>1, PoolFields
<1> QED
  BY <1>2 DEF Moved, Launching, Same

-----------------------------------------------------------------------------
(* The steps, one lemma for each kind.                                     *)

\* The actions whose effect is confined to the locals of a call.
LEMMA ConfinedStep ==
    ASSUME Inv, NEW c \in Pids,
           \/ Select(c) /\ co[c].queue # <<>>
           \/ SaveTemp(c) /\ ~(c \in temps /\ co[c].then = "select")
           \/ Launch(c) \/ Submit(c) \/ Wait(c) \/ Collect(c) \/ Break(c) \/ DeadlinePasses(c)
    PROVE  Inv'
<1> DEFINE t == co[c]
<1>1. LocalOK(t) /\ Owns(dirs, t.futures) /\ temps \subseteq Pids /\ faults \in 0..MaxFaults
  BY DEF Inv, CallInv, Types
<1>2. SUFFICES ASSUME t.pc # "idle", temps' \subseteq Pids, faults' = faults,
                      UNCHANGED <<ledger, dirs, report, manifest, orphans, overlapped, calls>>
               PROVE  \E u : GoesOn(dirs, t, u) /\ co' = [co EXCEPT ![c] = u]
  <2>1. /\ t.pc # "idle" /\ temps' \subseteq Pids /\ faults' = faults
        /\ UNCHANGED <<ledger, dirs, report, manifest, orphans, overlapped, calls>>
    BY <1>1 DEF Select, SaveTemp, Launch, Submit, Wait, Collect, Break, DeadlinePasses, disk, bounds
  <2>2. PICK u : GoesOn(dirs, t, u) /\ co' = [co EXCEPT ![c] = u]
    BY <1>2, <2>1
  <2> QED
    BY <1>1, <2>1, <2>2, LocalStep
<1>3. CASE Select(c) /\ t.queue # <<>>
  <2>1. t.pc = "select" /\ co' = [co EXCEPT ![c] = At(t, "loop")] /\ ~Launching(t)
    BY <1>3 DEF Select, Becomes, Launching
  <2>2. Moved(t, At(t, "loop")) /\ At(t, "loop").pc # "submit"
    BY <1>1, <2>1, AtMoves
  <2> QED
    BY <2>1, <2>2 DEF GoesOn
<1>4. CASE SaveTemp(c) /\ ~(c \in temps /\ t.then = "select")
  <2>1. /\ t.pc = "save"
        /\ co' = [co EXCEPT ![c] = At(t, "shutdown")] \/ co' = [co EXCEPT ![c] = At(t, "replace")]
    BY <1>4 DEF SaveTemp, Becomes
  <2>2. Moved(t, At(t, "shutdown")) /\ At(t, "shutdown").pc # "submit"
    BY <1>1, <2>1, AtMoves
  <2>3. Moved(t, At(t, "replace")) /\ At(t, "replace").pc # "submit"
    BY <1>1, <2>1, AtMoves
  <2> QED
    BY <2>1, <2>2, <2>3 DEF GoesOn
<1>5. CASE Launch(c)
  <2>1. PICK u : u = Saving([t EXCEPT !.mem[Head(t.queue)] =
                     [t.mem[Head(t.queue)] EXCEPT !.st = "running", !.tries = @ + 1]], "submit")
    OBVIOUS
  <2>2. t.pc = "loop" /\ t.queue # <<>> /\ co' = [co EXCEPT ![c] = u]
    BY <1>5, <2>1 DEF Launch, Becomes, CannotLaunch
  <2>3. \E e : Launched(t, u, e)
    BY <1>1, <2>1, <2>2, LaunchIs
  <2> QED
    BY <2>2, <2>3 DEF GoesOn
<1>6. CASE Submit(c)
  <2>1. t.pc = "submit"
    BY <1>6 DEF Submit
  <2>2. CASE t.broken
    <3>1. co' = [co EXCEPT ![c] = At(t, "shutdown")]
      BY <1>6, <2>2 DEF Submit, Becomes
    <3>2. Moved(t, At(t, "shutdown")) /\ At(t, "shutdown").pc # "submit"
      BY <1>1, <2>1, AtMoves
    <3> QED
      BY <3>1, <3>2 DEF GoesOn
  <2>3. CASE ~t.broken
    <3>1. PICK u : u = [t EXCEPT !.pc = "loop", !.queue = Tail(@), !.futures = @ \cup {TaskOf(t)}]
      OBVIOUS
    <3>2. co' = [co EXCEPT ![c] = u]
      BY <1>6, <2>3, <3>1 DEF Submit, Becomes, TaskOf
    <3>3. \E f : Submitted(t, u, f)
      BY <1>1, <2>1, <3>1, SubmitIs
    <3> QED
      BY <2>1, <3>2, <3>3 DEF GoesOn
  <2> QED
    BY <2>2, <2>3
<1>7. CASE Wait(c)
  <2>1. PICK u : u = [t EXCEPT !.pc = "batch", !.batch = Finished(t)]
    OBVIOUS
  <2>2. t.pc = "loop" /\ co' = [co EXCEPT ![c] = u]
    BY <1>7, <2>1 DEF Wait, Becomes
  <2>3. Moved(t, u) /\ u.pc # "submit"
    BY <1>1, <2>1, <2>2, WaitMoves
  <2> QED
    BY <2>2, <2>3 DEF GoesOn
<1>8. CASE Collect(c)
  <2>1. t.pc = "batch"
    BY <1>8 DEF Collect
  <2>2. CASE co' = [co EXCEPT ![c] = At(t, "loop")]
    <3>1. Moved(t, At(t, "loop")) /\ At(t, "loop").pc # "submit"
      BY <1>1, <2>1, AtMoves DEF Launching
    <3> QED
      BY <2>2, <3>1 DEF GoesOn
  <2>3. ASSUME NEW f \in t.batch, NEW u,
               u = Saving([t EXCEPT
                   !.futures = @ \ {f}, !.batch = @ \ {f},
                   !.mem[f.part] =
                       IF f.st = "ok"
                       THEN [@ EXCEPT !.st = "done", !.at = f.attempt, !.sha = f.by]
                       ELSE [@ EXCEPT !.st = "failed"]], "batch"),
               co' = [co EXCEPT ![c] = u]
        PROVE  \E v : GoesOn(dirs, t, v) /\ co' = [co EXCEPT ![c] = v]
    <3>1. \E e : Collected(t, u, f, e)
      BY <1>1, <2>1, <2>3, CollectIs
    <3> QED
      BY <2>1, <2>3, <3>1 DEF GoesOn
  <2> QED
    BY <1>8, <2>2, <2>3 DEF Collect, Becomes
<1>9. CASE Break(c)
  <2>1. t.pc = "loop" /\ co' = [co EXCEPT ![c] = Saving(t, "idle")]
    BY <1>9 DEF Break, Becomes
  <2>2. Moved(t, Saving(t, "idle")) /\ Saving(t, "idle").pc # "submit"
    BY <1>1, <2>1, SavingMoves DEF Launching
  <2> QED
    BY <2>1, <2>2 DEF GoesOn
<1>10. CASE DeadlinePasses(c)
  <2>1. PICK u : u = [t EXCEPT !.late = TRUE]
    OBVIOUS
  <2>2. t.pc = "loop" /\ co' = [co EXCEPT ![c] = u]
    BY <1>10, <2>1 DEF DeadlinePasses, Becomes
  <2>3. Moved(t, u) /\ u.pc # "submit"
    BY <1>1, <2>1, <2>2, LateMoves
  <2> QED
    BY <2>2, <2>3 DEF GoesOn
<1> QED
  BY <1>3, <1>4, <1>5, <1>6, <1>7, <1>8, <1>9, <1>10

\* A call ends, or is killed and leaves tasks behind.
LEMMA EndStep ==
    ASSUME Inv, NEW c \in Pids, co[c].pc # "idle", co' = [co EXCEPT ![c] = Idle],
           NEW F, \A f \in F : f \in co[c].futures /\ f.st \in {"queued", "running"},
           orphans' = orphans \cup F, temps' \subseteq Pids, faults' \in 0..MaxFaults,
           UNCHANGED <<ledger, dirs, report, manifest, overlapped, calls>>
    PROVE  Inv'
<1> DEFINE t == co[c]
<1>1. co'[c] = Idle /\ \A d \in Pids \ {c} : co'[d] = co[d]
  BY OneProcess DEF Inv
<1>2. /\ LocalOK(Idle) /\ Idle.call = 0 /\ Idle.pc = "idle" /\ Idle.futures = {}
      /\ \A p \in Parts : Idle.mem[p].st = "pending"
  BY IdleOK
<1>3. /\ LocalOK(t) /\ FuturesOK(t) /\ t \in Locals /\ t.call >= 1 /\ Owns(dirs, t.futures)
      /\ t.call <= calls
  BY DEF Inv, CallInv, LocalOK
<1>4. Types'
  <2>1. F \subseteq Tasks
    BY <1>3, Fields
  <2> QED
    BY <1>2, <2>1 DEF Inv, Types, LocalOK
<1>5. CallInv'
  <2>1. \A d \in Pids : co'[d].call = co[d].call \/ co'[d].call = 0
    BY <1>1, <1>2
  <2>2. \A d \in Pids : /\ LocalOK(co'[d]) /\ Owns(dirs, co'[d].futures)
                        /\ Backed(dirs, co'[d].mem)
    BY <1>1, <1>2 DEF Inv, CallInv, Owns, Backed
  <2>3. calls \in Nat
    BY CatalogAssumption DEF Inv, Types
  <2> QED
    BY <2>1, <2>2, <2>3 DEF Inv, CallInv
<1>6. OrphanInv'
  <2>1. \A f \in F : /\ f.st \in {"queued", "running"} /\ f.by = t.call /\ f \in t.futures
                     /\ Owned(dirs, f)
    BY <1>3 DEF FuturesOK, Owns
  <2>2. \A d \in Pids : co'[d].call # t.call
    BY <1>1, <1>2, <1>3 DEF Inv, CallInv
  <2>3. \A f \in F, g \in orphans : f.by # g.by
    BY <2>1 DEF Inv, OrphanInv
  <2>4. \A f, g \in F : f.part = g.part => f = g
    BY <1>3, <2>1 DEF FuturesOK
  <2>5. \A f \in orphans : f.by >= 1 /\ f.by \in Nat
    BY TaskFields, CatalogAssumption DEF Inv, Types
  <2>6. \A f \in orphans, d \in Pids : f.by # co'[d].call
    BY <1>1, <1>2, <2>5 DEF Inv, OrphanInv
  <2>7. ASSUME NEW f \in orphans'
        PROVE  /\ f.st \in {"queued", "running"} /\ f.by <= calls /\ Owned(dirs, f)
               /\ \A d \in Pids : f.by # co'[d].call
               /\ \A g \in orphans' : f.by = g.by /\ f.part = g.part => f = g
    <3>1. CASE f \in F
      BY <1>3, <2>1, <2>2, <2>3, <2>4, <3>1
    <3>2. CASE f \in orphans
      BY <2>3, <2>6, <3>2 DEF Inv, OrphanInv
    <3> QED
      BY <3>1, <3>2
  <2> QED
    BY <2>7 DEF OrphanInv
<1>7. LedgerInv' /\ ReportInv'
  BY DEF Inv, LedgerInv, ReportInv, ManifestIsAudited
<1>8. AloneInv'
  <2> SUFFICES ASSUME ~overlapped
               PROVE  /\ Bounded(ledger, dirs, orphans')
                      /\ \A d \in Pids : co'[d].pc = "idle"
    BY DEF AloneInv
  <2>1. /\ Bounded(ledger, dirs, orphans)
        /\ \A d \in Pids : co[d].pc # "idle" =>
              /\ Fresh(ledger, dirs, orphans, co[d])
              /\ \A b \in Pids : co[b].pc # "idle" => d = b
    BY DEF Inv, AloneInv
  <2>2. \A f \in F : f.attempt <= ledger[f.part].tries
    BY <2>1 DEF Fresh
  <2>3. Bounded(ledger, dirs, orphans')
    BY <2>1, <2>2 DEF Bounded, Used
  <2> QED
    BY <1>1, <1>2, <2>1, <2>3
<1> QED
  BY <1>4, <1>5, <1>6, <1>7, <1>8 DEF Inv

\* The save under way puts the ledger of the call on the disk: u is what the
\* locals become.
LEMMA SaveStep ==
    ASSUME Inv, NEW c \in Pids, SaveReplace(c)
    PROVE  Inv'
<1> DEFINE t == co[c]
           u == IF t.then = "idle" THEN Idle ELSE [t EXCEPT !.pc = t.then]
<1>1. /\ t.pc = "replace" /\ ledger' = t.mem /\ temps' = temps \ {c} /\ co' = [co EXCEPT ![c] = u]
      /\ UNCHANGED <<dirs, report, manifest, orphans, overlapped, calls, faults>>
  BY DEF SaveReplace, Becomes, At, bounds
<1>2. co'[c] = u /\ \A d \in Pids \ {c} : co'[d] = co[d]
  BY <1>1, OneProcess DEF Inv
<1>3. /\ LocalOK(t) /\ t \in Locals /\ Owns(dirs, t.futures) /\ Backed(dirs, t.mem) /\ t.call <= calls
      /\ t.mem \in Ledgers
  BY Fields DEF Inv, CallInv, LocalOK
<1>4. /\ LocalOK(Idle) /\ Idle.call = 0 /\ Idle.pc = "idle" /\ Idle.futures = {}
      /\ \A p \in Parts : Idle.mem[p].st = "pending"
  BY IdleOK
<1>5. t.then # "idle" =>
         /\ LocalOK(u) /\ u.pc = t.then /\ u.call = t.call /\ u.mem = t.mem /\ u.queue = t.queue
         /\ u.futures = t.futures /\ (Launching(u) <=> Launching(t))
  <2> SUFFICES ASSUME t.then # "idle"
               PROVE  /\ LocalOK(u) /\ u.pc = t.then /\ u.call = t.call /\ u.mem = t.mem
                      /\ u.queue = t.queue /\ u.futures = t.futures
                      /\ (Launching(u) <=> Launching(t))
    OBVIOUS
  <2>1. t.then \in Labels /\ t.then \in Nexts /\ u = [t EXCEPT !.pc = t.then]
    BY <1>3, Fields DEF Nexts, Labels
  <2>2. u \in Locals /\ u.pc = t.then /\ u.then = t.then /\ Same(t, u)
    BY <1>3, <2>1, AtFields
  <2> HIDE DEF u
  <2>3. Launching(u) <=> Launching(t)
    BY <1>1, <2>1, <2>2 DEF Launching, Nexts
  <2>4. Moved(t, u)
    BY <1>1, <2>1, <2>2, <2>3 DEF Moved, Same, Nexts
  <2>5. LocalOK(u)
    BY <1>1, <1>3, <2>4, MovedOK
  <2> QED
    BY <2>2, <2>3, <2>5 DEF Same
<1>6. t.then = "idle" => u = Idle
  OBVIOUS
<1> HIDE DEF u
<1>7. LocalOK(u) /\ Owns(dirs, u.futures) /\ Backed(dirs, u.mem) /\ (u.call = t.call \/ u.call = 0)
  BY <1>3, <1>4, <1>5, <1>6 DEF Owns, Backed
<1>8. Types'
  BY <1>1, <1>3, <1>7 DEF Inv, Types, LocalOK
<1>9. calls \in Nat
  BY CatalogAssumption DEF Inv, Types
<1>10. \A d \in Pids : co'[d].call = co[d].call \/ co'[d].call = 0
  BY <1>2, <1>7
<1>11. CallInv'
  <2>1. \A d \in Pids : /\ LocalOK(co'[d]) /\ Owns(dirs, co'[d].futures)
                        /\ Backed(dirs, co'[d].mem)
    BY <1>2, <1>7 DEF Inv, CallInv
  <2> QED
    BY <1>1, <1>9, <1>10, <2>1 DEF Inv, CallInv
<1>12. OrphanInv'
  <2>1. \A f \in orphans : f.by # 0
    BY TaskFields, CatalogAssumption DEF Inv, Types
  <2> QED
    BY <1>1, <1>10, <2>1 DEF Inv, OrphanInv
<1>13. LedgerInv'
  <2>1. \A p \in Parts : t.mem[p].tries <= calls
    <3> SUFFICES ASSUME NEW p \in Parts PROVE t.mem[p].tries <= calls
      OBVIOUS
    <3>1. t.mem[p].tries \in Nat /\ t.call \in Nat /\ t.mem[p].tries <= t.call
      BY <1>3, EntryFields, Fields, CatalogAssumption DEF Attempts, LocalOK
    <3> QED
      BY <1>3, <1>9, <3>1
  <2> QED
    BY <1>1, <1>3, <2>1 DEF LedgerInv
<1>14. ~overlapped => /\ Bounded(ledger, dirs, orphans) /\ Fresh(ledger, dirs, orphans, t)
                      /\ \A d \in Pids : co[d].pc # "idle" => c = d
  BY <1>1 DEF Inv, AloneInv
<1>15. ledger \in Ledgers
  BY DEF Inv, Types
<1>16. AloneInv'
  <2> SUFFICES ASSUME ~overlapped
               PROVE  /\ Bounded(t.mem, dirs, orphans)
                      /\ \A d \in Pids : co'[d].pc # "idle" =>
                            /\ Fresh(t.mem, dirs, orphans, co'[d])
                            /\ \A b \in Pids : co'[b].pc # "idle" => d = b
    BY <1>1 DEF AloneInv
  <2>1. \A p \in Parts : /\ ledger[p].tries \in Nat /\ t.mem[p].tries \in Nat
                         /\ ledger[p].tries <= t.mem[p].tries
    BY <1>3, <1>14, <1>15, EntryFields, CatalogAssumption DEF Attempts, Fresh
  <2>2. Bounded(t.mem, dirs, orphans)
    <3> SUFFICES ASSUME NEW p \in Parts, NEW a \in Attempts, Used(dirs, orphans, p, a)
                 PROVE  a <= t.mem[p].tries
      BY DEF Bounded
    <3>1. a <= ledger[p].tries /\ a \in Nat
      BY <1>14, CatalogAssumption DEF Bounded, Attempts
    <3> QED
      BY <2>1, <3>1
  <2>3. u.pc # "idle" => Fresh(t.mem, dirs, orphans, u)
    <3> SUFFICES ASSUME u.pc # "idle" PROVE Fresh(t.mem, dirs, orphans, u)
      OBVIOUS
    <3>1. /\ LocalOK(u) /\ u.pc = t.then /\ u.mem = t.mem /\ u.queue = t.queue
          /\ u.futures = t.futures /\ (Launching(u) <=> Launching(t))
      BY <1>4, <1>5, <1>6
    <3>2. \A f \in u.futures : /\ f.attempt <= t.mem[f.part].tries
                               /\ f.st = "queued" => ~Used(dirs, orphans, f.part, f.attempt)
      <4> SUFFICES ASSUME NEW f \in t.futures PROVE f.attempt <= t.mem[f.part].tries
        BY <1>14, <3>1 DEF Fresh
      <4>1. f.part \in Parts /\ f.attempt \in Nat /\ f.attempt <= ledger[f.part].tries
        BY <1>3, <1>14, Fields, TaskFields, CatalogAssumption DEF Attempts, Fresh
      <4> QED
        BY <2>1, <4>1
    <3>3. \A p \in Parts : t.mem[p].tries <= t.mem[p].tries
      BY <2>1
    <3> QED
      BY <1>14, <3>1, <3>2, <3>3 DEF Fresh
  <2> QED
    BY <1>2, <1>14, <2>2, <2>3
<1>17. ReportInv'
  <2> SUFFICES ASSUME ~overlapped, report.full PROVE t.mem = report.ledger
    BY <1>1 DEF Inv, ReportInv, ManifestIsAudited
  <2>1. ledger = report.ledger /\ \A p \in Parts : ledger[p].st = "done"
    BY DEF Inv, ReportInv
  <2>2. \A p \in Parts : t.mem[p] = ledger[p]
    BY <1>14, <2>1 DEF Fresh
  <2> QED
    BY <1>3, <1>15, <2>1, <2>2 DEF Ledgers
<1> QED
  BY <1>8, <1>11, <1>12, <1>13, <1>16, <1>17 DEF Inv

\* A call starts: it takes its ledger from the disk.
Starting(k, m, q) == [Idle EXCEPT !.call = k, !.mem = m, !.queue = q]

\* The fields of a call that starts.
LEMMA StartFields ==
    ASSUME NEW k \in 0..MaxCalls, NEW m \in Ledgers, NEW q \in Seq(Parts)
    PROVE  LET u == Starting(k, m, q)
           IN  /\ u \in Locals /\ u.call = k /\ u.mem = m /\ u.queue = q
               /\ u.futures = {} /\ u.batch = {}
<1> DEFINE A == Labels  B == Nexts  C == 0..MaxCalls  D == Ledgers  E == Seq(Parts)  F == SUBSET Tasks
           R == [pc : A, then : B, call : C, mem : D, queue : E, futures : F, batch : F,
                 late : BOOLEAN, broken : BOOLEAN]
<1>1. R = Locals /\ k \in C /\ m \in D /\ q \in E /\ Idle \in R
  BY IdleOK DEF Locals, LocalOK
<1>2. Idle.futures = {} /\ Idle.batch = {}
  BY DEF Idle
<1> HIDE DEF A, B, C, D, E, F
<1> QED
  BY <1>1, <1>2 DEF Starting

\* The recovery puts the parts that were running back.
LEMMA RecoveredIs ==
    ASSUME NEW l \in Ledgers
    PROVE  /\ Recovered(l) \in Ledgers
           /\ \A p \in Parts :
                 /\ Recovered(l)[p].tries = l[p].tries
                 /\ l[p].st # "running" => Recovered(l)[p] = l[p]
                 /\ Recovered(l)[p].st # "running"
                 /\ Recovered(l)[p].st = "done" => Recovered(l)[p] = l[p]
<1>1. ASSUME NEW p \in Parts
      PROVE  LET e == IF l[p].st = "running" THEN WithSt(l[p], "pending") ELSE l[p]
             IN  /\ e \in Entry /\ e.tries = l[p].tries
                 /\ l[p].st # "running" => e = l[p]
                 /\ e.st # "running" /\ (e.st = "done" => e = l[p])
  BY EntryFields, EntrySt DEF States
<1>2. Recovered(l) = [p \in Parts |-> IF l[p].st = "running" THEN WithSt(l[p], "pending") ELSE l[p]]
  BY DEF Recovered, WithSt
<1>3. Ledgers = [Parts -> Entry]
  BY DEF Ledgers, Entry, States
<1> QED
  BY <1>1, <1>2, <1>3

\* A queue lists some of the parts of a set, each once.
LEMMA QueueOf ==
    ASSUME NEW s \in SUBSET Parts, NEW q \in InOrder(s), NEW n \in Nat
    PROVE  LET r == SubSeq(q, 1, Min2(n, Len(q)))
           IN  /\ r \in Seq(Parts)
               /\ \A i \in 1..Len(r) : r[i] \in s /\ \A k \in 1..Len(r) : r[i] = r[k] => i = k
<1> DEFINE m == Min2(n, Len(q))
<1>1. Cardinality(s) \in Nat
  <2>1. IsFiniteSet(Parts)
    BY FS_Interval, CatalogAssumption DEF Parts
  <2> QED
    BY <2>1, FS_Subset, FS_CardinalityType
<1>2. q \in [1..Cardinality(s) -> s] /\ \A i, j \in DOMAIN q : i < j => q[i] < q[j]
  BY DEF InOrder
<1>3. q \in Seq(s) /\ q \in Seq(Parts) /\ Len(q) = Cardinality(s) /\ DOMAIN q = 1..Len(q)
  <2>1. q \in [1..Cardinality(s) -> Parts]
    BY <1>2
  <2> QED
    BY <1>1, <1>2, <2>1
<1>4. m \in 0..Len(q)
  BY <1>1, <1>3 DEF Min2
<1> DEFINE r == SubSeq(q, 1, m)
<1> HIDE DEF m
<1>5. r \in Seq(s) /\ Len(r) = m /\ \A i \in 1..m : r[i] = q[i]
  BY <1>1, <1>3, <1>4
<1>6. r \in Seq(Parts)
  BY <1>1, <1>3, <1>4
<1>7. \A i \in 1..m : q[i] \in s /\ q[i] \in Nat
  BY <1>3, <1>4, CatalogAssumption DEF Parts
<1>8. \A i, k \in 1..m : q[i] = q[k] => i = k
  BY <1>1, <1>2, <1>3, <1>4, <1>7
<1> QED
  BY <1>5, <1>6, <1>7, <1>8 DEF m

\* A new call has a number of its own, and no task.
LEMMA CallStep ==
    ASSUME Inv, NEW c \in Pids, NEW resume, NEW failedOnly, Call(c, resume, failedOnly)
    PROVE  Inv'
<1> DEFINE m == Recovered(ledger)
           s == Eligible(m, failedOnly)
<1>1. /\ co[c].pc = "idle" /\ calls < MaxCalls /\ calls' = calls + 1
      /\ overlapped' = (overlapped \/ \E d \in Pids : co[d].pc # "idle")
      /\ UNCHANGED <<ledger, temps, dirs, report, manifest, orphans, faults>>
  BY DEF Call, disk
<1>n. PICK n \in 1..NumParts, found \in InOrder(s) :
         co' = [co EXCEPT ![c] =
             IF \E p \in Parts : ledger[p].st = "running"
               THEN Saving(Starting(calls + 1, m, SubSeq(found, 1, Min2(n, Len(found)))), "select")
               ELSE At(Starting(calls + 1, m, SubSeq(found, 1, Min2(n, Len(found)))), "select")]
  BY DEF Call, Becomes, Starting
<1>t. PICK t : t = Starting(calls + 1, m, SubSeq(found, 1, Min2(n, Len(found))))
  OBVIOUS
<1>u. PICK u : u = IF \E p \in Parts : ledger[p].st = "running"
                   THEN Saving(t, "select") ELSE At(t, "select")
  OBVIOUS
<1>2. /\ t = Starting(calls + 1, m, SubSeq(found, 1, Min2(n, Len(found))))
      /\ u = Saving(t, "select") \/ u = [t EXCEPT !.pc = "select"]
      /\ co' = [co EXCEPT ![c] = u]
  BY <1>n, <1>t, <1>u DEF At
<1>3. ledger \in Ledgers /\ calls \in Nat /\ calls + 1 \in 0..MaxCalls /\ n \in Nat
  BY <1>1, <1>2, CatalogAssumption DEF Inv, Types
<1>4. /\ m \in Ledgers
      /\ \A p \in Parts :
            /\ m[p].tries = ledger[p].tries
            /\ ledger[p].st # "running" => m[p] = ledger[p]
            /\ m[p].st # "running"
            /\ m[p].st = "done" => m[p] = ledger[p]
  BY <1>3, RecoveredIs
<1>5. s \in SUBSET Parts /\ \A p \in s : m[p].st \in {"pending", "failed"}
  BY DEF Eligible
<1> HIDE DEF m, s
<1>6. PICK r : /\ r = SubSeq(found, 1, Min2(n, Len(found))) /\ r \in Seq(Parts)
               /\ \A i \in 1..Len(r) : r[i] \in s /\ \A k \in 1..Len(r) : r[i] = r[k] => i = k
  BY <1>2, <1>3, <1>5, QueueOf
<1>7. /\ t \in Locals /\ t.call = calls + 1 /\ t.mem = m /\ t.queue = r
      /\ t.futures = {} /\ t.batch = {}
  <2>1. t = Starting(calls + 1, m, r)
    BY <1>2, <1>6
  <2>2. PICK k : k = calls + 1 /\ k \in 0..MaxCalls
    BY <1>3
  <2>3. t = Starting(k, m, r) /\ m \in Ledgers /\ r \in Seq(Parts)
    BY <1>4, <1>6, <2>1, <2>2
  <2> QED
    BY <2>2, <2>3, StartFields
<1>8. u \in Locals /\ Same(t, u) /\ (u.pc = "select" \/ (u.pc = "save" /\ u.then = "select"))
  <2>1. "select" \in Labels /\ "select" \in Nexts
    BY DEF Labels, Nexts
  <2>2. CASE u = Saving(t, "select")
    BY <1>7, <2>1, <2>2, SavingFields
  <2>3. CASE u = [t EXCEPT !.pc = "select"]
    <3>1. PICK x : x = "select"
      OBVIOUS
    <3>2. x \in Labels /\ u = [t EXCEPT !.pc = x]
      BY <2>1, <2>3, <3>1
    <3> QED
      BY <1>7, <3>1, <3>2, AtFields
  <2> QED
    BY <1>2, <2>2, <2>3
<1>9. /\ u.call = calls + 1 /\ u.mem = m /\ u.queue = r /\ u.futures = {} /\ u.batch = {}
      /\ u.pc # "idle" /\ ~Launching(u)
  BY <1>7, <1>8 DEF Same, Launching
<1>10. \A p \in Parts : m[p].tries \in Nat /\ m[p].tries <= calls
  BY <1>3, <1>4, EntryFields, CatalogAssumption DEF Attempts, Inv, LedgerInv
<1>11. LocalOK(u)
  <2>1. \A p \in Parts : m[p].tries < calls + 1 /\ m[p].tries <= calls + 1
    BY <1>3, <1>10
  <2>2. QueueOK(u)
    BY <1>5, <1>6, <1>9, <2>1 DEF QueueOK
  <2>3. FuturesOK(u)
    BY <1>9 DEF FuturesOK
  <2> QED
    BY <1>3, <1>8, <1>9, <2>1, <2>2, <2>3 DEF LocalOK
<1>12. Owns(dirs, u.futures) /\ Backed(dirs, u.mem)
  BY <1>4, <1>9 DEF Owns, Backed, Inv, LedgerInv
<1>13. co'[c] = u /\ \A d \in Pids \ {c} : co'[d] = co[d]
  BY <1>2, OneProcess DEF Inv
<1>14. \A d \in Pids : co[d].call \in Nat /\ co[d].call <= calls
  BY Fields, CatalogAssumption DEF Inv, CallInv, LocalOK
<1>15. Types'
  BY <1>1, <1>2, <1>3, <1>8 DEF Inv, Types
<1>16. CallInv'
  <2>1. \A d \in Pids : /\ LocalOK(co'[d]) /\ Owns(dirs, co'[d].futures)
                        /\ Backed(dirs, co'[d].mem) /\ co'[d].call <= calls + 1
    <3> SUFFICES ASSUME NEW d \in Pids
                 PROVE  /\ LocalOK(co'[d]) /\ Owns(dirs, co'[d].futures)
                        /\ Backed(dirs, co'[d].mem) /\ co'[d].call <= calls + 1
      OBVIOUS
    <3>1. CASE d = c
      BY <1>3, <1>9, <1>11, <1>12, <1>13, <3>1
    <3>2. CASE d # c
      <4>1. co'[d] = co[d] /\ co[d].call <= calls + 1
        BY <1>3, <1>13, <1>14, <3>2
      <4> QED
        BY <4>1 DEF Inv, CallInv
    <3> QED
      BY <3>1, <3>2
  <2>2. \A d, b \in Pids : co'[d].call = co'[b].call => d = b \/ co'[d].call = 0
    BY <1>3, <1>9, <1>13, <1>14 DEF Inv, CallInv
  <2> QED
    BY <1>1, <2>1, <2>2 DEF CallInv
<1>17. OrphanInv'
  <2>1. \A f \in orphans : f.by \in Nat /\ f.by <= calls
    BY TaskFields, CatalogAssumption DEF Inv, Types, OrphanInv
  <2>2. \A f \in orphans : f.by <= calls + 1 /\ \A d \in Pids : f.by # co'[d].call
    BY <1>3, <1>9, <1>13, <2>1 DEF Inv, OrphanInv
  <2> QED
    BY <1>1, <2>2 DEF Inv, OrphanInv
<1>18. LedgerInv'
  BY <1>1, <1>3, <1>4, <1>10 DEF Inv, LedgerInv
<1>19. AloneInv'
  <2> SUFFICES ASSUME ~overlapped, \A d \in Pids : co[d].pc = "idle"
               PROVE  /\ Bounded(ledger, dirs, orphans)
                      /\ \A d \in Pids : co'[d].pc # "idle" =>
                            /\ Fresh(ledger, dirs, orphans, co'[d])
                            /\ \A b \in Pids : co'[b].pc # "idle" => d = b
    BY <1>1 DEF AloneInv
  <2>1. Bounded(ledger, dirs, orphans)
    BY DEF Inv, AloneInv
  <2>2. \A p \in Parts : ledger[p].tries <= m[p].tries
    BY <1>4, <1>10
  <2>3. Fresh(ledger, dirs, orphans, u)
    BY <1>4, <1>8, <1>9, <2>2 DEF Fresh, Launching
  <2> QED
    BY <1>13, <2>1, <2>3
<1>20. ReportInv'
  BY <1>1 DEF Inv, ReportInv, ManifestIsAudited
<1> QED
  BY <1>15, <1>16, <1>17, <1>18, <1>19, <1>20 DEF Inv

\* A process of the pool of a call works on task f, which becomes g.
LEMMA PoolStep ==
    ASSUME Inv, NEW c \in Pids, PoolProcess(c)
    PROVE  Inv'
<1> DEFINE t == co[c]
<1>1. PICK f \in t.futures, s \in {"running", "ok", "error"} :
         /\ Work(f, s)
         /\ co' = [co EXCEPT ![c] = [t EXCEPT !.futures = (@ \ {f}) \cup {[f EXCEPT !.st = s]}]]
  BY DEF PoolProcess, Becomes
<1>2. UNCHANGED <<ledger, temps, report, manifest, orphans, overlapped, calls, faults>>
  BY DEF PoolProcess, bounds
<1>3. /\ LocalOK(t) /\ t \in Locals /\ t.futures \in SUBSET Tasks /\ FuturesOK(t)
      /\ Owns(dirs, t.futures) /\ f \in Tasks /\ s \in TaskStates
  BY <1>1, Fields DEF Inv, CallInv, LocalOK, TaskStates
<1>4. PICK g : /\ g = [f EXCEPT !.st = s] /\ g \in Tasks /\ g.st = s /\ g.part = f.part
               /\ g.attempt = f.attempt /\ g.by = f.by
  BY <1>3, TaskSt
<1>5. Worked(dirs, dirs', f, s) /\ Owned(dirs, f)
  BY <1>1, <1>3, WorkIs DEF Inv, Owns
<1> DEFINE G == (t.futures \ {f}) \cup {g}
<1>6. G \in SUBSET Tasks
  BY <1>3, <1>4
<1>7. PICK u : u = [t EXCEPT !.futures = G]
  OBVIOUS
<1>8. co' = [co EXCEPT ![c] = u]
  BY <1>1, <1>4, <1>7
<1> HIDE DEF G
<1>9. /\ u \in Locals /\ u.pc = t.pc /\ u.then = t.then /\ u.call = t.call
      /\ u.mem = t.mem /\ u.queue = t.queue /\ u.futures = G /\ u.batch = t.batch
  BY <1>3, <1>6, <1>7, PoolFields
<1>10. f.st \in {"queued", "running"} /\ t.futures # {}
  BY <1>5 DEF Worked
<1>11. t.pc # "idle"
  BY <1>10, IdleOK DEF Inv, CallInv, LocalOK
<1>12. Pooled(t, u)
  <2>1. \A h \in t.futures : h.st \in {"ok", "error"} => h \in G
    BY <1>10 DEF G
  <2>2. \A h, k \in G : h.part = k.part => h = k
    <3>1. \A h \in G : h = g \/ (h \in t.futures /\ h.part # f.part)
      BY <1>3 DEF G, FuturesOK
    <3> QED
      BY <1>3, <1>4, <3>1 DEF FuturesOK
  <2>3. ASSUME NEW h \in G
        PROVE  \E k \in t.futures :
                  /\ h.part = k.part /\ h.attempt = k.attempt /\ h.by = k.by
                  /\ h.st \in {"queued", "running"} => k.st \in {"queued", "running"}
                  /\ h.st = "queued" => k.st = "queued"
                  /\ k.st \in {"ok", "error"} => h = k
    <3>1. CASE h = g
      BY <1>1, <1>4, <1>10, <3>1
    <3>2. CASE h \in t.futures
      BY <3>2
    <3> QED
      BY <3>1, <3>2 DEF G
  <2> QED
    BY <1>9, <2>1, <2>2, <2>3 DEF Pooled
<1>13. LocalOK(u) /\ (Launching(u) <=> Launching(t))
  BY <1>3, <1>11, <1>12, PooledOK
<1>14. co'[c] = u /\ \A d \in Pids \ {c} : co'[d] = co[d]
  BY <1>8, OneProcess DEF Inv
<1>15. dirs' \in Dirs
  BY <1>5 DEF Worked
<1>16. Types'
  BY <1>2, <1>8, <1>9, <1>15 DEF Inv, Types
<1>17. ASSUME NEW h \in Tasks, Owned(dirs, h), h.part # f.part \/ h.by # f.by
       PROVE  Owned(dirs', h)
  BY <1>3, <1>5, <1>17, OthersOwn
<1>18. ASSUME NEW l \in Ledgers, Backed(dirs, l) PROVE Backed(dirs', l)
  BY <1>3, <1>5, <1>18, BackedStays
<1>19. f.by = t.call /\ t.call >= 1
  BY <1>3, <1>11 DEF FuturesOK, LocalOK
<1>20. CallInv'
  <2>1. ASSUME NEW d \in Pids
        PROVE  LocalOK(co'[d]) /\ co'[d].call = co[d].call /\ co'[d].mem = co[d].mem
    BY <1>9, <1>13, <1>14 DEF Inv, CallInv
  <2>2. ASSUME NEW d \in Pids PROVE Owns(dirs', co'[d].futures)
    <3>1. CASE d = c
      <4>1. ASSUME NEW h \in G PROVE Owned(dirs', h)
        <5>1. CASE h = g
          BY <1>3, <1>4, <1>5, <5>1, WorkerOwns
        <5>2. CASE h \in t.futures /\ h # f
          <6>1. h \in Tasks /\ Owned(dirs, h) /\ h.part # f.part
            BY <1>3, <5>2 DEF Owns, FuturesOK
          <6> QED
            BY <1>17, <6>1
        <5> QED
          BY <5>1, <5>2 DEF G
      <4> QED
        BY <1>9, <1>14, <3>1, <4>1 DEF Owns
    <3>2. CASE d # c
      <4>1. ASSUME NEW h \in co[d].futures PROVE Owned(dirs', h)
        <5>1. LocalOK(co[d]) /\ co[d].futures \subseteq Tasks /\ Owns(dirs, co[d].futures)
          BY Fields DEF Inv, CallInv, LocalOK
        <5>2. co[d].call # t.call
          BY <1>19, <3>2 DEF Inv, CallInv
        <5>3. h \in Tasks /\ Owned(dirs, h) /\ h.by # f.by
          BY <1>19, <5>1, <5>2 DEF Owns, LocalOK, FuturesOK
        <5> QED
          BY <1>17, <5>3
      <4> QED
        BY <1>14, <3>2, <4>1 DEF Owns
    <3> QED
      BY <3>1, <3>2
  <2>3. ASSUME NEW d \in Pids PROVE Backed(dirs', co[d].mem)
    <3>1. co[d].mem \in Ledgers /\ Backed(dirs, co[d].mem)
      BY Fields DEF Inv, CallInv, LocalOK
    <3> QED
      BY <1>18, <3>1
  <2> QED
    BY <1>2, <2>1, <2>2, <2>3 DEF Inv, CallInv
<1>21. OrphanInv'
  <2>1. ASSUME NEW h \in orphans PROVE Owned(dirs', h)
    <3>1. h \in Tasks /\ Owned(dirs, h) /\ h.by # f.by
      BY <1>19 DEF Inv, Types, OrphanInv
    <3> QED
      BY <1>17, <3>1
  <2>2. \A d \in Pids : co'[d].call = co[d].call
    BY <1>9, <1>14
  <2> QED
    BY <1>2, <2>1, <2>2 DEF Inv, OrphanInv
<1>22. LedgerInv'
  BY <1>2, <1>18 DEF Inv, Types, LedgerInv
<1>23. AloneInv'
  <2> SUFFICES ASSUME ~overlapped
               PROVE  /\ Bounded(ledger, dirs', orphans)
                      /\ \A d \in Pids : co'[d].pc # "idle" =>
                            /\ Fresh(ledger, dirs', orphans, co'[d])
                            /\ \A b \in Pids : co'[b].pc # "idle" => d = b
    BY <1>2 DEF AloneInv
  <2>1. /\ Bounded(ledger, dirs, orphans) /\ Fresh(ledger, dirs, orphans, t) /\ ledger \in Ledgers
        /\ \A d \in Pids : co[d].pc # "idle" => c = d
    BY <1>11 DEF Inv, AloneInv, Types
  <2>2. Bounded(ledger, dirs', orphans)
    <3>1. f.attempt <= ledger[f.part].tries
      BY <2>1 DEF Fresh
    <3>2. \A p \in Parts, a \in Attempts :
             Used(dirs', orphans, p, a) => Used(dirs, orphans, p, a) \/ (p = f.part /\ a = f.attempt)
      BY <1>3, <1>5, WorkUses
    <3> QED
      BY <2>1, <3>1, <3>2 DEF Bounded
  <2>3. Fresh(ledger, dirs, orphans, u)
    BY <1>3, <1>11, <1>12, <2>1, FreshPooled
  <2>4. g \in u.futures
    BY <1>9 DEF G
  <2>5. Fresh(ledger, dirs', orphans, u)
    BY <1>3, <1>4, <1>5, <1>13, <2>1, <2>3, <2>4, FreshWorked
  <2> QED
    BY <1>14, <2>1, <2>2, <2>5
<1>24. ReportInv'
  BY <1>2 DEF Inv, ReportInv, ManifestIsAudited
<1> QED
  BY <1>16, <1>20, <1>21, <1>22, <1>23, <1>24 DEF Inv

\* A process of the pool dies: no task of the call is under way any more.
LEMMA BreakStep ==
    ASSUME Inv, NEW c \in Pids, PoolBreaks(c)
    PROVE  Inv'
<1> DEFINE t == co[c]
           fail(f) == IF f.st = "ok" THEN f ELSE [f EXCEPT !.st = "error"]
           G == {fail(f) : f \in t.futures}
<1>1. /\ t.futures # {} /\ faults < MaxFaults /\ faults' = faults + 1
      /\ co' = [co EXCEPT ![c] = [t EXCEPT !.broken = TRUE, !.futures = G]]
      /\ UNCHANGED <<ledger, temps, dirs, report, manifest, orphans, overlapped, calls>>
  BY DEF PoolBreaks, Becomes, disk
<1>2. /\ LocalOK(t) /\ t \in Locals /\ t.futures \in SUBSET Tasks /\ FuturesOK(t)
      /\ Owns(dirs, t.futures) /\ t.pc # "idle"
  BY <1>1, Fields, IdleOK DEF Inv, CallInv, LocalOK
<1>3. ASSUME NEW f \in t.futures
      PROVE  /\ fail(f) \in Tasks /\ fail(f).part = f.part /\ fail(f).attempt = f.attempt
             /\ fail(f).by = f.by /\ fail(f).st \in {"ok", "error"}
             /\ fail(f).st = "ok" => f.st = "ok"
             /\ f.st \in {"ok", "error"} => fail(f) = f
  <2>1. f \in Tasks
    BY <1>2
  <2>2. CASE f.st = "ok"
    BY <2>1, <2>2
  <2>3. CASE f.st # "ok"
    <3>1. PICK g : g = [f EXCEPT !.st = "error"] /\ g \in Tasks /\ g.st = "error" /\ g.part = f.part
                   /\ g.attempt = f.attempt /\ g.by = f.by
      BY <2>1, TaskSt DEF TaskStates
    <3>2. f.st = "error" => g = f
      BY <2>1, <3>1 DEF Tasks
    <3> QED
      BY <2>3, <3>1, <3>2
  <2> QED
    BY <2>2, <2>3
<1> HIDE DEF fail
<1>4. G \in SUBSET Tasks
  BY <1>3
<1>5. PICK u : u = [t EXCEPT !.broken = TRUE, !.futures = G]
  OBVIOUS
<1>6. co' = [co EXCEPT ![c] = u]
  BY <1>1, <1>5
<1>7. \A g \in G : \E f \in t.futures : g = fail(f)
  OBVIOUS
<1>8. \A f \in t.futures : fail(f) \in G
  OBVIOUS
<1> HIDE DEF G
<1>9. /\ u \in Locals /\ u.pc = t.pc /\ u.then = t.then /\ u.call = t.call
      /\ u.mem = t.mem /\ u.queue = t.queue /\ u.futures = G /\ u.batch = t.batch
  BY <1>2, <1>4, <1>5, PoolFields
<1>10. Pooled(t, u)
  <2>1. \A g \in G : \E f \in t.futures :
           /\ g.part = f.part /\ g.attempt = f.attempt /\ g.by = f.by
           /\ g.st \notin {"queued", "running"}
           /\ f.st \in {"ok", "error"} => g = f
    BY <1>3, <1>7
  <2>2. \A f \in t.futures : f.st \in {"ok", "error"} => f \in G
    BY <1>3, <1>8
  <2>3. \A g, h \in G : g.part = h.part => g = h
    BY <1>2, <1>3, <1>7 DEF FuturesOK
  <2> QED
    BY <1>9, <2>1, <2>2, <2>3 DEF Pooled
<1>11. Owns(dirs, u.futures)
  <2>1. ASSUME NEW f \in t.futures PROVE Owned(dirs, fail(f))
    <3>1. fail(f).st # "running" /\ (fail(f).st = "ok" => fail(f) = f) /\ Owned(dirs, f)
      BY <1>2, <1>3 DEF Owns
    <3> QED
      BY <3>1 DEF Owned
  <2> QED
    BY <1>7, <1>9, <2>1 DEF Owns
<1>12. faults' \in 0..MaxFaults /\ temps' \subseteq Pids
  BY <1>1, CatalogAssumption DEF Inv, Types
<1> QED
  BY <1>1, <1>2, <1>6, <1>10, <1>11, <1>12, LocalStep DEF GoesOn

\* The first part of a queue that is being launched.
LEMMA LaunchedPart ==
    ASSUME NEW t, LocalOK(t), Launching(t)
    PROVE  t.queue[1] \in Parts
<1>1. t \in Locals /\ t.queue \in Seq(Parts) /\ QueueOK(t)
  BY Fields DEF LocalOK, Launching
<1> QED
  BY <1>1, QueueFacts DEF QueueOK

\* A process whose call was killed works on task f.
LEMMA OrphanStep ==
    ASSUME Inv, OrphanProcess
    PROVE  Inv'
<1>1. PICK f \in orphans, s \in {"running", "ok", "error"} :
         /\ Work(f, s)
         /\ orphans' = (orphans \ {f}) \cup (IF s = "running" THEN {[f EXCEPT !.st = s]} ELSE {})
  BY DEF OrphanProcess
<1>2. UNCHANGED <<ledger, temps, report, manifest, co, overlapped, calls, faults>>
  BY DEF OrphanProcess, bounds
<1>3. f \in Tasks /\ orphans \subseteq Tasks /\ s \in TaskStates /\ Owned(dirs, f)
  BY <1>1 DEF Inv, Types, OrphanInv, TaskStates
<1>4. PICK g : /\ g = [f EXCEPT !.st = s] /\ g \in Tasks /\ g.st = s /\ g.part = f.part
               /\ g.attempt = f.attempt /\ g.by = f.by
  BY <1>3, TaskSt
<1>5. \A h \in orphans' : h \in orphans \ {f} \/ (h = g /\ s = "running")
  BY <1>1, <1>4
<1>6. Worked(dirs, dirs', f, s) /\ dirs' \in Dirs
  BY <1>1, <1>3, WorkIs DEF Inv, Worked
<1>7. ASSUME NEW h \in Tasks, Owned(dirs, h), h.part # f.part \/ h.by # f.by
      PROVE  Owned(dirs', h)
  BY <1>3, <1>6, <1>7, OthersOwn
<1>8. ASSUME NEW l \in Ledgers, Backed(dirs, l) PROVE Backed(dirs', l)
  BY <1>3, <1>6, <1>8, BackedStays
<1>9. Types'
  BY <1>2, <1>3, <1>4, <1>5, <1>6 DEF Inv, Types
<1>10. CallInv'
  <2>1. ASSUME NEW d \in Pids PROVE Owns(dirs', co[d].futures) /\ Backed(dirs', co[d].mem)
    <3>1. /\ LocalOK(co[d]) /\ co[d].futures \subseteq Tasks /\ Owns(dirs, co[d].futures)
          /\ co[d].mem \in Ledgers /\ Backed(dirs, co[d].mem)
      BY Fields DEF Inv, CallInv, LocalOK
    <3>2. ASSUME NEW h \in co[d].futures PROVE Owned(dirs', h)
      <4>1. h.by # f.by
        BY <1>1, <3>1 DEF Inv, OrphanInv, LocalOK, FuturesOK
      <4>2. h \in Tasks /\ Owned(dirs, h)
        BY <3>1 DEF Owns
      <4> QED
        BY <1>7, <4>1, <4>2
    <3>3. Backed(dirs', co[d].mem)
      BY <1>8, <3>1
    <3> QED
      BY <3>2, <3>3 DEF Owns
  <2> QED
    BY <1>2, <2>1 DEF Inv, CallInv
<1>11. OrphanInv'
  <2>1. ASSUME NEW h \in orphans \ {f} PROVE Owned(dirs', h)
    <3>1. h \in Tasks /\ Owned(dirs, h) /\ (h.part # f.part \/ h.by # f.by)
      BY <1>1, <1>3 DEF Inv, OrphanInv
    <3> QED
      BY <1>7, <3>1
  <2>2. Owned(dirs', g)
    BY <1>3, <1>4, <1>6, WorkerOwns
  <2>3. ASSUME NEW h \in orphans'
        PROVE  /\ h.st \in {"queued", "running"} /\ h.by <= calls /\ Owned(dirs', h)
               /\ \A d \in Pids : h.by # co[d].call
               /\ \A k \in orphans' : h.by = k.by /\ h.part = k.part => h = k
    <3>1. CASE h \in orphans \ {f}
      <4>1. \A k \in orphans : h.by = k.by /\ h.part = k.part => h = k
        BY <3>1 DEF Inv, OrphanInv
      <4>2. \A k \in orphans' : h.by = k.by /\ h.part = k.part => h = k
        BY <1>1, <1>4, <1>5, <3>1, <4>1
      <4> QED
        BY <2>1, <3>1, <4>2 DEF Inv, OrphanInv
    <3>2. CASE h = g /\ s = "running"
      <4>1. f.by <= calls /\ \A d \in Pids : f.by # co[d].call
        BY <1>1 DEF Inv, OrphanInv
      <4>2. \A k \in orphans : f.by = k.by /\ f.part = k.part => f = k
        BY <1>1 DEF Inv, OrphanInv
      <4>3. \A k \in orphans' : h.by = k.by /\ h.part = k.part => h = k
        BY <1>4, <1>5, <3>2, <4>2
      <4> QED
        BY <1>4, <2>2, <3>2, <4>1, <4>3
    <3> QED
      BY <1>5, <3>1, <3>2
  <2> QED
    BY <1>2, <2>3 DEF OrphanInv
<1>12. LedgerInv'
  BY <1>2, <1>8 DEF Inv, Types, LedgerInv
<1>13. AloneInv'
  <2> SUFFICES ASSUME ~overlapped
               PROVE  /\ Bounded(ledger, dirs', orphans')
                      /\ \A d \in Pids : co[d].pc # "idle" =>
                            /\ Fresh(ledger, dirs', orphans', co[d])
                            /\ \A b \in Pids : co[b].pc # "idle" => d = b
    BY <1>2 DEF AloneInv
  <2>1. /\ Bounded(ledger, dirs, orphans)
        /\ \A d \in Pids : co[d].pc # "idle" =>
              /\ Fresh(ledger, dirs, orphans, co[d])
              /\ \A b \in Pids : co[b].pc # "idle" => d = b
    BY DEF Inv, AloneInv
  <2>2. ASSUME NEW p \in Parts, NEW a \in Attempts, Used(dirs', orphans', p, a)
        PROVE  Used(dirs, orphans, p, a)
    <3>1. Used(dirs, orphans', p, a) \/ (p = f.part /\ a = f.attempt)
      BY <1>3, <1>6, <2>2, WorkUses
    <3>2. Used(dirs, orphans, f.part, f.attempt)
      BY <1>1 DEF Used
    <3>3. CASE \E h \in orphans' : h.part = p /\ h.attempt = a
      BY <1>1, <1>4, <1>5, <3>3 DEF Used
    <3>4. CASE ~\E h \in orphans' : h.part = p /\ h.attempt = a
      BY <3>1, <3>2, <3>4 DEF Used
    <3> QED
      BY <3>3, <3>4
  <2>3. Bounded(ledger, dirs', orphans')
    BY <2>1, <2>2 DEF Bounded
  <2>4. ASSUME NEW d \in Pids, co[d].pc # "idle" PROVE Fresh(ledger, dirs', orphans', co[d])
    <3>1. LocalOK(co[d]) /\ co[d] \in Locals /\ Fresh(ledger, dirs, orphans, co[d])
      BY <2>1, <2>4 DEF Inv, CallInv, LocalOK
    <3>2. Launching(co[d]) => co[d].queue[1] \in Parts
      BY <3>1, LaunchedPart
    <3> QED
      BY <2>2, <3>1, <3>2, FreshAnyway
  <2> QED
    BY <2>1, <2>3, <2>4
<1>14. ReportInv'
  BY <1>2 DEF Inv, ReportInv, ManifestIsAudited
<1> QED
  BY <1>9, <1>10, <1>11, <1>12, <1>13, <1>14 DEF Inv

\* The audit and the finalization write no ledger and no attempt.
LEMMA ReportStep ==
    ASSUME Inv, Audit \/ Finalize
    PROVE  Inv'
<1>1. UNCHANGED <<ledger, temps, dirs, co, orphans, overlapped, calls, faults>>
  BY DEF Audit, Finalize, bounds
<1>2. CallInv' /\ OrphanInv' /\ LedgerInv' /\ AloneInv'
  BY <1>1 DEF Inv, CallInv, OrphanInv, LedgerInv, AloneInv
<1>3. ledger \in Ledgers /\ NoLedger \in Ledgers
  BY IdleOK DEF Inv, Types
<1>4. CASE Audit
  <2> DEFINE full == \A p \in Parts : ledger[p].st = "done"
             seen == IF full THEN ledger ELSE NoLedger
  <2>0. full \in BOOLEAN
    OBVIOUS
  <2>1. /\ manifest' = manifest
        /\ report' = NoReport \/ report' = [passed |-> TRUE, full |-> full, ledger |-> seen]
    BY <1>4 DEF Audit
  <2>2. Types' /\ ReportInv'
    <3>1. CASE report' = NoReport
      BY <1>1, <1>3, <2>1, <3>1 DEF NoReport, Inv, Types, ReportInv, ManifestIsAudited
    <3>2. CASE report' = [passed |-> TRUE, full |-> full, ledger |-> seen]
      <4>1. report'.full = full /\ report'.ledger = seen /\ report'.passed = TRUE
        BY <3>2
      <4>2. seen \in Ledgers /\ (full => seen = ledger)
        BY <1>3
      <4>3. report' \in [passed : BOOLEAN, full : BOOLEAN, ledger : Ledgers]
        <5> HIDE DEF full, seen
        <5> QED
          BY <2>0, <3>2, <4>2
      <4> QED
        BY <1>1, <2>1, <4>1, <4>2, <4>3 DEF Inv, Types, ReportInv, ManifestIsAudited
    <3> QED
      BY <2>1, <3>1, <3>2
  <2> QED
    BY <1>2, <2>2 DEF Inv
<1>5. CASE Finalize
  <2>1. /\ manifest' = [written |-> TRUE, shards |-> ledger, audited |-> report.ledger]
        /\ report' = report /\ report.full
    BY <1>5 DEF Finalize, Gate
  <2>2. report.ledger \in Ledgers
    BY DEF Inv, Types
  <2>3. Types'
    BY <1>1, <1>3, <2>1, <2>2 DEF Inv, Types
  <2>4. ReportInv'
    BY <1>1, <2>1 DEF Inv, ReportInv, ManifestIsAudited
  <2> QED
    BY <1>2, <2>3, <2>4 DEF Inv
<1> QED
  BY <1>4, <1>5

-----------------------------------------------------------------------------
(* The theorems.                                                           *)

\* The invariant holds of a directory without a run ...
LEMMA InitInv == Init => Inv
<1> SUFFICES ASSUME Init PROVE Inv
  OBVIOUS
<1>1. /\ LocalOK(Idle) /\ Idle.call = 0 /\ Idle.pc = "idle" /\ Idle.futures = {}
      /\ Idle.mem = NoLedger /\ NoLedger \in Ledgers
      /\ \A p \in Parts : NoLedger[p].st = "pending" /\ NoLedger[p].tries = 0
  BY IdleOK
<1>2. 1 \in Parts /\ 0 \in 0..MaxCalls /\ 0 \in 0..MaxFaults
  BY CatalogAssumption DEF Parts
<1>3. /\ co = [c \in Pids |-> Idle] /\ ledger = NoLedger /\ orphans = {} /\ calls = 0
      /\ \A c \in Pids : co[c] = Idle
      /\ dirs = [a \in Parts \X Attempts |-> [st |-> "absent", by |-> 0]]
      /\ \A p \in Parts, a \in Attempts : dirs[<<p, a>>].st = "absent"
  BY DEF Init
<1>4. Types
  <2>1. dirs \in Dirs
    BY <1>2, <1>3 DEF Dirs
  <2>2. report \in [passed : BOOLEAN, full : BOOLEAN, ledger : Ledgers]
    BY <1>1 DEF Init, NoReport
  <2>3. manifest \in [written : BOOLEAN, shards : Ledgers, audited : Ledgers]
    BY <1>1 DEF Init, NoManifest
  <2>4. co \in [Pids -> Locals]
    BY <1>1, <1>3 DEF LocalOK
  <2> QED
    BY <1>1, <1>2, <2>1, <2>2, <2>3, <2>4 DEF Init, Types
<1>5. CallInv
  <2>1. Owns(dirs, Idle.futures) /\ Backed(dirs, Idle.mem)
    BY <1>1 DEF Owns, Backed
  <2>2. \A c \in Pids : /\ LocalOK(co[c]) /\ Owns(dirs, co[c].futures) /\ Backed(dirs, co[c].mem)
                        /\ co[c].call = 0
    BY <1>1, <1>3, <2>1
  <2>3. 0 <= calls
    BY <1>3
  <2> QED
    BY <2>2, <2>3 DEF CallInv
<1>6. OrphanInv /\ LedgerInv
  BY <1>1, <1>3 DEF OrphanInv, LedgerInv, Backed
<1>7. AloneInv
  <2>1. Bounded(ledger, dirs, orphans)
    BY <1>3 DEF Bounded, Used
  <2> QED
    BY <1>1, <1>3, <2>1 DEF AloneInv
<1>8. ReportInv
  BY DEF Init, NoReport, NoManifest, ReportInv, ManifestIsAudited
<1> QED
  BY <1>4, <1>5, <1>6, <1>7, <1>8 DEF Inv

\* ... every step keeps it ...
LEMMA StepInv == Inv /\ [Next]_vars => Inv'
<1> SUFFICES ASSUME Inv, [Next]_vars PROVE Inv'
  OBVIOUS
<1>1. ASSUME NEW c \in Pids, NEW resume \in BOOLEAN, NEW failedOnly \in BOOLEAN,
             Call(c, resume, failedOnly)
      PROVE  Inv'
  BY <1>1, CallStep
<1>2. ASSUME NEW c \in Pids, Coordinator(c) PROVE Inv'
  <2>1. CASE SaveReplace(c)
    BY <2>1, SaveStep
  <2>2. CASE (Select(c) /\ co[c].queue = <<>>) \/ (SaveTemp(c) /\ c \in temps /\ co[c].then = "select")
             \/ Shutdown(c)
    <3>1. /\ co[c].pc # "idle" /\ co' = [co EXCEPT ![c] = Idle]
          /\ UNCHANGED <<ledger, temps, dirs, report, manifest, orphans, overlapped, calls, faults>>
      BY <2>2 DEF Select, SaveTemp, Shutdown, Becomes, At, disk, bounds
    <3>2. temps' \subseteq Pids /\ faults' \in 0..MaxFaults
      BY <3>1 DEF Inv, Types
    <3>3. PICK F : F = {}
      OBVIOUS
    <3>4. orphans' = orphans \cup F
      BY <3>1, <3>3
    <3> QED
      BY <3>1, <3>2, <3>3, <3>4, EndStep
  <2> QED
    BY <1>2, <2>1, <2>2, ConfinedStep DEF Coordinator
<1>3. ASSUME NEW c \in Pids, PoolProcess(c) PROVE Inv'
  BY <1>3, PoolStep
<1>4. ASSUME NEW c \in Pids, DeadlinePasses(c) PROVE Inv'
  BY <1>4, ConfinedStep
<1>5. ASSUME NEW c \in Pids, Kill(c) PROVE Inv'
  <2>1. PICK F : F = {f \in co[c].futures : f.st \in {"queued", "running"}}
    OBVIOUS
  <2>2. /\ co[c].pc # "idle" /\ co' = [co EXCEPT ![c] = Idle] /\ orphans' = orphans \cup F
        /\ faults < MaxFaults /\ faults' = faults + 1
        /\ UNCHANGED <<ledger, temps, dirs, report, manifest, overlapped, calls>>
    BY <1>5, <2>1 DEF Kill, Becomes, disk
  <2>3. temps' \subseteq Pids /\ faults' \in 0..MaxFaults
    BY <2>2, CatalogAssumption DEF Inv, Types
  <2>4. \A f \in F : f \in co[c].futures /\ f.st \in {"queued", "running"}
    BY <2>1
  <2> QED
    BY <2>2, <2>3, <2>4, EndStep
<1>6. ASSUME NEW c \in Pids, PoolBreaks(c) PROVE Inv'
  BY <1>6, BreakStep
<1>7. CASE OrphanProcess
  BY <1>7, OrphanStep
<1>8. CASE Audit \/ Finalize
  BY <1>8, ReportStep
<1>9. CASE UNCHANGED vars
  BY <1>9 DEF vars, disk, bounds, Inv, Types, CallInv, OrphanInv, LedgerInv, AloneInv, ReportInv,
              ManifestIsAudited
<1> QED
  BY <1>1, <1>2, <1>3, <1>4, <1>5, <1>6, <1>7, <1>8, <1>9 DEF Next

\* ... so it always holds.
LEMMA Invariant == Spec => []Inv
BY InitInv, StepInv, PTL DEF Spec

\* The state is well typed; a part that the ledger reports done has a complete
\* checkpoint with the hash that the ledger gives, whatever calls overlapped, were
\* killed or left processes behind; and unless calls overlapped no task meets the
\* directory of another attempt (execute_catalog_run, execute_catalog_part_task).
THEOREM LedgerIsBacked == Spec => []LedgerMatchesDisk
<1>1. Inv => LedgerMatchesDisk
  <2> SUFFICES ASSUME Inv PROVE LedgerMatchesDisk
    OBVIOUS
  <2>1. TypeOK
    <3>1. ASSUME NEW c \in Pids
          PROVE  /\ DOMAIN co[c] = DOMAIN Idle
                 /\ co[c].pc \in Labels /\ co[c].then \in Nexts
                 /\ co[c].call \in 0..MaxCalls /\ co[c].mem \in Ledgers
                 /\ co[c].queue \in Seq(Parts) /\ co[c].futures \subseteq Tasks
                 /\ co[c].batch \subseteq co[c].futures
                 /\ co[c].late \in BOOLEAN /\ co[c].broken \in BOOLEAN
      <4>1. LocalOK(co[c]) /\ co[c] \in Locals /\ Idle \in Locals
        BY IdleOK DEF Inv, CallInv, LocalOK
      <4>2. DOMAIN co[c] = DOMAIN Idle
        BY <4>1 DEF Locals
      <4>3. co[c].batch \subseteq co[c].futures
        BY <4>1 DEF LocalOK, FuturesOK
      <4> QED
        BY <4>1, <4>2, <4>3, Fields
    <3> QED
      BY <3>1 DEF Inv, Types, TypeOK, Dirs, Labels, Nexts
  <2>2. DoneIsBacked
    BY DEF Inv, LedgerInv, Backed, DoneIsBacked
  <2>3. AttemptIsFresh
    <3> SUFFICES ASSUME ~overlapped, NEW c \in Pids, NEW f \in co[c].futures, f.st = "queued"
                 PROVE  dirs[<<f.part, f.attempt>>].st = "absent"
      BY DEF AttemptIsFresh
    <3>1. co[c].pc # "idle"
      BY IdleOK DEF Inv, CallInv, LocalOK
    <3> QED
      BY <3>1 DEF Inv, AloneInv, Fresh, Used
  <2> QED
    BY <2>1, <2>2, <2>3 DEF LedgerMatchesDisk
<1> QED
  BY <1>1, Invariant, PTL

\* The shards of a manifest are those that the audit has verified, unless calls
\* overlapped (finalize_catalog_run).
THEOREM ManifestSound == Spec => []ManifestIsAudited
<1>1. Inv => ManifestIsAudited
  BY DEF Inv, ReportInv
<1> QED
  BY <1>1, Invariant, PTL

\* The result of a part that is done is never given up or replaced, by no resumed
\* call, no late process and no crash between two writes, unless calls overlapped.
THEOREM DoneIsForGood == Spec => DoneStaysDone
<1>1. Inv /\ [Next]_vars =>
         [~overlapped' => \A p \in Parts : ledger[p].st = "done" => ledger'[p] = ledger[p]]_vars
  <2> SUFFICES ASSUME Inv, Next, ~overlapped', NEW p \in Parts, ledger[p].st = "done"
               PROVE  ledger'[p] = ledger[p]
    OBVIOUS
  <2>1. ASSUME NEW c \in Pids, SaveReplace(c) PROVE ledger'[p] = ledger[p]
    <3>1. co[c].pc = "replace" /\ ledger' = co[c].mem /\ overlapped' = overlapped
      BY <2>1 DEF SaveReplace, bounds
    <3>2. Fresh(ledger, dirs, orphans, co[c])
      BY <3>1 DEF Inv, AloneInv
    <3> QED
      BY <3>1, <3>2 DEF Fresh
  <2>2. CASE UNCHANGED ledger
    BY <2>2
  <2>3. (\E c \in Pids : SaveReplace(c)) \/ UNCHANGED ledger
    BY DEF Next, Call, Coordinator, Select, SaveTemp, Launch, Submit, Wait, Collect, Break, Shutdown,
           PoolProcess, DeadlinePasses, Kill, PoolBreaks, OrphanProcess, Audit, Finalize, disk
  <2> QED
    BY <2>1, <2>2, <2>3
<1> QED
  BY <1>1, Invariant, PTL DEF Spec, DoneStaysDone
=============================================================================
