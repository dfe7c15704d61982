----------------------------- MODULE LeasedJobs -----------------------------
(***************************************************************************)
(* What the job queue of ParseCore promises its host: a job is queued,     *)
(* worked on by one owner at a time, and settles once.  Only the owner can *)
(* finish it or give it up; an owner that takes too long, or dies, can be  *)
(* deprived of it.  JobQueue implements this with the rows, claim tokens   *)
(* and leases of the parse_jobs table.                                     *)
(***************************************************************************)
EXTENDS Naturals

CONSTANTS Workers, Jobs, MaxAttempts, NoOwner

VARIABLES
    status,     \* "absent", "queued", "running", "done", "failed", "cancelled"
    owner,      \* who works on a running job, NoOwner once it was lost
    tries       \* how often a job was given an owner

vars == <<status, owner, tries>>

Init ==
    /\ status = [j \in Jobs |-> "absent"]
    /\ owner = [j \in Jobs |-> NoOwner]
    /\ tries = [j \in Jobs |-> 0]

\* The status and owner of j change, and nothing else.
Become(j, newStatus, newOwner) ==
    /\ status' = [status EXCEPT ![j] = newStatus]
    /\ owner' = [owner EXCEPT ![j] = newOwner]

Submit(j) ==
    /\ status[j] = "absent"
    /\ Become(j, "queued", NoOwner)
    /\ UNCHANGED tries

Claim(w, j) ==
    /\ status[j] = "queued"
    /\ Become(j, "running", w)
    /\ tries' = [tries EXCEPT ![j] = @ + 1]

\* The owner is done with the job: finished, failed or surplus.
Finish(w, j) ==
    /\ owner[j] = w
    /\ Become(j, "done", NoOwner)
    /\ UNCHANGED tries

\* An attempt that failed or timed out is queued again, unless it was the last.
EndAttempt(j) ==
    /\ Become(j, IF tries[j] >= MaxAttempts THEN "failed" ELSE "queued", NoOwner)
    /\ UNCHANGED tries

GiveUp(w, j) == owner[j] = w /\ EndAttempt(j)

GiveBack(w, j) ==
    /\ owner[j] = w
    /\ Become(j, "queued", NoOwner)
    /\ UNCHANGED tries

\* The lease of a running job ran out.
Revoke(j) == status[j] = "running" /\ EndAttempt(j)

\* The owner is gone, the job does not know.
Orphan(w, j) ==
    /\ owner[j] = w
    /\ Become(j, "running", NoOwner)
    /\ UNCHANGED tries

Cancel(j) ==
    /\ status[j] \in {"queued", "running"}
    /\ Become(j, "cancelled", NoOwner)
    /\ UNCHANGED tries

Next ==
    \E j \in Jobs :
        \/ Submit(j)
        \/ Revoke(j)
        \/ Cancel(j)
        \/ \E w \in Workers :
              Claim(w, j) \/ Finish(w, j) \/ GiveUp(w, j) \/ GiveBack(w, j) \/ Orphan(w, j)

Spec == Init /\ [][Next]_vars
=============================================================================
