---------------------------- MODULE ControlJobs ----------------------------
(***************************************************************************)
(* The controller's jobs (control/jobs.ts): an action such as an update    *)
(* runs in a detached worker process, and a row on disk tells every        *)
(* controller what became of it.                                           *)
(*                                                                         *)
(* Each step under control-jobs.lock is one action; the lock itself is     *)
(* modelled in RuntimeLock.  Rows are ordered by the time they were last   *)
(* written.  What a job does is external: only how it ends is chosen.      *)
(***************************************************************************)
EXTENDS Naturals, Sequences, FiniteSets, Functions

CONSTANTS JobKinds,   \* kind and target of an action
          Listed,     \* rows a listing returns (20 in the code)
          MaxJobs     \* rows ever written (a bound)

VARIABLES rows,       \* the job rows, in the order they were last written
          overtaken   \* jobs a later start of their kind could not see

jobVars == <<rows, overtaken>>

Active == {"queued", "running"}
Ended == {"succeeded", "failed"}   \* waiting and blocked are rows of their own, treated alike
Job(id, kind, state, pid) == [id |-> id, kind |-> kind, state |-> state, pid |-> pid,
                              alive |-> pid # "starter", old |-> FALSE]

JobInit == rows = <<>> /\ overtaken = {}

\* What a reader is told: a row whose process is gone, or that was written
\* fifteen minutes ago, has failed.
Stale(job) == job.state \in Active /\ (~job.alive \/ job.old)
PublicState(job) == IF Stale(job) THEN "failed" ELSE job.state

\* A listing is the newest rows only.
Status == {rows[i] : i \in {n \in DOMAIN rows : n + Listed > Len(rows)}}

Existing_Running(kind) == \E job \in Status : job.kind = kind /\ PublicState(job) = "running"
Existing(kind) == \E job \in Status : job.kind = kind /\ PublicState(job) \in Active

Executing(job) == job.alive /\ job.state \in Active

\* What a start of this kind cannot know of: an action past its age, or behind
\* the newest rows.
Missed(kind) == {job \in Range(rows) : job.kind = kind /\ Executing(job) /\ (job.old \/ job \notin Status)}

\* The starter writes the row, launches the worker and writes its pid; it may
\* die between the two writes, and then the worker finds that the row is not
\* its own.
Start(kind) ==
    /\ Len(rows) < MaxJobs
    /\ ~Existing(kind)
    /\ \E job \in {Job(Len(rows) + 1, kind, "queued", "worker"),
                   Job(Len(rows) + 1, kind, "failed", "starter"),
                   Job(Len(rows) + 1, kind, "queued", "starter")} : rows' = Append(rows, job)
    /\ overtaken' = overtaken \cup {job.id : job \in Missed(kind)}

\* A save rewrites the row, whatever has become of it, and so renews its age.
\* A worker that has saved an end is gone.
Save(i, state) ==
    rows' = Append(SelectSeq(rows, LAMBDA r : r.id # rows[i].id),
                   [rows[i] EXCEPT !.state = state, !.old = FALSE, !.alive = state \in Active])

RunControlJob(i) ==
    /\ rows[i].alive /\ rows[i].state = "queued"
    /\ Save(i, "running") /\ UNCHANGED overtaken

Finish(i) ==
    /\ rows[i].alive /\ rows[i].state = "running"
    /\ \E state \in Ended : Save(i, state)
    /\ UNCHANGED overtaken

WorkerDies(i) ==
    /\ Executing(rows[i])
    /\ rows' = [rows EXCEPT ![i].alive = FALSE, ![i].old = FALSE] /\ UNCHANGED overtaken

\* Rows age in the order they were written.
GrowsOld(i) ==
    /\ Executing(rows[i]) /\ ~rows[i].old
    /\ \A n \in 1..(i - 1) : Executing(rows[n]) => rows[n].old
    /\ rows' = [rows EXCEPT ![i].old = TRUE] /\ UNCHANGED overtaken

JobNext ==
    \/ \E kind \in JobKinds : Start(kind)
    \/ \E i \in DOMAIN rows : RunControlJob(i) \/ Finish(i) \/ WorkerDies(i) \/ GrowsOld(i)

-----------------------------------------------------------------------------
JobTypeOK ==
    /\ \A i \in DOMAIN rows : rows[i] \in [id : 1..MaxJobs, kind : JobKinds, state : Active \cup Ended,
                                           pid : {"starter", "worker"}, alive : BOOLEAN, old : BOOLEAN]
    /\ Len(rows) <= MaxJobs /\ overtaken \subseteq 1..MaxJobs

\* An action reported as ended stays so, unless it was given up for its age.
ReportedFinal ==
    [][\A i \in DOMAIN rows, n \in DOMAIN rows' :
          /\ rows[i].id = rows'[n].id
          /\ PublicState(rows[i]) \in Ended /\ ~rows[i].old
          => PublicState(rows'[n]) = PublicState(rows[i])]_jobVars

\* Two workers execute one kind of action at once only where the start of the
\* second could not see the first: it was past its age, or hidden behind the
\* newest rows.
TwiceOnlyOvertaken ==
    \A i, j \in DOMAIN rows :
        i # j /\ rows[i].kind = rows[j].kind /\ Executing(rows[i]) /\ Executing(rows[j]) =>
            rows[i].id \in overtaken \/ rows[j].id \in overtaken
OneActionPerKind ==
    \A i, j \in DOMAIN rows : i # j /\ rows[i].kind = rows[j].kind => ~(Executing(rows[i]) /\ Executing(rows[j]))
=============================================================================
