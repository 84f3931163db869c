------------------------------ MODULE JobTable ------------------------------
(***************************************************************************)
(* The job table of src/shell/jobs.c as operators on its value: the        *)
(* sequence of jobs in insertion order.  A job is a record with the id the *)
(* user sees, the process group, the state, the pids copied at jobs_add    *)
(* and nleft, the number of pids still expected to report their end.       *)
(***************************************************************************)
EXTENDS Integers, SequencesExt

Job(id, pids, state) ==
    [id |-> id, pgid |-> pids[1], state |-> state, pids |-> pids, nleft |-> Len(pids)]

JobStates == {"RUNNING", "STOPPED", "DONE"}

Ids(jobs) == {jobs[i].id : i \in DOMAIN jobs}

\* next_id: the lowest number no job in the table has
NextId(jobs) == CHOOSE id \in 1 .. (Len(jobs) + 1) :
                   /\ id \notin Ids(jobs)
                   /\ \A k \in 1 .. (id - 1) : k \in Ids(jobs)

JobsAdd(jobs, pids, state) == Append(jobs, Job(NextId(jobs), pids, state))

HasPid(job, p) == \E k \in DOMAIN job.pids : job.pids[k] = p

\* job_of_pid: the first job in the table that lists the pid
JobOfPid(jobs, p) == CHOOSE i \in DOMAIN jobs :
                        /\ HasPid(jobs[i], p)
                        /\ \A k \in 1 .. (i - 1) : ~HasPid(jobs[k], p)

\* fault: the first end finishes the job
ReportFirstEnd(job, event) ==
    CASE event = "ended"     -> [job EXCEPT !.nleft = 0, !.state = "DONE"]
      [] event = "stopped"   -> [job EXCEPT !.state = "STOPPED"]
      [] event = "continued" -> [job EXCEPT !.state = "RUNNING"]

(* jobs_update: an end counts nleft down and finishes the job at zero, a   *)
(* stop or a continue flips the state of the whole job.                    *)
Report(job, event) ==
    CASE event = "ended" ->
            IF job.nleft = 0 THEN job
            ELSE [job EXCEPT !.nleft = @ - 1,
                             !.state = IF job.nleft = 1 THEN "DONE" ELSE @]
      [] event = "stopped"   -> [job EXCEPT !.state = "STOPPED"]
      [] event = "continued" -> [job EXCEPT !.state = "RUNNING"]

JobsUpdate(jobs, p, event) ==
    IF \E i \in DOMAIN jobs : HasPid(jobs[i], p)
    THEN [jobs EXCEPT ![JobOfPid(jobs, p)] = Report(@, event)]
    ELSE jobs

\* jobs_reap_notify: the finished job it announces next, lowest id first
NextDone(jobs, i) ==
    /\ jobs[i].state = "DONE"
    /\ \A k \in DOMAIN jobs : jobs[k].state = "DONE" => jobs[i].id <= jobs[k].id

NoneDone(jobs) == \A i \in DOMAIN jobs : jobs[i].state # "DONE"
=============================================================================
