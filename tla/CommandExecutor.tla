---------------------------- MODULE CommandExecutor ----------------------------
(***************************************************************************)
(* CommandExecutor of metriplane/runner/executor.py: the one job slot of   *)
(* the runner service.  HTTP threads call execute() and cancel(), a        *)
(* background thread per execution runs the command in a child process     *)
(* group that is gated until its identity is known, and all of them write  *)
(* the same job record.  A step is a section under the executor's lock or  *)
(* one effect between two such sections.                                   *)
(*                                                                         *)
(* Executions are numbered 1, 2, ..; the record that execute() creates,    *)
(* the thread it starts and the child of that thread share the number.     *)
(***************************************************************************)
EXTENDS Integers, Sequences, FiniteSets

CONSTANTS
  MaxJobs,    \* bound: number of accepted execute() calls
  MaxHistory  \* maxlen of job_history

ASSUME ExecutorAssumption == MaxJobs \in Nat \ {0} /\ MaxHistory \in Nat \ {0}

Jobs  == 1 .. MaxJobs
Ended == {"succeeded", "failed", "timed_out", "cancelled"}
Status == {"none", "running"} \cup Ended

VARIABLES
  made,        \* number of executions so far
  current,     \* current_job, 0: none
  history,     \* job_history: the archived copies
  id, status, process,  \* fields of the job records; process 0: none registered
  pc,          \* where each background thread is
  job,         \* the record that a thread works on
  verdict,     \* the status that a thread is about to report
  child,       \* the child process group of each thread
  killing,     \* children that a cancel() is about to terminate
  unverified   \* children whose termination raised

record == <<id, status, process>>
vars == <<made, current, history, record, pc, job, verdict, child, killing, unverified>>

TypeOK ==
  /\ made \in 0 .. MaxJobs /\ current \in 0 .. made
  /\ history \in Seq([id : Jobs, status : Ended, job : Jobs]) /\ Len(history) <= MaxHistory
  /\ id \in [Jobs -> 0 .. made] /\ status \in [Jobs -> Status]
  /\ process \in [Jobs -> 0 .. made]
  /\ pc \in [Jobs -> {"none", "starting", "spawn", "register", "discard", "release",
                      "wait", "fail", "report", "done"}]
  /\ job \in [Jobs -> 0 .. made] /\ verdict \in [Jobs -> Status]
  /\ child \in [Jobs -> {"none", "gated", "running", "exited"}]
  /\ killing \subseteq Jobs /\ unverified \subseteq Jobs

Init ==
  /\ made = 0 /\ current = 0 /\ history = <<>>
  /\ id = [j \in Jobs |-> 0]
  /\ status = [j \in Jobs |-> "none"]
  /\ process = [j \in Jobs |-> 0]
  /\ pc = [t \in Jobs |-> "none"]
  /\ job = [t \in Jobs |-> 0]
  /\ verdict = [t \in Jobs |-> "none"]
  /\ child = [t \in Jobs |-> "none"]
  /\ killing = {} /\ unverified = {}

Goto(t, p)  == pc' = [pc EXCEPT ![t] = p]
Alive(t)    == child[t] \in {"gated", "running"}
IsCurrent(i) == current # 0 /\ id[current] = i

\* _terminate_process_group: the group is gone, or that could not be verified.
Terminate(t) ==
  \/ child' = [child EXCEPT ![t] = IF Alive(t) THEN "exited" ELSE @] /\ UNCHANGED unverified
  \/ Alive(t) /\ unverified' = unverified \cup {t} /\ UNCHANGED child

--------------------------------------------------------------------------------
(* execute                                                                 *)

Archive == [id |-> id[current], status |-> status[current], job |-> current]

\* A deque with a maxlen forgets its oldest element.
Remember(h, r) ==
  LET all == Append(h, r) IN
  SubSeq(all, IF Len(all) > MaxHistory THEN Len(all) - MaxHistory + 1 ELSE 1, Len(all))

\* The id is made of the command's name and of the time in seconds: it may be that of
\* an earlier execution of the command.
NewIds == {made + 1} \cup {id[j] : j \in 1 .. made}

Execute(i) ==
  /\ made < MaxJobs /\ i \in NewIds
  /\ current # 0 => status[current] # "running"
  /\ history' = IF current # 0 /\ status[current] \in Ended
                THEN Remember(history, Archive) ELSE history
  /\ made' = made + 1 /\ current' = made'
  /\ id' = [id EXCEPT ![made'] = i]
  /\ status' = [status EXCEPT ![made'] = "running"]
  /\ Goto(made', "starting")
  /\ UNCHANGED <<process, job, verdict, child, killing, unverified>>

\* Defect: the record is marked although another job has the slot by now.
StartFailsLate(t) ==
  /\ pc[t] = "starting" /\ Goto(t, "done")
  /\ status' = [status EXCEPT ![t] = "failed"]
  /\ UNCHANGED <<made, current, history, id, process, job, verdict, child, killing, unverified>>

StartFails(t) ==
  /\ pc[t] = "starting" /\ Goto(t, "done")
  /\ status' = IF IsCurrent(id[t]) THEN [status EXCEPT ![current] = "failed"] ELSE status
  /\ UNCHANGED <<made, current, history, id, process, job, verdict, child, killing, unverified>>

--------------------------------------------------------------------------------
(* _run_command, in the background thread                                  *)

\* thread.start() succeeded, and the thread looks its job up, without the lock.
Begin(t) ==
  /\ pc[t] = "starting"
  /\ IF IsCurrent(id[t])
     THEN job' = [job EXCEPT ![t] = current] /\ Goto(t, "spawn")
     ELSE Goto(t, "done") /\ UNCHANGED job
  /\ UNCHANGED <<made, current, history, record, verdict, child, killing, unverified>>

\* The supervisor runs, reports ready and has an identity; its gate is closed.
Spawn(t) ==
  /\ pc[t] = "spawn" /\ Goto(t, "register")
  /\ child' = [child EXCEPT ![t] = "gated"]
  /\ UNCHANGED <<made, current, history, record, job, verdict, killing, unverified>>

\* It cannot be started, or it is discarded for want of either.
SpawnFails(t) ==
  /\ pc[t] = "spawn" /\ Goto(t, "fail")
  /\ \E c \in {"none", "exited"} : child' = [child EXCEPT ![t] = c]
  /\ UNCHANGED <<made, current, history, record, job, verdict, killing, unverified>>

\* Defect: a cancel() that came before the process was known is missed.
RegisterBlindly(t) ==
  /\ pc[t] = "register" /\ Goto(t, "release")
  /\ process' = [process EXCEPT ![job[t]] = t]
  /\ UNCHANGED <<made, current, history, id, status, job, verdict, child, killing, unverified>>

Register(t) ==
  /\ pc[t] = "register"
  /\ Goto(t, IF status[job[t]] = "cancelled" THEN "discard" ELSE "release")
  /\ process' = IF status[job[t]] = "running" THEN [process EXCEPT ![job[t]] = t] ELSE process
  /\ UNCHANGED <<made, current, history, id, status, job, verdict, child, killing, unverified>>

\* Cancelled before it started: the gate is closed for good.
Discard(t) ==
  /\ pc[t] = "discard"
  /\ Goto(t, "done") \/ Goto(t, "fail")
  /\ child' = [child EXCEPT ![t] = "exited"]
  /\ UNCHANGED <<made, current, history, record, job, verdict, killing, unverified>>

\* The command itself starts.  Writing to the gate fails if a cancel() was
\* faster.
Release(t) ==
  /\ pc[t] = "release"
  /\ IF child[t] = "gated"
     THEN child' = [child EXCEPT ![t] = "running"] /\ Goto(t, "wait")
     ELSE UNCHANGED child /\ Goto(t, "fail")
  /\ UNCHANGED <<made, current, history, record, job, verdict, killing, unverified>>

\* The command ends by itself (the operating system's step, not the thread's).
ChildExits(t) ==
  /\ child[t] = "running"
  /\ child' = [child EXCEPT ![t] = "exited"]
  /\ UNCHANGED <<made, current, history, record, pc, job, verdict, killing, unverified>>

Judge(t, v) == verdict' = [verdict EXCEPT ![t] = v] /\ Goto(t, "report")

\* _wait_with_limits returns; the output is read to its end, or that fails.
Waited(t) ==
  /\ pc[t] = "wait" /\ child[t] = "exited"
  /\ \/ \E v \in {"succeeded", "failed"} : Judge(t, v)
     \/ Goto(t, "fail") /\ UNCHANGED verdict
  /\ UNCHANGED <<made, current, history, record, job, child, killing, unverified>>

\* Defect: the time is over, and nothing is done about the child.
LimitOnly(t) ==
  /\ pc[t] = "wait"
  /\ \E v \in {"timed_out", "failed"} : Judge(t, v)
  /\ UNCHANGED <<made, current, history, record, job, child, killing, unverified>>

\* It raises: the time is over, or a limit on processes is exceeded or unknown.
Limit(t) ==
  /\ pc[t] = "wait"
  /\ \E v \in {"timed_out", "failed"} : Judge(t, v)
  /\ Terminate(t)
  /\ UNCHANGED <<made, current, history, record, job, killing>>

\* Defect: an exception ends the thread.
FailSilently(t) ==
  /\ pc[t] = "fail" /\ Goto(t, "done") /\ Terminate(t)
  /\ UNCHANGED <<made, current, history, record, job, verdict, killing>>

\* The handler of any other exception.
Fail(t) ==
  /\ pc[t] = "fail" /\ Judge(t, "failed") /\ Terminate(t)
  /\ UNCHANGED <<made, current, history, record, job, killing>>

Report(t) ==
  /\ pc[t] = "report" /\ Goto(t, "done")
  /\ status' = [status EXCEPT ![job[t]] = IF @ = "cancelled" THEN @ ELSE verdict[t]]
  /\ verdict' = [verdict EXCEPT ![t] = "none"]
  /\ UNCHANGED <<made, current, history, id, process, job, child, killing, unverified>>

--------------------------------------------------------------------------------
(* cancel                                                                  *)

Cancel(i) ==
  /\ IsCurrent(i) /\ status[current] = "running"
  /\ status' = [status EXCEPT ![current] = "cancelled"]
  /\ killing' = IF process[current] # 0 THEN killing \cup {process[current]} ELSE killing
  /\ UNCHANGED <<made, current, history, id, process, pc, job, verdict, child, unverified>>

\* An error is noted in the record and otherwise ignored.
CancelTerminates(t) ==
  /\ t \in killing /\ killing' = killing \ {t}
  /\ Terminate(t)
  /\ UNCHANGED <<made, current, history, record, pc, job, verdict>>

--------------------------------------------------------------------------------

Thread(t) ==
  \/ Begin(t) \/ StartFails(t) \/ Spawn(t) \/ SpawnFails(t) \/ Register(t) \/ Discard(t)
  \/ Release(t) \/ Waited(t) \/ Limit(t) \/ Fail(t) \/ Report(t)

Next ==
  \/ \E i \in Jobs : Execute(i) \/ Cancel(i)
  \/ \E t \in Jobs : Thread(t) \/ ChildExits(t) \/ CancelTerminates(t)

Spec == Init /\ [][Next]_vars

\* Threads run; no command need end by itself, but its time does.
FairSpec ==
  Spec /\ \A t \in Jobs : WF_vars(Thread(t)) /\ WF_vars(CancelTerminates(t))

--------------------------------------------------------------------------------
(* Properties.                                                             *)

\* No other execution got the id of this one, which it is looked up by (lines 835 and 888).
Unshared(j) == \A k \in 1 .. made : id[k] = id[j] => k = j

\* What the history says of a job stays true of its record, although threads may
\* still write to it after a copy was archived (lines 827-830).  The exception is a
\* job whose command was executed again within the second: a thread that finds the
\* record of the other execution under its id works on that one.
HistoryTrue ==
  \A k \in DOMAIN history :
    Unshared(history[k].job) => history[k].status = status[history[k].job]

\* A child whose job is cancelled is not left alone.
Pursued(t) ==
  child[t] = "running" /\ status[job[t]] = "cancelled" => t \in killing \cup unverified

\* A cancelled command does not run on unattended: if it still runs, a cancel()
\* is about to terminate it or has failed to; with the same exception.
CancelledIsStopped == \A t \in Jobs : job[t] # 0 /\ Unshared(job[t]) => Pursued(t)

\* The same if job_id were what it is called, "Unique identifier for this execution"
\* (line 796), so that cancel(job_id) reaches whatever runs for that job.
EveryCancelStops == \A t \in Jobs : job[t] # 0 => Pursued(t)

\* Every job ends.
JobsEnd == \A j \in Jobs : status[j] = "running" ~> status[j] \in Ended

\* No child outlives its job, unless its termination raised.
ChildrenEnd == \A t \in Jobs : Alive(t) ~> (~Alive(t) \/ t \in unverified)

================================================================================
