------------------------------ MODULE JobQueue ------------------------------
(***************************************************************************)
(* The task manager around River: worker processes that boot, register a   *)
(* heartbeat, rescue the jobs of dead workers, keep beating, shut down or  *)
(* crash; and the operator's rescue and cancel calls.  River's own part    *)
(* (fetching, recording outcomes, retries, its rescuer) is modelled as far *)
(* as the task manager relies on it.                                       *)
(*                                                                         *)
(* A worker is one incarnation of a process: client.ID() holds the time of *)
(* its start, so that a restarted process is another worker.  Time is      *)
(* discrete; ages count from the last heartbeat.                           *)
(***************************************************************************)
EXTENDS Naturals, FiniteSets

CONSTANTS
    Workers,     \* the process incarnations
    Jobs,        \* the river_job rows
    UniqueJobs,  \* those with a unique_key
    NoWorker,    \* attempted_by of a job that was never fetched
    MaxAttempts, \* max_attempts
    Interval,    \* task.heartbeat_interval
    Timeout,     \* task.heartbeat_timeout
    Thresholds,  \* the older_than of operators; absent means ten minutes
    Slack,       \* bound on the delay of a heartbeat, and on the boot
    Horizon,     \* ages are counted up to here
    RescueOnStartup,
    MaxFaults,   \* bound on crashes and failing statements
    MaxCalls     \* bound on the operator's calls

ASSUME JobsAssumption == UniqueJobs \subseteq Jobs /\ NoWorker \notin Workers
ASSUME TimesAssumption ==
    /\ Interval \in Nat /\ Timeout \in Nat /\ Slack \in Nat /\ Horizon \in Nat
    /\ Thresholds \subseteq Nat
    /\ \A t \in Thresholds \cup {Timeout} : t <= Horizon
ASSUME BoundsAssumption ==
    MaxAttempts \in Nat /\ MaxFaults \in Nat /\ MaxCalls \in Nat

VARIABLES
    phase,       \* where each worker is between boot and exit
    rows,        \* the workers with a row in okt_worker_heartbeat
    age,         \* time since last_heartbeat, up to Horizon
    due,         \* time since the heartbeat ticker last fired (or registered)
    missed,      \* the workers whose last heartbeat statement failed
    jstate,      \* river_job.state
    owner,       \* the last element of attempted_by
    attempt,     \* river_job.attempt
    cancel,      \* the jobs with cancel_attempted_at in their metadata
    exec,        \* the calls of Work under way <<worker, job, attempt>>
    faults, calls

vars == <<phase, rows, age, due, missed, jstate, owner, attempt, cancel, exec,
          faults, calls>>

workerVars == <<phase, rows, age, due, missed>>
jobVars == <<jstate, owner, attempt, cancel, exec>>

Final == {"completed", "cancelled", "discarded"}
Serving == {"fetching", "registered", "up"}

Fault == faults < MaxFaults /\ faults' = faults + 1
NoFault == faults' = faults

-----------------------------------------------------------------------------
(* Boot and heartbeat                                                      *)

(* client.Start: from here on the worker fetches jobs.                     *)
StartClient(w) ==
    /\ phase[w] = "off"
    /\ phase' = [phase EXCEPT ![w] = "fetching"]
    /\ UNCHANGED <<rows, age, due, missed, jobVars, faults, calls>>

(* registerHeartbeat; a failure is logged.                                 *)
Register(w) ==
    /\ phase[w] = "fetching"
    /\ phase' = [phase EXCEPT ![w] = "registered"]
    /\ due' = [due EXCEPT ![w] = 0]
    /\ \/ /\ rows' = rows \cup {w} /\ age' = [age EXCEPT ![w] = 0]
          /\ NoFault
       \/ rows' = rows /\ age' = age /\ Fault
    /\ UNCHANGED <<missed, jobVars, calls>>

(* The owners a rescue with threshold t takes for alive, and the jobs it   *)
(* takes from all others.                                                  *)
(* mutant: the interval in place of the threshold.                         *)
FreshByInterval(t) == {w \in rows : age[w] < Interval}
Fresh(t) == {w \in rows : age[w] < t}
(* mutant: unique jobs are rescued too.                                    *)
OrphansAndUnique(t) == {j \in Jobs : jstate[j] = "running"
                                     /\ owner[j] \notin Fresh(t)}
Orphans(t) == {j \in Jobs \ UniqueJobs : jstate[j] = "running"
                                         /\ owner[j] \notin Fresh(t)}
(* mutant: River's state of a job that waits for another step.             *)
RescuedPending(t) == [j \in Jobs |-> IF j \in Orphans(t) THEN "pending"
                                                        ELSE jstate[j]]
Rescued(t) == [j \in Jobs |-> IF j \in Orphans(t) THEN "available"
                                                 ELSE jstate[j]]

(* The startup rescue, then the heartbeat goroutine.  What the boot does   *)
(* between them, SweepStaleUniqueKeyJobs, deletes rows of finished jobs    *)
(* only.                                                                   *)
StartupRescue(w) ==
    /\ phase[w] = "registered"
    /\ phase' = [phase EXCEPT ![w] = "up"]
    /\ due' = [due EXCEPT ![w] = 0]
    /\ \/ /\ jstate' = IF RescueOnStartup THEN Rescued(Timeout) ELSE jstate
          /\ NoFault
       \/ RescueOnStartup /\ jstate' = jstate /\ Fault
    /\ UNCHANGED <<rows, age, missed, owner, attempt, cancel, exec, calls>>

(* A tick of runHeartbeat is an UPDATE: without a row it does nothing.     *)
Beat(w) ==
    /\ phase[w] = "up" /\ due[w] >= Interval
    /\ due' = [due EXCEPT ![w] = @ - Interval]
    /\ \/ /\ age' = IF w \in rows THEN [age EXCEPT ![w] = 0] ELSE age
          /\ missed' = missed \ {w}
          /\ NoFault
       \/ age' = age /\ missed' = missed \cup {w} /\ Fault
    /\ UNCHANGED <<phase, rows, jobVars, calls>>

(* A beat is at most Slack late, and so is the end of the boot.            *)
InTime(w) == CASE phase[w] = "up" -> due[w] < Interval + Slack
               [] phase[w] = "registered" -> due[w] < Slack
               [] OTHER -> TRUE

Older(n) == IF n < Horizon THEN n + 1 ELSE n

Tick ==
    /\ \A w \in Workers : InTime(w)
    /\ age' = [w \in Workers |-> IF w \in rows THEN Older(age[w]) ELSE age[w]]
    /\ due' = [w \in Workers |-> IF phase[w] \in {"registered", "up"}
                                   THEN due[w] + 1 ELSE due[w]]
    /\ age' # age \/ due' # due
    /\ UNCHANGED <<phase, rows, missed, jobVars, faults, calls>>

-----------------------------------------------------------------------------
(* Shutdown and crash                                                      *)

(* The ticker of a worker that beats no more is forgotten.                 *)
Silent(w) == due' = [due EXCEPT ![w] = 0] /\ missed' = missed \ {w}

(* The signal cancels the context of Start, wherever it is: no more        *)
(* fetching, no more heartbeats, while the HTTP server drains.             *)
Signal(w) ==
    /\ phase[w] \in Serving
    /\ phase' = [phase EXCEPT ![w] = "closing"]
    /\ Silent(w)
    /\ UNCHANGED <<rows, age, jobVars, faults, calls>>

(* Stop deletes the heartbeat row first, and then waits for the jobs.      *)
Deregister(w) ==
    /\ phase[w] = "closing"
    /\ phase' = [phase EXCEPT ![w] = "draining"]
    /\ \/ rows' = rows \ {w} /\ age' = [age EXCEPT ![w] = 0] /\ NoFault
       \/ rows' = rows /\ age' = age /\ Fault
    /\ UNCHANGED <<due, missed, jobVars, calls>>

ExecOf(w) == {e \in exec : e[1] = w}

Exit(w) ==
    /\ phase[w] = "draining" /\ ExecOf(w) = {}
    /\ phase' = [phase EXCEPT ![w] = "gone"]
    /\ UNCHANGED <<rows, age, due, missed, jobVars, faults, calls>>

Crash(w) ==
    /\ phase[w] \notin {"off", "gone"}
    /\ phase' = [phase EXCEPT ![w] = "gone"]
    /\ exec' = exec \ ExecOf(w)
    /\ Silent(w)
    /\ Fault
    /\ UNCHANGED <<rows, age, jstate, owner, attempt, cancel, calls>>

-----------------------------------------------------------------------------
(* River                                                                   *)

(* Attempts beyond the last one are all the same.                          *)
NextAttempt(n) == IF n < MaxAttempts THEN n + 1 ELSE n

Fetch(w, j) ==
    /\ phase[w] \in Serving
    /\ jstate[j] = "available"
    /\ jstate' = [jstate EXCEPT ![j] = "running"]
    /\ owner' = [owner EXCEPT ![j] = w]
    /\ attempt' = [attempt EXCEPT ![j] = NextAttempt(@)]
    /\ exec' = exec \cup {<<w, j, NextAttempt(attempt[j])>>}
    /\ UNCHANGED <<workerVars, cancel, faults, calls>>

(* The state of a job after an attempt that did not succeed.               *)
AfterFailure(j, n) == IF j \in cancel THEN "cancelled"
                      ELSE IF n >= MaxAttempts THEN "discarded"
                      ELSE "retryable"

(* The end of Work.  An outcome is recorded only while the job is running, *)
(* whoever runs it.                                                        *)
Finish(e) ==
    /\ exec' = exec \ {e}
    /\ \E outcome \in {"completed", AfterFailure(e[2], e[3])} :
          jstate' = [jstate EXCEPT ![e[2]] = IF @ = "running" THEN outcome
                                                              ELSE @]
    /\ UNCHANGED <<workerVars, owner, attempt, cancel, faults, calls>>

RetryDue(j) ==
    /\ jstate[j] = "retryable"
    /\ jstate' = [jstate EXCEPT ![j] = "available"]
    /\ UNCHANGED <<workerVars, owner, attempt, cancel, exec, faults, calls>>

(* River's rescuer takes running jobs older than the job timeout and an    *)
(* hour: nothing executes them any more.                                   *)
RiverRescue(j) ==
    /\ jstate[j] = "running"
    /\ \A e \in exec : e[2] # j
    /\ jstate' = [jstate EXCEPT ![j] = AfterFailure(j, attempt[j])]
    /\ UNCHANGED <<workerVars, owner, attempt, cancel, exec, faults, calls>>

-----------------------------------------------------------------------------
(* The operator                                                            *)

(* Some process still serves HTTP.                                         *)
Call ==
    /\ \E w \in Workers : phase[w] \notin {"draining", "gone"}
    /\ calls < MaxCalls /\ calls' = calls + 1

(* mutant: every running job without a unique key, whoever owns it.        *)
RescueStuckJobsAll ==
    /\ Call
    /\ jstate' = [j \in Jobs |-> IF jstate[j] = "running" /\ j \notin UniqueJobs
                                  THEN "available" ELSE jstate[j]]
    /\ UNCHANGED <<workerVars, owner, attempt, cancel, exec, faults>>

(* POST /admin/tasks/rescue                                                *)
RescueStuckJobs ==
    /\ Call
    /\ \E t \in Thresholds : jstate' = Rescued(t)
    /\ UNCHANGED <<workerVars, owner, attempt, cancel, exec, faults>>

(* POST /admin/tasks/{jobID}/cancel                                        *)
CancelJob(j) ==
    /\ Call
    /\ jstate[j] \notin Final
    /\ cancel' = cancel \cup {j}
    /\ jstate' = [jstate EXCEPT ![j] = IF @ = "running" THEN @ ELSE "cancelled"]
    /\ UNCHANGED <<workerVars, owner, attempt, exec, faults>>

-----------------------------------------------------------------------------
Init ==
    /\ phase = [w \in Workers |-> "off"]
    /\ rows = {} /\ missed = {} /\ cancel = {} /\ exec = {}
    /\ age = [w \in Workers |-> 0] /\ due = [w \in Workers |-> 0]
    /\ jstate = [j \in Jobs |-> "available"]
    /\ owner = [j \in Jobs |-> NoWorker]
    /\ attempt = [j \in Jobs |-> 0]
    /\ faults = 0 /\ calls = 0

Worker(w) == StartClient(w) \/ Register(w) \/ StartupRescue(w) \/ Beat(w)
                \/ Signal(w) \/ Deregister(w) \/ Exit(w) \/ Crash(w)
                \/ (\E j \in Jobs : Fetch(w, j))
River(j) == RetryDue(j) \/ RiverRescue(j)
Operator == RescueStuckJobs \/ (\E j \in Jobs : CancelJob(j))

Next == \/ \E w \in Workers : Worker(w)
        \/ \E e \in exec : Finish(e)
        \/ \E j \in Jobs : River(j)
        \/ Operator \/ Tick

Spec == Init /\ [][Next]_vars

-----------------------------------------------------------------------------
(* Properties                                                              *)

Phases == {"off", "fetching", "registered", "up", "closing", "draining", "gone"}
States == {"available", "running", "retryable"} \cup Final

TypeOK ==
    /\ phase \in [Workers -> Phases]
    /\ rows \subseteq Workers /\ missed \subseteq Workers
    /\ age \in [Workers -> 0..Horizon] /\ due \in [Workers -> Nat]
    /\ jstate \in [Jobs -> States]
    /\ owner \in [Jobs -> Workers \cup {NoWorker}]
    /\ attempt \in [Jobs -> 0..MaxAttempts]
    /\ cancel \subseteq Jobs
    /\ exec \subseteq Workers \X Jobs \X (0..MaxAttempts)
    /\ faults \in 0..MaxFaults /\ calls \in 0..MaxCalls

(* A worker that has registered, is not shutting down and whose last       *)
(* heartbeat statement did not fail.                                       *)
Healthy(w) == phase[w] \in {"registered", "up"} /\ w \in rows \ missed

(* Requeued(j): the step takes the running job j from its owner.           *)
Requeued(j) == jstate[j] = "running" /\ jstate'[j] = "available"

(* No rescue takes a job from a healthy worker, although heartbeats may be *)
(* late and the first one comes an interval after the boot.                *)
(* RescueOrphanedJobs, RescueStuckJobs and heartbeatTimeout.               *)
RescueSparesHealthy ==
    [][\A j \in Jobs : Requeued(j) => ~Healthy(owner[j])]_vars

(* A unique job is never executed twice at a time, whatever crashes, is    *)
(* rescued or shuts down: this is what keeps refreshes of one database     *)
(* from running into each other.  RescueOrphanedJobs leaves it to River.   *)
UniqueRunsAlone ==
    \A d, e \in exec : d[2] = e[2] /\ d[2] \in UniqueJobs => d = e

(* What the comments of Manager.Start and of 0032_worker_heartbeat.up.sql  *)
(* say of the boot: the jobs of dead workers are requeued.                 *)
BootRequeues ==
    [][\A w \in Workers : phase[w] = "registered" /\ phase'[w] = "up" =>
          \A j \in Jobs \ UniqueJobs :
              jstate'[j] = "running" => phase[owner[j]] # "gone"]_vars
=============================================================================
