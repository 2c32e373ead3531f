--------------------------- MODULE JobQueueProofs ---------------------------
(* Theorems about JobQueue, for every number of workers, jobs, faults and  *)
(* calls, and every setting of the heartbeat.                              *)
EXTENDS JobQueue, TLAPS

(* The disjuncts of Next one by one: each lemma about a step is a lemma    *)
(* about one of them.                                                      *)
LEMMA Steps ==
  ASSUME Next
  PROVE  \/ \E w \in Workers :
               \/ StartClient(w) \/ Register(w) \/ StartupRescue(w)
               \/ Beat(w) \/ Signal(w) \/ Deregister(w) \/ Exit(w) \/ Crash(w)
         \/ \E w \in Workers, j \in Jobs : Fetch(w, j)
         \/ \E e \in exec : Finish(e)
         \/ \E j \in Jobs : RetryDue(j) \/ RiverRescue(j) \/ CancelJob(j)
         \/ RescueStuckJobs \/ Tick
  BY DEF Next, Worker, River, Operator

-----------------------------------------------------------------------------
(* Type correctness                                                        *)

LEMMA Bounds ==
  ASSUME TypeOK
  PROVE  /\ Fault \/ NoFault => faults' \in 0..MaxFaults
         /\ Call => calls' \in 0..MaxCalls
  BY BoundsAssumption DEF TypeOK, Fault, NoFault, Call

LEMMA RescuedType ==
  ASSUME TypeOK, NEW t
  PROVE  Rescued(t) \in [Jobs -> States]
  BY DEF TypeOK, Rescued, States

LEMMA FailureType ==
  ASSUME NEW j, NEW n
  PROVE  AfterFailure(j, n) \in {"cancelled", "discarded", "retryable"}
  BY DEF AfterFailure

LEMMA WorkerTypes ==
  ASSUME TypeOK, NEW w \in Workers,
         \/ StartClient(w) \/ Register(w) \/ StartupRescue(w)
         \/ Beat(w) \/ Signal(w) \/ Deregister(w) \/ Exit(w) \/ Crash(w)
  PROVE  TypeOK'
<1> USE DEF TypeOK, Phases, workerVars, jobVars
<1>1. CASE StartClient(w)
  BY <1>1 DEF StartClient
<1>2. CASE Register(w)
  BY <1>2, Bounds, TimesAssumption DEF Register
<1>3. CASE StartupRescue(w)
  BY <1>3, Bounds, RescuedType DEF StartupRescue
<1>4. CASE Beat(w)
  <2>1. due' \in [Workers -> Nat]
    BY <1>4, TimesAssumption DEF Beat
  <2> QED
    BY <1>4, <2>1, Bounds, TimesAssumption DEF Beat
<1>5. CASE Signal(w)
  BY <1>5 DEF Signal, Silent
<1>6. CASE Deregister(w)
  BY <1>6, Bounds, TimesAssumption DEF Deregister
<1>7. CASE Exit(w)
  BY <1>7 DEF Exit
<1>8. CASE Crash(w)
  BY <1>8, Bounds DEF Crash, Silent, ExecOf
<1> QED
  BY <1>1, <1>2, <1>3, <1>4, <1>5, <1>6, <1>7, <1>8

LEMMA JobTypes ==
  ASSUME TypeOK, NEW j \in Jobs,
         \/ \E w \in Workers : Fetch(w, j)
         \/ \E e \in exec : e[2] = j /\ Finish(e)
         \/ RetryDue(j) \/ RiverRescue(j) \/ CancelJob(j)
  PROVE  TypeOK'
<1> USE DEF TypeOK, workerVars, jobVars
<1>1. ASSUME NEW w \in Workers, Fetch(w, j)
      PROVE  TypeOK'
  <2>1. NextAttempt(attempt[j]) \in 0..MaxAttempts
    BY BoundsAssumption DEF NextAttempt
  <2> QED
    BY <1>1, <2>1 DEF Fetch, States
<1>2. ASSUME NEW e \in exec, Finish(e)
      PROVE  TypeOK'
  <2>1. AfterFailure(e[2], e[3]) \in States
    BY FailureType DEF States, Final
  <2> QED
    BY <1>2, <2>1 DEF Finish, States, Final
<1>3. CASE RetryDue(j)
  BY <1>3 DEF RetryDue, States
<1>4. CASE RiverRescue(j)
  <2>1. AfterFailure(j, attempt[j]) \in States
    BY FailureType DEF States, Final
  <2> QED
    BY <1>4, <2>1 DEF RiverRescue
<1>5. CASE CancelJob(j)
  BY <1>5, Bounds DEF CancelJob, States, Final
<1> QED
  BY <1>1, <1>2, <1>3, <1>4, <1>5

LEMMA TypeStep ==
  ASSUME TypeOK, [Next]_vars
  PROVE  TypeOK'
<1>1. CASE RescueStuckJobs
  BY <1>1, Bounds, RescuedType DEF RescueStuckJobs, TypeOK, workerVars
<1>2. CASE Tick
  <2>1. age' \in [Workers -> 0..Horizon]
    BY <1>2, TimesAssumption DEF Tick, Older, TypeOK
  <2>2. due' \in [Workers -> Nat]
    BY <1>2 DEF Tick, TypeOK
  <2> QED
    BY <1>2, <2>1, <2>2 DEF Tick, TypeOK, jobVars
<1>3. CASE UNCHANGED vars
  BY <1>3 DEF TypeOK, vars
<1>4. ASSUME NEW e \in exec, Finish(e)
      PROVE  TypeOK'
  <2>1. e[2] \in Jobs
    BY DEF TypeOK
  <2> QED
    BY <1>4, <2>1, JobTypes
<1> QED
  BY <1>1, <1>2, <1>3, <1>4, Steps, WorkerTypes, JobTypes

(* Every reachable state has the types of TypeOK.                          *)
THEOREM TypeCorrect == Spec => []TypeOK
<1>1. Init => TypeOK
  BY TimesAssumption, BoundsAssumption
  DEF Init, TypeOK, Phases, States
<1> QED
  BY <1>1, TypeStep, PTL DEF Spec

-----------------------------------------------------------------------------
(* Unique jobs                                                             *)

(* What makes UniqueRunsAlone inductive: while a unique job is executed,   *)
(* its row says so, and only rows that say available are fetched.          *)
UniqueRunning == \A e \in exec : e[2] \in UniqueJobs => jstate[e[2]] = "running"

UniqueInv == TypeOK /\ UniqueRunning /\ UniqueRunsAlone

(* A rescue leaves the states of unique jobs alone.                        *)
LEMMA RescueKeepsUnique ==
  ASSUME TypeOK, NEW t, NEW j \in UniqueJobs
  PROVE  Rescued(t)[j] = jstate[j]
  BY JobsAssumption DEF Rescued, Orphans, TypeOK

LEMMA UniqueFetch ==
  ASSUME UniqueInv, NEW w \in Workers, NEW j \in Jobs, Fetch(w, j)
  PROVE  UniqueRunning' /\ UniqueRunsAlone'
<1> DEFINE call == <<w, j, NextAttempt(attempt[j])>>
<1>1. j \in UniqueJobs => \A e \in exec : e[2] # j
  BY DEF UniqueInv, UniqueRunning, Fetch
<1>2. exec' = exec \cup {call} /\ call[2] = j
  BY DEF Fetch
<1>3. jstate' = [jstate EXCEPT ![j] = "running"] /\ j \in DOMAIN jstate
  BY DEF Fetch, UniqueInv, TypeOK
<1>4. UniqueRunning'
  BY <1>2, <1>3 DEF UniqueInv, UniqueRunning, TypeOK
<1>5. UniqueRunsAlone'
  BY <1>1, <1>2 DEF UniqueInv, UniqueRunsAlone
<1> QED
  BY <1>4, <1>5

LEMMA UniqueFinish ==
  ASSUME UniqueInv, NEW e \in exec, Finish(e)
  PROVE  UniqueRunning' /\ UniqueRunsAlone'
<1>1. exec' = exec \ {e}
  BY DEF Finish
<1>2. ASSUME NEW d \in exec', d[2] \in UniqueJobs
      PROVE  jstate'[d[2]] = "running"
  <2>1. d[2] # e[2]
    BY <1>1, <1>2 DEF UniqueInv, UniqueRunsAlone
  <2>2. d[2] \in Jobs /\ e[2] \in Jobs
    BY <1>1 DEF UniqueInv, TypeOK
  <2> QED
    BY <1>1, <1>2, <2>1, <2>2 DEF UniqueInv, UniqueRunning, Finish, TypeOK
<1> QED
  BY <1>1, <1>2 DEF UniqueInv, UniqueRunning, UniqueRunsAlone

LEMMA UniqueStep ==
  ASSUME UniqueInv, [Next]_vars
  PROVE  UniqueInv'
<1>0. TypeOK'
  BY TypeStep DEF UniqueInv
<1> SUFFICES UniqueRunning' /\ UniqueRunsAlone'
  BY <1>0 DEF UniqueInv
<1> USE DEF UniqueInv, UniqueRunning, UniqueRunsAlone
<1>1. ASSUME NEW t, jstate' = Rescued(t), exec' = exec
      PROVE  UniqueRunning' /\ UniqueRunsAlone'
  BY <1>1, RescueKeepsUnique
<1>2. ASSUME NEW w \in Workers,
             \/ StartClient(w) \/ Register(w) \/ StartupRescue(w)
             \/ Beat(w) \/ Signal(w) \/ Deregister(w) \/ Exit(w) \/ Crash(w)
      PROVE  UniqueRunning' /\ UniqueRunsAlone'
  <2>1. CASE StartClient(w) \/ Register(w) \/ Beat(w) \/ Signal(w)
               \/ Deregister(w) \/ Exit(w)
    BY <2>1 DEF StartClient, Register, Beat, Signal, Deregister, Exit, jobVars
  <2>2. CASE StartupRescue(w)
    BY <2>2, <1>1 DEF StartupRescue
  <2>3. CASE Crash(w)
    BY <2>3 DEF Crash, ExecOf
  <2> QED
    BY <1>2, <2>1, <2>2, <2>3
<1>3. ASSUME NEW j \in Jobs, RetryDue(j) \/ RiverRescue(j) \/ CancelJob(j)
      PROVE  UniqueRunning' /\ UniqueRunsAlone'
  <2>1. CASE RetryDue(j)
    BY <2>1 DEF RetryDue, TypeOK
  <2>2. CASE RiverRescue(j)
    BY <2>2 DEF RiverRescue, TypeOK
  <2>3. CASE CancelJob(j)
    BY <2>3 DEF CancelJob, TypeOK
  <2> QED
    BY <1>3, <2>1, <2>2, <2>3
<1>4. CASE RescueStuckJobs
  BY <1>4, <1>1 DEF RescueStuckJobs
<1>5. CASE Tick \/ UNCHANGED vars
  BY <1>5 DEF Tick, jobVars, vars
<1> QED
  BY <1>2, <1>3, <1>4, <1>5, Steps, UniqueFetch, UniqueFinish

(* A unique job is executed at most once at a time: whatever the timings,  *)
(* the crashes and the calls of operators.                                 *)
THEOREM UniqueTheorem == Spec => []UniqueRunsAlone
<1>1. Init => UniqueInv
  <2>1. Init => TypeOK
    BY TimesAssumption, BoundsAssumption DEF Init, TypeOK, Phases, States
  <2> QED
    BY <2>1 DEF Init, UniqueInv, UniqueRunning, UniqueRunsAlone
<1>2. UniqueInv => UniqueRunsAlone
  BY DEF UniqueInv
<1> QED
  BY <1>1, <1>2, UniqueStep, PTL DEF Spec

-----------------------------------------------------------------------------
(* Healthy workers                                                         *)

(* What clamping the threshold would have to ensure: it exceeds the        *)
(* interval by the delay of the first heartbeat and of the boot.           *)
Margin == \A t \in Thresholds \cup {Timeout} : Interval + 2 * Slack < t

(* A worker has no row before it registers; then, how far its ticker can   *)
(* be, and how old its row at most is.                                     *)
Beating(w) ==
    /\ phase[w] \in {"off", "fetching"} => w \notin rows
    /\ phase[w] = "registered" => due[w] <= Slack
    /\ phase[w] = "up" => due[w] <= Interval + Slack
    /\ Healthy(w) => age[w] <= due[w]
                                 + (IF phase[w] = "up" THEN Slack ELSE 0)

BeatInv == TypeOK /\ \A w \in Workers : Beating(w)

LEMMA BeatStep ==
  ASSUME BeatInv, [Next]_vars
  PROVE  BeatInv'
<1>0. TypeOK'
  BY TypeStep DEF BeatInv
<1> SUFFICES ASSUME NEW w \in Workers
             PROVE  Beating(w)'
  BY <1>0 DEF BeatInv
<1>b. TypeOK /\ Beating(w) /\ Interval \in Nat /\ Slack \in Nat
  BY TimesAssumption DEF BeatInv
<1>1. CASE UNCHANGED workerVars
  BY <1>1, <1>b DEF workerVars, Beating, Healthy
<1>2. CASE Tick
  <2>1. CASE phase[w] = "up"
    BY <1>2, <1>b, <2>1 DEF Tick, InTime, Older, Beating, Healthy, TypeOK
  <2>2. CASE phase[w] = "registered"
    BY <1>2, <1>b, <2>2 DEF Tick, InTime, Older, Beating, Healthy, TypeOK
  <2> QED
    BY <1>2, <1>b, <2>1, <2>2 DEF Tick, Beating, Healthy
<1>3. ASSUME NEW v \in Workers,
             \/ StartClient(v) \/ Register(v) \/ StartupRescue(v)
             \/ Beat(v) \/ Signal(v) \/ Deregister(v) \/ Exit(v) \/ Crash(v)
      PROVE  Beating(w)'
  <2>1. CASE v # w
    <3>1. /\ phase'[w] = phase[w] /\ due'[w] = due[w] /\ age'[w] = age[w]
          /\ w \in rows' <=> w \in rows
          /\ w \in missed' <=> w \in missed
      BY <1>3, <1>b, <2>1
      DEF StartClient, Register, StartupRescue, Beat, Signal, Deregister,
          Exit, Crash, Silent, TypeOK
    <3> QED
      BY <1>b, <3>1 DEF Beating, Healthy
  <2>2. CASE v = w
    <3>1. CASE Register(w)
      BY <1>b, <3>1 DEF Register, Beating, Healthy, TypeOK
    <3>2. CASE StartupRescue(w)
      BY <1>b, <3>2 DEF StartupRescue, Beating, Healthy, TypeOK
    <3>3. CASE Beat(w)
      BY <1>b, <3>3 DEF Beat, Beating, Healthy, TypeOK
    <3>4. CASE StartClient(w) \/ Signal(w) \/ Deregister(w) \/ Exit(w)
                 \/ Crash(w)
      BY <1>b, <3>4
      DEF StartClient, Signal, Deregister, Exit, Crash, Beating, Healthy,
          TypeOK
    <3> QED
      BY <1>3, <2>2, <3>1, <3>2, <3>3, <3>4
  <2> QED
    BY <2>1, <2>2
<1>4. ASSUME NEW j \in Jobs, RetryDue(j) \/ RiverRescue(j) \/ CancelJob(j)
      PROVE  Beating(w)'
  BY <1>1, <1>4 DEF RetryDue, RiverRescue, CancelJob
<1>5. ASSUME \/ \E v \in Workers, j \in Jobs : Fetch(v, j)
             \/ \E e \in exec : Finish(e)
             \/ RescueStuckJobs
      PROVE  Beating(w)'
  BY <1>1, <1>5 DEF Fetch, Finish, RescueStuckJobs
<1>6. CASE UNCHANGED vars
  BY <1>1, <1>6 DEF vars, workerVars
<1> QED
  BY <1>2, <1>3, <1>4, <1>5, <1>6, Steps

(* With the margin, a healthy worker is fresh for every threshold in use.  *)
LEMMA HealthyIsFresh ==
  ASSUME BeatInv, Margin, NEW w \in Workers, Healthy(w),
         NEW t \in Thresholds \cup {Timeout}
  PROVE  w \in Fresh(t)
<1>1. /\ Interval \in Nat /\ Slack \in Nat /\ t \in Nat
      /\ Interval + 2 * Slack < t
  BY TimesAssumption DEF Margin
<1>2. Beating(w) /\ age[w] \in Nat /\ due[w] \in Nat
  BY TimesAssumption DEF BeatInv, TypeOK
<1>3. age[w] <= Interval + 2 * Slack
  BY <1>1, <1>2 DEF Beating, Healthy
<1> QED
  BY <1>1, <1>2, <1>3 DEF Fresh, Healthy

LEMMA RescueStep ==
  ASSUME BeatInv, Margin, [Next]_vars, NEW j \in Jobs, Requeued(j)
  PROVE  ~Healthy(owner[j])
<1>1. ASSUME NEW t \in Thresholds \cup {Timeout}, jstate' = Rescued(t)
      PROVE  ~Healthy(owner[j])
  <2>1. owner[j] \notin Fresh(t)
    BY <1>1 DEF Requeued, Rescued, Orphans
  <2>2. Healthy(owner[j]) => owner[j] \in Workers
    BY DEF Healthy, BeatInv, TypeOK
  <2> QED
    BY <2>1, <2>2, HealthyIsFresh
<1>2. ASSUME NEW w \in Workers,
             \/ StartClient(w) \/ Register(w) \/ StartupRescue(w)
             \/ Beat(w) \/ Signal(w) \/ Deregister(w) \/ Exit(w) \/ Crash(w)
      PROVE  ~Healthy(owner[j])
  <2>1. CASE StartupRescue(w)
    BY <1>1, <2>1 DEF StartupRescue, Requeued
  <2> QED
    BY <1>2, <2>1
    DEF StartClient, Register, Beat, Signal, Deregister, Exit, Crash,
        jobVars, Requeued
<1>3. CASE RescueStuckJobs
  BY <1>1, <1>3 DEF RescueStuckJobs
<1>4. ASSUME NEW w \in Workers, NEW i \in Jobs, Fetch(w, i)
      PROVE  FALSE
  BY <1>4 DEF Fetch, Requeued, BeatInv, TypeOK
<1>5. ASSUME NEW e \in exec, Finish(e)
      PROVE  FALSE
  BY <1>5, FailureType DEF Finish, Requeued, BeatInv, TypeOK
<1>6. ASSUME NEW i \in Jobs, RetryDue(i) \/ RiverRescue(i) \/ CancelJob(i)
      PROVE  FALSE
  BY <1>6, FailureType
  DEF RetryDue, RiverRescue, CancelJob, Requeued, BeatInv, TypeOK
<1>7. CASE Tick \/ UNCHANGED vars
  BY <1>7 DEF Tick, vars, jobVars, Requeued
<1> QED
  BY <1>2, <1>3, <1>4, <1>5, <1>6, <1>7, Steps

(* If every threshold leaves the margin, no rescue ever takes a job from a *)
(* healthy worker.  The run with a timeout of one interval shows that the  *)
(* margin cannot be left to the code.                                      *)
THEOREM HealthyTheorem == ASSUME Margin PROVE Spec => RescueSparesHealthy
<1>1. Init => BeatInv
  <2>1. Init => TypeOK
    BY TimesAssumption, BoundsAssumption DEF Init, TypeOK, Phases, States
  <2> QED
    BY <2>1 DEF Init, BeatInv, Beating, Healthy
<1>2. BeatInv /\ [Next]_vars => BeatInv'
  BY BeatStep
<1>3. BeatInv /\ [Next]_vars =>
        [\A j \in Jobs : Requeued(j) => ~Healthy(owner[j])]_vars
  BY RescueStep
<1> QED
  BY <1>1, <1>2, <1>3, PTL DEF Spec, RescueSparesHealthy
=============================================================================
