--------------------- MODULE ConsolidationQueueSafety ---------------------
(***************************************************************************)
(* Safety of the consolidation queue, for any number of servers, sessions, *)
(* attempts, crashes, shutdowns and lost updates.                          *)
(*                                                                         *)
(* Every step is one of three things to a job and the workers' claims:     *)
(* quiet, a claim, or the settling of a job by the holder of its claim     *)
(* (StepCases).  The inductive invariant is then checked once per case.    *)
(*                                                                         *)
(* Two more invariants hold under a condition on the constants, without    *)
(* which TLC refutes them: while there is one scope, ends are queued       *)
(* (EndsInv); with one server that handles one hook event at a time,       *)
(* completed generations are covered by their page (CoverInv).             *)
(***************************************************************************)
EXTENDS ConsolidationQueueProofs

\* A worker at work goes on with the same claim, or stops working.
Keeps(v) ==
    Working(v)' => /\ Working(v)
                   /\ worker'[v].session = worker[v].session
                   /\ worker'[v].generation = worker[v].generation
                   /\ worker'[v].attempts = worker[v].attempts
                   /\ worker'[v].claim = worker[v].claim

JobKeeps(t, h) ==
    /\ jobs'[t][h].state = jobs[t][h].state
    /\ jobs'[t][h].attempts = jobs[t][h].attempts
    /\ jobs'[t][h].claim = jobs[t][h].claim
    /\ failures'[t][h] = failures[t][h]

\* A new row, or an older pending row superseded.
Queued(t, h) ==
    /\ failures'[t][h] = failures[t][h]
    /\ \/ /\ jobs[t][h].state = "none"
          /\ jobs'[t][h].state = "pending"
          /\ jobs'[t][h].attempts = 0
       \/ /\ jobs[t][h].state = "pending"
          /\ jobs'[t][h].state = "superseded"
          /\ jobs'[t][h].attempts = jobs[t][h].attempts

QuietStep ==
    /\ \A v \in Workers : Keeps(v)
    /\ \A t \in Sessions, h \in Generations : JobKeeps(t, h) \/ Queued(t, h)

ClaimStep(w, s, g, c) ==
    /\ Claimable(jobs[s][g])
    /\ jobs'[s][g].state = "running"
    /\ jobs'[s][g].claim = c
    /\ jobs'[s][g].attempts = Charged(jobs[s][g])
    /\ failures'[s][g] = failures[s][g]
    /\ \A t \in Sessions, h \in Generations : t # s \/ h # g => JobKeeps(t, h)
    /\ worker'[w].session = s /\ worker'[w].generation = g
    /\ worker'[w].attempts = Charged(jobs[s][g])
    /\ worker'[w].claim = c
    /\ \A v \in Workers \ {w} : Keeps(v)

SettleStep(w) ==
    LET s == worker[w].session
        g == worker[w].generation
    IN /\ Working(w) /\ ~Working(w)'
       /\ ClaimHolds(w)
       /\ jobs'[s][g].state # "running" /\ jobs'[s][g].state # "none"
       /\ jobs'[s][g].state = "failed" => /\ worker[w].attempts >= MaxAttempts
                                          /\ jobs'[s][g].attempts = jobs[s][g].attempts
       /\ \/ /\ jobs'[s][g].attempts = jobs[s][g].attempts
             /\ failures'[s][g] \in {failures[s][g], failures[s][g] + 1}
          \/ /\ jobs[s][g].attempts > 0
             /\ jobs'[s][g].attempts = jobs[s][g].attempts - 1
             /\ failures'[s][g] = failures[s][g]
       /\ \A t \in Sessions, h \in Generations : t # s \/ h # g => JobKeeps(t, h)
       /\ \A v \in Workers : Keeps(v)

---------------------------------------------------------------------------

\* A step that touches neither jobs nor failures, and starts no work.
LEMMA NoJobChange ==
    ASSUME TypeOK, UNCHANGED <<jobs, failures>>, \A v \in Workers : Keeps(v)
    PROVE  QuietStep
BY DEF QuietStep, JobKeeps

LEMMA SameWorkersKeep ==
    ASSUME UNCHANGED worker
    PROVE  \A v \in Workers : Keeps(v)
BY DEF Keeps, Working

\* A worker that goes idle or down drops its claim, the others keep theirs.
LEMMA StopKeeps ==
    ASSUME TypeOK, NEW w \in Workers, NEW pc \in {"down", "idle"},
           worker' = [worker EXCEPT ![w] = At(pc)]
    PROVE  /\ \A v \in Workers : Keeps(v)
           /\ ~Working(w)'
<1>1. worker \in [Workers -> WorkerRow] /\ At(pc).pc = pc
  BY WorkerRows DEF TypeOK
<1>2. ~Working(w)'
  BY <1>1 DEF Working
<1>3. ASSUME NEW v \in Workers, v # w PROVE Keeps(v)
  BY <1>1, <1>3 DEF Keeps, Working
<1> QED BY <1>2, <1>3 DEF Keeps

\* Settling a job writes nothing unless the claim still holds.
LEMMA SettleCases ==
    ASSUME TypeOK, NEW w \in Workers, NEW row \in JobRow, NEW pc \in {"down", "idle"},
           Working(w), Settle(w, row),
           worker' = [worker EXCEPT ![w] = At(pc)],
           row.state # "running", row.state # "none",
           row.state = "failed" => /\ worker[w].attempts >= MaxAttempts
                                   /\ row.attempts = ClaimedJob(w).attempts,
           \/ /\ row.attempts = ClaimedJob(w).attempts
              /\ \/ UNCHANGED failures
                 \/ failures' = IF ClaimHolds(w)
                                THEN [failures EXCEPT ![worker[w].session]
                                                       [worker[w].generation] = @ + 1]
                                ELSE failures
           \/ /\ ClaimedJob(w).attempts > 0
              /\ row.attempts = ClaimedJob(w).attempts - 1
              /\ UNCHANGED failures
    PROVE  QuietStep \/ SettleStep(w)
<1>1. /\ \A v \in Workers : Keeps(v)
      /\ ~Working(w)'
  BY StopKeeps
<1>2. /\ worker[w].session \in Sessions /\ worker[w].generation \in Generations
      /\ failures \in [Sessions -> [Generations -> Nat]]
      /\ jobs \in [Sessions -> [Generations -> JobRow]]
  BY DEF TypeOK
<1>3. \A t \in Sessions, h \in Generations :
        jobs'[t][h] = IF ClaimHolds(w) /\ t = worker[w].session
                                       /\ h = worker[w].generation
                      THEN row ELSE jobs[t][h]
  BY SettleFacts
<1>4. CASE ~ClaimHolds(w)
  BY <1>1, <1>2, <1>3, <1>4 DEF QuietStep, JobKeeps
<1>5. CASE ClaimHolds(w)
  <2> DEFINE s == worker[w].session
             g == worker[w].generation
  <2>1. jobs'[s][g] = row /\ ClaimedJob(w) = jobs[s][g]
    BY <1>2, <1>3, <1>5 DEF ClaimedJob
  <2>2. /\ failures'[s][g] \in {failures[s][g], failures[s][g] + 1}
        /\ UNCHANGED failures => failures'[s][g] = failures[s][g]
    BY <1>2, <1>5
  <2>3. \A t \in Sessions, h \in Generations : t # s \/ h # g => JobKeeps(t, h)
    BY <1>2, <1>3, <1>5 DEF JobKeeps
  <2> QED BY <1>1, <1>5, <2>1, <2>2, <2>3 DEF SettleStep
<1> QED BY <1>4, <1>5

\* What a step can do to the jobs and to the claims of the workers.
LEMMA StepCases ==
    ASSUME TypeOK, [Next]_queueVars
    PROVE  \/ QuietStep
           \/ \E w \in Workers, s \in Sessions, g \in Generations, c \in FreshClaims :
                ClaimStep(w, s, g, c)
           \/ \E w \in Workers : SettleStep(w)
<1>0. /\ jobs \in [Sessions -> [Generations -> JobRow]]
      /\ worker \in [Workers -> WorkerRow]
      /\ failures \in [Sessions -> [Generations -> Nat]]
  BY DEF TypeOK
<1> USE DEF sessionVars, hookVars, jobVars
<1>1. ASSUME NEW s \in Sessions, Observe(s) PROVE QuietStep
  BY <1>1, NoJobChange, SameWorkersKeep DEF Observe
<1>12. ASSUME NEW h \in Handlers, NEW s \in Sessions,
              \/ AdmitEnd(h, s) \/ ResumeEnd(h, s) \/ ReplayEnd(h, s)
              \/ AdmitCheckpoint(h, s)
       PROVE  QuietStep
  BY <1>12, NoJobChange, SameWorkersKeep
     DEF AdmitEnd, ResumeEnd, ReplayEnd, AdmitCheckpoint
<1>13. ASSUME NEW h \in Handlers,
              \/ HandlerReads(h) \/ WriteHeuristicPage(h) \/ CommitEnd(h) \/ DropEnd(h)
              \/ CheckpointReads(h) \/ WriteCheckpoint(h) \/ FailHandler(h)
       PROVE  QuietStep
  BY <1>13, NoJobChange, SameWorkersKeep
     DEF HandlerReads, WriteHeuristicPage, CommitEnd, DropEnd, CheckpointReads,
         WriteCheckpoint, FailHandler
<1>2. ASSUME NEW s \in Sessions, NEW p \in Scopes, MoveSession(s, p) PROVE QuietStep
  BY <1>2, NoJobChange, SameWorkersKeep DEF MoveSession
<1>3. ASSUME NEW k \in Handlers, Enqueue(k) PROVE QuietStep
  <2>1. ASSUME NEW t \in Sessions, NEW h \in Generations
        PROVE  JobKeeps(t, h) \/ Queued(t, h)
    <3>1. \/ jobs'[t][h] = jobs[t][h]
          \/ /\ jobs[t][h].state = "none"
             /\ jobs'[t][h] = NewJob
          \/ /\ jobs[t][h].state = "pending"
             /\ jobs'[t][h].state = "superseded"
             /\ jobs'[t][h].attempts = jobs[t][h].attempts
      BY <1>3, EnqueueFacts
    <3>2. UNCHANGED failures
      BY <1>3 DEF Enqueue
    <3>3. NewJob.state = "pending" /\ NewJob.attempts = 0
      BY DEF NewJob
    <3> QED BY <3>1, <3>2, <3>3 DEF JobKeeps, Queued
  <2>2. UNCHANGED worker
    BY <1>3 DEF Enqueue
  <2> QED BY <2>1, <2>2, SameWorkersKeep DEF QuietStep
<1>4. ASSUME NEW s \in Sessions, NEW g \in Generations,
             BecomeDue(s, g) \/ LeaseLapses(s, g)
      PROVE  QuietStep
  <2>1. PICK row \in JobRow : /\ Set(s, g, row)
                              /\ row.state = jobs[s][g].state
                              /\ row.attempts = jobs[s][g].attempts
                              /\ row.claim = jobs[s][g].claim
    <3>1. jobs[s][g] \in JobRow
      BY <1>0
    <3>2. CASE BecomeDue(s, g)
      <4> DEFINE row == [jobs[s][g] EXCEPT !.due = TRUE]
      <4>1. /\ row \in JobRow
            /\ row.state = jobs[s][g].state
            /\ row.attempts = jobs[s][g].attempts
            /\ row.claim = jobs[s][g].claim
        BY <3>1, JobRowUpdates DEF JobRow
      <4>2. Set(s, g, row)
        BY <3>2 DEF BecomeDue
      <4> HIDE DEF row
      <4> QED BY <4>1, <4>2
    <3>3. CASE LeaseLapses(s, g)
      <4> DEFINE row == [jobs[s][g] EXCEPT !.stale = TRUE]
      <4>1. /\ row \in JobRow
            /\ row.state = jobs[s][g].state
            /\ row.attempts = jobs[s][g].attempts
            /\ row.claim = jobs[s][g].claim
        BY <3>1, JobRowUpdates DEF JobRow
      <4>2. Set(s, g, row)
        BY <3>3 DEF LeaseLapses
      <4> HIDE DEF row
      <4> QED BY <4>1, <4>2
    <3> QED BY <1>4, <3>2, <3>3
  <2>2. UNCHANGED <<worker, failures>>
    BY <1>4 DEF BecomeDue, LeaseLapses
  <2>3. \A t \in Sessions, h \in Generations : JobKeeps(t, h)
    BY <2>1, <2>2, SetFacts DEF JobKeeps
  <2> QED BY <2>2, <2>3, SameWorkersKeep DEF QuietStep
<1>5. ASSUME NEW w \in Workers, Claim(w)
      PROVE  \E s \in Sessions, g \in Generations, c \in FreshClaims : ClaimStep(w, s, g, c)
  <2>1. PICK s \in Sessions, g \in Generations, c \in FreshClaims :
          /\ Claimable(jobs[s][g])
          /\ Set(s, g, Claimed(jobs[s][g], c))
          /\ worker' = [worker EXCEPT ![w] =
               [pc |-> "claimed", session |-> s, generation |-> g,
                attempts |-> Charged(jobs[s][g]), claim |-> c,
                spent |-> jobs[s][g].state = "pending", snapshot |-> 0]]
    BY <1>5, ClaimFacts
  <2>2. jobs[s][g] \in JobRow /\ c \in Claims
    BY <1>0 DEF FreshClaims
  <2>3. /\ Claimed(jobs[s][g], c) \in JobRow
        /\ Claimed(jobs[s][g], c).state = "running"
        /\ Claimed(jobs[s][g], c).claim = c
        /\ Claimed(jobs[s][g], c).attempts = Charged(jobs[s][g])
    BY <2>2, ClaimedFacts
  <2>4. \A t \in Sessions, h \in Generations :
          jobs'[t][h] = IF t = s /\ h = g THEN Claimed(jobs[s][g], c) ELSE jobs[t][h]
    BY <2>1, <2>3, SetFacts
  <2>5. UNCHANGED failures
    BY <1>5 DEF Claim
  <2>6. \A v \in Workers \ {w} : Keeps(v)
    BY <1>0, <2>1 DEF Keeps, Working
  <2>7. /\ worker'[w].session = s /\ worker'[w].generation = g
        /\ worker'[w].attempts = Charged(jobs[s][g]) /\ worker'[w].claim = c
    BY <1>0, <2>1
  <2>8. \A t \in Sessions, h \in Generations : t # s \/ h # g => JobKeeps(t, h)
    BY <2>4, <2>5 DEF JobKeeps
  <2>9. /\ jobs'[s][g].state = "running" /\ jobs'[s][g].claim = c
        /\ jobs'[s][g].attempts = Charged(jobs[s][g])
        /\ failures'[s][g] = failures[s][g]
    BY <2>3, <2>4, <2>5
  <2> QED BY <2>1, <2>6, <2>7, <2>8, <2>9 DEF ClaimStep
<1>6. ASSUME NEW w \in Workers, ReadObservations(w) \/ WritePage(w) PROVE QuietStep
  <2>1. UNCHANGED <<jobs, failures>>
    BY <1>6 DEF ReadObservations, WritePage
  <2>2. worker[w] \in WorkerRow
    BY <1>0
  <2>3. \A v \in Workers : Keeps(v)
    <3>1. CASE ReadObservations(w)
      <4>1. /\ worker[w].pc = "claimed"
            /\ worker' = [worker EXCEPT ![w] =
                 [worker[w] EXCEPT !.pc = "read", !.snapshot = obs[worker[w].session]]]
        BY <3>1 DEF ReadObservations
      <4> QED BY <1>0, <2>2, <4>1 DEF Keeps, Working, WorkerRow
    <3>2. CASE WritePage(w)
      <4>1. /\ worker[w].pc = "read"
            /\ worker' = [worker EXCEPT ![w] = [worker[w] EXCEPT !.pc = "written"]]
        BY <3>2 DEF WritePage
      <4> QED BY <1>0, <2>2, <4>1 DEF Keeps, Working, WorkerRow
    <3> QED BY <1>6, <3>1, <3>2
  <2> QED BY <2>1, <2>3, NoJobChange
<1>7. ASSUME NEW w \in Workers, Complete(w) PROVE QuietStep \/ SettleStep(w)
  <2> DEFINE row == [ClaimedJob(w) EXCEPT !.state = "completed", !.claim = None]
  <2>1. Working(w)
    BY <1>7 DEF Complete, Working
  <2>2. ClaimedJob(w) \in JobRow
    BY <2>1, SettledRows
  <2>3. /\ row \in JobRow /\ row.state = "completed"
        /\ row.attempts = ClaimedJob(w).attempts
    BY <2>2, JobRowUpdates DEF JobRow
  <2>4. /\ Settle(w, row) /\ UNCHANGED failures
        /\ worker' = [worker EXCEPT ![w] = At("idle")]
    BY <1>7 DEF Complete
  <2> HIDE DEF row
  <2> QED BY <2>1, <2>3, <2>4, SettleCases
<1>8. ASSUME NEW w \in Workers, Fail(w) PROVE QuietStep \/ SettleStep(w)
  <2>1. Working(w) /\ Settle(w, FailedRow(w)) /\ worker' = [worker EXCEPT ![w] = At("idle")]
    BY <1>8 DEF Fail
  <2>2. failures' = IF ClaimHolds(w)
                    THEN [failures EXCEPT ![worker[w].session][worker[w].generation] = @ + 1]
                    ELSE failures
    BY <1>8 DEF Fail
  <2>3. /\ FailedRow(w) \in JobRow
        /\ FailedRow(w).attempts = ClaimedJob(w).attempts
        /\ FailedRow(w).state = IF worker[w].attempts >= MaxAttempts
                                THEN "failed" ELSE "pending"
    BY <2>1, SettledRows
  <2> QED BY <2>1, <2>2, <2>3, SettleCases
<1>9. ASSUME NEW w \in Workers, Release(w) PROVE QuietStep \/ SettleStep(w)
  <2>1. /\ Working(w) /\ Settle(w, ReleasedRow(w)) /\ UNCHANGED failures
        /\ worker' = [worker EXCEPT ![w] = At("down")]
    BY <1>9 DEF Release
  <2>2. /\ ReleasedRow(w) \in JobRow /\ ReleasedRow(w).state = "pending"
        /\ ReleasedRow(w).attempts = Refunded(w)
    BY <2>1, SettledRows
  <2>3. \/ Refunded(w) = ClaimedJob(w).attempts
        \/ ClaimedJob(w).attempts > 0 /\ Refunded(w) = ClaimedJob(w).attempts - 1
    BY DEF Refunded
  <2> QED BY <2>1, <2>2, <2>3, SettleCases
<1>10. ASSUME NEW w \in Workers, Crash(w) \/ LoseUpdate(w) \/ Start(w) PROVE QuietStep
  <2>1. UNCHANGED <<jobs, failures>>
    BY <1>10 DEF Crash, LoseUpdate, Start
  <2>2. \E pc \in {"down", "idle"} : worker' = [worker EXCEPT ![w] = At(pc)]
    BY <1>10 DEF Crash, LoseUpdate, Start
  <2> QED BY <2>1, <2>2, StopKeeps, NoJobChange
<1>11. CASE UNCHANGED queueVars
  BY <1>11, NoJobChange, SameWorkersKeep DEF queueVars
<1> QED BY <1>1, <1>2, <1>3, <1>4, <1>5, <1>6, <1>7, <1>8, <1>9, <1>10, <1>11,
           <1>12, <1>13 DEF Next

---------------------------------------------------------------------------
(* The inductive invariant. *)

\* Claim ids are never shared, and a worker whose claim still holds knows
\* how many attempts its job has been charged.
ClaimsAgree ==
    /\ \A v, w \in Workers :
         Working(v) /\ Working(w) /\ worker[v].claim = worker[w].claim => v = w
    /\ \A w \in Workers :
         Working(w) /\ ClaimHolds(w)
         => worker[w].attempts = jobs[worker[w].session][worker[w].generation].attempts

UnqueuedUntried ==
    \A s \in Sessions, g \in Generations :
        jobs[s][g].state = "none" => failures[s][g] = 0

QInv == TypeOK /\ RetriesBounded /\ ClaimsAgree /\ UnqueuedUntried

LEMMA QInvInit == Init => QInv
<1> SUFFICES ASSUME Init PROVE QInv
  OBVIOUS
<1>1. TypeOK
  BY MaxAssumption, HomeScopeAssumption
  DEF Init, TypeOK, NoJob, JobRow, JobState, At, WorkerRow, Working, Generations,
      NoHandler, HandlerRow
<1>2. RetriesBounded /\ UnqueuedUntried
  BY MaxAssumption DEF Init, NoJob, RetriesBounded, UnqueuedUntried
<1>3. ClaimsAgree
  BY DEF Init, At, Working, ClaimsAgree
<1> QED BY <1>1, <1>2, <1>3 DEF QInv

LEMMA QInvStep == QInv /\ [Next]_queueVars => QInv'
<1> SUFFICES ASSUME QInv, [Next]_queueVars
             PROVE  QInv'
  OBVIOUS
<1>1. TypeOK /\ RetriesBounded /\ ClaimsAgree /\ UnqueuedUntried
  BY DEF QInv
<1>2. TypeOK'
  BY <1>1, TypeStep
<1>3. /\ \A s \in Sessions, g \in Generations :
           /\ jobs[s][g].attempts \in Nat /\ jobs'[s][g].attempts \in Nat
           /\ failures[s][g] \in Nat
      /\ MaxAttempts \in Nat \ {0}
      /\ \A w \in Workers : Working(w) => /\ worker[w].session \in Sessions
                                         /\ worker[w].generation \in Generations
      /\ \A w \in Workers : Working(w)' => /\ worker'[w].session \in Sessions
                                          /\ worker'[w].generation \in Generations
  BY <1>1, <1>2, MaxAssumption DEF TypeOK, JobRow
<1>4. CASE QuietStep
  <2>1. ASSUME NEW s \in Sessions, NEW g \in Generations
        PROVE  /\ jobs'[s][g].attempts <= MaxAttempts
               /\ failures'[s][g] <= jobs'[s][g].attempts
               /\ jobs'[s][g].state = "running" => failures'[s][g] < jobs'[s][g].attempts
               /\ jobs'[s][g].state = "failed" => jobs'[s][g].attempts = MaxAttempts
               /\ jobs'[s][g].state = "none" => failures'[s][g] = 0
    <3>1. JobKeeps(s, g) \/ Queued(s, g)
      BY <1>4 DEF QuietStep
    <3> QED BY <1>1, <1>3, <3>1
            DEF JobKeeps, Queued, RetriesBounded, UnqueuedUntried
  <2>2. ClaimsAgree'
    <3>1. ASSUME NEW v \in Workers, NEW w \in Workers, Working(v)', Working(w)',
                 worker'[v].claim = worker'[w].claim
          PROVE  v = w
      BY <1>1, <1>4, <3>1 DEF QuietStep, Keeps, ClaimsAgree
    <3>2. ASSUME NEW w \in Workers, Working(w)', ClaimHolds(w)'
          PROVE  worker'[w].attempts
                   = jobs'[worker'[w].session][worker'[w].generation].attempts
      <4> DEFINE s == worker[w].session
                 g == worker[w].generation
      <4>1. /\ Working(w) /\ worker'[w].session = s /\ worker'[w].generation = g
            /\ worker'[w].attempts = worker[w].attempts
            /\ worker'[w].claim = worker[w].claim
        BY <1>4, <3>2 DEF QuietStep, Keeps
      <4>2. jobs'[s][g].state = "running" /\ jobs'[s][g].claim = worker[w].claim
        BY <3>2, <4>1 DEF ClaimHolds
      <4>3. s \in Sessions /\ g \in Generations
        BY <1>3, <4>1
      <4>4. JobKeeps(s, g)
        BY <1>4, <4>2, <4>3 DEF QuietStep, Queued
      <4>5. ClaimHolds(w)
        BY <4>2, <4>4 DEF ClaimHolds, JobKeeps
      <4> QED BY <1>1, <4>1, <4>4, <4>5 DEF ClaimsAgree, JobKeeps
    <3> QED BY <3>1, <3>2 DEF ClaimsAgree
  <2> QED BY <1>2, <2>1, <2>2
          DEF QInv, RetriesBounded, UnqueuedUntried
<1>5. ASSUME NEW u \in Workers, NEW s \in Sessions, NEW g \in Generations,
             NEW c \in FreshClaims, ClaimStep(u, s, g, c)
      PROVE  QInv'
  <2>1. ASSUME NEW t \in Sessions, NEW h \in Generations
        PROVE  /\ jobs'[t][h].attempts <= MaxAttempts
               /\ failures'[t][h] <= jobs'[t][h].attempts
               /\ jobs'[t][h].state = "running" => failures'[t][h] < jobs'[t][h].attempts
               /\ jobs'[t][h].state = "failed" => jobs'[t][h].attempts = MaxAttempts
               /\ jobs'[t][h].state = "none" => failures'[t][h] = 0
    <3>1. CASE t # s \/ h # g
      <4>1. JobKeeps(t, h)
        BY <1>5, <3>1 DEF ClaimStep
      <4>2. /\ jobs[t][h].attempts <= MaxAttempts
            /\ failures[t][h] <= jobs[t][h].attempts
            /\ jobs[t][h].state = "running" => failures[t][h] < jobs[t][h].attempts
            /\ jobs[t][h].state = "failed" => jobs[t][h].attempts = MaxAttempts
            /\ jobs[t][h].state = "none" => failures[t][h] = 0
        BY <1>1 DEF RetriesBounded, UnqueuedUntried
      <4> QED BY <4>1, <4>2 DEF JobKeeps
    <3>2. CASE t = s /\ h = g
      <4>1. /\ jobs'[s][g].state = "running"
            /\ jobs'[s][g].attempts = Charged(jobs[s][g])
            /\ failures'[s][g] = failures[s][g]
            /\ Claimable(jobs[s][g])
        BY <1>5 DEF ClaimStep
      <4> QED BY <1>1, <1>3, <3>2, <4>1 DEF Claimable, Charged, RetriesBounded
    <3> QED BY <3>1, <3>2
  <2>2. /\ \A v \in Workers : worker[v].claim # c
        /\ \A t \in Sessions, h \in Generations : jobs[t][h].claim # c
    BY DEF FreshClaims
  <2>3. ASSUME NEW v \in Workers, v # u, Working(v)'
        PROVE  /\ Working(v)
               /\ worker'[v].claim = worker[v].claim /\ worker'[v].claim # c
               /\ worker'[v].session = worker[v].session
               /\ worker'[v].generation = worker[v].generation
               /\ worker'[v].attempts = worker[v].attempts
    BY <1>5, <2>2, <2>3 DEF ClaimStep, Keeps
  <2>4. /\ worker'[u].session = s /\ worker'[u].generation = g
        /\ worker'[u].attempts = jobs'[s][g].attempts
        /\ worker'[u].claim = c
    BY <1>5 DEF ClaimStep
  <2>5. ClaimsAgree'
    <3>1. ASSUME NEW v \in Workers, NEW w \in Workers, Working(v)', Working(w)',
                 worker'[v].claim = worker'[w].claim
          PROVE  v = w
      BY <1>1, <2>3, <2>4, <3>1 DEF ClaimsAgree
    <3>2. ASSUME NEW w \in Workers, Working(w)', ClaimHolds(w)'
          PROVE  worker'[w].attempts
                   = jobs'[worker'[w].session][worker'[w].generation].attempts
      <4>1. CASE w = u
        BY <2>4, <4>1
      <4>2. CASE w # u
        <5> DEFINE t == worker[w].session
                   h == worker[w].generation
        <5>1. /\ Working(w) /\ worker'[w].claim = worker[w].claim /\ worker[w].claim # c
              /\ worker'[w].session = t /\ worker'[w].generation = h
              /\ worker'[w].attempts = worker[w].attempts
          BY <2>3, <3>2, <4>2
        <5>2. jobs'[t][h].state = "running" /\ jobs'[t][h].claim = worker[w].claim
          BY <3>2, <5>1 DEF ClaimHolds
        <5>3. t \in Sessions /\ h \in Generations
          BY <1>3, <5>1
        <5>4. JobKeeps(t, h)
          BY <1>5, <5>1, <5>2, <5>3 DEF ClaimStep
        <5>5. ClaimHolds(w)
          BY <5>2, <5>4 DEF ClaimHolds, JobKeeps
        <5> QED BY <1>1, <5>1, <5>4, <5>5 DEF ClaimsAgree, JobKeeps
      <4> QED BY <4>1, <4>2
    <3> QED BY <3>1, <3>2 DEF ClaimsAgree
  <2> QED BY <1>2, <2>1, <2>5
          DEF QInv, RetriesBounded, UnqueuedUntried
<1>6. ASSUME NEW u \in Workers, SettleStep(u)
      PROVE  QInv'
  <2> DEFINE s == worker[u].session
             g == worker[u].generation
  <2>0. s \in Sessions /\ g \in Generations
    BY <1>3, <1>6 DEF SettleStep
  <2>1. ASSUME NEW t \in Sessions, NEW h \in Generations
        PROVE  /\ jobs'[t][h].attempts <= MaxAttempts
               /\ failures'[t][h] <= jobs'[t][h].attempts
               /\ jobs'[t][h].state = "running" => failures'[t][h] < jobs'[t][h].attempts
               /\ jobs'[t][h].state = "failed" => jobs'[t][h].attempts = MaxAttempts
               /\ jobs'[t][h].state = "none" => failures'[t][h] = 0
    <3>1. CASE t # s \/ h # g
      <4>1. JobKeeps(t, h)
        BY <1>6, <3>1 DEF SettleStep
      <4>2. /\ jobs[t][h].attempts <= MaxAttempts
            /\ failures[t][h] <= jobs[t][h].attempts
            /\ jobs[t][h].state = "running" => failures[t][h] < jobs[t][h].attempts
            /\ jobs[t][h].state = "failed" => jobs[t][h].attempts = MaxAttempts
            /\ jobs[t][h].state = "none" => failures[t][h] = 0
        BY <1>1 DEF RetriesBounded, UnqueuedUntried
      <4> QED BY <4>1, <4>2 DEF JobKeeps
    <3>2. CASE t = s /\ h = g
      <4>1. /\ jobs'[s][g].state # "running" /\ jobs'[s][g].state # "none"
            /\ jobs'[s][g].state = "failed" => /\ worker[u].attempts >= MaxAttempts
                                               /\ jobs'[s][g].attempts = jobs[s][g].attempts
            /\ \/ /\ jobs'[s][g].attempts = jobs[s][g].attempts
                  /\ failures'[s][g] \in {failures[s][g], failures[s][g] + 1}
               \/ /\ jobs[s][g].attempts > 0
                  /\ jobs'[s][g].attempts = jobs[s][g].attempts - 1
                  /\ failures'[s][g] = failures[s][g]
        BY <1>6 DEF SettleStep
      <4>2. jobs[s][g].state = "running" /\ worker[u].attempts = jobs[s][g].attempts
        BY <1>1, <1>6 DEF SettleStep, ClaimHolds, ClaimsAgree
      <4>3. /\ jobs[s][g].attempts <= MaxAttempts
            /\ failures[s][g] < jobs[s][g].attempts
        BY <1>1, <2>0, <4>2 DEF RetriesBounded
      <4>4. /\ jobs[s][g].attempts \in Nat /\ failures[s][g] \in Nat
            /\ jobs'[s][g].attempts \in Nat /\ failures'[s][g] \in Nat
            /\ MaxAttempts \in Nat
        BY <1>3, <2>0, <4>1
      <4> HIDE DEF s, g
      <4>5. jobs'[s][g].attempts <= MaxAttempts /\ failures'[s][g] <= jobs'[s][g].attempts
        BY <4>1, <4>3, <4>4
      <4>6. jobs'[s][g].state = "failed" => jobs'[s][g].attempts = MaxAttempts
        BY <4>1, <4>2, <4>3, <4>4
      <4> QED BY <3>2, <4>1, <4>5, <4>6
    <3> QED BY <3>1, <3>2
  <2>2. ClaimsAgree'
    <3>0. \A v \in Workers : Keeps(v)
      BY <1>6 DEF SettleStep
    <3>1. ASSUME NEW v \in Workers, NEW w \in Workers, Working(v)', Working(w)',
                 worker'[v].claim = worker'[w].claim
          PROVE  v = w
      BY <1>1, <3>0, <3>1 DEF Keeps, ClaimsAgree
    <3>2. ASSUME NEW w \in Workers, Working(w)', ClaimHolds(w)'
          PROVE  worker'[w].attempts
                   = jobs'[worker'[w].session][worker'[w].generation].attempts
      <4> DEFINE t == worker[w].session
                 h == worker[w].generation
      <4>1. /\ Working(w) /\ worker'[w].session = t /\ worker'[w].generation = h
            /\ worker'[w].attempts = worker[w].attempts
            /\ worker'[w].claim = worker[w].claim
        BY <3>0, <3>2 DEF Keeps
      <4>2. jobs'[t][h].state = "running" /\ jobs'[t][h].claim = worker[w].claim
        BY <3>2, <4>1 DEF ClaimHolds
      <4>3. t \in Sessions /\ h \in Generations
        BY <1>3, <4>1
      <4>4. JobKeeps(t, h)
        BY <1>6, <4>2, <4>3 DEF SettleStep
      <4>5. ClaimHolds(w)
        BY <4>2, <4>4 DEF ClaimHolds, JobKeeps
      <4> QED BY <1>1, <4>1, <4>4, <4>5 DEF ClaimsAgree, JobKeeps
    <3> QED BY <3>1, <3>2 DEF ClaimsAgree
  <2> QED BY <1>2, <2>1, <2>2
          DEF QInv, RetriesBounded, UnqueuedUntried
<1> QED BY <1>1, <1>4, <1>5, <1>6, StepCases

\* The strengthening that the theorems below rest on: retry accounting needs
\* to know that the attempts a worker carries are those of the job it holds,
\* and for that, that no two workers ever share a claim id.
THEOREM QueueInvariant == Spec => []QInv
BY QInvInit, QInvStep, PTL DEF Spec

---------------------------------------------------------------------------

\* session_consolidation.rs: however claims, lapsed leases, failures and
\* graceful releases interleave, a job is charged at most MAX_ATTEMPTS
\* attempts, the provider is never asked beyond the attempts charged, and none
\* is given up before every attempt was charged.
THEOREM BoundedRetries == Spec => []RetriesBounded
<1>1. QInv => RetriesBounded
  BY DEF QInv
<1> QED BY <1>1, QueueInvariant, PTL

\* Two servers never both hold the live claim of one job.
THEOREM ExclusiveClaim == Spec => []OneLiveClaim
<1>1. QInv => OneLiveClaim
  BY DEF QInv, ClaimsAgree, OneLiveClaim, ClaimHolds
<1> QED BY <1>1, QueueInvariant, PTL

\* Only the worker whose claim still holds takes a job out of running, and
\* it lets go of the claim in the same step.
THEOREM HolderSettles == Spec => SettledByHolder
<1>1. ASSUME QInv, [Next]_queueVars,
             NEW s \in Sessions, NEW g \in Generations,
             jobs[s][g].state = "running", jobs'[s][g].state # "running"
      PROVE  \E w \in Workers :
               /\ Working(w) /\ ClaimHolds(w)
               /\ worker[w].session = s /\ worker[w].generation = g
               /\ ~Working(w)'
  <2>1. TypeOK
    BY <1>1 DEF QInv
  <2>2. CASE QuietStep
    BY <1>1, <2>2 DEF QuietStep, JobKeeps, Queued
  <2>3. ASSUME NEW w \in Workers, NEW t \in Sessions, NEW h \in Generations,
               NEW c \in FreshClaims, ClaimStep(w, t, h, c)
        PROVE  FALSE
    BY <1>1, <2>3 DEF ClaimStep, JobKeeps
  <2>4. ASSUME NEW w \in Workers, SettleStep(w)
        PROVE  /\ Working(w) /\ ClaimHolds(w)
               /\ worker[w].session = s /\ worker[w].generation = g
               /\ ~Working(w)'
    BY <1>1, <2>4 DEF SettleStep, JobKeeps
  <2> QED BY <1>1, <2>1, <2>2, <2>3, <2>4, StepCases
<1>2. QInv /\ [Next]_queueVars =>
        [\A s \in Sessions, g \in Generations :
            /\ jobs[s][g].state = "running"
            /\ jobs'[s][g].state # "running"
            => \E w \in Workers :
                  /\ Working(w) /\ ClaimHolds(w)
                  /\ worker[w].session = s /\ worker[w].generation = g
                  /\ ~Working(w)']_queueVars
  BY <1>1
<1> QED BY <1>2, QueueInvariant, PTL DEF Spec, SettledByHolder
---------------------------------------------------------------------------
(* Ends are queued, while no session changes its scope.                     *)

\* No session can be moved (MoveSession).
OneScope == Scopes = {HomeScope}

\* Handlers carry the scope of their session, which has observations; an end
\* is stamped before it is enqueued and counts what was observed by then.
EndsFormed ==
    /\ \A h \in Handlers :
         /\ Ending(h) => handler[h].scope = HomeScope /\ obs[handler[h].session] > 0
         /\ handler[h].pc = "ended" => handler[h].session \in ended
    /\ \A s \in ended \cup unacked : obs[s] > 0
    /\ \A s \in ended : endCount[s] <= obs[s]

\* The inductive invariant behind EndsAreQueued and SupersededReplaced.
EndsInv == TypeOK /\ EndsFormed /\ EndedIsQueued /\ SupersededHasSuccessor

\* No row disappears, and none becomes superseded.
RowsStay ==
    \A s \in Sessions, g \in Generations :
        /\ jobs[s][g].state # "none" => jobs'[s][g].state # "none"
        /\ jobs'[s][g].state = "superseded" => jobs[s][g].state = "superseded"

\* Observations are never removed.
ObsGrow == \A s \in Sessions : obs'[s] >= obs[s]

EndPhases == {"admitted", "read", "paged", "ended"}

\* Nothing has ended or been queued.
LEMMA EndsInit == Init => EndsInv
<1> SUFFICES ASSUME Init PROVE EndsInv
  OBVIOUS
<1>1. TypeOK
  BY MaxAssumption, HomeScopeAssumption
  DEF Init, TypeOK, NoJob, JobRow, JobState, At, WorkerRow, Working, Generations,
      NoHandler, HandlerRow
<1>2. EndsFormed
  BY DEF Init, EndsFormed, Ending, NoHandler
<1>3. EndedIsQueued /\ SupersededHasSuccessor
  BY DEF Init, EndedIsQueued, SupersededHasSuccessor, NoJob
<1> QED BY <1>1, <1>2, <1>3 DEF EndsInv

\* A step of the worker, of the server process or of the clocks.
WorkStep ==
    \/ \E w \in Workers :
         \/ Claim(w) \/ ReadObservations(w) \/ WritePage(w)
         \/ Complete(w) \/ Fail(w) \/ Release(w)
         \/ Crash(w) \/ LoseUpdate(w) \/ Start(w)
    \/ \E s \in Sessions, g \in Generations : BecomeDue(s, g) \/ LeaseLapses(s, g)

\* Such a step moves rows between states, but drops and supersedes none.
LEMMA WorkKeepsRows == TypeOK /\ WorkStep => RowsStay
<1> SUFFICES ASSUME TypeOK, WorkStep PROVE RowsStay
  OBVIOUS
<1>0. jobs \in [Sessions -> [Generations -> JobRow]]
  BY DEF TypeOK
<1>1. ASSUME NEW w \in Workers, Claim(w) PROVE RowsStay
  <2>1. PICK s \in Sessions, g \in Generations, c \in FreshClaims :
          Set(s, g, Claimed(jobs[s][g], c))
    BY <1>1, ClaimFacts
  <2>2. jobs[s][g] \in JobRow /\ c \in Claims
    BY <1>0 DEF FreshClaims
  <2>3. Claimed(jobs[s][g], c) \in JobRow /\ Claimed(jobs[s][g], c).state = "running"
    BY <2>2, ClaimedFacts
  <2> QED BY <2>1, <2>3, SetFacts DEF RowsStay
<1>2. ASSUME NEW w \in Workers,
             ReadObservations(w) \/ WritePage(w) \/ Crash(w) \/ LoseUpdate(w) \/ Start(w)
      PROVE  RowsStay
  <2>1. UNCHANGED jobs
    BY <1>2 DEF ReadObservations, WritePage, Crash, LoseUpdate, Start, jobVars
  <2> QED BY <2>1 DEF RowsStay
<1>3. ASSUME NEW w \in Workers, Complete(w) \/ Fail(w) \/ Release(w) PROVE RowsStay
  <2>1. Working(w)
    BY <1>3 DEF Complete, Fail, Release, Working
  <2>2. PICK row \in JobRow : Settle(w, row) /\ row.state \in {"completed", "failed", "pending"}
    <3>1. ClaimedJob(w) \in JobRow
      BY <2>1, SettledRows
    <3>2. CASE Complete(w)
      <4> DEFINE row == [ClaimedJob(w) EXCEPT !.state = "completed", !.claim = None]
      <4>1. row.state = "completed"
        BY <3>1 DEF JobRow
      <4>2. Settle(w, row)
        BY <3>2 DEF Complete
      <4>3. row \in JobRow
        BY <3>1 DEF JobRow, JobState
      <4> HIDE DEF row
      <4> QED BY <4>1, <4>2, <4>3
    <3>4. CASE Fail(w)
      BY <2>1, <3>4, SettledRows DEF Fail
    <3>5. CASE Release(w)
      BY <2>1, <3>5, SettledRows DEF Release
    <3> QED BY <1>3, <3>2, <3>4, <3>5
  <2> QED BY <2>1, <2>2, SettleFacts DEF RowsStay
<1>4. ASSUME NEW s \in Sessions, NEW g \in Generations, BecomeDue(s, g) PROVE RowsStay
  <2> DEFINE row == [jobs[s][g] EXCEPT !.due = TRUE]
  <2>0. jobs[s][g] \in JobRow
    BY <1>0
  <2>1. row.state = jobs[s][g].state
    BY <2>0 DEF JobRow
  <2>3. row \in JobRow
    BY <2>0 DEF JobRow, JobState
  <2>2. Set(s, g, row)
    BY <1>4 DEF BecomeDue
  <2> HIDE DEF row
  <2> QED BY <2>1, <2>2, <2>3, SetFacts DEF RowsStay
<1>5. ASSUME NEW s \in Sessions, NEW g \in Generations, LeaseLapses(s, g) PROVE RowsStay
  <2> DEFINE row == [jobs[s][g] EXCEPT !.stale = TRUE]
  <2>0. jobs[s][g] \in JobRow
    BY <1>0
  <2>1. row.state = jobs[s][g].state
    BY <2>0 DEF JobRow
  <2>3. row \in JobRow
    BY <2>0 DEF JobRow, JobState
  <2>2. Set(s, g, row)
    BY <1>5 DEF LeaseLapses
  <2> HIDE DEF row
  <2> QED BY <2>1, <2>2, <2>3, SetFacts DEF RowsStay
<1> QED BY <1>1, <1>2, <1>3, <1>4, <1>5 DEF WorkStep

\* Where rows stay, what was queued is still queued.
LEMMA RowsStayQueued ==
    ASSUME RowsStay, SupersededHasSuccessor
    PROVE  SupersededHasSuccessor'
BY DEF RowsStay, SupersededHasSuccessor

\* Where ends and counts stay too, and no end handler is given up without
\* its event being due again.
LEMMA EndsStayQueued ==
    ASSUME TypeOK, RowsStay, EndedIsQueued, UNCHANGED <<ended, endCount>>,
           \A s \in unacked : \/ s \in unacked'
                              \/ \E h \in Handlers : Ending(h)' /\ handler'[h].session = s,
           \A h \in Handlers :
               Ending(h) => \/ Ending(h)' /\ handler'[h].session = handler[h].session
                            \/ handler[h].session \in unacked'
    PROVE  EndedIsQueued'
<1> SUFFICES ASSUME NEW s \in ended
             PROVE  \/ s \in unacked'
                    \/ \E h \in Handlers : Ending(h)' /\ handler'[h].session = s
                    \/ \E g \in Generations : g >= endCount[s] /\ jobs'[s][g].state # "none"
  BY DEF EndedIsQueued
<1>1. s \in Sessions
  BY DEF TypeOK
<1> QED BY <1>1 DEF EndedIsQueued, RowsStay

\* The three rows an enqueue can leave.
LEMMA EnqueuedRows ==
    ASSUME NEW s \in Sessions, NEW p, NEW h \in Generations, jobs[s][h] \in JobRow
    PROVE  /\ Inserts(s, p) /\ h = obs[s] => Enqueued(s, Inserts(s, p))[h] = NewJob
           /\ /\ ~(Inserts(s, p) /\ h = obs[s])
              /\ jobs[s][h].state = "pending" /\ h < obs[s]
              => Enqueued(s, Inserts(s, p))[h].state = "superseded"
           /\ /\ ~(Inserts(s, p) /\ h = obs[s])
              /\ ~(jobs[s][h].state = "pending" /\ h < obs[s])
              => Enqueued(s, Inserts(s, p))[h] = jobs[s][h]
<1>1. CASE Inserts(s, p) /\ h = obs[s]
  <2>1. Enqueued(s, Inserts(s, p))[h] = NewJob
    BY <1>1 DEF Enqueued, Inserts
  <2> QED BY <1>1, <2>1
<1>2. CASE ~(Inserts(s, p) /\ h = obs[s]) /\ jobs[s][h].state = "pending" /\ h < obs[s]
  <2>1. Enqueued(s, Inserts(s, p))[h] = [jobs[s][h] EXCEPT !.state = "superseded", !.claim = None]
    BY <1>2 DEF Enqueued
  <2> QED BY <1>2, <2>1 DEF JobRow
<1>3. CASE ~(Inserts(s, p) /\ h = obs[s]) /\ ~(jobs[s][h].state = "pending" /\ h < obs[s])
  <2>1. Enqueued(s, Inserts(s, p))[h] = jobs[s][h]
    BY <1>3 DEF Enqueued
  <2> QED BY <1>3, <2>1
<1> QED BY <1>1, <1>2, <1>3

\* The enqueue of an end inserts the generation of all that was observed, or
\* finds it there.
LEMMA EnqueueEnds ==
    ASSUME OneScope, EndsInv, NEW k \in Handlers, Enqueue(k)
    PROVE  EndsInv'
<1> DEFINE s == handler[k].session
           n == obs[s]
           p == handler[k].scope
<1>0. TypeOK /\ EndsFormed /\ EndedIsQueued /\ SupersededHasSuccessor
  BY DEF EndsInv
<1>1. TypeOK'
  BY <1>0, TypeStep DEF Next
<1>2. /\ handler[k].pc = "ended"
      /\ handler \in [Handlers -> HandlerRow]
      /\ handler' = [handler EXCEPT ![k] = NoHandler]
      /\ UNCHANGED <<obs, ended, endCount, scope, unacked>>
      /\ jobs' = [jobs EXCEPT ![s] = Enqueued(s, Inserts(s, p))]
  BY <1>0 DEF Enqueue, TypeOK, sessionVars
<1>3. /\ s \in Sessions /\ s \in ended /\ scope[s] = HomeScope
      /\ p = HomeScope /\ n \in Generations /\ endCount[s] <= n
      /\ jobs \in [Sessions -> [Generations -> JobRow]]
  BY <1>0, <1>2, MaxAssumption DEF TypeOK, EndsFormed, Ending, OneScope, Generations
<1>4. /\ \A g \in Generations : jobs'[s][g] = Enqueued(s, Inserts(s, p))[g]
      /\ \A t \in Sessions \ {s} : jobs'[t] = jobs[t]
  BY <1>2, <1>3
<1>11. n = obs[s] /\ n \in Generations
  BY <1>3
<1> HIDE DEF s, n, p
<1>5. Inserts(s, p) <=> jobs[s][n].state = "none"
  BY <1>3, <1>11, MaxAssumption DEF Inserts, Generations
<1>6. jobs'[s][n].state # "none"
  <2>1. CASE jobs[s][n].state = "none"
    <3>1. Enqueued(s, Inserts(s, p))[n] = NewJob
      BY <1>3, <1>5, <2>1, <1>11, EnqueuedRows
    <3> QED BY <1>3, <1>4, <3>1 DEF NewJob
  <2>2. CASE jobs[s][n].state # "none"
    <3>1. ~(n < n)
      BY <1>3, MaxAssumption DEF Generations
    <3>2. Enqueued(s, Inserts(s, p))[n] = jobs[s][n]
      BY <1>3, <1>5, <2>2, <3>1, <1>11, EnqueuedRows
    <3> QED BY <1>3, <1>4, <2>2, <3>2
  <2> QED BY <2>1, <2>2
<1>7. \A g \in Generations :
        /\ jobs[s][g].state # "none" => jobs'[s][g].state # "none"
        /\ jobs'[s][g].state = "superseded" => jobs[s][g].state = "superseded" \/ g < n
  <2> SUFFICES ASSUME NEW g \in Generations
               PROVE  /\ jobs[s][g].state # "none" => jobs'[s][g].state # "none"
                      /\ jobs'[s][g].state = "superseded"
                           => jobs[s][g].state = "superseded" \/ g < n
    OBVIOUS
  <2>1. \/ jobs'[s][g] = jobs[s][g]
        \/ jobs[s][g].state = "none" /\ jobs'[s][g] = NewJob
        \/ g < n /\ jobs[s][g].state = "pending" /\ jobs'[s][g].state = "superseded"
    <3>1. jobs[s][g] \in JobRow
      BY <1>3
    <3>3. CASE jobs[s][n].state = "none" /\ g = n
      <4>1. Enqueued(s, Inserts(s, p))[g] = NewJob
        BY <1>3, <1>5, <3>3, <1>11, EnqueuedRows
      <4> QED BY <1>4, <3>3, <4>1
    <3>4. CASE ~(jobs[s][n].state = "none" /\ g = n) /\ jobs[s][g].state = "pending" /\ g < n
      <4>1. Enqueued(s, Inserts(s, p))[g].state = "superseded"
        BY <1>3, <1>5, <3>1, <3>4, <1>11, EnqueuedRows
      <4> QED BY <1>4, <3>4, <4>1
    <3>5. CASE ~(jobs[s][n].state = "none" /\ g = n) /\ ~(jobs[s][g].state = "pending" /\ g < n)
      <4>1. Enqueued(s, Inserts(s, p))[g] = jobs[s][g]
        BY <1>3, <1>5, <3>5, <1>11, EnqueuedRows
      <4> QED BY <1>4, <4>1
    <3> QED BY <3>3, <3>4, <3>5
  <2>2. NewJob.state = "pending"
    BY DEF NewJob
  <2> QED BY <2>1, <2>2
<1>8. SupersededHasSuccessor'
  <2> SUFFICES ASSUME NEW t \in Sessions, NEW g \in Generations, jobs'[t][g].state = "superseded"
               PROVE  \E h \in Generations : h > g /\ jobs'[t][h].state # "none"
    BY DEF SupersededHasSuccessor
  <2>1. CASE t # s
    BY <1>0, <1>4, <2>1 DEF SupersededHasSuccessor
  <2>2. CASE t = s /\ g < n
    <3>1. n > g
      BY <2>2, <1>3, MaxAssumption DEF Generations
    <3> QED BY <1>3, <1>6, <2>2, <3>1
  <2>3. CASE t = s /\ jobs[s][g].state = "superseded"
    <3>1. PICK h \in Generations : h > g /\ jobs[s][h].state # "none"
      BY <1>0, <1>3, <2>3 DEF SupersededHasSuccessor
    <3> QED BY <1>7, <2>3, <3>1
  <2> QED BY <1>7, <2>1, <2>2, <2>3
<1>9. EndedIsQueued'
  <2> SUFFICES ASSUME NEW t \in ended
               PROVE  \/ t \in unacked
                      \/ \E h \in Handlers : Ending(h)' /\ handler'[h].session = t
                      \/ \E g \in Generations : g >= endCount[t] /\ jobs'[t][g].state # "none"
    BY <1>2 DEF EndedIsQueued
  <2>1. t \in Sessions
    BY <1>0 DEF TypeOK
  <2>2. CASE t = s
    <3>1. n >= endCount[s]
      BY <1>0, <1>3, MaxAssumption DEF TypeOK, Generations
    <3> QED BY <1>3, <1>6, <2>2, <3>1
  <2>3. CASE t # s
    <3>1. \A h \in Handlers : Ending(h) /\ handler[h].session = t
                              => Ending(h)' /\ handler'[h].session = t
      BY <1>2, <2>3 DEF Ending, s
    <3>2. \A g \in Generations : jobs'[t][g] = jobs[t][g]
      BY <1>4, <2>1, <2>3
    <3>3. \/ t \in unacked
          \/ \E h \in Handlers : Ending(h) /\ handler[h].session = t
          \/ \E g \in Generations : g >= endCount[t] /\ jobs[t][g].state # "none"
      BY <1>0 DEF EndedIsQueued
    <3> QED BY <3>1, <3>2, <3>3
  <2> QED BY <2>2, <2>3
<1>10. EndsFormed'
  <2>1. \A h \in Handlers : handler'[h] = IF h = k THEN NoHandler ELSE handler[h]
    BY <1>2
  <2>2. \A h \in Handlers : Ending(h)' => Ending(h) /\ handler'[h] = handler[h]
    BY <2>1 DEF Ending, NoHandler
  <2>3. \A h \in Handlers : handler'[h].pc = "ended" => Ending(h)'
    BY DEF Ending
  <2> QED BY <1>0, <1>2, <2>2, <2>3 DEF EndsFormed
<1> QED BY <1>1, <1>8, <1>9, <1>10 DEF EndsInv

\* A step of one handler that stamps no end and gives up none.
LEMMA HandlerEnds ==
    ASSUME EndsInv, TypeOK', RowsStay, UNCHANGED <<ended, endCount>>,
           ObsGrow,
           NEW h \in Handlers, NEW row, handler' = [handler EXCEPT ![h] = row],
           row.pc \in EndPhases =>
               /\ row.session \in Sessions
               /\ row.scope = HomeScope /\ obs'[row.session] > 0
               /\ row.pc = "ended" => row.session \in ended,
           Ending(h) => row.pc \in EndPhases /\ row.session = handler[h].session,
           unacked' \subseteq unacked,
           \A s \in unacked \ unacked' : row.pc \in EndPhases /\ row.session = s
    PROVE  EndsInv'
<1>1. /\ TypeOK /\ EndsFormed /\ EndedIsQueued /\ SupersededHasSuccessor
      /\ handler \in [Handlers -> HandlerRow]
      /\ obs \in [Sessions -> 0..MaxObs] /\ obs' \in [Sessions -> 0..MaxObs]
      /\ endCount \in [Sessions -> 0..MaxObs]
      /\ ended \subseteq Sessions /\ unacked \subseteq Sessions
      /\ \A k \in Handlers : Ending(k) => handler[k].session \in Sessions
  BY DEF EndsInv, TypeOK, Ending
<1>2. /\ handler'[h] = row
      /\ \A k \in Handlers \ {h} : handler'[k] = handler[k]
  BY <1>1
<1>3. /\ Ending(h)' <=> row.pc \in EndPhases
      /\ \A k \in Handlers \ {h} : Ending(k)' <=> Ending(k)
  BY <1>2 DEF Ending, EndPhases
<1>4. \A s \in Sessions : obs[s] > 0 => obs'[s] > 0
  BY <1>1, MaxAssumption DEF ObsGrow
<1>5. ASSUME NEW k \in Handlers
      PROVE  /\ Ending(k)' => handler'[k].scope = HomeScope /\ obs'[handler'[k].session] > 0
             /\ handler'[k].pc = "ended" => handler'[k].session \in ended
  <2>1. CASE k = h
    BY <1>2, <1>3, <2>1 DEF EndPhases
  <2>2. CASE k # h
    BY <1>1, <1>2, <1>3, <1>4, <2>2 DEF EndsFormed
  <2> QED BY <2>1, <2>2
<1>6. /\ \A s \in ended' \cup unacked' : obs'[s] > 0
      /\ \A s \in ended' : endCount'[s] <= obs'[s]
  BY <1>1, <1>4, MaxAssumption DEF EndsFormed, ObsGrow
<1>7. EndsFormed'
  BY <1>5, <1>6 DEF EndsFormed
<1>8. EndedIsQueued'
  BY <1>1, <1>2, <1>3, EndsStayQueued
<1> QED BY <1>1, <1>7, <1>8, RowsStayQueued DEF EndsInv

\* A step that leaves handlers, ends and sessions alone, or only observes.
LEMMA QuietEnds ==
    ASSUME EndsInv, TypeOK', RowsStay, UNCHANGED <<ended, endCount, handler, unacked>>,
           ObsGrow
    PROVE  EndsInv'
<1>1. /\ TypeOK /\ EndsFormed /\ EndedIsQueued /\ SupersededHasSuccessor
      /\ obs \in [Sessions -> 0..MaxObs] /\ obs' \in [Sessions -> 0..MaxObs]
      /\ endCount \in [Sessions -> 0..MaxObs]
      /\ ended \subseteq Sessions /\ unacked \subseteq Sessions
      /\ \A k \in Handlers : Ending(k) => handler[k].session \in Sessions
  BY DEF EndsInv, TypeOK, Ending
<1>2. \A s \in Sessions : obs[s] > 0 => obs'[s] > 0
  BY <1>1, MaxAssumption DEF ObsGrow
<1>3. \A k \in Handlers : Ending(k)' <=> Ending(k)
  BY DEF Ending
<1>4. /\ \A s \in ended' \cup unacked' : obs'[s] > 0
      /\ \A s \in ended' : endCount'[s] <= obs'[s]
  BY <1>1, <1>2, MaxAssumption DEF EndsFormed, ObsGrow
<1>5. EndsFormed'
  BY <1>1, <1>2, <1>3, <1>4 DEF EndsFormed
<1>6. EndedIsQueued'
  BY <1>1, <1>3, EndsStayQueued
<1> QED BY <1>1, <1>5, <1>6, RowsStayQueued DEF EndsInv

\* Handlers that are cut short leave their ends to be delivered again.
LEMMA CutShortEnds ==
    ASSUME EndsInv, TypeOK', UNCHANGED <<obs, ended, endCount, jobs>>,
           NEW hs \in SUBSET Handlers, CutShort(hs)
    PROVE  EndsInv'
<1>1. /\ TypeOK /\ EndsFormed /\ EndedIsQueued /\ SupersededHasSuccessor
      /\ unacked \subseteq Sessions
  BY DEF EndsInv, TypeOK
<1>2. \A h \in Handlers : handler'[h] = IF h \in hs THEN NoHandler ELSE handler[h]
  BY DEF CutShort
<1>3. /\ \A h \in Handlers : Ending(h)' => Ending(h) /\ handler'[h] = handler[h]
      /\ \A h \in Handlers : Ending(h) => \/ Ending(h)' /\ handler'[h] = handler[h]
                                          \/ h \in hs
      /\ \A h \in Handlers : handler'[h].pc = "ended" => Ending(h)'
  BY <1>2 DEF Ending, NoHandler
<1>4. /\ unacked \subseteq unacked'
      /\ \A h \in hs : Ending(h) => handler[h].session \in unacked'
      /\ \A s \in unacked' \ unacked : \E h \in hs : Ending(h) /\ handler[h].session = s
  BY DEF CutShort
<1>5. \A s \in ended' \cup unacked' : obs'[s] > 0
  BY <1>1, <1>4 DEF EndsFormed
<1>6. EndsFormed'
  BY <1>1, <1>3, <1>5 DEF EndsFormed
<1>7. RowsStay
  BY DEF RowsStay
<1>8. EndedIsQueued'
  BY <1>1, <1>3, <1>4, <1>7, EndsStayQueued
<1> QED BY <1>1, <1>6, <1>7, <1>8, RowsStayQueued DEF EndsInv

\* An end is stamped by a handler that goes on to enqueue it.
LEMMA CommitEnds ==
    ASSUME EndsInv, TypeOK', NEW k \in Handlers, CommitEnd(k)
    PROVE  EndsInv'
<1> DEFINE t == handler[k].session
           row == [handler[k] EXCEPT !.pc = "ended"]
<1>1. /\ TypeOK /\ EndsFormed /\ EndedIsQueued /\ SupersededHasSuccessor
      /\ handler \in [Handlers -> HandlerRow]
      /\ obs \in [Sessions -> 0..MaxObs]
      /\ endCount \in [Sessions -> 0..MaxObs]
  BY DEF EndsInv, TypeOK
<1>2. /\ handler[k].pc = "paged"
      /\ handler' = [handler EXCEPT ![k] = row]
      /\ ended' = ended \cup {t}
      /\ endCount' = [endCount EXCEPT ![t] = obs[t]]
      /\ UNCHANGED <<obs, unacked, jobs>>
  BY DEF CommitEnd, jobVars
<1>3. Ending(k) /\ t \in Sessions
  BY <1>1, <1>2 DEF Ending, TypeOK
<1>4. row.pc = "ended" /\ row.session = t /\ row.scope = handler[k].scope
  BY <1>1 DEF HandlerRow
<1>5. handler[k].scope = HomeScope /\ obs[t] > 0
  BY <1>1, <1>3 DEF EndsFormed
<1> HIDE DEF t, row
<1>6. /\ handler'[k] = row /\ Ending(k)'
      /\ \A h \in Handlers \ {k} : handler'[h] = handler[h] /\ (Ending(h)' <=> Ending(h))
  BY <1>1, <1>2, <1>4 DEF Ending
<1>7. /\ endCount'[t] = obs[t]
      /\ \A s \in Sessions \ {t} : endCount'[s] = endCount[s]
  BY <1>1, <1>2, <1>3
<1>8. EndsFormed'
  <2>1. ASSUME NEW h \in Handlers
        PROVE  /\ Ending(h)' => handler'[h].scope = HomeScope /\ obs'[handler'[h].session] > 0
               /\ handler'[h].pc = "ended" => handler'[h].session \in ended'
    <3>1. CASE h = k
      BY <1>2, <1>4, <1>5, <1>6, <3>1
    <3>2. CASE h # k
      BY <1>1, <1>2, <1>6, <3>2 DEF EndsFormed
    <3> QED BY <3>1, <3>2
  <2>2. \A s \in ended' \cup unacked' : obs'[s] > 0
    BY <1>1, <1>2, <1>5 DEF EndsFormed
  <2>3. \A s \in ended' : endCount'[s] <= obs'[s]
    <3>1. endCount'[t] <= obs'[t]
      BY <1>1, <1>2, <1>3, <1>7, MaxAssumption
    <3>2. \A s \in ended \ {t} : endCount'[s] <= obs'[s]
      BY <1>1, <1>2, <1>7 DEF EndsFormed, TypeOK
    <3> QED BY <1>2, <3>1, <3>2
  <2> QED BY <2>1, <2>2, <2>3 DEF EndsFormed
<1>9. EndedIsQueued'
  <2> SUFFICES ASSUME NEW s \in ended'
               PROVE  \/ s \in unacked
                      \/ \E h \in Handlers : Ending(h)' /\ handler'[h].session = s
                      \/ \E g \in Generations : g >= endCount'[s] /\ jobs[s][g].state # "none"
    BY <1>2 DEF EndedIsQueued
  <2>1. CASE s = t
    BY <1>4, <1>6, <2>1
  <2>2. CASE s # t
    <3>1. s \in ended /\ endCount'[s] = endCount[s]
      BY <1>1, <1>2, <1>7, <2>2 DEF TypeOK
    <3>2. \A h \in Handlers : Ending(h) /\ handler[h].session = s
                              => Ending(h)' /\ handler'[h].session = s
      BY <1>6, <2>2 DEF t
    <3>3. \/ s \in unacked
          \/ \E h \in Handlers : Ending(h) /\ handler[h].session = s
          \/ \E g \in Generations : g >= endCount[s] /\ jobs[s][g].state # "none"
      BY <1>1, <3>1 DEF EndedIsQueued
    <3> QED BY <3>1, <3>2, <3>3
  <2> QED BY <2>1, <2>2
<1>10. SupersededHasSuccessor'
  BY <1>1, <1>2 DEF SupersededHasSuccessor
<1> QED BY <1>8, <1>9, <1>10 DEF EndsInv

\* The first step of a handler that has an end to handle.
LEMMA BeginEnds ==
    ASSUME OneScope, EndsInv, TypeOK', UNCHANGED <<ended, endCount, jobs>>,
           ObsGrow,
           NEW h \in Handlers, NEW s \in Sessions, NEW pc \in {"admitted", "ended", "compacting"},
           Begin(h, s, pc), obs[s] > 0,
           pc = "ended" => s \in ended,
           \/ unacked' = unacked
           \/ pc # "compacting" /\ unacked' = unacked \ {s}
    PROVE  EndsInv'
<1> DEFINE row == [pc |-> pc, session |-> s, scope |-> scope[s], seen |-> 0]
<1>1. handler[h].pc = "idle" /\ handler' = [handler EXCEPT ![h] = row]
  BY DEF Begin
<1>2. /\ row.pc = pc /\ row.session = s /\ row.scope = scope[s]
      /\ scope[s] = HomeScope
  BY DEF OneScope, EndsInv, TypeOK
<1> HIDE DEF row
<1>3. obs'[s] > 0
  BY MaxAssumption DEF EndsInv, TypeOK, ObsGrow
<1>4. ~Ending(h)
  BY <1>1 DEF Ending
<1>5. RowsStay
  BY DEF RowsStay
<1>6. row.pc \in EndPhases => /\ row.session \in Sessions
                              /\ row.scope = HomeScope /\ obs'[row.session] > 0
                              /\ row.pc = "ended" => row.session \in ended
  BY <1>2, <1>3
<1>7. /\ unacked' \subseteq unacked
      /\ \A u \in unacked \ unacked' : row.pc \in EndPhases /\ row.session = u
  BY <1>2 DEF EndPhases
<1> QED BY <1>1, <1>4, <1>5, <1>6, <1>7, HandlerEnds

\* A later step of a handler, or its last one after a checkpoint.
LEMMA ContinueEnds ==
    ASSUME EndsInv, TypeOK', UNCHANGED <<obs, ended, endCount, unacked, jobs>>,
           NEW h \in Handlers, NEW row, handler' = [handler EXCEPT ![h] = row],
           \/ /\ handler[h].pc \in {"admitted", "read"} /\ row.pc \in {"read", "paged"}
              /\ row.session = handler[h].session /\ row.scope = handler[h].scope
           \/ ~Ending(h) /\ row.pc \notin EndPhases
    PROVE  EndsInv'
<1>1. RowsStay
  BY DEF RowsStay
<1>2. ObsGrow
  BY MaxAssumption DEF EndsInv, TypeOK, ObsGrow
<1>3. CASE ~Ending(h) /\ row.pc \notin EndPhases
  BY <1>1, <1>2, <1>3, HandlerEnds
<1>4. CASE /\ handler[h].pc \in {"admitted", "read"} /\ row.pc \in {"read", "paged"}
           /\ row.session = handler[h].session /\ row.scope = handler[h].scope
  <2>1. Ending(h)
    BY <1>4 DEF Ending
  <2>2. row.session \in Sessions
    BY <1>4 DEF EndsInv, TypeOK
  <2>3. row.scope = HomeScope /\ obs'[row.session] > 0
    BY <1>4, <2>1 DEF EndsInv, EndsFormed
  <2>4. row.pc \in EndPhases /\ row.pc # "ended"
    BY <1>4 DEF EndPhases
  <2> QED BY <1>1, <1>2, <1>4, <2>1, <2>2, <2>3, <2>4, HandlerEnds
<1> QED BY <1>3, <1>4

\* One case per action; MoveSession and DropEnd need a second scope.
LEMMA EndsStep == OneScope /\ EndsInv /\ [Next]_queueVars => EndsInv'
<1> SUFFICES ASSUME OneScope, EndsInv, [Next]_queueVars PROVE EndsInv'
  OBVIOUS
<1>1. TypeOK /\ EndsFormed /\ TypeOK'
  BY TypeStep DEF EndsInv
<1>2. /\ obs \in [Sessions -> 0..MaxObs]
      /\ handler \in [Handlers -> HandlerRow]
      /\ \A h \in Handlers : handler[h].pc # "idle" => handler[h].session \in Sessions
      /\ \A s \in Sessions : scope[s] = HomeScope
  BY <1>1 DEF TypeOK, OneScope
<1>3. \A s \in Sessions : obs[s] >= obs[s] /\ obs[s] + 1 >= obs[s]
  BY <1>2, MaxAssumption
<1>4. ASSUME NEW s \in Sessions, Observe(s) PROVE EndsInv'
  <2>1. /\ UNCHANGED <<ended, endCount, handler, unacked, jobs>>
        /\ obs' = [obs EXCEPT ![s] = obs[s] + 1]
    BY <1>4 DEF Observe, hookVars, jobVars
  <2>2. RowsStay /\ ObsGrow
    BY <1>2, <1>3, <2>1 DEF RowsStay, ObsGrow
  <2> QED BY <1>1, <2>1, <2>2, QuietEnds
<1>5. ASSUME NEW s \in Sessions, NEW p \in Scopes, MoveSession(s, p) PROVE EndsInv'
  BY <1>2, <1>5 DEF MoveSession, OneScope
<1>6. ASSUME NEW h \in Handlers, NEW s \in Sessions, AdmitEnd(h, s) \/ AdmitCheckpoint(h, s)
      PROVE  EndsInv'
  <2>1. /\ UNCHANGED <<ended, endCount, unacked, jobs>>
        /\ obs' = [obs EXCEPT ![s] = obs[s] + 1]
        /\ obs[s] > 0
        /\ \E pc \in {"admitted", "compacting"} : Begin(h, s, pc)
    <3>1. CASE AdmitEnd(h, s)
      BY <1>2, <3>1, MaxAssumption DEF AdmitEnd, jobVars
    <3>2. CASE AdmitCheckpoint(h, s)
      BY <1>2, <3>2, MaxAssumption DEF AdmitCheckpoint, jobVars
    <3> QED BY <1>6, <3>1, <3>2
  <2>2. ObsGrow
    BY <1>2, <1>3, <2>1 DEF ObsGrow
  <2>4. CASE Begin(h, s, "admitted")
    BY <1>1, <2>1, <2>2, <2>4, BeginEnds
  <2>5. CASE Begin(h, s, "compacting")
    BY <1>1, <2>1, <2>2, <2>5, BeginEnds
  <2> QED BY <2>1, <2>4, <2>5
<1>7. ASSUME NEW h \in Handlers, NEW s \in Sessions, ResumeEnd(h, s) PROVE EndsInv'
  <2>1. /\ UNCHANGED <<obs, ended, endCount, jobs>>
        /\ s \in unacked /\ unacked' = unacked \ {s}
        /\ Begin(h, s, "admitted")
    BY <1>7 DEF ResumeEnd, sessionVars, jobVars
  <2>2. obs[s] > 0
    BY <1>1, <2>1 DEF EndsFormed
  <2> QED BY <1>1, <1>3, <2>1, <2>2, BeginEnds DEF ObsGrow
<1>8. ASSUME NEW h \in Handlers, NEW s \in Sessions, ReplayEnd(h, s) PROVE EndsInv'
  <2>1. /\ UNCHANGED <<obs, ended, endCount, jobs>>
        /\ s \in ended /\ unacked' = unacked \ {s}
        /\ Begin(h, s, "ended")
    BY <1>8 DEF ReplayEnd, AlreadyEnded, sessionVars, jobVars
  <2>2. obs[s] > 0
    BY <1>1, <2>1 DEF EndsFormed
  <2> QED BY <1>1, <1>3, <2>1, <2>2, BeginEnds DEF ObsGrow
<1>9. ASSUME NEW h \in Handlers, HandlerReads(h) \/ WriteHeuristicPage(h)
      PROVE  EndsInv'
  <2>1. /\ UNCHANGED <<obs, ended, endCount, unacked, jobs>>
        /\ handler[h].pc \in {"admitted", "read"}
    BY <1>9 DEF HandlerReads, WriteHeuristicPage, sessionVars, jobVars
  <2>2. PICK row : /\ handler' = [handler EXCEPT ![h] = row]
                   /\ row.pc \in {"read", "paged"}
                   /\ row.session = handler[h].session /\ row.scope = handler[h].scope
    <3>1. handler[h] \in HandlerRow
      BY <1>2
    <3>2. CASE HandlerReads(h)
      <4> DEFINE row == [handler[h] EXCEPT !.pc = "read", !.seen = obs[handler[h].session]]
      <4>1. handler' = [handler EXCEPT ![h] = row]
        BY <3>2 DEF HandlerReads
      <4>2. row.pc = "read" /\ row.session = handler[h].session /\ row.scope = handler[h].scope
        BY <3>1 DEF HandlerRow
      <4> HIDE DEF row
      <4> QED BY <4>1, <4>2
    <3>3. CASE WriteHeuristicPage(h)
      <4> DEFINE row == [handler[h] EXCEPT !.pc = "paged"]
      <4>1. handler' = [handler EXCEPT ![h] = row]
        BY <3>3 DEF WriteHeuristicPage
      <4>2. row.pc = "paged" /\ row.session = handler[h].session /\ row.scope = handler[h].scope
        BY <3>1 DEF HandlerRow
      <4> HIDE DEF row
      <4> QED BY <4>1, <4>2
    <3> QED BY <1>9, <3>2, <3>3
  <2> QED BY <1>1, <2>1, <2>2, ContinueEnds
<1>10. ASSUME NEW h \in Handlers, CheckpointReads(h) \/ WriteCheckpoint(h) PROVE EndsInv'
  <2>1. /\ UNCHANGED <<obs, ended, endCount, unacked, jobs>>
        /\ handler[h].pc \in {"compacting", "checkpoint"}
    BY <1>10 DEF CheckpointReads, WriteCheckpoint, sessionVars, jobVars
  <2>2. PICK row : handler' = [handler EXCEPT ![h] = row] /\ row.pc \notin EndPhases
    <3>1. handler[h] \in HandlerRow
      BY <1>2
    <3>2. CASE CheckpointReads(h)
      <4> DEFINE row == [handler[h] EXCEPT !.pc = "checkpoint", !.seen = obs[handler[h].session]]
      <4>1. handler' = [handler EXCEPT ![h] = row]
        BY <3>2 DEF CheckpointReads
      <4>2. row.pc = "checkpoint"
        BY <3>1 DEF HandlerRow
      <4> HIDE DEF row
      <4> QED BY <4>1, <4>2 DEF EndPhases
    <3>3. CASE WriteCheckpoint(h)
      <4>1. handler' = [handler EXCEPT ![h] = NoHandler]
        BY <3>3 DEF WriteCheckpoint
      <4>2. NoHandler.pc \notin EndPhases
        BY DEF NoHandler, EndPhases
      <4> QED BY <4>1, <4>2
    <3> QED BY <1>10, <3>2, <3>3
  <2>3. ~Ending(h)
    BY <2>1 DEF Ending
  <2> QED BY <1>1, <2>1, <2>2, <2>3, ContinueEnds
<1>11. ASSUME NEW h \in Handlers, DropEnd(h) PROVE EndsInv'
  BY <1>1, <1>2, <1>11 DEF DropEnd, EndsFormed, Ending
<1>12. ASSUME NEW h \in Handlers, FailHandler(h) PROVE EndsInv'
  <2>1. CutShort({h}) /\ UNCHANGED <<obs, ended, endCount, jobs>>
    BY <1>12 DEF FailHandler, sessionVars, jobVars
  <2> QED BY <1>1, <2>1, CutShortEnds
<1>13. ASSUME NEW w \in Workers, Crash(w) PROVE EndsInv'
  <2>1. /\ \E hs \in SUBSET Handlers : CutShort(hs)
        /\ UNCHANGED <<obs, ended, endCount, jobs>>
    BY <1>13 DEF Crash, sessionVars, jobVars
  <2> QED BY <1>1, <2>1, CutShortEnds
<1>14. ASSUME UNCHANGED <<obs, ended, endCount, handler, unacked>>, RowsStay PROVE EndsInv'
  BY <1>1, <1>3, <1>14, QuietEnds DEF ObsGrow
<1>15. ASSUME NEW w \in Workers,
              \/ Claim(w) \/ ReadObservations(w) \/ WritePage(w)
              \/ Complete(w) \/ Fail(w) \/ Release(w) \/ LoseUpdate(w) \/ Start(w)
       PROVE  EndsInv'
  <2>1. UNCHANGED <<obs, ended, endCount, handler, unacked>>
    BY <1>15 DEF Claim, ReadObservations, WritePage, Complete, Fail, Release, LoseUpdate, Start,
                 sessionVars, hookVars
  <2> QED BY <1>1, <1>14, <1>15, <2>1, WorkKeepsRows DEF WorkStep
<1>16. ASSUME NEW s \in Sessions, NEW g \in Generations, BecomeDue(s, g) \/ LeaseLapses(s, g)
       PROVE  EndsInv'
  <2>1. UNCHANGED <<obs, ended, endCount, handler, unacked>>
    BY <1>16 DEF BecomeDue, LeaseLapses, sessionVars, hookVars
  <2> QED BY <1>1, <1>14, <1>16, <2>1, WorkKeepsRows DEF WorkStep
<1>17. CASE UNCHANGED queueVars
  BY <1>14, <1>17 DEF queueVars, sessionVars, hookVars, jobVars, RowsStay
<1> QED BY <1>4, <1>5, <1>6, <1>7, <1>8, <1>9, <1>10, <1>11, <1>12, <1>13, <1>15, <1>16, <1>17,
           CommitEnds, EnqueueEnds, <1>1 DEF Next

\* While no session changes its scope, an acknowledged end has its
\* consolidation queued, whatever crashes, fails or is replayed, on any
\* number of servers: end_admitted_session and enqueue are two transactions,
\* and a handler cut short between them has its event delivered again.
THEOREM EndsAreQueued == ASSUME OneScope PROVE Spec => []EndedIsQueued
<1>1. EndsInv => EndedIsQueued
  BY DEF EndsInv
<1>2. EndsInv /\ [Next]_queueVars => EndsInv'
  BY EndsStep
<1> QED BY <1>1, <1>2, EndsInit, PTL DEF Spec

\* While no session changes its scope, a pending generation is superseded only
\* by a newer one that is queued, and stays queued in some state.
THEOREM SupersededReplaced == ASSUME OneScope PROVE Spec => []SupersededHasSuccessor
<1>1. EndsInv => SupersededHasSuccessor
  BY DEF EndsInv
<1>2. EndsInv /\ [Next]_queueVars => EndsInv'
  BY EndsStep
<1> QED BY <1>1, <1>2, EndsInit, PTL DEF Spec

---------------------------------------------------------------------------
(* A completed generation is covered by its page, with one server whose     *)
(* hook events are handled one at a time.                                   *)

OneAtATime ==
    /\ \A v, w \in Workers : v = w
    /\ \A h, k \in Handlers : h = k

\* A generation is queued with what was observed by then.
QueuedObserved ==
    \A s \in Sessions, g \in Generations : jobs[s][g].state # "none" => g <= obs[s]

\* A handler about to write the page has seen every queued generation: only
\* a handler queues, and there is no other.
SeenCovers ==
    \A h \in Handlers :
        handler[h].pc \in {"read", "checkpoint"} =>
            \A g \in Generations :
                jobs[handler[h].session][g].state # "none" => g <= handler[h].seen

\* The worker's snapshot covers its own generation and the completed ones:
\* only the worker completes, and there is no other.
SnapshotCovers ==
    \A w \in Workers :
        worker[w].pc \in {"read", "written"} =>
            /\ worker[w].generation <= worker[w].snapshot
            /\ \A g \in Generations :
                 jobs[worker[w].session][g].state = "completed" => g <= worker[w].snapshot

WorkQueued ==
    \A w \in Workers :
        /\ Working(w) => jobs[worker[w].session][worker[w].generation].state # "none"
        /\ worker[w].pc = "written" => page[worker[w].session] >= worker[w].generation

\* The inductive invariant behind CompletedCovered.
CoverInv ==
    /\ TypeOK
    /\ QueuedObserved /\ SeenCovers /\ SnapshotCovers /\ WorkQueued
    /\ CompletedIsCovered

\* Nothing is queued, read or claimed.
LEMMA CoverInit == Init => CoverInv
<1> SUFFICES ASSUME Init PROVE CoverInv
  OBVIOUS
<1>1. TypeOK
  BY EndsInit DEF EndsInv
<1>2. \A s \in Sessions, g \in Generations : jobs[s][g].state = "none"
  BY DEF Init, NoJob
<1>3. /\ \A h \in Handlers : handler[h].pc = "idle"
      /\ \A w \in Workers : worker[w].pc = "idle"
  BY DEF Init, NoHandler, At
<1> QED BY <1>1, <1>2, <1>3
        DEF CoverInv, QueuedObserved, SeenCovers, SnapshotCovers, WorkQueued, CompletedIsCovered,
            Working

\* The same rows are queued, and none is completed.
RowsKept ==
    \A s \in Sessions, g \in Generations :
        /\ jobs'[s][g].state = "none" <=> jobs[s][g].state = "none"
        /\ jobs'[s][g].state = "completed" => jobs[s][g].state = "completed"

\* Handlers that read now have seen every observation.
HandlersRead ==
    \A h \in Handlers :
        \/ handler'[h] = handler[h]
        \/ handler'[h].pc \notin {"read", "checkpoint"}
        \/ handler'[h].session \in Sessions /\ handler'[h].seen = obs[handler'[h].session]

\* A step that writes no page and completes nothing.
LEMMA QuietCover ==
    ASSUME CoverInv, TypeOK', RowsKept, HandlersRead, ObsGrow, UNCHANGED page,
           \A w \in Workers : worker'[w] = worker[w] \/ ~Working(w)'
    PROVE  CoverInv'
<1>1. /\ TypeOK /\ QueuedObserved /\ SeenCovers /\ SnapshotCovers /\ WorkQueued
      /\ CompletedIsCovered
      /\ obs \in [Sessions -> 0..MaxObs] /\ obs' \in [Sessions -> 0..MaxObs]
  BY DEF CoverInv, TypeOK
<1>2. QueuedObserved'
  BY <1>1, MaxAssumption DEF QueuedObserved, RowsKept, ObsGrow, Generations
<1>3. SeenCovers'
  <2> SUFFICES ASSUME NEW h \in Handlers, handler'[h].pc \in {"read", "checkpoint"},
                      NEW g \in Generations, jobs'[handler'[h].session][g].state # "none"
               PROVE  g <= handler'[h].seen
    BY DEF SeenCovers
  <2>1. handler'[h].session \in Sessions
    BY DEF TypeOK
  <2>2. jobs[handler'[h].session][g].state # "none"
    BY <2>1 DEF RowsKept
  <2>3. CASE handler'[h] = handler[h]
    BY <1>1, <2>2, <2>3 DEF SeenCovers
  <2>4. CASE handler'[h].seen = obs[handler'[h].session]
    BY <1>1, <2>1, <2>2, <2>4 DEF QueuedObserved
  <2> QED BY <2>3, <2>4 DEF HandlersRead
<1>4. ASSUME NEW w \in Workers, Working(w)'
      PROVE  /\ worker'[w] = worker[w] /\ Working(w)
             /\ worker[w].session \in Sessions /\ worker[w].generation \in Generations
  BY <1>1, <1>4 DEF Working, TypeOK
<1>5. SnapshotCovers'
  <2> SUFFICES ASSUME NEW w \in Workers, worker'[w].pc \in {"read", "written"}
               PROVE  /\ worker'[w].generation <= worker'[w].snapshot
                      /\ \A g \in Generations :
                           jobs'[worker'[w].session][g].state = "completed"
                           => g <= worker'[w].snapshot
    BY DEF SnapshotCovers
  <2>1. Working(w)'
    BY DEF Working
  <2>2. /\ worker'[w] = worker[w]
        /\ \A g \in Generations : jobs'[worker[w].session][g].state = "completed"
                                 => jobs[worker[w].session][g].state = "completed"
    BY <1>4, <2>1 DEF RowsKept
  <2> QED BY <1>1, <2>2 DEF SnapshotCovers
<1>6. WorkQueued'
  <2> SUFFICES ASSUME NEW w \in Workers, Working(w)'
               PROVE  /\ jobs'[worker'[w].session][worker'[w].generation].state # "none"
                      /\ worker'[w].pc = "written"
                           => page[worker'[w].session] >= worker'[w].generation
    BY DEF WorkQueued, Working
  <2> QED BY <1>1, <1>4 DEF WorkQueued, RowsKept
<1>7. CompletedIsCovered'
  BY <1>1 DEF CompletedIsCovered, RowsKept
<1> QED BY <1>2, <1>3, <1>5, <1>6, <1>7 DEF CoverInv

\* A handler writes the page from what it has seen.
LEMMA HandlerCover ==
    ASSUME CoverInv, TypeOK', NEW h \in Handlers, WriteHeuristicPage(h) \/ WriteCheckpoint(h)
    PROVE  CoverInv'
<1> DEFINE s == handler[h].session
           n == handler[h].seen
<1>1. /\ TypeOK /\ QueuedObserved /\ SeenCovers /\ SnapshotCovers /\ WorkQueued
      /\ CompletedIsCovered
      /\ page \in [Sessions -> 0..MaxObs]
      /\ handler \in [Handlers -> HandlerRow]
  BY DEF CoverInv, TypeOK
<1>2. /\ handler[h].pc \in {"read", "checkpoint"}
      /\ page' = [page EXCEPT ![s] = n]
      /\ UNCHANGED <<obs, jobs, worker>>
  BY DEF WriteHeuristicPage, WriteCheckpoint, sessionVars, jobVars
<1>3. \E row : handler' = [handler EXCEPT ![h] = row] /\ row.pc \notin {"read", "checkpoint"}
  <2>1. handler[h] \in HandlerRow
    BY <1>1
  <2>2. CASE WriteHeuristicPage(h)
    <3> DEFINE row == [handler[h] EXCEPT !.pc = "paged"]
    <3>1. handler' = [handler EXCEPT ![h] = row]
      BY <2>2 DEF WriteHeuristicPage
    <3>2. row.pc = "paged"
      BY <2>1 DEF HandlerRow
    <3> HIDE DEF row
    <3> QED BY <3>1, <3>2
  <2>3. CASE WriteCheckpoint(h)
    <3>1. handler' = [handler EXCEPT ![h] = NoHandler]
      BY <2>3 DEF WriteCheckpoint
    <3>2. NoHandler.pc = "idle"
      BY DEF NoHandler
    <3> QED BY <3>1, <3>2
  <2> QED BY <2>2, <2>3
<1>4. /\ s \in Sessions
      /\ \A g \in Generations : jobs[s][g].state # "none" => g <= n
      /\ n \in 0..MaxObs
  BY <1>1, <1>2 DEF SeenCovers, TypeOK, HandlerRow
<1> HIDE DEF s, n
<1>5. /\ page'[s] = n
      /\ \A t \in Sessions \ {s} : page'[t] = page[t]
  BY <1>1, <1>2, <1>4
<1>6. SeenCovers'
  BY <1>1, <1>2, <1>3 DEF SeenCovers
<1>7. CompletedIsCovered'
  <2> SUFFICES ASSUME NEW t \in Sessions, NEW g \in Generations, jobs[t][g].state = "completed"
               PROVE  page'[t] >= g
    BY <1>2 DEF CompletedIsCovered
  <2>1. CASE t = s
    BY <1>4, <1>5, <2>1, MaxAssumption DEF Generations
  <2>2. CASE t # s
    BY <1>1, <1>5, <2>2 DEF CompletedIsCovered
  <2> QED BY <2>1, <2>2
<1>8. WorkQueued'
  <2> SUFFICES ASSUME NEW w \in Workers, Working(w)
               PROVE  /\ jobs[worker[w].session][worker[w].generation].state # "none"
                      /\ worker[w].pc = "written"
                           => page'[worker[w].session] >= worker[w].generation
    BY <1>2 DEF WorkQueued, Working
  <2>1. /\ worker[w].session \in Sessions /\ worker[w].generation \in Generations
        /\ jobs[worker[w].session][worker[w].generation].state # "none"
    BY <1>1 DEF TypeOK, WorkQueued
  <2>2. CASE worker[w].session = s
    BY <1>4, <1>5, <2>1, <2>2, MaxAssumption DEF Generations
  <2>3. CASE worker[w].session # s
    BY <1>1, <1>5, <2>1, <2>3 DEF WorkQueued
  <2> QED BY <2>1, <2>2, <2>3
<1>9. QueuedObserved' /\ SnapshotCovers'
  BY <1>1, <1>2 DEF QueuedObserved, SnapshotCovers
<1> QED BY <1>6, <1>7, <1>8, <1>9 DEF CoverInv

\* The only handler queues a generation, and is then idle.
LEMMA EnqueueCover ==
    ASSUME OneAtATime, CoverInv, TypeOK', NEW k \in Handlers, Enqueue(k)
    PROVE  CoverInv'
<1> DEFINE s == handler[k].session
           p == handler[k].scope
<1>1. /\ TypeOK /\ QueuedObserved /\ SeenCovers /\ SnapshotCovers /\ WorkQueued
      /\ CompletedIsCovered
      /\ obs \in [Sessions -> 0..MaxObs]
      /\ jobs \in [Sessions -> [Generations -> JobRow]]
      /\ handler \in [Handlers -> HandlerRow]
  BY DEF CoverInv, TypeOK
<1>2. /\ handler[k].pc = "ended"
      /\ handler' = [handler EXCEPT ![k] = NoHandler]
      /\ UNCHANGED <<obs, worker, page>>
      /\ jobs' = [jobs EXCEPT ![s] = Enqueued(s, Inserts(s, p))]
  BY DEF Enqueue, sessionVars
<1>3. s \in Sessions
  BY <1>1, <1>2 DEF TypeOK
<1>4. /\ \A g \in Generations : jobs'[s][g] = Enqueued(s, Inserts(s, p))[g]
      /\ \A t \in Sessions \ {s} : jobs'[t] = jobs[t]
  BY <1>1, <1>2, <1>3
<1> HIDE DEF s, p
<1>5. ASSUME NEW t \in Sessions, NEW g \in Generations
      PROVE  /\ jobs'[t][g].state # "none" => jobs[t][g].state # "none" \/ g = obs[t]
             /\ jobs'[t][g].state = "completed" => jobs[t][g].state = "completed"
             /\ jobs[t][g].state # "none" => jobs'[t][g].state # "none"
  <2>1. CASE t # s
    BY <1>4, <2>1
  <2>2. CASE t = s /\ g = obs[s] /\ Inserts(s, p)
    <3>1. jobs[s][g].state = "none"
      BY <2>2 DEF Inserts
    <3>2. jobs[s][g] \in JobRow
      BY <1>1, <1>3
    <3>3. jobs'[s][g].state = "pending"
      <4>1. Enqueued(s, Inserts(s, p))[g] = NewJob
        BY <1>3, <2>2, <3>2, EnqueuedRows
      <4>2. jobs'[s][g] = NewJob
        BY <1>4, <4>1
      <4> QED BY <4>2 DEF NewJob
    <3> QED BY <2>2, <3>1, <3>3
  <2>3. CASE t = s /\ ~(Inserts(s, p) /\ g = obs[s])
    <3>1. jobs[s][g] \in JobRow
      BY <1>1, <1>3
    <3>2. \/ jobs'[s][g] = jobs[s][g]
          \/ jobs[s][g].state = "pending" /\ jobs'[s][g].state = "superseded"
      BY <1>3, <1>4, <2>3, <3>1, EnqueuedRows
    <3> QED BY <2>3, <3>2
  <2> QED BY <2>1, <2>2, <2>3
<1>6. QueuedObserved'
  <2> SUFFICES ASSUME NEW t \in Sessions, NEW g \in Generations, jobs'[t][g].state # "none"
               PROVE  g <= obs[t]
    BY <1>2 DEF QueuedObserved
  <2>1. CASE jobs[t][g].state # "none"
    BY <1>1, <2>1 DEF QueuedObserved
  <2>2. CASE g = obs[t]
    BY <2>2, MaxAssumption DEF Generations
  <2> QED BY <1>5, <2>1, <2>2
<1>7. SeenCovers'
  <2>1. handler'[k].pc = "idle"
    BY <1>1, <1>2 DEF NoHandler
  <2>2. \A h \in Handlers : handler'[h].pc = "idle"
    BY <2>1 DEF OneAtATime
  <2> QED BY <2>2 DEF SeenCovers
<1>8. SnapshotCovers'
  <2> SUFFICES ASSUME NEW w \in Workers, worker[w].pc \in {"read", "written"}
               PROVE  /\ worker[w].generation <= worker[w].snapshot
                      /\ \A g \in Generations :
                           jobs'[worker[w].session][g].state = "completed"
                           => g <= worker[w].snapshot
    BY <1>2 DEF SnapshotCovers
  <2>1. worker[w].session \in Sessions
    BY <1>1 DEF TypeOK, Working
  <2> QED BY <1>1, <1>5, <2>1 DEF SnapshotCovers
<1>9. WorkQueued'
  <2> SUFFICES ASSUME NEW w \in Workers, Working(w)
               PROVE  /\ jobs'[worker[w].session][worker[w].generation].state # "none"
                      /\ worker[w].pc = "written"
                           => page[worker[w].session] >= worker[w].generation
    BY <1>2 DEF WorkQueued, Working
  <2>1. worker[w].session \in Sessions /\ worker[w].generation \in Generations
    BY <1>1 DEF TypeOK
  <2> QED BY <1>1, <1>5, <2>1 DEF WorkQueued
<1>10. CompletedIsCovered'
  BY <1>1, <1>2, <1>5 DEF CompletedIsCovered
<1> QED BY <1>6, <1>7, <1>8, <1>9, <1>10 DEF CoverInv

\* A claim only makes a queued row running.
LEMMA ClaimCover ==
    ASSUME OneAtATime, CoverInv, TypeOK', NEW w \in Workers, Claim(w)
    PROVE  CoverInv'
<1>1. /\ TypeOK /\ QueuedObserved /\ SeenCovers /\ CompletedIsCovered
      /\ jobs \in [Sessions -> [Generations -> JobRow]]
      /\ worker \in [Workers -> WorkerRow]
  BY DEF CoverInv, TypeOK
<1>2. PICK s \in Sessions, g \in Generations, c \in FreshClaims :
        /\ Claimable(jobs[s][g])
        /\ Set(s, g, Claimed(jobs[s][g], c))
        /\ worker' = [worker EXCEPT ![w] =
             [pc |-> "claimed", session |-> s, generation |-> g,
              attempts |-> Charged(jobs[s][g]), claim |-> c,
              spent |-> jobs[s][g].state = "pending", snapshot |-> 0]]
  BY <1>1, ClaimFacts
<1>3. Claimed(jobs[s][g], c) \in JobRow /\ Claimed(jobs[s][g], c).state = "running"
  <2>1. jobs[s][g] \in JobRow /\ c \in Claims
    BY <1>1 DEF FreshClaims
  <2> QED BY <2>1, ClaimedFacts
<1>4. \A t \in Sessions, h \in Generations :
        jobs'[t][h] = IF t = s /\ h = g THEN Claimed(jobs[s][g], c) ELSE jobs[t][h]
  BY <1>1, <1>2, <1>3, SetFacts
<1>5. jobs[s][g].state # "none"
  BY <1>2 DEF Claimable
<1>6. RowsKept
  BY <1>3, <1>4, <1>5 DEF RowsKept
<1>7. UNCHANGED <<obs, handler, page>>
  BY DEF Claim, sessionVars, hookVars
<1>8. /\ worker'[w].pc = "claimed" /\ worker'[w].session = s /\ worker'[w].generation = g
      /\ \A v \in Workers : v = w
  BY <1>1, <1>2 DEF OneAtATime
<1>9. QueuedObserved' /\ CompletedIsCovered'
  BY <1>1, <1>6, <1>7 DEF QueuedObserved, CompletedIsCovered, RowsKept
<1>10. SeenCovers'
  <2>1. \A h \in Handlers : handler[h].pc # "idle" => handler[h].session \in Sessions
    BY <1>1 DEF TypeOK
  <2> QED BY <1>1, <1>6, <1>7, <2>1 DEF SeenCovers, RowsKept
<1>11. SnapshotCovers'
  BY <1>8 DEF SnapshotCovers
<1>12. WorkQueued'
  BY <1>3, <1>4, <1>8 DEF WorkQueued
<1> QED BY <1>9, <1>10, <1>11, <1>12 DEF CoverInv

\* The worker reads every observation, or writes the page from them.
LEMMA WorkCover ==
    ASSUME OneAtATime, CoverInv, TypeOK', NEW w \in Workers,
           ReadObservations(w) \/ WritePage(w)
    PROVE  CoverInv'
<1> DEFINE s == worker[w].session
           g == worker[w].generation
<1>1. /\ TypeOK /\ QueuedObserved /\ SeenCovers /\ SnapshotCovers /\ WorkQueued
      /\ CompletedIsCovered
      /\ worker \in [Workers -> WorkerRow] /\ worker[w] \in WorkerRow
      /\ page \in [Sessions -> 0..MaxObs] /\ obs \in [Sessions -> 0..MaxObs]
      /\ \A v \in Workers : v = w
  BY DEF CoverInv, TypeOK, OneAtATime
<1>2. Working(w) /\ UNCHANGED <<obs, handler, jobs>>
  BY DEF ReadObservations, WritePage, Working, sessionVars, hookVars, jobVars
<1>3. s \in Sessions /\ g \in Generations /\ jobs[s][g].state # "none"
  BY <1>1, <1>2 DEF TypeOK, WorkQueued
<1>4. QueuedObserved' /\ SeenCovers'
  BY <1>1, <1>2 DEF QueuedObserved, SeenCovers
<1>5. CASE ReadObservations(w)
  <2> DEFINE row == [worker[w] EXCEPT !.pc = "read", !.snapshot = obs[s]]
  <2>1. worker' = [worker EXCEPT ![w] = row] /\ UNCHANGED page
    BY <1>5 DEF ReadObservations
  <2>2. row.pc = "read" /\ row.session = s /\ row.generation = g /\ row.snapshot = obs[s]
    BY <1>1 DEF WorkerRow
  <2> HIDE DEF row, s, g
  <2>3. worker'[w] = row
    BY <1>1, <2>1
  <2>4. g <= obs[s] /\ \A h \in Generations : jobs[s][h].state = "completed" => h <= obs[s]
    BY <1>1, <1>3 DEF QueuedObserved
  <2>5. SnapshotCovers'
    BY <1>1, <1>2, <2>2, <2>3, <2>4 DEF SnapshotCovers
  <2>6. WorkQueued' /\ CompletedIsCovered'
    BY <1>1, <1>2, <1>3, <2>1, <2>2, <2>3 DEF WorkQueued, CompletedIsCovered
  <2> QED BY <1>4, <2>5, <2>6 DEF CoverInv
<1>6. CASE WritePage(w)
  <2> DEFINE row == [worker[w] EXCEPT !.pc = "written"]
             n == worker[w].snapshot
  <2>1. /\ worker' = [worker EXCEPT ![w] = row] /\ page' = [page EXCEPT ![s] = n]
        /\ worker[w].pc = "read"
    BY <1>6 DEF WritePage
  <2>2. row.pc = "written" /\ row.session = s /\ row.generation = g /\ row.snapshot = n
    BY <1>1 DEF WorkerRow
  <2>3. g <= n /\ \A h \in Generations : jobs[s][h].state = "completed" => h <= n
    BY <1>1, <2>1 DEF SnapshotCovers
  <2>4. n \in 0..MaxObs
    BY <1>1 DEF WorkerRow
  <2> HIDE DEF row, s, g, n
  <2>5. worker'[w] = row /\ page'[s] = n /\ \A t \in Sessions \ {s} : page'[t] = page[t]
    BY <1>1, <1>3, <2>1
  <2>6. SnapshotCovers'
    BY <1>1, <1>2, <2>2, <2>3, <2>5 DEF SnapshotCovers
  <2>7. WorkQueued'
    BY <1>1, <1>2, <1>3, <2>2, <2>3, <2>4, <2>5, MaxAssumption DEF WorkQueued, Generations
  <2>8. CompletedIsCovered'
    BY <1>1, <1>2, <2>3, <2>4, <2>5, MaxAssumption DEF CompletedIsCovered, Generations
  <2> QED BY <1>4, <2>6, <2>7, <2>8 DEF CoverInv
<1> QED BY <1>5, <1>6

\* The worker completes a generation that the page covers.
LEMMA CompleteCover ==
    ASSUME OneAtATime, CoverInv, TypeOK', NEW w \in Workers, Complete(w)
    PROVE  CoverInv'
<1> DEFINE row == [ClaimedJob(w) EXCEPT !.state = "completed", !.claim = None]
<1>1. /\ TypeOK /\ QueuedObserved /\ SeenCovers /\ WorkQueued /\ CompletedIsCovered
      /\ worker \in [Workers -> WorkerRow]
      /\ \A v \in Workers : v = w
  BY DEF CoverInv, TypeOK, OneAtATime
<1>2. /\ worker[w].pc = "written" /\ Settle(w, row)
      /\ worker' = [worker EXCEPT ![w] = At("idle")]
      /\ UNCHANGED <<obs, handler, page>>
  BY DEF Complete, sessionVars, hookVars
<1>3. Working(w)
  BY <1>2 DEF Working
<1>4. row \in JobRow /\ row.state = "completed"
  <2>1. ClaimedJob(w) \in JobRow
    BY <1>1, <1>3, SettledRows
  <2>2. row.state = "completed"
    BY <2>1 DEF JobRow
  <2>3. row \in JobRow
    BY <2>1 DEF JobRow, JobState
  <2> QED BY <2>2, <2>3
<1> HIDE DEF row
<1>5. \A t \in Sessions, h \in Generations :
        jobs'[t][h] = IF ClaimHolds(w) /\ t = worker[w].session /\ h = worker[w].generation
                      THEN row ELSE jobs[t][h]
  BY <1>1, <1>2, <1>3, <1>4, SettleFacts
<1>6. /\ worker[w].session \in Sessions /\ worker[w].generation \in Generations
      /\ jobs[worker[w].session][worker[w].generation].state # "none"
      /\ page[worker[w].session] >= worker[w].generation
  BY <1>1, <1>2, <1>3 DEF TypeOK, WorkQueued
<1>7. \A t \in Sessions, h \in Generations :
        jobs'[t][h].state # "none" <=> jobs[t][h].state # "none"
  BY <1>4, <1>5, <1>6
<1>8. QueuedObserved'
  BY <1>1, <1>2, <1>7 DEF QueuedObserved
<1>9. SeenCovers'
  <2>1. \A h \in Handlers : handler[h].pc # "idle" => handler[h].session \in Sessions
    BY <1>1 DEF TypeOK
  <2> QED BY <1>1, <1>2, <1>7, <2>1 DEF SeenCovers
<1>10. CompletedIsCovered'
  BY <1>1, <1>2, <1>5, <1>6 DEF CompletedIsCovered
<1>11. SnapshotCovers' /\ WorkQueued'
  <2>1. \A v \in Workers : worker'[v].pc = "idle"
    BY <1>1, <1>2 DEF At
  <2> QED BY <2>1 DEF SnapshotCovers, WorkQueued, Working
<1> QED BY <1>8, <1>9, <1>10, <1>11 DEF CoverInv

\* What the other steps of a handler leave in it.
LEMMA ReadsCover ==
    ASSUME TypeOK, NEW h \in Handlers, NEW row,
           handler' = [handler EXCEPT ![h] = row],
           \/ row.pc \notin {"read", "checkpoint"}
           \/ row.session \in Sessions /\ row.seen = obs[row.session]
    PROVE  HandlersRead
<1>1. /\ handler'[h] = row
      /\ \A k \in Handlers \ {h} : handler'[k] = handler[k]
  BY DEF TypeOK
<1> QED BY <1>1 DEF HandlersRead

\* The actions of a handler that write neither page nor jobs.
LEMMA HandlersMove ==
    ASSUME TypeOK, NEW h \in Handlers,
           \/ \E s \in Sessions : \/ AdmitEnd(h, s) \/ ResumeEnd(h, s) \/ ReplayEnd(h, s)
                                \/ AdmitCheckpoint(h, s)
           \/ HandlerReads(h) \/ CommitEnd(h) \/ DropEnd(h) \/ CheckpointReads(h)
    PROVE  HandlersRead /\ ObsGrow /\ UNCHANGED <<jobs, worker, page>>
<1>1. /\ handler \in [Handlers -> HandlerRow] /\ handler[h] \in HandlerRow
      /\ obs \in [Sessions -> 0..MaxObs]
      /\ handler[h].pc # "idle" => handler[h].session \in Sessions
  BY DEF TypeOK
<1>2. ASSUME NEW s \in Sessions, NEW pc \in {"admitted", "ended", "compacting"}, Begin(h, s, pc)
      PROVE  HandlersRead
  <2> DEFINE row == [pc |-> pc, session |-> s, scope |-> scope[s], seen |-> 0]
  <2>1. handler' = [handler EXCEPT ![h] = row]
    BY <1>2 DEF Begin
  <2>2. row.pc \notin {"read", "checkpoint"}
    OBVIOUS
  <2> HIDE DEF row
  <2> QED BY <2>1, <2>2, ReadsCover
<1>3. ASSUME NEW s \in Sessions, AdmitEnd(h, s) \/ AdmitCheckpoint(h, s)
      PROVE  HandlersRead /\ ObsGrow /\ UNCHANGED <<jobs, worker, page>>
  <2>1. /\ Begin(h, s, "admitted") \/ Begin(h, s, "compacting")
        /\ obs' = [obs EXCEPT ![s] = obs[s] + 1]
        /\ UNCHANGED <<jobs, worker, page>>
    BY <1>3 DEF AdmitEnd, AdmitCheckpoint, jobVars
  <2>2. ObsGrow
    BY <1>1, <2>1, MaxAssumption DEF ObsGrow
  <2> QED BY <1>2, <2>1, <2>2
<1>4. ASSUME NEW s \in Sessions, ResumeEnd(h, s) \/ ReplayEnd(h, s)
      PROVE  HandlersRead /\ UNCHANGED <<obs, jobs, worker, page>>
  BY <1>2, <1>4 DEF ResumeEnd, ReplayEnd, sessionVars, jobVars
<1>5. ASSUME HandlerReads(h) \/ CheckpointReads(h)
      PROVE  HandlersRead /\ UNCHANGED <<obs, jobs, worker, page>>
  <2>1. PICK pc \in {"read", "checkpoint"} :
          /\ handler' = [handler EXCEPT ![h] =
                [handler[h] EXCEPT !.pc = pc, !.seen = obs[handler[h].session]]]
          /\ handler[h].pc # "idle"
    BY <1>5 DEF HandlerReads, CheckpointReads
  <2> DEFINE row == [handler[h] EXCEPT !.pc = pc, !.seen = obs[handler[h].session]]
  <2>2. row.session \in Sessions /\ row.seen = obs[row.session]
    BY <1>1, <2>1 DEF HandlerRow
  <2>3. handler' = [handler EXCEPT ![h] = row]
    BY <2>1
  <2> HIDE DEF row
  <2>4. HandlersRead
    BY <2>2, <2>3, ReadsCover
  <2> QED BY <1>5, <2>4 DEF HandlerReads, CheckpointReads, sessionVars, jobVars
<1>6. ASSUME CommitEnd(h)
      PROVE  HandlersRead /\ UNCHANGED <<obs, jobs, worker, page>>
  <2> DEFINE row == [handler[h] EXCEPT !.pc = "ended"]
  <2>1. row.pc \notin {"read", "checkpoint"}
    BY <1>1 DEF HandlerRow
  <2>2. handler' = [handler EXCEPT ![h] = row]
    BY <1>6 DEF CommitEnd
  <2> HIDE DEF row
  <2>3. HandlersRead
    BY <2>1, <2>2, ReadsCover
  <2> QED BY <1>6, <2>3 DEF CommitEnd, jobVars
<1>7. ASSUME DropEnd(h)
      PROVE  HandlersRead /\ UNCHANGED <<obs, jobs, worker, page>>
  <2>1. handler' = [handler EXCEPT ![h] = NoHandler] /\ NoHandler.pc = "idle"
    BY <1>7 DEF DropEnd, NoHandler
  <2>2. HandlersRead
    BY <2>1, ReadsCover
  <2> QED BY <1>7, <2>2 DEF DropEnd, sessionVars, jobVars
<1>8. ASSUME UNCHANGED obs PROVE ObsGrow
  BY <1>1, <1>8, MaxAssumption DEF ObsGrow
<1> QED BY <1>3, <1>4, <1>5, <1>6, <1>7, <1>8

\* Quiet steps, and one lemma for each action that writes the page or the jobs.
LEMMA CoverStep == OneAtATime /\ CoverInv /\ [Next]_queueVars => CoverInv'
<1> SUFFICES ASSUME OneAtATime, CoverInv, [Next]_queueVars PROVE CoverInv'
  OBVIOUS
<1>1. TypeOK /\ TypeOK'
  BY TypeStep DEF CoverInv
<1>2. /\ obs \in [Sessions -> 0..MaxObs]
      /\ worker \in [Workers -> WorkerRow]
  BY <1>1 DEF TypeOK
<1>3. ASSUME UNCHANGED obs PROVE ObsGrow
  BY <1>2, <1>3, MaxAssumption DEF ObsGrow
<1>4. ASSUME UNCHANGED jobs PROVE RowsKept
  BY <1>4 DEF RowsKept
<1>5. ASSUME UNCHANGED handler PROVE HandlersRead
  BY <1>5 DEF HandlersRead
<1>6. ASSUME NEW hs \in SUBSET Handlers, CutShort(hs) PROVE HandlersRead
  BY <1>6 DEF CutShort, HandlersRead, NoHandler
<1>7. ASSUME NEW w \in Workers, NEW pc \in {"idle", "down"},
             worker' = [worker EXCEPT ![w] = At(pc)]
      PROVE  \A v \in Workers : worker'[v] = worker[v] \/ ~Working(v)'
  BY <1>2, <1>7 DEF At, Working
<1>8. ASSUME NEW s \in Sessions, Observe(s) PROVE CoverInv'
  <2>1. obs' = [obs EXCEPT ![s] = obs[s] + 1] /\ UNCHANGED <<handler, jobs, worker, page>>
    BY <1>8 DEF Observe, hookVars, jobVars
  <2>2. ObsGrow
    BY <1>2, <2>1, MaxAssumption DEF ObsGrow
  <2> QED BY <1>1, <1>4, <1>5, <2>1, <2>2, QuietCover
<1>9. ASSUME NEW h \in Handlers,
             \/ \E s \in Sessions : \/ AdmitEnd(h, s) \/ ResumeEnd(h, s) \/ ReplayEnd(h, s)
                                  \/ AdmitCheckpoint(h, s)
             \/ HandlerReads(h) \/ CommitEnd(h) \/ DropEnd(h) \/ CheckpointReads(h)
      PROVE  CoverInv'
  <2>1. HandlersRead /\ ObsGrow /\ UNCHANGED <<jobs, worker, page>>
    BY <1>1, <1>9, HandlersMove
  <2> QED BY <1>1, <1>4, <2>1, QuietCover
<1>10. ASSUME NEW h \in Handlers, FailHandler(h) PROVE CoverInv'
  <2>1. CutShort({h}) /\ UNCHANGED <<obs, jobs, worker, page>>
    BY <1>10 DEF FailHandler, sessionVars, jobVars
  <2> QED BY <1>1, <1>3, <1>4, <1>6, <2>1, QuietCover
<1>11. ASSUME NEW w \in Workers, Crash(w) PROVE CoverInv'
  <2>1. /\ \E hs \in SUBSET Handlers : CutShort(hs)
        /\ worker' = [worker EXCEPT ![w] = At("down")]
        /\ UNCHANGED <<obs, jobs, page>>
    BY <1>11 DEF Crash, sessionVars, jobVars
  <2>2. \A v \in Workers : worker'[v] = worker[v] \/ ~Working(v)'
    BY <1>7, <2>1
  <2> QED BY <1>1, <1>3, <1>4, <1>6, <2>1, <2>2, QuietCover
<1>12. ASSUME NEW w \in Workers, LoseUpdate(w) \/ Start(w) PROVE CoverInv'
  <2>1. /\ worker' = [worker EXCEPT ![w] = At("idle")]
        /\ UNCHANGED <<obs, handler, jobs, page>>
    BY <1>12 DEF LoseUpdate, Start, sessionVars, hookVars, jobVars
  <2>2. \A v \in Workers : worker'[v] = worker[v] \/ ~Working(v)'
    BY <1>7, <2>1
  <2> QED BY <1>1, <1>3, <1>4, <1>5, <2>1, <2>2, QuietCover
<1>13. ASSUME NEW w \in Workers, Fail(w) \/ Release(w) PROVE CoverInv'
  <2>1. /\ \E pc \in {"idle", "down"} : worker' = [worker EXCEPT ![w] = At(pc)]
        /\ UNCHANGED <<obs, handler, page>>
        /\ Working(w)
    BY <1>13 DEF Fail, Release, sessionVars, hookVars
  <2>2. PICK row \in JobRow : Settle(w, row) /\ row.state \in {"failed", "pending"}
    BY <1>1, <1>13, <2>1, SettledRows DEF Fail, Release
  <2>3. \A t \in Sessions, h \in Generations :
          jobs'[t][h] = IF ClaimHolds(w) /\ t = worker[w].session /\ h = worker[w].generation
                        THEN row ELSE jobs[t][h]
    BY <1>1, <2>1, <2>2, SettleFacts
  <2>4. RowsKept
    BY <2>2, <2>3 DEF RowsKept, ClaimHolds
  <2>5. \A v \in Workers : worker'[v] = worker[v] \/ ~Working(v)'
    BY <1>7, <2>1
  <2> QED BY <1>1, <1>3, <1>5, <2>1, <2>4, <2>5, QuietCover
<1>14. ASSUME NEW s \in Sessions, NEW g \in Generations, BecomeDue(s, g) \/ LeaseLapses(s, g)
       PROVE  CoverInv'
  <2>1. UNCHANGED <<obs, handler, worker, page>>
    BY <1>14 DEF BecomeDue, LeaseLapses, sessionVars, hookVars
  <2>2. \A t \in Sessions, h \in Generations : jobs'[t][h].state = jobs[t][h].state
    <3>1. jobs \in [Sessions -> [Generations -> JobRow]] /\ jobs[s][g] \in JobRow
      BY <1>1 DEF TypeOK
    <3>2. CASE BecomeDue(s, g)
      <4> DEFINE row == [jobs[s][g] EXCEPT !.due = TRUE]
      <4>1. row.state = jobs[s][g].state
        BY <3>1 DEF JobRow
      <4>2. row \in JobRow
        BY <3>1 DEF JobRow, JobState
      <4>3. Set(s, g, row)
        BY <3>2 DEF BecomeDue
      <4> HIDE DEF row
      <4> QED BY <1>1, <4>1, <4>2, <4>3, SetFacts
    <3>3. CASE LeaseLapses(s, g)
      <4> DEFINE row == [jobs[s][g] EXCEPT !.stale = TRUE]
      <4>1. row.state = jobs[s][g].state
        BY <3>1 DEF JobRow
      <4>2. row \in JobRow
        BY <3>1 DEF JobRow, JobState
      <4>3. Set(s, g, row)
        BY <3>3 DEF LeaseLapses
      <4> HIDE DEF row
      <4> QED BY <1>1, <4>1, <4>2, <4>3, SetFacts
    <3> QED BY <1>14, <3>2, <3>3
  <2>3. RowsKept
    BY <2>2 DEF RowsKept
  <2> QED BY <1>1, <1>3, <1>5, <2>1, <2>3, QuietCover
<1>15. ASSUME NEW s \in Sessions, NEW p \in Scopes, MoveSession(s, p) PROVE CoverInv'
  <2>1. UNCHANGED <<obs, handler, jobs, worker, page>>
    BY <1>15 DEF MoveSession, hookVars, jobVars
  <2> QED BY <1>1, <1>3, <1>4, <1>5, <2>1, QuietCover
<1>16. CASE UNCHANGED queueVars
  <2>1. UNCHANGED <<obs, handler, jobs, worker, page>>
    BY <1>16 DEF queueVars, sessionVars, hookVars, jobVars
  <2> QED BY <1>1, <1>3, <1>4, <1>5, <2>1, QuietCover
<1> QED BY <1>1, <1>8, <1>9, <1>10, <1>11, <1>12, <1>13, <1>14, <1>15, <1>16,
           HandlerCover, EnqueueCover, ClaimCover, WorkCover, CompleteCover DEF Next

\* On one server that handles hook events one at a time, a completed
\* generation is covered by the session's page, whatever was observed,
\* crashed, retried, checkpointed, moved or ended again meanwhile.
THEOREM CompletedCovered == ASSUME OneAtATime PROVE Spec => []CompletedIsCovered
<1>1. CoverInv => CompletedIsCovered
  BY DEF CoverInv
<1>2. CoverInv /\ [Next]_queueVars => CoverInv'
  BY CoverStep
<1> QED BY <1>1, <1>2, CoverInit, PTL DEF Spec
===========================================================================
