--------------------- MODULE ConsolidationQueueProofs ---------------------
(***************************************************************************)
(* Proofs about ConsolidationQueue for any number of sessions, servers,    *)
(* attempts and observations.                                              *)
(***************************************************************************)
EXTENDS ConsolidationQueue, TLAPS

---------------------------------------------------------------------------
(* Rows. *)

\* The updates of a job row that the transactions make.
LEMMA JobRowUpdates ==
    ASSUME NEW row \in JobRow
    PROVE  /\ [row EXCEPT !.state = "superseded", !.claim = None] \in JobRow
           /\ [row EXCEPT !.state = "completed", !.claim = None] \in JobRow
           /\ [row EXCEPT !.state = "failed", !.claim = None] \in JobRow
           /\ [row EXCEPT !.state = "pending", !.due = FALSE, !.stale = FALSE,
                          !.claim = None] \in JobRow
           /\ [row EXCEPT !.due = TRUE] \in JobRow
           /\ [row EXCEPT !.stale = TRUE] \in JobRow
<1>1. /\ "superseded" \in JobState /\ "completed" \in JobState
      /\ "failed" \in JobState /\ "pending" \in JobState
  BY DEF JobState
<1> QED BY <1>1 DEF JobRow

\* A claim charges at most one attempt and makes the row running.
LEMMA ClaimedFacts ==
    ASSUME NEW row \in JobRow, NEW c \in Claims
    PROVE  /\ Claimed(row, c) \in JobRow
           /\ Claimed(row, c).state = "running"
           /\ Claimed(row, c).claim = c
           /\ Claimed(row, c).attempts = Charged(row)
           /\ Charged(row) \in Nat
           /\ Charged(row) = IF row.state = "pending" THEN row.attempts + 1 ELSE row.attempts
<1>1. Charged(row) \in Nat
  BY DEF Charged, JobRow
<1>2. "running" \in JobState
  BY DEF JobState
<1>3. \A n \in Nat : [row EXCEPT !.state = "running", !.stale = FALSE, !.claim = c,
                                 !.attempts = n] \in JobRow
  BY <1>2 DEF JobRow
<1>4. Claimed(row, c) = [row EXCEPT !.state = "running", !.stale = FALSE, !.claim = c,
                                    !.attempts = Charged(row)]
  BY DEF Claimed
<1>5. Claimed(row, c) \in JobRow
  BY <1>1, <1>3, <1>4
<1> QED BY <1>1, <1>4, <1>5 DEF Charged, JobRow

\* Writing one row of the job table leaves the others alone.
LEMMA SetFacts ==
    ASSUME TypeOK, NEW s \in Sessions, NEW g \in Generations, NEW row \in JobRow,
           Set(s, g, row)
    PROVE  /\ jobs' \in [Sessions -> [Generations -> JobRow]]
           /\ \A t \in Sessions, h \in Generations :
                jobs'[t][h] = IF t = s /\ h = g THEN row ELSE jobs[t][h]
BY DEF Set, TypeOK

\* complete, fail and release write the claimed row while the claim holds.
LEMMA SettleFacts ==
    ASSUME TypeOK, NEW w \in Workers, Working(w), NEW row \in JobRow, Settle(w, row)
    PROVE  /\ jobs' \in [Sessions -> [Generations -> JobRow]]
           /\ \A t \in Sessions, h \in Generations :
                jobs'[t][h] = IF ClaimHolds(w) /\ t = worker[w].session
                                               /\ h = worker[w].generation
                              THEN row ELSE jobs[t][h]
<1>1. worker[w].session \in Sessions /\ worker[w].generation \in Generations
  BY DEF TypeOK
<1>2. CASE ClaimHolds(w)
  BY <1>1, <1>2, SetFacts DEF Settle
<1>3. CASE ~ClaimHolds(w)
  BY <1>3 DEF Settle, TypeOK
<1> QED BY <1>2, <1>3

LEMMA WorkerRows ==
    ASSUME TypeOK, NEW w \in Workers
    PROVE  /\ worker[w] \in WorkerRow
           /\ \A pc \in {"down", "idle"} : At(pc) \in WorkerRow /\ At(pc).pc = pc
           /\ \A n \in 0..MaxObs :
                LET row == [worker[w] EXCEPT !.pc = "read", !.snapshot = n]
                IN /\ row \in WorkerRow
                   /\ row.session = worker[w].session
                   /\ row.generation = worker[w].generation
           /\ [worker[w] EXCEPT !.pc = "written"] \in WorkerRow
<1>1. worker[w] \in WorkerRow
  BY DEF TypeOK
<1>2. ASSUME NEW pc \in {"down", "idle"} PROVE At(pc) \in WorkerRow /\ At(pc).pc = pc
  BY MaxAssumption DEF WorkerRow, At
<1>3. ASSUME NEW n \in 0..MaxObs
      PROVE  LET row == [worker[w] EXCEPT !.pc = "read", !.snapshot = n]
             IN /\ row \in WorkerRow
                /\ row.session = worker[w].session
                /\ row.generation = worker[w].generation
  BY <1>1 DEF WorkerRow
<1>4. [worker[w] EXCEPT !.pc = "written"] \in WorkerRow
  BY <1>1 DEF WorkerRow
<1> QED BY <1>1, <1>2, <1>3, <1>4

\* The rows that a worker settles its claimed job with.
LEMMA SettledRows ==
    ASSUME TypeOK, NEW w \in Workers, Working(w)
    PROVE  /\ ClaimedJob(w) \in JobRow
           /\ FailedRow(w) \in JobRow
           /\ FailedRow(w).attempts = ClaimedJob(w).attempts
           /\ FailedRow(w).state = IF worker[w].attempts >= MaxAttempts
                                   THEN "failed" ELSE "pending"
           /\ ReleasedRow(w) \in JobRow
           /\ ReleasedRow(w).attempts = Refunded(w)
           /\ ReleasedRow(w).state = "pending"
           /\ Refunded(w) \in Nat
<1>1. /\ ClaimedJob(w) \in JobRow
      /\ ClaimedJob(w).attempts \in Nat
  BY DEF TypeOK, ClaimedJob, JobRow
<1>2. FailedRow(w) \in JobRow
  BY <1>1, JobRowUpdates DEF FailedRow
<1>3. /\ FailedRow(w).attempts = ClaimedJob(w).attempts
      /\ FailedRow(w).state = IF worker[w].attempts >= MaxAttempts
                              THEN "failed" ELSE "pending"
  BY <1>1 DEF FailedRow, JobRow
<1>4. Refunded(w) \in Nat
  BY <1>1 DEF Refunded
<1>5. "pending" \in JobState
  BY DEF JobState
<1>6. /\ ReleasedRow(w) \in JobRow
      /\ ReleasedRow(w).attempts = Refunded(w)
      /\ ReleasedRow(w).state = "pending"
  BY <1>1, <1>4, <1>5 DEF ReleasedRow, JobRow
<1> QED BY <1>1, <1>2, <1>3, <1>4, <1>6

\* The moves of a handler.
LEMMA HandlerRows ==
    ASSUME TypeOK, NEW h \in Handlers
    PROVE  /\ NoHandler \in HandlerRow /\ NoHandler.pc = "idle"
           /\ \A s \in Sessions, pc \in {"admitted", "ended", "compacting"} :
                [pc |-> pc, session |-> s, scope |-> scope[s], seen |-> 0] \in HandlerRow
           /\ \A pc \in {"paged", "ended"} :
                LET row == [handler[h] EXCEPT !.pc = pc]
                IN row \in HandlerRow /\ row.session = handler[h].session
           /\ \A pc \in {"read", "checkpoint"}, n \in 0..MaxObs :
                LET row == [handler[h] EXCEPT !.pc = pc, !.seen = n]
                IN row \in HandlerRow /\ row.session = handler[h].session
<1>1. handler[h] \in HandlerRow /\ scope \in [Sessions -> Scopes]
  BY DEF TypeOK
<1>2. NoHandler \in HandlerRow /\ NoHandler.pc = "idle"
  BY MaxAssumption DEF NoHandler, HandlerRow
<1>3. ASSUME NEW s \in Sessions, NEW pc \in {"admitted", "ended", "compacting"}
      PROVE  [pc |-> pc, session |-> s, scope |-> scope[s], seen |-> 0] \in HandlerRow
  BY <1>1, MaxAssumption DEF HandlerRow
<1>4. ASSUME NEW pc \in {"paged", "ended"}
      PROVE  LET row == [handler[h] EXCEPT !.pc = pc]
             IN row \in HandlerRow /\ row.session = handler[h].session
  BY <1>1 DEF HandlerRow
<1>5. ASSUME NEW pc \in {"read", "checkpoint"}, NEW n \in 0..MaxObs
      PROVE  LET row == [handler[h] EXCEPT !.pc = pc, !.seen = n]
             IN row \in HandlerRow /\ row.session = handler[h].session
  BY <1>1 DEF HandlerRow
<1> QED BY <1>2, <1>3, <1>4, <1>5

\* The part of TypeOK about handlers: a busy one works on a session of the
\* table.
HandlersOK ==
    /\ handler \in [Handlers -> HandlerRow]
    /\ \A h \in Handlers : handler[h].pc # "idle" => handler[h].session \in Sessions

\* Every action of a handler keeps the handlers well typed.
LEMMA HandlerStep ==
    ASSUME TypeOK, NEW h \in Handlers,
           \/ \E s \in Sessions, pc \in {"admitted", "ended", "compacting"} : Begin(h, s, pc)
           \/ /\ handler[h].pc # "idle"
              /\ \/ handler' = [handler EXCEPT ![h] = NoHandler]
                 \/ \E pc \in {"paged", "ended"} :
                       handler' = [handler EXCEPT ![h] = [handler[h] EXCEPT !.pc = pc]]
                 \/ \E pc \in {"read", "checkpoint"} :
                       handler' = [handler EXCEPT ![h] =
                         [handler[h] EXCEPT !.pc = pc, !.seen = obs[handler[h].session]]]
    PROVE  HandlersOK'
<1>1. HandlersOK
  BY DEF TypeOK, HandlersOK
<1>2. SUFFICES ASSUME NEW row \in HandlerRow,
                      handler' = [handler EXCEPT ![h] = row],
                      row.pc # "idle" => row.session \in Sessions
               PROVE  HandlersOK'
  <2>1. ASSUME NEW s \in Sessions, NEW pc \in {"admitted", "ended", "compacting"},
               Begin(h, s, pc)
        PROVE  HandlersOK'
    <3>1. handler' = [handler EXCEPT ![h] =
                        [pc |-> pc, session |-> s, scope |-> scope[s], seen |-> 0]]
      BY <2>1 DEF Begin
    <3>2. [pc |-> pc, session |-> s, scope |-> scope[s], seen |-> 0] \in HandlerRow
      BY HandlerRows
    <3> QED BY <1>2, <3>1, <3>2
  <2>2. CASE handler' = [handler EXCEPT ![h] = NoHandler]
    BY <1>2, <2>2, HandlerRows
  <2>3. ASSUME NEW pc \in {"paged", "ended"}, handler[h].pc # "idle",
               handler' = [handler EXCEPT ![h] = [handler[h] EXCEPT !.pc = pc]]
        PROVE  HandlersOK'
    <3>1. /\ [handler[h] EXCEPT !.pc = pc] \in HandlerRow
          /\ [handler[h] EXCEPT !.pc = pc].session \in Sessions
      BY <1>1, <2>3, HandlerRows DEF HandlersOK
    <3> QED BY <1>2, <2>3, <3>1
  <2>4. ASSUME NEW pc \in {"read", "checkpoint"}, handler[h].pc # "idle",
               handler' = [handler EXCEPT ![h] =
                 [handler[h] EXCEPT !.pc = pc, !.seen = obs[handler[h].session]]]
        PROVE  HandlersOK'
    <3>1. handler[h].session \in Sessions
      BY <1>1, <2>4 DEF HandlersOK
    <3>2. obs[handler[h].session] \in 0..MaxObs
      BY <3>1 DEF TypeOK
    <3>3. /\ [handler[h] EXCEPT !.pc = pc, !.seen = obs[handler[h].session]] \in HandlerRow
          /\ [handler[h] EXCEPT !.pc = pc, !.seen = obs[handler[h].session]].session
                = handler[h].session
      BY <3>2, HandlerRows
    <3> QED BY <1>2, <2>4, <3>1, <3>3
  <2> QED BY <2>1, <2>2, <2>3, <2>4
<1> QED BY <1>1, <1>2 DEF HandlersOK

\* Handlers that are cut short leave the others as they were.
LEMMA CutShortFacts ==
    ASSUME TypeOK, NEW hs \in SUBSET Handlers, CutShort(hs)
    PROVE  HandlersOK' /\ unacked' \in SUBSET Sessions
<1>1. HandlersOK /\ unacked \in SUBSET Sessions
  BY DEF TypeOK, HandlersOK
<1>2. NoHandler \in HandlerRow /\ NoHandler.pc = "idle"
  BY MaxAssumption DEF NoHandler, HandlerRow
<1>3. HandlersOK'
  BY <1>1, <1>2 DEF CutShort, HandlersOK
<1>4. unacked' \in SUBSET Sessions
  BY <1>1 DEF CutShort, HandlersOK, Ending
<1> QED BY <1>3, <1>4

\* What an enqueue does to the jobs: a new row, superseded older pending
\* rows, everything else untouched.
LEMMA EnqueueFacts ==
    ASSUME TypeOK, NEW k \in Handlers, Enqueue(k)
    PROVE  /\ jobs' \in [Sessions -> [Generations -> JobRow]]
           /\ \A t \in Sessions, h \in Generations :
                \/ jobs'[t][h] = jobs[t][h]
                \/ /\ jobs[t][h].state = "none"
                   /\ jobs'[t][h] = NewJob
                \/ /\ jobs[t][h].state = "pending"
                   /\ jobs'[t][h].state = "superseded"
                   /\ jobs'[t][h].claim = None
                   /\ jobs'[t][h].attempts = jobs[t][h].attempts
           /\ order' \in Seq(Job)
<1> DEFINE s == handler[k].session
           p == handler[k].scope
<1>0. s \in Sessions
  BY DEF TypeOK, Enqueue
<1>1. /\ jobs \in [Sessions -> [Generations -> JobRow]]
      /\ obs[s] \in 0..MaxObs
      /\ order \in Seq(Job)
      /\ jobs' = [jobs EXCEPT ![s] = Enqueued(s, Inserts(s, p))]
      /\ order' = IF Inserts(s, p) THEN Append(order, <<s, obs[s]>>) ELSE order
  BY <1>0 DEF TypeOK, Enqueue
<1> HIDE DEF s, p
<1>2. NewJob \in JobRow
  BY DEF NewJob, JobRow, JobState
<1>3. ASSUME NEW h \in Generations
      PROVE  /\ Enqueued(s, Inserts(s, p))[h] \in JobRow
             /\ \/ Enqueued(s, Inserts(s, p))[h] = jobs[s][h]
                \/ /\ jobs[s][h].state = "none"
                   /\ Enqueued(s, Inserts(s, p))[h] = NewJob
                \/ /\ jobs[s][h].state = "pending"
                   /\ Enqueued(s, Inserts(s, p))[h].state = "superseded"
                   /\ Enqueued(s, Inserts(s, p))[h].claim = None
                   /\ Enqueued(s, Inserts(s, p))[h].attempts = jobs[s][h].attempts
  <2>1. CASE Inserts(s, p) /\ h = obs[s]
    BY <1>2, <2>1 DEF Enqueued, Inserts
  <2>2. CASE ~(Inserts(s, p) /\ h = obs[s]) /\ jobs[s][h].state = "pending" /\ h < obs[s]
    <3>1. Enqueued(s, Inserts(s, p))[h] =
            [jobs[s][h] EXCEPT !.state = "superseded", !.claim = None]
      BY <2>2 DEF Enqueued
    <3>2. jobs[s][h] \in JobRow
      BY <1>0, <1>1
    <3>3. [jobs[s][h] EXCEPT !.state = "superseded", !.claim = None] \in JobRow
      BY <3>2, JobRowUpdates
    <3> QED BY <2>2, <3>1, <3>2, <3>3 DEF JobRow
  <2>3. CASE /\ ~(Inserts(s, p) /\ h = obs[s])
             /\ ~(jobs[s][h].state = "pending" /\ h < obs[s])
    BY <1>0, <1>1, <2>3 DEF Enqueued
  <2> QED BY <2>1, <2>2, <2>3
<1>4. Enqueued(s, Inserts(s, p)) \in [Generations -> JobRow]
  BY <1>3 DEF Enqueued
<1>5. order' \in Seq(Job)
  <2>1. CASE Inserts(s, p)
    <3>1. obs[s] \in Generations
      BY <1>1, <2>1, MaxAssumption DEF Inserts, Generations
    <3> QED BY <1>0, <1>1, <2>1, <3>1 DEF Job
  <2>2. CASE ~Inserts(s, p)
    BY <1>1, <2>2
  <2> QED BY <2>1, <2>2
<1> QED BY <1>0, <1>1, <1>3, <1>4, <1>5

\* A claim takes one queued job, charges it and hands its id to one worker.
LEMMA ClaimFacts ==
    ASSUME TypeOK, NEW w \in Workers, Claim(w)
    PROVE  \E s \in Sessions, g \in Generations, c \in FreshClaims :
             /\ Claimable(jobs[s][g])
             /\ Set(s, g, Claimed(jobs[s][g], c))
             /\ worker' = [worker EXCEPT ![w] =
                  [pc |-> "claimed", session |-> s, generation |-> g,
                   attempts |-> Charged(jobs[s][g]), claim |-> c,
                   spent |-> jobs[s][g].state = "pending", snapshot |-> 0]]
<1>1. PICK i \in DOMAIN order, c \in FreshClaims :
         /\ Claimable(JobAt(order[i]))
         /\ Set(order[i][1], order[i][2], Claimed(jobs[order[i][1]][order[i][2]], c))
         /\ worker' = [worker EXCEPT ![w] =
              [pc |-> "claimed", session |-> order[i][1], generation |-> order[i][2],
               attempts |-> Charged(jobs[order[i][1]][order[i][2]]), claim |-> c,
               spent |-> jobs[order[i][1]][order[i][2]].state = "pending",
               snapshot |-> 0]]
  BY DEF Claim
<1>2. order[i] \in Job
  BY DEF TypeOK
<1>3. order[i][1] \in Sessions /\ order[i][2] \in Generations
  BY <1>2 DEF Job
<1> QED BY <1>1, <1>3 DEF JobAt

\* Every step keeps the state well typed.
LEMMA TypeStep == TypeOK /\ [Next]_queueVars => TypeOK'
<1> SUFFICES ASSUME TypeOK, [Next]_queueVars
             PROVE  TypeOK'
  OBVIOUS
<1> USE DEF sessionVars, hookVars, jobVars
<1>0. /\ obs \in [Sessions -> 0..MaxObs] /\ ended \in SUBSET Sessions
      /\ endCount \in [Sessions -> 0..MaxObs]
      /\ scope \in [Sessions -> Scopes]
      /\ HandlersOK
      /\ unacked \in SUBSET Sessions
      /\ order \in Seq(Job)
      /\ jobs \in [Sessions -> [Generations -> JobRow]]
      /\ worker \in [Workers -> WorkerRow]
      /\ page \in [Sessions -> 0..MaxObs]
      /\ failures \in [Sessions -> [Generations -> Nat]]
      /\ stops \in 0..MaxStops
  BY DEF TypeOK, HandlersOK
<1>a. ASSUME NEW s \in Sessions, Observe(s) PROVE TypeOK'
  BY <1>0, <1>a, MaxAssumption DEF Observe, TypeOK, Working, HandlersOK
<1>c. ASSUME NEW s \in Sessions, NEW p \in Scopes, MoveSession(s, p) PROVE TypeOK'
  BY <1>0, <1>c DEF MoveSession, TypeOK, Working, HandlersOK
\* The actions of a handler that touch no job.
<1>b. ASSUME HandlersOK', UNCHANGED <<scope, jobVars, worker>>,
             obs' \in [Sessions -> 0..MaxObs], ended' \in SUBSET Sessions,
             endCount' \in [Sessions -> 0..MaxObs],
             unacked' \in SUBSET Sessions,
             page' \in [Sessions -> 0..MaxObs],
             stops' \in 0..MaxStops
      PROVE  TypeOK'
  BY <1>0, <1>b DEF TypeOK, Working, HandlersOK
<1>p. ASSUME NEW h \in Handlers, NEW s \in Sessions,
             \/ AdmitEnd(h, s) \/ ResumeEnd(h, s) \/ ReplayEnd(h, s)
             \/ AdmitCheckpoint(h, s)
      PROVE  TypeOK'
  <2>1. HandlersOK'
    BY <1>p, HandlerStep DEF AdmitEnd, ResumeEnd, ReplayEnd, AdmitCheckpoint
  <2>2. obs' \in [Sessions -> 0..MaxObs]
    BY <1>0, <1>p, MaxAssumption DEF AdmitEnd, ResumeEnd, ReplayEnd, AdmitCheckpoint
  <2> QED BY <1>0, <1>b, <1>p, <2>1, <2>2
          DEF AdmitEnd, ResumeEnd, ReplayEnd, AdmitCheckpoint
<1>q. ASSUME NEW h \in Handlers,
             \/ HandlerReads(h) \/ DropEnd(h) \/ CheckpointReads(h)
      PROVE  TypeOK'
  <2>1. HandlersOK'
    BY <1>q, HandlerStep DEF HandlerReads, DropEnd, CheckpointReads
  <2> QED BY <1>0, <1>b, <1>q, <2>1 DEF HandlerReads, DropEnd, CheckpointReads
<1>r. ASSUME NEW h \in Handlers, WriteHeuristicPage(h) \/ WriteCheckpoint(h)
      PROVE  TypeOK'
  <2>1. HandlersOK'
    BY <1>r, HandlerStep DEF WriteHeuristicPage, WriteCheckpoint
  <2>2. handler[h].seen \in 0..MaxObs
    BY <1>0 DEF HandlersOK, HandlerRow
  <2>3. page' \in [Sessions -> 0..MaxObs]
    BY <1>0, <1>r, <2>2 DEF WriteHeuristicPage, WriteCheckpoint
  <2> QED BY <1>0, <1>b, <1>r, <2>1, <2>3 DEF WriteHeuristicPage, WriteCheckpoint
<1>s. ASSUME NEW h \in Handlers, CommitEnd(h) PROVE TypeOK'
  <2>1. HandlersOK'
    BY <1>s, HandlerStep DEF CommitEnd
  <2>2. handler[h].session \in Sessions
    BY <1>0, <1>s DEF CommitEnd, HandlersOK
  <2>3. ended' \in SUBSET Sessions /\ endCount' \in [Sessions -> 0..MaxObs]
    BY <1>0, <1>s, <2>2 DEF CommitEnd
  <2> QED BY <1>0, <1>b, <1>s, <2>1, <2>3 DEF CommitEnd
<1>t. ASSUME NEW h \in Handlers, FailHandler(h) PROVE TypeOK'
  <2>1. HandlersOK' /\ unacked' \in SUBSET Sessions
    BY <1>t, CutShortFacts DEF FailHandler
  <2>2. stops' \in 0..MaxStops
    BY <1>0, <1>t, MaxAssumption DEF FailHandler
  <2> QED BY <1>0, <1>b, <1>t, <2>1, <2>2 DEF FailHandler
<1>d. ASSUME NEW h \in Handlers, Enqueue(h) PROVE TypeOK'
  <2>1. /\ jobs' \in [Sessions -> [Generations -> JobRow]]
        /\ order' \in Seq(Job)
    BY <1>d, EnqueueFacts
  <2>2. HandlersOK'
    BY <1>d, HandlerStep DEF Enqueue
  <2>3. UNCHANGED <<sessionVars, unacked, worker, page, failures, stops>>
    BY <1>d DEF Enqueue
  <2> QED BY <1>0, <2>1, <2>2, <2>3 DEF TypeOK, Working, HandlersOK
<1>e. ASSUME NEW s \in Sessions, NEW g \in Generations,
             BecomeDue(s, g) \/ LeaseLapses(s, g)
      PROVE  TypeOK'
  <2>1. jobs[s][g] \in JobRow
    BY <1>0
  <2>2. jobs' \in [Sessions -> [Generations -> JobRow]]
    <3>1. CASE BecomeDue(s, g)
      BY <2>1, <3>1, SetFacts, JobRowUpdates DEF BecomeDue
    <3>2. CASE LeaseLapses(s, g)
      BY <2>1, <3>2, SetFacts, JobRowUpdates DEF LeaseLapses
    <3> QED BY <1>e, <3>1, <3>2
  <2> QED BY <1>0, <1>e, <2>2 DEF BecomeDue, LeaseLapses, TypeOK, Working
\* A worker that ends its work, and settles its job, stays well typed.
<1>w. ASSUME NEW w \in Workers, NEW pc \in {"down", "idle"},
             worker' = [worker EXCEPT ![w] = At(pc)]
      PROVE  /\ worker' \in [Workers -> WorkerRow]
             /\ \A v \in Workers : Working(v)' =>
                  /\ worker'[v].session \in Sessions
                  /\ worker'[v].generation \in Generations
  <2>1. At(pc) \in WorkerRow /\ At(pc).pc = pc
    BY WorkerRows
  <2> QED BY <1>0, <1>w, <2>1 DEF Working, TypeOK
<1>f. ASSUME NEW w \in Workers, Claim(w) PROVE TypeOK'
  <2>1. PICK s \in Sessions, g \in Generations, c \in FreshClaims :
          /\ Set(s, g, Claimed(jobs[s][g], c))
          /\ worker' = [worker EXCEPT ![w] =
               [pc |-> "claimed", session |-> s, generation |-> g,
                attempts |-> Charged(jobs[s][g]), claim |-> c,
                spent |-> jobs[s][g].state = "pending", snapshot |-> 0]]
    BY <1>f, ClaimFacts
  <2>2. jobs[s][g] \in JobRow /\ c \in Claims
    BY <1>0 DEF FreshClaims
  <2>3. Claimed(jobs[s][g], c) \in JobRow /\ Charged(jobs[s][g]) \in Nat
    BY <2>2, ClaimedFacts
  <2>4. jobs' \in [Sessions -> [Generations -> JobRow]]
    BY <2>1, <2>3, SetFacts
  <2>5. [pc |-> "claimed", session |-> s, generation |-> g,
         attempts |-> Charged(jobs[s][g]), claim |-> c,
         spent |-> jobs[s][g].state = "pending", snapshot |-> 0] \in WorkerRow
    BY <2>2, <2>3, MaxAssumption DEF WorkerRow, Generations
  <2>6. /\ worker' \in [Workers -> WorkerRow]
        /\ \A v \in Workers : Working(v)' =>
             /\ worker'[v].session \in Sessions
             /\ worker'[v].generation \in Generations
    BY <1>0, <2>1, <2>5 DEF Working, TypeOK
  <2> QED BY <1>0, <1>f, <2>4, <2>6 DEF Claim, TypeOK, HandlersOK
<1>g. ASSUME NEW w \in Workers, ReadObservations(w) PROVE TypeOK'
  <2>1. /\ Working(w) /\ worker[w].session \in Sessions
        /\ obs[worker[w].session] \in 0..MaxObs
    BY <1>0, <1>g, MaxAssumption DEF ReadObservations, Working, TypeOK
  <2>2. worker' = [worker EXCEPT ![w] =
                     [worker[w] EXCEPT !.pc = "read", !.snapshot = obs[worker[w].session]]]
    BY <1>g DEF ReadObservations
  <2>3. /\ worker' \in [Workers -> WorkerRow]
        /\ \A v \in Workers : Working(v)' =>
             /\ worker'[v].session \in Sessions
             /\ worker'[v].generation \in Generations
    BY <1>0, <2>1, <2>2, WorkerRows DEF Working, TypeOK
  <2> QED BY <1>0, <1>g, <2>3 DEF ReadObservations, TypeOK, HandlersOK
<1>h. ASSUME NEW w \in Workers, WritePage(w) PROVE TypeOK'
  <2>1. Working(w) /\ worker[w] \in WorkerRow
    BY <1>0, <1>h DEF WritePage, Working
  <2>2. worker' = [worker EXCEPT ![w] = [worker[w] EXCEPT !.pc = "written"]]
    BY <1>h DEF WritePage
  <2>3. /\ [worker[w] EXCEPT !.pc = "written"] \in WorkerRow
        /\ [worker[w] EXCEPT !.pc = "written"].session = worker[w].session
        /\ [worker[w] EXCEPT !.pc = "written"].generation = worker[w].generation
    BY <2>1 DEF WorkerRow
  <2>4. /\ worker' \in [Workers -> WorkerRow]
        /\ \A v \in Workers : Working(v)' =>
             /\ worker'[v].session \in Sessions
             /\ worker'[v].generation \in Generations
    BY <1>0, <2>1, <2>2, <2>3 DEF Working, TypeOK
  <2>5. page' \in [Sessions -> 0..MaxObs]
    BY <1>0, <1>h, <2>1 DEF WritePage, WorkerRow
  <2> QED BY <1>0, <1>h, <2>4, <2>5 DEF WritePage, TypeOK, HandlersOK
<1>i. ASSUME NEW w \in Workers, Complete(w) PROVE TypeOK'
  <2>1. Working(w)
    BY <1>i DEF Complete, Working
  <2>2. [ClaimedJob(w) EXCEPT !.state = "completed", !.claim = None] \in JobRow
    BY <2>1, SettledRows, JobRowUpdates
  <2>3. jobs' \in [Sessions -> [Generations -> JobRow]]
    BY <1>i, <2>1, <2>2, SettleFacts DEF Complete
  <2> QED BY <1>0, <1>i, <1>w, <2>3 DEF Complete, TypeOK, HandlersOK
<1>j. ASSUME NEW w \in Workers, Fail(w) PROVE TypeOK'
  <2>1. Working(w) /\ worker[w].session \in Sessions /\ worker[w].generation \in Generations
    BY <1>j DEF Fail, TypeOK
  <2>2. jobs' \in [Sessions -> [Generations -> JobRow]]
    BY <1>j, <2>1, SettledRows, SettleFacts DEF Fail
  <2>3. failures' \in [Sessions -> [Generations -> Nat]]
    BY <1>0, <1>j, <2>1 DEF Fail
  <2> QED BY <1>0, <1>j, <1>w, <2>2, <2>3 DEF Fail, TypeOK, HandlersOK
<1>k. ASSUME NEW w \in Workers, Release(w) PROVE TypeOK'
  <2>1. Working(w)
    BY <1>k DEF Release
  <2>2. jobs' \in [Sessions -> [Generations -> JobRow]]
    BY <1>k, <2>1, SettledRows, SettleFacts DEF Release
  <2>3. stops' \in 0..MaxStops
    BY <1>0, <1>k, MaxAssumption DEF Release
  <2> QED BY <1>0, <1>k, <1>w, <2>2, <2>3 DEF Release, TypeOK, HandlersOK
<1>l. ASSUME NEW w \in Workers, Crash(w) PROVE TypeOK'
  <2>1. stops' \in 0..MaxStops
    BY <1>0, <1>l, MaxAssumption DEF Crash
  <2>2. HandlersOK' /\ unacked' \in SUBSET Sessions
    BY <1>l, CutShortFacts DEF Crash
  <2> QED BY <1>0, <1>l, <1>w, <2>1, <2>2 DEF Crash, TypeOK, HandlersOK
<1>m. ASSUME NEW w \in Workers, LoseUpdate(w) PROVE TypeOK'
  <2>1. stops' \in 0..MaxStops
    BY <1>0, <1>m, MaxAssumption DEF LoseUpdate
  <2> QED BY <1>0, <1>m, <1>w, <2>1 DEF LoseUpdate, TypeOK, HandlersOK
<1>n. ASSUME NEW w \in Workers, Start(w) PROVE TypeOK'
  BY <1>0, <1>n, <1>w DEF Start, TypeOK, HandlersOK
<1>o. CASE UNCHANGED queueVars
  BY <1>0, <1>o DEF queueVars, TypeOK, Working, HandlersOK
<1> QED BY <1>a, <1>c, <1>d, <1>p, <1>q, <1>r, <1>s, <1>t, <1>e, <1>f, <1>g, <1>h, <1>i, <1>j, <1>k, <1>l,
           <1>m, <1>n, <1>o DEF Next

\* Every reachable state is well typed; in particular a worker at work holds
\* a claim on a job of the table.
THEOREM QueueTypeInvariant == Spec => []TypeOK
<1>1. Init => TypeOK
  BY MaxAssumption, HomeScopeAssumption
  DEF Init, TypeOK, NoJob, JobRow, JobState, At, WorkerRow, Working, Generations,
      NoHandler, HandlerRow
<1> QED BY <1>1, TypeStep, PTL DEF Spec
===========================================================================
