------------------------ MODULE ConsolidationQueue ------------------------
(***************************************************************************)
(* The durable queue of session consolidations: the transactions of        *)
(* crates/ai-memory-store/src/session_consolidation.rs, the server worker  *)
(* that consumes them (serve.rs) and the session-end handlers that fill    *)
(* it (ai-memory-hooks/src/router.rs).  A generation is the number of      *)
(* observations the session had when its job was queued.                   *)
(*                                                                         *)
(* Several workers stand for several servers on one data directory, which  *)
(* `serve --force` and filesystems without locks allow.  next_attempt_at   *)
(* and started_at are modelled by whether they have been reached (`due`)   *)
(* or lie a lease back (`stale`).                                          *)
(***************************************************************************)
EXTENDS Naturals, Sequences

CONSTANTS
    Sessions,
    Scopes,       \* (workspace, project) pairs a session may belong to
    HomeScope,    \* the scope every session starts in
    Handlers,     \* bound: hook handlers at work at one time
    Workers,      \* one consolidation worker per server process
    Claims,       \* claim ids
    MaxAttempts,  \* SESSION_CONSOLIDATION_MAX_ATTEMPTS
    MaxObs,       \* bound: observations of one session
    MaxStops,     \* bound: crashes, shutdowns and failed effects
    None

ASSUME HomeScopeAssumption == HomeScope \in Scopes
ASSUME MaxAssumption == MaxAttempts \in Nat \ {0} /\ MaxObs \in Nat /\ MaxStops \in Nat
ASSUME ClaimAssumption == None \notin Claims /\ None \notin Sessions /\ None \notin Scopes

VARIABLES
    obs,       \* obs[s]: observations recorded for session s
    ended,     \* sessions with ended_at set
    endCount,  \* endCount[s]: ended_observation_count
    scope,     \* scope[s]: the scope the session row is stamped with
    handler,   \* handler[h]: what each hook handler is doing
    unacked,   \* sessions with an end event that was cut short; a spooled
               \* event is delivered again, a direct one may be lost
    order,     \* queued jobs by requested_at
    jobs,      \* jobs[s][g]: session_consolidation_jobs
    worker,    \* worker[w]: what each server's worker is doing
    page,      \* page[s]: observations covered by sessions/<s>.md
    failures,  \* history: recorded provider failures of a job
    stops      \* bounds crashes, shutdowns and failed effects

sessionVars == <<obs, ended, endCount, scope>>
hookVars == <<handler, unacked>>
jobVars == <<order, jobs, failures>>
queueVars == <<sessionVars, hookVars, jobVars, worker, page, stops>>

Generations == 1..MaxObs
Job == Sessions \X Generations

JobState == {"none", "pending", "running", "completed", "failed", "superseded"}

JobRow == [state: JobState, due: BOOLEAN, stale: BOOLEAN,
           attempts: Nat, claim: Claims \cup {None}]

NoJob == [state |-> "none", due |-> FALSE, stale |-> FALSE, attempts |-> 0, claim |-> None]

\* Activity of a worker, and the claim (job, attempts, id, attempt_spent)
\* and the snapshot of observations it works from.
WorkerRow == [pc: {"down", "idle", "claimed", "read", "written"},
              session: Sessions \cup {None}, generation: Nat, attempts: Nat,
              claim: Claims \cup {None}, spent: BOOLEAN, snapshot: 0..MaxObs]

At(pc) == [pc |-> pc, session |-> None, generation |-> 0, attempts |-> 0,
           claim |-> None, spent |-> FALSE, snapshot |-> 0]

\* A SessionEnd handler (admitted, read, paged, ended) or a PreCompact one
\* (compacting, checkpoint), the scope of its admission and the observations
\* it read.
HandlerRow == [pc: {"idle", "admitted", "read", "paged", "ended", "compacting", "checkpoint"},
               session: Sessions \cup {None}, scope: Scopes \cup {None}, seen: 0..MaxObs]

NoHandler == [pc |-> "idle", session |-> None, scope |-> None, seen |-> 0]

Ending(h) == handler[h].pc \in {"admitted", "read", "paged", "ended"}

JobAt(j) == jobs[j[1]][j[2]]

Set(s, g, row) == jobs' = [jobs EXCEPT ![s][g] = row]

Init ==
    /\ obs = [s \in Sessions |-> 0]
    /\ ended = {}
    /\ endCount = [s \in Sessions |-> 0]
    /\ scope = [s \in Sessions |-> HomeScope]
    /\ handler = [h \in Handlers |-> NoHandler]
    /\ unacked = {}
    /\ order = <<>>
    /\ jobs = [s \in Sessions |-> [g \in Generations |-> NoJob]]
    /\ worker = [w \in Workers |-> At("idle")]
    /\ page = [s \in Sessions |-> 0]
    /\ failures = [s \in Sessions |-> [g \in Generations |-> 0]]
    /\ stops = 0

---------------------------------------------------------------------------
(* Sessions: observations, also of ended sessions, and the admin command   *)
(* that moves a session to another scope.                                  *)

Observe(s) ==
    /\ obs[s] < MaxObs
    /\ obs' = [obs EXCEPT ![s] = @ + 1]
    /\ UNCHANGED <<ended, endCount, scope, hookVars, jobVars, worker, page, stops>>

\* move_session re-stamps the session and its jobs.
MoveSession(s, p) ==
    /\ p # scope[s]
    /\ scope' = [scope EXCEPT ![s] = p]
    /\ UNCHANGED <<obs, ended, endCount, hookVars, jobVars, worker, page, stops>>

---------------------------------------------------------------------------
(* SessionEnd: admission, heuristic page, end stamp, enqueue.              *)

Begin(h, s, pc) ==
    /\ handler[h].pc = "idle"
    /\ handler' = [handler EXCEPT ![h] =
          [pc |-> pc, session |-> s, scope |-> scope[s], seen |-> 0]]

\* AlreadyEnded: no observation since the recorded end.
AlreadyEnded(s) == s \in ended /\ obs[s] <= endCount[s]

\* EndOpen or ReEnd of a substantive session; the event is an observation.
AdmitEnd(h, s) ==
    /\ 0 < obs[s] /\ obs[s] < MaxObs
    /\ ~AlreadyEnded(s)
    /\ Begin(h, s, "admitted")
    /\ obs' = [obs EXCEPT ![s] = @ + 1]
    /\ UNCHANGED <<ended, endCount, scope, unacked, jobVars, worker, page, stops>>

\* ResumePending: a redelivered event whose observation is recorded.
ResumeEnd(h, s) ==
    /\ s \in unacked /\ ~AlreadyEnded(s)
    /\ Begin(h, s, "admitted")
    /\ unacked' = unacked \ {s}
    /\ UNCHANGED <<sessionVars, jobVars, worker, page, stops>>

\* A replay of an end that was stamped goes straight to the enqueue.
ReplayEnd(h, s) ==
    /\ AlreadyEnded(s)
    /\ Begin(h, s, "ended")
    /\ unacked' = unacked \ {s}
    /\ UNCHANGED <<sessionVars, jobVars, worker, page, stops>>

HandlerReads(h) ==
    /\ handler[h].pc = "admitted"
    /\ handler' = [handler EXCEPT ![h] = [@ EXCEPT !.pc = "read",
                                                   !.seen = obs[handler[h].session]]]
    /\ UNCHANGED <<sessionVars, unacked, jobVars, worker, page, stops>>

WriteHeuristicPage(h) ==
    /\ handler[h].pc = "read"
    /\ page' = [page EXCEPT ![handler[h].session] = handler[h].seen]
    /\ handler' = [handler EXCEPT ![h] = [@ EXCEPT !.pc = "paged"]]
    /\ UNCHANGED <<sessionVars, unacked, jobVars, worker, stops>>

\* end_admitted_session, if the session still has the admitted scope.
CommitEnd(h) ==
    LET s == handler[h].session
    IN /\ handler[h].pc = "paged"
       /\ scope[s] = handler[h].scope
       /\ ended' = ended \cup {s}
       /\ endCount' = [endCount EXCEPT ![s] = obs[s]]
       /\ handler' = [handler EXCEPT ![h] = [@ EXCEPT !.pc = "ended"]]
       /\ UNCHANGED <<obs, scope, unacked, jobVars, worker, page, stops>>

\* SessionCollision: the event is dropped.
DropEnd(h) ==
    /\ handler[h].pc = "paged"
    /\ scope[handler[h].session] # handler[h].scope
    /\ handler' = [handler EXCEPT ![h] = NoHandler]
    /\ UNCHANGED <<sessionVars, unacked, jobVars, worker, page, stops>>

---------------------------------------------------------------------------
(* PreCompact: consolidate_or_synth refreshes the session page, with the   *)
(* provider or, when that fails, from the observations read again.         *)

AdmitCheckpoint(h, s) ==
    /\ 0 < obs[s] /\ obs[s] < MaxObs
    /\ Begin(h, s, "compacting")
    /\ obs' = [obs EXCEPT ![s] = @ + 1]
    /\ UNCHANGED <<ended, endCount, scope, unacked, jobVars, worker, page, stops>>

CheckpointReads(h) ==
    /\ handler[h].pc \in {"compacting", "checkpoint"}
    /\ handler' = [handler EXCEPT ![h] = [@ EXCEPT !.pc = "checkpoint",
                                                   !.seen = obs[handler[h].session]]]
    /\ UNCHANGED <<sessionVars, unacked, jobVars, worker, page, stops>>

WriteCheckpoint(h) ==
    /\ handler[h].pc = "checkpoint"
    /\ page' = [page EXCEPT ![handler[h].session] = handler[h].seen]
    /\ handler' = [handler EXCEPT ![h] = NoHandler]
    /\ UNCHANGED <<sessionVars, unacked, jobVars, worker, stops>>

---------------------------------------------------------------------------
(* enqueue *)

\* Mutant: one job per session instead of one per generation.
InsertsOnce(s, p) ==
    /\ s \in ended
    /\ scope[s] = p
    /\ \A g \in Generations : jobs[s][g].state = "none"

Inserts(s, p) ==
    /\ s \in ended
    /\ scope[s] = p
    /\ obs[s] > 0
    /\ jobs[s][obs[s]].state = "none"

\* Mutant: a state that the table does not know.
NewJobQueued == [state |-> "queued", due |-> TRUE, stale |-> FALSE, attempts |-> 0, claim |-> None]

NewJob == [state |-> "pending", due |-> TRUE, stale |-> FALSE, attempts |-> 0, claim |-> None]

\* Mutant: the current generation is superseded together with the older ones.
EnqueuedOverAll(s, inserts) ==
    [g \in Generations |->
        IF jobs[s][g].state = "pending" /\ g <= obs[s]
        THEN [jobs[s][g] EXCEPT !.state = "superseded", !.claim = None]
        ELSE IF inserts /\ g = obs[s] THEN NewJob ELSE jobs[s][g]]

\* The jobs of s after an enqueue that inserts a row, or none: every older
\* pending generation is superseded either way.
Enqueued(s, inserts) ==
    [g \in Generations |->
        CASE inserts /\ g = obs[s] -> NewJob
          [] jobs[s][g].state = "pending" /\ g < obs[s]
               -> [jobs[s][g] EXCEPT !.state = "superseded", !.claim = None]
          [] OTHER -> jobs[s][g]]

Enqueue(h) ==
    LET s == handler[h].session
        inserts == Inserts(s, handler[h].scope)
    IN /\ handler[h].pc = "ended"
       /\ handler' = [handler EXCEPT ![h] = NoHandler]
       /\ jobs' = [jobs EXCEPT ![s] = Enqueued(s, inserts)]
       /\ order' = IF inserts THEN Append(order, <<s, obs[s]>>) ELSE order
       /\ UNCHANGED <<sessionVars, unacked, worker, page, failures, stops>>

---------------------------------------------------------------------------
(* claim_next *)

\* Mutant: a running job whose worker died is never taken over.
ClaimableNoTakeover(row) == row.state = "pending" /\ row.attempts < MaxAttempts /\ row.due

Claimable(row) ==
    \/ row.state = "pending" /\ row.attempts < MaxAttempts /\ row.due
    \/ row.state = "running" /\ row.attempts <= MaxAttempts /\ row.stale

\* Mutant: a takeover may reuse a claim id.
AnyClaims == Claims

FreshClaims ==
    {c \in Claims : /\ \A s \in Sessions, g \in Generations : jobs[s][g].claim # c
                    /\ \A w \in Workers : worker[w].claim # c}

\* Mutant: claiming does not charge the attempt.
ChargedNothing(row) == row.attempts

Charged(row) == IF row.state = "pending" THEN row.attempts + 1 ELSE row.attempts

Claimed(row, c) ==
    [row EXCEPT !.state = "running", !.stale = FALSE, !.claim = c,
                !.attempts = Charged(row)]

Claim(w) ==
    /\ worker[w].pc = "idle"
    /\ \E i \in DOMAIN order, c \in FreshClaims :
         LET s == order[i][1]
             g == order[i][2]
         IN /\ Claimable(JobAt(order[i]))
            /\ \A k \in 1..(i - 1) : ~Claimable(JobAt(order[k]))
            /\ Set(s, g, Claimed(jobs[s][g], c))
            /\ worker' = [worker EXCEPT ![w] =
                 [pc |-> "claimed", session |-> s, generation |-> g,
                  attempts |-> Charged(jobs[s][g]), claim |-> c,
                  spent |-> jobs[s][g].state = "pending", snapshot |-> 0]]
    /\ UNCHANGED <<sessionVars, hookVars, order, page, failures, stops>>

---------------------------------------------------------------------------
(* The worker: consolidate_session reads the observations, asks the        *)
(* provider and writes the page; then the job is completed, or failed.     *)

Working(w) == worker[w].pc \in {"claimed", "read", "written"}

ReadObservations(w) ==
    /\ worker[w].pc = "claimed"
    /\ worker' = [worker EXCEPT ![w] = [@ EXCEPT !.pc = "read",
                                                 !.snapshot = obs[worker[w].session]]]
    /\ UNCHANGED <<sessionVars, hookVars, jobVars, page, stops>>

\* Mutant: an existing page is kept.
WritePageOnce(w) ==
    /\ worker[w].pc = "read"
    /\ page' = [page EXCEPT ![worker[w].session] =
                  IF @ = 0 THEN worker[w].snapshot ELSE @]
    /\ worker' = [worker EXCEPT ![w] = [@ EXCEPT !.pc = "written"]]
    /\ UNCHANGED <<sessionVars, hookVars, jobVars, stops>>

WritePage(w) ==
    /\ worker[w].pc = "read"
    /\ page' = [page EXCEPT ![worker[w].session] = worker[w].snapshot]
    /\ worker' = [worker EXCEPT ![w] = [@ EXCEPT !.pc = "written"]]
    /\ UNCHANGED <<sessionVars, hookVars, jobVars, stops>>

\* The guard of complete, fail and release: the row is running under the
\* very claim the worker was given.
ClaimHolds(w) ==
    LET row == jobs[worker[w].session][worker[w].generation]
    IN row.state = "running" /\ row.claim = worker[w].claim

\* Mutant: the claim is not compared.
SettleAnyClaim(w, row) == Set(worker[w].session, worker[w].generation, row)

\* Update the claimed job with row, or change nothing if the claim is lost.
Settle(w, row) ==
    IF ClaimHolds(w) THEN Set(worker[w].session, worker[w].generation, row)
                     ELSE UNCHANGED jobs

ClaimedJob(w) == jobs[worker[w].session][worker[w].generation]

Complete(w) ==
    /\ worker[w].pc = "written"
    /\ Settle(w, [ClaimedJob(w) EXCEPT !.state = "completed", !.claim = None])
    /\ worker' = [worker EXCEPT ![w] = At("idle")]
    /\ UNCHANGED <<sessionVars, hookVars, order, page, failures, stops>>

FailedRow(w) ==
    IF worker[w].attempts >= MaxAttempts
    THEN [ClaimedJob(w) EXCEPT !.state = "failed", !.claim = None]
    ELSE [ClaimedJob(w) EXCEPT !.state = "pending", !.due = FALSE, !.stale = FALSE,
                               !.claim = None]

\* Any error of consolidate_session; it may come after the page was written.
Fail(w) ==
    /\ Working(w)
    /\ Settle(w, FailedRow(w))
    /\ failures' = IF ClaimHolds(w)
                   THEN [failures EXCEPT ![worker[w].session][worker[w].generation] = @ + 1]
                   ELSE failures
    /\ worker' = [worker EXCEPT ![w] = At("idle")]
    /\ UNCHANGED <<sessionVars, hookVars, order, page, stops>>

\* A release gives back the attempt that its own claim charged.
Refunded(w) ==
    IF worker[w].spent /\ ClaimedJob(w).attempts > 0
    THEN ClaimedJob(w).attempts - 1 ELSE ClaimedJob(w).attempts

ReleasedRow(w) ==
    [ClaimedJob(w) EXCEPT !.state = "pending", !.due = TRUE, !.stale = FALSE,
                          !.claim = None, !.attempts = Refunded(w)]

\* Graceful shutdown while a consolidation is under way.
Release(w) ==
    /\ Working(w)
    /\ stops < MaxStops
    /\ stops' = stops + 1
    /\ Settle(w, ReleasedRow(w))
    /\ worker' = [worker EXCEPT ![w] = At("down")]
    /\ UNCHANGED <<sessionVars, hookVars, order, page, failures>>

\* Handlers hs stop short; the events they answer are not acknowledged.
CutShort(hs) ==
    /\ handler' = [h \in Handlers |-> IF h \in hs THEN NoHandler ELSE handler[h]]
    /\ unacked' = unacked \cup {handler[h].session : h \in {k \in hs : Ending(k)}}

\* The server crashes, or is killed at the end of the shutdown grace: its
\* worker and its handlers are gone.
Crash(w) ==
    /\ worker[w].pc # "down"
    /\ stops < MaxStops
    /\ stops' = stops + 1
    /\ worker' = [worker EXCEPT ![w] = At("down")]
    /\ \E hs \in SUBSET Handlers : CutShort(hs)
    /\ UNCHANGED <<sessionVars, jobVars, page>>

\* A page write or a transaction of a handler fails.
FailHandler(h) ==
    /\ handler[h].pc # "idle"
    /\ stops < MaxStops
    /\ stops' = stops + 1
    /\ CutShort({h})
    /\ UNCHANGED <<sessionVars, jobVars, worker, page>>

\* complete or fail returns a database error: the worker logs it and goes on.
LoseUpdate(w) ==
    /\ Working(w)
    /\ stops < MaxStops
    /\ stops' = stops + 1
    /\ worker' = [worker EXCEPT ![w] = At("idle")]
    /\ UNCHANGED <<sessionVars, hookVars, jobVars, page>>

Start(w) ==
    /\ worker[w].pc = "down"
    /\ worker' = [worker EXCEPT ![w] = At("idle")]
    /\ UNCHANGED <<sessionVars, hookVars, jobVars, page, stops>>

---------------------------------------------------------------------------
(* Time. *)

BecomeDue(s, g) ==
    /\ jobs[s][g].state = "pending" /\ ~jobs[s][g].due
    /\ Set(s, g, [jobs[s][g] EXCEPT !.due = TRUE])
    /\ UNCHANGED <<sessionVars, hookVars, order, failures, worker, page, stops>>

LeaseLapses(s, g) ==
    /\ jobs[s][g].state = "running" /\ ~jobs[s][g].stale
    /\ Set(s, g, [jobs[s][g] EXCEPT !.stale = TRUE])
    /\ UNCHANGED <<sessionVars, hookVars, order, failures, worker, page, stops>>

Next ==
    \/ \E s \in Sessions :
         \/ Observe(s)
         \/ \E p \in Scopes : MoveSession(s, p)
         \/ \E g \in Generations : BecomeDue(s, g) \/ LeaseLapses(s, g)
    \/ \E h \in Handlers :
         \/ \E s \in Sessions : \/ AdmitEnd(h, s) \/ ResumeEnd(h, s) \/ ReplayEnd(h, s)
                              \/ AdmitCheckpoint(h, s)
         \/ HandlerReads(h) \/ WriteHeuristicPage(h) \/ CommitEnd(h) \/ DropEnd(h)
         \/ CheckpointReads(h) \/ WriteCheckpoint(h)
         \/ Enqueue(h) \/ FailHandler(h)
    \/ \E w \in Workers :
         \/ Claim(w) \/ ReadObservations(w) \/ WritePage(w)
         \/ Complete(w) \/ Fail(w) \/ Release(w)
         \/ Crash(w) \/ LoseUpdate(w) \/ Start(w)

Spec == Init /\ [][Next]_queueVars

\* The worker polls every 15 seconds and provider calls end, so what a
\* worker can do it does; clocks advance; operators restart servers.
Fairness ==
    /\ \A w \in Workers :
         /\ WF_queueVars(Claim(w))
         /\ WF_queueVars(ReadObservations(w) \/ WritePage(w) \/ Complete(w) \/ Fail(w))
         /\ WF_queueVars(Start(w))
    /\ \A s \in Sessions, g \in Generations :
         WF_queueVars(BecomeDue(s, g)) /\ WF_queueVars(LeaseLapses(s, g))

FairSpec == Spec /\ Fairness

---------------------------------------------------------------------------
(* Correctness. *)

TypeOK ==
    /\ obs \in [Sessions -> 0..MaxObs]
    /\ ended \in SUBSET Sessions
    /\ scope \in [Sessions -> Scopes]
    /\ endCount \in [Sessions -> 0..MaxObs]
    /\ handler \in [Handlers -> HandlerRow]
    /\ \A h \in Handlers : handler[h].pc # "idle" => handler[h].session \in Sessions
    /\ unacked \in SUBSET Sessions
    /\ order \in Seq(Job)
    /\ jobs \in [Sessions -> [Generations -> JobRow]]
    /\ worker \in [Workers -> WorkerRow]
    /\ \A w \in Workers : Working(w) =>
          /\ worker[w].session \in Sessions
          /\ worker[w].generation \in Generations
    /\ page \in [Sessions -> 0..MaxObs]
    /\ failures \in [Sessions -> [Generations -> Nat]]
    /\ stops \in 0..MaxStops

\* However claims, crashes and releases interleave, a generation is never
\* charged more than MaxAttempts attempts, and the provider is not asked
\* again without a further attempt being charged: its recorded failures stay
\* within the attempts, and below them while a claim is out.  Nor is it given
\* up early: a failed generation was charged every attempt, whatever crash
\* recovery and shutdown took and gave back.
RetriesBounded ==
    \A s \in Sessions, g \in Generations :
        LET row == jobs[s][g]
        IN /\ row.attempts <= MaxAttempts
           /\ failures[s][g] <= row.attempts
           /\ row.state = "running" => failures[s][g] < row.attempts
           /\ row.state = "failed" => row.attempts = MaxAttempts

\* Two servers never both hold the live claim of a job (claim_id).
OneLiveClaim ==
    \A v, w \in Workers :
        /\ Working(v) /\ Working(w)
        /\ ClaimHolds(v) /\ ClaimHolds(w)
        /\ worker[v].session = worker[w].session
        /\ worker[v].generation = worker[w].generation
        => v = w

\* A server whose lease was taken over changes nothing when it comes back
\* late: a running job is settled only by the worker that holds its claim.
SettledByHolder ==
    [][\A s \in Sessions, g \in Generations :
          /\ jobs[s][g].state = "running"
          /\ jobs'[s][g].state # "running"
          => \E w \in Workers :
                /\ Working(w) /\ ClaimHolds(w)
                /\ worker[w].session = s /\ worker[w].generation = g
                /\ ~Working(w)']_queueVars

\* With one server, and its hook events handled one at a time, a completed
\* generation is covered by the page, whatever was observed, crashed, retried,
\* checkpointed, ended again or superseded meanwhile.
CompletedIsCovered ==
    \A s \in Sessions, g \in Generations :
        jobs[s][g].state = "completed" => page[s] >= g

\* enqueue's comment: a pending generation is given up only for a newer one
\* that is queued, and will consolidate the session's current observations.
SupersededHasSuccessor ==
    \A s \in Sessions, g \in Generations :
        jobs[s][g].state = "superseded" =>
            \E h \in Generations : h > g /\ jobs[s][h].state # "none"

\* A session end is acknowledged only once its consolidation is queued:
\* whatever crashed, failed or was replayed, an ended session that no handler
\* is still busy with and no redelivery is due for has a job for at least the
\* observations counted at its end.
EndedIsQueued ==
    \A s \in ended :
        \/ s \in unacked
        \/ \E h \in Handlers : Ending(h) /\ handler[h].session = s
        \/ \E g \in Generations : g >= endCount[s] /\ jobs[s][g].state # "none"

\* release's comment: the next server process can claim a released job.
ReleasedIsClaimable ==
    \A s \in Sessions, g \in Generations :
        jobs[s][g].state = "pending" => jobs[s][g].attempts < MaxAttempts

\* A pending job that no server will ever claim.
Stranded(s, g) == jobs[s][g].state = "pending" /\ jobs[s][g].attempts >= MaxAttempts

\* Every queued generation is completed, failed or superseded in the end, or
\* was stranded by a release after crash recovery (see ReleasedIsClaimable).
QueueDrains ==
    \A s \in Sessions, g \in Generations :
        jobs[s][g].state \in {"pending", "running"} ~>
            \/ jobs[s][g].state \in {"completed", "failed", "superseded"}
            \/ Stranded(s, g)
===========================================================================
