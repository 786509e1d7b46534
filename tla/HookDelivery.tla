---------------------------- MODULE HookDelivery ----------------------------
(***************************************************************************)
(* The way of a lifecycle event from the hook that captured it to the      *)
(* store: the client's spool and its drains                                *)
(* (crates/ai-memory-cli/src/commands/hook_spool.rs, hook_capture.rs), the *)
(* batch endpoint and the per-key gates (ai-memory-hooks/src/router.rs)    *)
(* and the keyed admission of an event (ai-memory-store/src/ops.rs).       *)
(*                                                                         *)
(* The hook spools an event under an ingest key and never waits for the    *)
(* server.  A drain, one at a time, sends the spooled entries in chunks    *)
(* and deletes those the server accepted; what it cannot tell it sends     *)
(* again.  The server claims the key with the observation, runs the        *)
(* event's effects and then completes the key.  Events are numbered in the *)
(* order of their file names.  What the effects do to sessions, handoffs   *)
(* and consolidation jobs is in Handoff and ConsolidationQueue.            *)
(***************************************************************************)
EXTENDS Naturals, FiniteSets

CONSTANTS
    MaxEvents,    \* bound: events ever captured
    Kinds,        \* bound: the <<event, route, fate>> that are captured
    MaxAttempts,  \* MAX_ATTEMPTS
    SpoolCap,     \* MAX_SPOOL_FILES
    MaxBatch,     \* MAX_BATCH_ITEMS
    Requests,     \* bound: batches the server handles at a time, the ones whose
                  \* client has gone included
    MaxFaults,    \* bound: failures of the network, of a process, or of capacity
    None

Events == 1..MaxEvents

\* The address and credential an entry was captured with: both good; a port of
\* this machine that the server has left (`moved`); an address nothing answers
\* at (`gone`); a token that was replaced since (`rotated`); one that is refused
\* and has no replacement (`denied`).
Routes == {"direct", "moved", "gone", "rotated", "denied"}

\* What the server makes of an event: it is processed; it is dropped by the
\* capture policy; admission turns it away (a colliding session, an end without
\* its session); its processing fails each time; its body is not JSON.
Fates == {"plain", "filtered", "rejected", "poison", "malformed"}

ASSUME BoundAssumption == MaxEvents \in Nat /\ MaxFaults \in Nat
ASSUME LimitAssumption == MaxAttempts \in Nat \ {0} /\ SpoolCap \in Nat \ {0} /\ MaxBatch \in Nat \ {0}
ASSUME KindAssumption == Kinds \subseteq Events \X Routes \X Fates
ASSUME NoneAssumption == None \notin Events /\ None \notin Requests

VARIABLES
    entry,        \* entry[e]: the spool file of e, or how it left the spool
    drain,        \* the drain that holds .drain.lock
    request,      \* request[r]: a batch in the server
    key,          \* key[e]: the ingest_keys row of e
    observations, \* observations[e]: rows inserted for e
    effects,      \* history: times the effects of e were run
    cuts,         \* history: times the handling of e stopped half way
    blamed,       \* history: times an answer named e as the item that failed
    faults        \* failures so far

client == <<entry, drain>>
store == <<key, observations, effects>>
vars == <<entry, drain, request, key, observations, effects, cuts, blamed, faults>>

-----------------------------------------------------------------------------
(* Spool files, drains and batches *)

EntryRow == [state: {"absent", "queued", "delivered", "spent", "stale", "pruned"},
             attempts: 0..MaxAttempts, route: Routes, fate: Fates]

NoEntry == [state |-> "absent", attempts |-> 0, route |-> "direct", fate |-> "plain"]

\* `rest`: the listed files not yet looked at.  `dead`: unreachable_endpoints.
DrainRow == [pc: {"idle", "load", "wait"}, rest: SUBSET Events, chunk: SUBSET Events,
             dead: SUBSET Routes, via: Requests \cup {None}]

NoDrain == [pc |-> "idle", rest |-> {}, chunk |-> {}, dead |-> {}, via |-> None]

\* `rest`: the items still to process; the first of them is the one in hand,
\* from "claimed" on under its gate.  "ok" and "full" are answers (200, 429);
\* "lost" is a batch whose server has stopped.
RequestRow == [pc: {"free", "item", "claimed", "ran", "ok", "full", "lost"},
               rest: SUBSET Events, accepted: SUBSET Events, failed: Events \cup {None}]

NoRequest == [pc |-> "free", rest |-> {}, accepted |-> {}, failed |-> None]
Batch(items) == [pc |-> "item", rest |-> items, accepted |-> {}, failed |-> None]

Init ==
    /\ entry = [e \in Events |-> NoEntry]
    /\ drain = NoDrain
    /\ request = [r \in Requests |-> NoRequest]
    /\ key = [e \in Events |-> "none"]
    /\ observations = [e \in Events |-> 0]
    /\ effects = [e \in Events |-> 0]
    /\ cuts = [e \in Events |-> 0]
    /\ blamed = [e \in Events |-> 0]
    /\ faults = 0

IsFirst(e, S) == e \in S /\ \A d \in S : e <= d

Queued == {e \in Events : entry[e].state = "queued"}

\* prune_spool_file_count: the oldest files beyond the cap
Pruned(S) == {e \in S : Cardinality({d \in S : e <= d}) > SpoolCap}

\* The files of A are removed as delivered; removing a file that is gone is no
\* error.
Delivered(A) ==
    [e \in Events |-> IF e \in A /\ entry[e].state = "queued"
                      THEN [entry[e] EXCEPT !.state = "delivered"]
                      ELSE entry[e]]

\* Mutants: the attempt is not written; it is compared before it is counted.
ChargedNever(row) == [row EXCEPT !.state = "queued"]
ChargedLate(row) ==
    [row EXCEPT !.attempts = @ + 1,
                !.state = IF row.attempts >= MaxAttempts THEN "spent" ELSE "queued"]

\* One more failed attempt: the entry is given up at MAX_ATTEMPTS.
Charged(row) ==
    LET spent == row.attempts + 1 >= MaxAttempts
    IN [row EXCEPT !.attempts = IF spent THEN MaxAttempts ELSE @ + 1,
                   !.state = IF spent THEN "spent" ELSE "queued"]

\* bump_or_drop.  Rewriting the file restores it if it was pruned meanwhile.
Bump(rows, e) == [rows EXCEPT ![e] = Charged(@)]

Fault == faults < MaxFaults /\ faults' = faults + 1
NoFault == UNCHANGED faults

-----------------------------------------------------------------------------
(* The hook *)

\* run_with_payload and enqueue: the event is written under a new name, and the
\* oldest files beyond the cap are removed.
Enqueue(e, route, fate) ==
    /\ entry[e].state = "absent"
    /\ \A d \in 1..(e - 1) : entry[d].state # "absent"
    /\ LET lost == Pruned(Queued \cup {e})
       IN entry' = [d \in Events |->
              IF d \in lost THEN [entry[d] EXCEPT !.state = "pruned"]
              ELSE IF d = e THEN [state |-> "queued", attempts |-> 0,
                                  route |-> route, fate |-> fate]
              ELSE entry[d]]
    /\ UNCHANGED <<drain, request, store, cuts, blamed, faults>>

-----------------------------------------------------------------------------
(* A drain pass *)

\* drain_exclusive, drain_until_quiescent: with the lock, list the spool.
StartDrain ==
    /\ drain.pc = "idle"
    /\ Queued # {}
    /\ drain' = [NoDrain EXCEPT !.pc = "load", !.rest = Queued]
    /\ UNCHANGED <<entry, request, store, cuts, blamed, faults>>

Route == entry[CHOOSE e \in drain.chunk : TRUE].route

\* The pass is about to look at the file of e.
Loading(e) ==
    /\ drain.pc = "load"
    /\ IsFirst(e, drain.rest)
    /\ Cardinality(drain.chunk) < MaxBatch

\* batch_endpoint: the credential is no part of the address.
Address(route) == IF route \in {"moved", "gone"} THEN route ELSE "direct"

\* Its address failed in this pass, and it would begin a chunk.
Dead(e) == drain.chunk = {} /\ Address(entry[e].route) \in drain.dead

\* load_live_entry finds no file, or the address is known to be dead: the entry
\* stays queued and is not charged.
Skip(e) ==
    /\ Loading(e)
    /\ entry[e].state # "queued" \/ Dead(e)
    /\ drain' = [drain EXCEPT !.rest = @ \ {e}]
    /\ UNCHANGED <<entry, request, store, cuts, blamed, faults>>

\* load_live_entry: the file is older than seven days, or cannot be parsed.
DropStale(e) ==
    /\ Loading(e)
    /\ entry[e].state = "queued"
    /\ entry' = [entry EXCEPT ![e].state = "stale"]
    /\ drain' = [drain EXCEPT !.rest = @ \ {e}]
    /\ UNCHANGED <<request, store, cuts, blamed, faults>>

\* body_is_malformed
ChargeMalformed(e) ==
    /\ Loading(e)
    /\ entry[e].state = "queued"
    /\ ~Dead(e)
    /\ entry[e].fate = "malformed"
    /\ entry' = Bump(entry, e)
    /\ drain' = [drain EXCEPT !.rest = @ \ {e}]
    /\ UNCHANGED <<request, store, cuts, blamed, faults>>

\* The entry begins the chunk, or joins it: same endpoint, same bearer.
Take(e) ==
    /\ Loading(e)
    /\ entry[e].state = "queued"
    /\ ~Dead(e)
    /\ entry[e].fate # "malformed"
    /\ drain.chunk # {} => entry[e].route = Route
    /\ drain' = [drain EXCEPT !.rest = @ \ {e}, !.chunk = @ \cup {e}]
    /\ UNCHANGED <<entry, request, store, cuts, blamed, faults>>

\* post_batch, at any size the byte bound allows.  A `moved` chunk reaches the
\* server at the configured address after its own refused the connection, a
\* `rotated` one with the live token after a 401.
Post(r) ==
    /\ drain.pc = "load"
    /\ drain.chunk # {}
    /\ Route \in {"direct", "moved", "rotated"}
    /\ request[r] = NoRequest
    /\ request' = [request EXCEPT ![r] = Batch(drain.chunk)]
    /\ drain' = [drain EXCEPT !.pc = "wait", !.via = r]
    /\ UNCHANGED <<entry, store, cuts, blamed, faults>>

\* The chunk is done with: go on with the rest of the files.
GoOn(dead) == drain' = [drain EXCEPT !.pc = "load", !.chunk = {}, !.via = None,
                                     !.dead = @ \cup dead]
Stop == drain' = NoDrain

\* The first entry of the chunk is charged for all of it.
ChargeFirst == \E e \in drain.chunk : IsFirst(e, drain.chunk) /\ entry' = Bump(entry, e)

\* BatchOutcome::Unreachable, and no other address, or none that answers
PostToNobody ==
    /\ drain.pc = "load"
    /\ drain.chunk # {}
    /\ IF Route = "gone" THEN NoFault ELSE Fault
    /\ ChargeFirst
    /\ GoOn({Address(Route)})
    /\ UNCHANGED <<request, store, cuts, blamed>>

\* BatchOutcome::Unauthorized, with no other token to try
PostDenied ==
    /\ drain.pc = "load"
    /\ drain.chunk # {}
    /\ Route = "denied"
    /\ ChargeFirst
    /\ Stop
    /\ UNCHANGED <<request, store, cuts, blamed, faults>>

EndPass ==
    /\ drain.pc = "load"
    /\ drain.rest = {} /\ drain.chunk = {}
    /\ Stop
    /\ UNCHANGED <<entry, request, store, cuts, blamed, faults>>

\* The drain has the answer `pc` to its batch r.
Receives(r, pc) == drain.pc = "wait" /\ drain.via = r /\ request[r].pc = pc

Closed(r) == request' = [request EXCEPT ![r] = NoRequest]

Blame(e) == blamed' = IF e = None THEN blamed ELSE [blamed EXCEPT ![e] = @ + 1]

\* 200 for a chunk sent as captured: the failed item is charged and ends the pass.
ReceiveOk(r) ==
    /\ Receives(r, "ok")
    /\ Route = "direct"
    /\ LET f == request[r].failed
           rows == Delivered(request[r].accepted)
       IN /\ entry' = IF f = None THEN rows ELSE Bump(rows, f)
          /\ IF f = None THEN GoOn({}) ELSE Stop
          /\ Blame(f)
    /\ Closed(r)
    /\ UNCHANGED <<store, cuts, faults>>

\* 200 for a chunk sent a second time: the failed item is not looked at.
ReceiveOkAgain(r) ==
    /\ Receives(r, "ok")
    /\ Route # "direct"
    /\ entry' = Delivered(request[r].accepted)
    /\ GoOn({})
    /\ Blame(request[r].failed)
    /\ Closed(r)
    /\ UNCHANGED <<store, cuts, faults>>

\* 429: the accepted items are removed and nothing is charged.
ReceiveFull(r) ==
    /\ Receives(r, "full")
    /\ Route = "direct"
    /\ entry' = Delivered(request[r].accepted)
    /\ Stop
    /\ Closed(r)
    /\ UNCHANGED <<store, cuts, blamed, faults>>

\* Any other answer to a chunk sent a second time counts as the first failure.
AfterRetry == IF Route = "moved" THEN GoOn({"moved"}) ELSE Stop

ReceiveFullAgain(r) ==
    /\ Receives(r, "full")
    /\ Route # "direct"
    /\ ChargeFirst
    /\ AfterRetry
    /\ Closed(r)
    /\ UNCHANGED <<store, cuts, blamed, faults>>

\* No answer: the connection broke or timed out, or the server stopped.  The
\* server may still be at work on the batch.
NoAnswer(r) ==
    /\ drain.pc = "wait" /\ drain.via = r
    /\ IF request[r].pc = "lost" THEN NoFault /\ Closed(r) ELSE Fault /\ UNCHANGED request
    /\ ChargeFirst
    /\ IF Route = "direct" THEN GoOn({"direct"}) ELSE AfterRetry
    /\ UNCHANGED <<store, cuts, blamed>>

\* BatchOutcome::Failed: an answer that cannot be read
BadAnswer(r) ==
    /\ drain.pc = "wait" /\ drain.via = r
    /\ request[r].pc \in {"ok", "full"}
    /\ Fault
    /\ ChargeFirst
    /\ AfterRetry
    /\ Closed(r)
    /\ UNCHANGED <<store, cuts, blamed>>

\* The drain is killed, or its budget is spent: the lock is free again.  It may
\* have removed some of the accepted files.
Die ==
    /\ drain.pc # "idle"
    /\ Fault
    /\ \E done \in SUBSET (IF drain.pc = "wait" /\ request[drain.via].pc = "ok"
                           THEN request[drain.via].accepted ELSE {}) :
           entry' = Delivered(done)
    /\ Stop
    /\ UNCHANGED <<request, store, cuts, blamed>>

-----------------------------------------------------------------------------
(* The server: handle_hook_batch, one item after the other *)

AtItem(r, e) == request[r].pc = "item" /\ IsFirst(e, request[r].rest)

\* Item e is in hand and its gate is held.
Holds(r, e) == request[r].pc \in {"claimed", "ran"} /\ IsFirst(e, request[r].rest)

\* The item e of r is accepted, or passed over.
Accept(r, e) ==
    request' = [request EXCEPT ![r].pc = "item", ![r].rest = @ \ {e}, ![r].accepted = @ \cup {e}]

\* Handlings that stop half way
CutBy(R) == cuts' = [e \in Events |-> IF \E r \in R : Holds(r, e) THEN cuts[e] + 1 ELSE cuts[e]]

\* The capture policy drops the event, or admission turns it away.
Discard(r, e) ==
    /\ AtItem(r, e)
    /\ entry[e].fate \in {"filtered", "rejected"}
    /\ Accept(r, e)
    /\ UNCHANGED <<client, store, cuts, blamed, faults>>

\* ingest_semaphore has no permit left: 429 with what was accepted so far.
Saturate(r, e) ==
    /\ AtItem(r, e)
    /\ entry[e].fate # "filtered"
    /\ Fault
    /\ request' = [request EXCEPT ![r].pc = "full"]
    /\ UNCHANGED <<client, store, cuts, blamed>>

\* The source of e has no rate token: the item is passed over.
Limit(r, e) ==
    /\ AtItem(r, e)
    /\ entry[e].fate # "filtered"
    /\ Fault
    /\ request' = [request EXCEPT ![r].rest = @ \ {e}]
    /\ UNCHANGED <<client, store, cuts, blamed>>

\* Mutant: no gate.
GateAlwaysFree(e) == TRUE

\* IngestGates: no other handler has e in hand.
GateFree(e) == \A r \in Requests : ~Holds(r, e)

\* Mutants: a resumed event is recorded again; a claimed key counts as complete.
RecordAgain(e) == key[e] # "complete"
ClaimedIsComplete(e) == key[e] # "none"

Record(e) == key[e] = "none"
AlreadyComplete(e) == key[e] = "complete"

\* admit_hook_session_event: the key and the observation in one transaction.
\* AlreadyComplete is accepted as it is; ResumePending runs the effects again.
Admit(r, e) ==
    /\ AtItem(r, e)
    /\ entry[e].fate \in {"plain", "poison"}
    /\ GateFree(e)
    /\ IF AlreadyComplete(e)
       THEN Accept(r, e) /\ UNCHANGED <<key, observations>>
       ELSE /\ request' = [request EXCEPT ![r].pc = "claimed"]
            /\ key' = [key EXCEPT ![e] = "claimed"]
            /\ observations' = [observations EXCEPT ![e] = IF Record(e) THEN @ + 1 ELSE @]
    /\ UNCHANGED <<client, effects, cuts, blamed, faults>>

\* process_authorized after admission: the run's link, the log, the pages, the
\* end with its handoff, the consolidation job.
Run(r, e) ==
    /\ request[r].pc = "claimed"
    /\ Holds(r, e)
    /\ request' = [request EXCEPT ![r].pc = "ran"]
    /\ effects' = [effects EXCEPT ![e] = @ + 1]
    /\ UNCHANGED <<client, key, observations, cuts, blamed, faults>>

\* complete_observation_ingest
Complete(r, e) ==
    /\ request[r].pc = "ran"
    /\ Holds(r, e)
    /\ entry[e].fate = "plain"
    /\ Accept(r, e)
    /\ key' = [key EXCEPT ![e] = "complete"]
    /\ UNCHANGED <<client, observations, effects, cuts, blamed, faults>>

\* An error: the batch stops at e and the answer names it.
Fail(r, e) ==
    /\ AtItem(r, e) \/ Holds(r, e)
    /\ entry[e].fate \notin {"filtered", "rejected"}
    /\ IF entry[e].fate = "poison" THEN NoFault ELSE Fault
    /\ request' = [request EXCEPT ![r].pc = "ok", ![r].failed = e]
    /\ CutBy({r})
    /\ UNCHANGED <<client, store, blamed>>

Answer(r) ==
    /\ request[r].pc = "item"
    /\ request[r].rest = {}
    /\ request' = [request EXCEPT ![r].pc = "ok"]
    /\ UNCHANGED <<client, store, cuts, blamed, faults>>

\* No drain waits for r any more.
Orphan(r) == request[r].pc # "free" /\ drain.via # r

\* The connection of r is gone: its handler is dropped wherever it is, or its
\* answer goes nowhere.
Abandon(r) ==
    /\ Orphan(r)
    /\ Closed(r)
    /\ CutBy({r})
    /\ UNCHANGED <<client, store, blamed, faults>>

\* The server stops and starts again: the gates and every handler are gone.
Restart ==
    /\ \E r \in Requests : request[r].pc # "free"
    /\ Fault
    /\ CutBy(Requests)
    /\ request' = [r \in Requests |-> IF drain.via = r THEN [NoRequest EXCEPT !.pc = "lost"]
                                      ELSE NoRequest]
    /\ UNCHANGED <<client, store, blamed>>

-----------------------------------------------------------------------------

\* What a drain does on its own
Pass ==
    \/ StartDrain
    \/ \E e \in Events : Skip(e) \/ DropStale(e) \/ ChargeMalformed(e) \/ Take(e)
    \/ PostToNobody
    \/ PostDenied
    \/ EndPass
    \/ \E r \in Requests :
        \/ Post(r) \/ ReceiveOk(r) \/ ReceiveOkAgain(r) \/ ReceiveFull(r)
        \/ ReceiveFullAgain(r) \/ NoAnswer(r) \/ BadAnswer(r)

\* What a handler does on its own
Handle(r) ==
    \/ \E e \in Events :
        Discard(r, e) \/ Admit(r, e) \/ Run(r, e) \/ Complete(r, e) \/ Fail(r, e)
    \/ Answer(r)
    \/ Abandon(r)

Next ==
    \/ \E kind \in Kinds : Enqueue(kind[1], kind[2], kind[3])
    \/ Pass
    \/ Die
    \/ \E r \in Requests : Handle(r)
    \/ \E r \in Requests, e \in Events : Saturate(r, e) \/ Limit(r, e)
    \/ Restart

Spec == Init /\ [][Next]_vars

\* As long as the agent goes on, a next boundary starts a next drain; a drain
\* and a handler go on unless a failure stops them, and of those there are at
\* most MaxFaults.
FairSpec == Spec /\ WF_vars(Pass) /\ \A r \in Requests : WF_vars(Handle(r))

-----------------------------------------------------------------------------
(* Properties *)

TypeOK ==
    /\ entry \in [Events -> EntryRow]
    /\ drain \in DrainRow
    /\ request \in [Requests -> RequestRow]
    /\ key \in [Events -> {"none", "claimed", "complete"}]
    /\ observations \in [Events -> Nat]
    /\ effects \in [Events -> Nat]
    /\ cuts \in [Events -> Nat]
    /\ blamed \in [Events -> Nat]
    /\ faults \in 0..MaxFaults

\* However often an event is sent, by whichever drain, and wherever the server
\* stopped: it has one observation, once its key is claimed, and none before
\* (ops.rs: "a crash cannot claim a key without its observation").
OneObservation ==
    \A e \in Events : observations[e] = IF key[e] = "none" THEN 0 ELSE 1

\* What the server has dealt with for good
Settled(e) ==
    \/ key[e] = "complete" /\ effects[e] > 0
    \/ entry[e].fate \in {"filtered", "rejected"}

\* A file is removed as delivered only when its event has been processed to the
\* end (hook_spool.rs: "no event is lost: a file persists until the server
\* answers 2xx").
DeliveredIsSettled ==
    \A e \in Events : entry[e].state = "delivered" => Settled(e)

\* The effects of an event run again only when an earlier handling of it was
\* stopped half way: an overlapping or repeated delivery repeats nothing.
RepeatsExplained ==
    \A e \in Events : effects[e] <= cuts[e] + 1

\* Once its key is complete, no late handler runs the effects of an event.
CompleteIsFinal ==
    [][\A e \in Events : key[e] = "complete" => effects'[e] = effects[e]]_vars

\* Every spooled event leaves the spool, whatever the entries around it.
SpoolDrains ==
    \A e \in Events : entry[e].state = "queued" ~> entry[e].state # "queued"

\* hook_spool.rs on MAX_ATTEMPTS: "Drop a spooled event after this many failed
\* drain passes".
FailuresBounded ==
    \A e \in Events : blamed[e] <= MaxAttempts
=============================================================================
