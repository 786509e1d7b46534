---------------------------- MODULE ManagedRun ----------------------------
(***************************************************************************)
(* `ai-memory run` against the workstream ledger: the launcher process of  *)
(* each run (ai-memory-cli/src/commands/run.rs), the session-start hooks   *)
(* of the harness it starts (ai-memory-hooks/src/router.rs) and the native *)
(* transcripts on disk.  Every request is one ledger transaction; between  *)
(* two requests anything else may happen.                                  *)
(*                                                                         *)
(* A record id is <<session, position>>, a cursor <<session, records       *)
(* exported>>.  A batch carries at most one record.  A packet counts as    *)
(* given in full: the limits on its size are left out.  Transcripts are    *)
(* never deleted, one process keeps one native session, and nothing else   *)
(* of its harness runs in the checkout beside it.                          *)
(***************************************************************************)
EXTENDS WorkstreamLedger

CONSTANTS
    Pinned,       \* harnesses whose fresh sessions get an id from the launcher
    Hooked,       \* harnesses whose session-start hook fetches the packet
    Direct,       \* harnesses whose launcher fetches the packet (Crush, Grok)
    PathCursors,  \* harnesses whose cursor names the transcript it is for
    Selectors,    \* harnesses for which users name native sessions themselves
    MaxRecords,   \* bound: records of one transcript
    MaxFaults     \* bound: crashes, lost replies and failed steps

ASSUME AgentKindsAssumption ==
    Pinned \cup Hooked \cup Direct \cup PathCursors \cup Selectors \subseteq Agents
ASSUME RecordAssumption ==
    /\ MaxRecords \in Nat
    /\ RecordIds = Sessions \X (1..MaxRecords)
    /\ Cursors = Sessions \X (0..MaxRecords)
ASSUME FaultsAssumption == MaxFaults \in Nat

VARIABLES
    launcher,    \* launcher[r]: the process that asked for run r
    hook,        \* hook[r]: a session-start request of r's harness
    transcript,  \* transcript[s]: records in the native store
    known,       \* history: known[s], the ids of the events s was given
    faults       \* bounds the faults

runVars == <<ledgerVars, launcher, hook, transcript, known, faults>>

\* prepared and cursor: the prepare response, and after the export the cursor
\* to store; expected: the id the plan names; live: the session the harness
\* opened; native: the one resolved after the exit; from and upto: the packet
\* (`from`, `upto`], then the records to send.
LauncherRow ==
    [pc: {"off", "passing", "planned", "linked", "ready", "spawned", "running",
          "exited", "importing", "closed", "dead"},
     prepared: Sessions \cup {None}, cursor: Cursors \cup {None},
     expected: Sessions \cup {None}, live: Sessions \cup {None},
     native: Sessions \cup {None}, from: Nat, upto: Nat]

NoLauncher == [pc |-> "off", prepared |-> None, cursor |-> None, expected |-> None,
               live |-> None, native |-> None, from |-> 0, upto |-> 0]

HookRow == [pc: {"idle", "linked", "read"}, after: Nat, through: Nat]

NoHook == [pc |-> "idle", after |-> 0, through |-> 0]

RunInit ==
    /\ Init
    /\ launcher = [r \in Runs |-> NoLauncher]
    /\ hook = [r \in Runs |-> NoHook]
    /\ transcript = [s \in Sessions |-> 0]
    /\ known = [s \in Sessions |-> {}]
    /\ faults = 0

At(r, pc) == launcher[r].pc = pc
Living(r) == launcher[r].pc \in {"spawned", "running"}
To(r, pc) == launcher' = [launcher EXCEPT ![r] = [@ EXCEPT !.pc = pc]]
Faulty == faults < MaxFaults /\ faults' = faults + 1

\* Mutant: the last event of the range is left out.
PacketShort(w, after, through) ==
    {log[w][i].id : i \in {k \in DOMAIN log[w] : after < k /\ k < through}}

\* Events after+1 .. through of w, as a packet renders them.
Packet(w, after, through) ==
    {log[w][i].id : i \in {k \in DOMAIN log[w] : after < k /\ k <= through}}

---------------------------------------------------------------------------
(* Before the harness starts.                                              *)

Unused(s) ==
    /\ transcript[s] = 0
    /\ \A w \in Workstreams : ~native[w][s].linked
    /\ \A r \in Runs : s \notin {launcher[r].expected, launcher[r].live}

Started(a) == {s \in Sessions : AgentOf[s] = a /\ transcript[s] > 0}

\* What build_launch_plan may expect when the server answers with session p:
\* a resume, a fresh session (--fresh, or nothing to resume), a session that
\* the chooser or the automatic choice adopts, one that the user names.
Plans(w, a, p) ==
    ({p} \cap Started(a))
      \cup (IF a \in Pinned THEN {s \in Sessions : AgentOf[s] = a /\ Unused(s)} ELSE {None})
      \cup (IF p = None /\ ~Established(w) THEN Started(a) ELSE {})
      \cup (IF a \in Selectors THEN Started(a) ELSE {})

\* The automatic choice of a harness is one of the choices of a.
Prepare(r) ==
    \E w \in Workstreams, a \in Agents :
        LET p == GrantedRow(w, a).session
            row == [NoLauncher EXCEPT !.prepared = p,
                       !.cursor = IF p = None THEN None ELSE native[w][p].source]
        IN /\ At(r, "off")
           /\ PrepareRun(r, w, a)
           /\ \/ \E e \in Plans(w, a, p) :
                    launcher' = [launcher EXCEPT ![r] =
                       [row EXCEPT !.expected = e,
                                   !.pc = IF e # None THEN "planned"
                                          ELSE IF a \in Direct THEN "linked" ELSE "ready"]]
              \/ launcher' = [launcher EXCEPT ![r] = [row EXCEPT !.pc = "passing"]]
           /\ UNCHANGED <<hook, transcript, known, faults>>

\* The reply never arrives: the launcher ends, the lease stays.
PrepareReplyLost(r) ==
    /\ At(r, "off")
    /\ \E w \in Workstreams, a \in Agents : PrepareRun(r, w, a)
    /\ Faulty
    /\ To(r, "dead")
    /\ UNCHANGED <<hook, transcript, known>>

LinkExpected(r) ==
    /\ At(r, "planned")
    /\ LinkNativeSession(r, launcher[r].expected)
    /\ To(r, IF runs[r].agent \in Direct THEN "linked" ELSE "ready")
    /\ UNCHANGED <<hook, transcript, known, faults>>

\* prepare_crush_context, fetch_grok_context.
FetchContext(r) ==
    /\ At(r, "linked")
    /\ Active(r)
    /\ launcher' = [launcher EXCEPT ![r] =
          [@ EXCEPT !.pc = "ready", !.from = runs[r].after, !.upto = runs[r].through]]
    /\ UNCHANGED <<ledgerVars, hook, transcript, known, faults>>

\* A harness without an expected id starts a session of its own choice.
Spawn(r) ==
    /\ At(r, "ready")
    /\ \E s \in Sessions :
         LET l == launcher[r]
         IN /\ AgentOf[s] = runs[r].agent
            /\ IF l.expected # None THEN s = l.expected ELSE Unused(s)
            /\ launcher' = [launcher EXCEPT ![r] =
                  [@ EXCEPT !.live = s, !.from = 0, !.upto = 0,
                            !.pc = IF runs[r].agent \in Direct THEN "spawned" ELSE "running"]]
            /\ known' = [known EXCEPT ![s] = @ \cup Packet(runs[r].ws, l.from, l.upto)]
    /\ UNCHANGED <<ledgerVars, hook, transcript, faults>>

\* The run is finished with the planned session and the prepared cursor.
SpawnFails(r) ==
    /\ At(r, "ready")
    /\ LET s == launcher[r].expected
       IN FinishRun(r, [session |-> s, cursor |-> launcher[r].cursor, record |-> None,
                        boundary |-> IF s # None THEN s ELSE runs[r].session,
                        complete |-> TRUE])
    /\ Faulty
    /\ To(r, "dead")
    /\ UNCHANGED <<hook, transcript, known>>

---------------------------------------------------------------------------
(* While the harness runs.                                                 *)

AcceptDirect(r) ==
    /\ At(r, "spawned")
    /\ \/ AcceptContext(r, FALSE) /\ UNCHANGED faults
       \/ ~Active(r) /\ UNCHANGED <<ledgerVars, faults>>
       \/ Faulty /\ UNCHANGED ledgerVars
    /\ To(r, "running")
    /\ UNCHANGED <<hook, transcript, known>>

RenewLease(r) ==
    /\ launcher[r].pc \in {"passing", "running"}
    /\ Heartbeat(r)
    /\ UNCHANGED <<launcher, hook, transcript, known, faults>>

\* A record of a managed session, or of one the user runs by hand.
WriteRecord(s) ==
    /\ transcript[s] < MaxRecords
    /\ \/ \E r \in Runs : Living(r) /\ launcher[r].live = s
       \/ /\ transcript[s] > 0 \/ Unused(s)
          /\ \A r \in Runs : Living(r) \/ At(r, "exited") => runs[r].agent # AgentOf[s]
    /\ transcript' = [transcript EXCEPT ![s] = @ + 1]
    /\ UNCHANGED <<ledgerVars, launcher, hook, known, faults>>

\* fetch_managed_context links the session that starts, then reads the run's
\* context; the hook outlives neither its request nor the run's lease.
HookLinks(r) ==
    /\ hook[r].pc = "idle"
    /\ launcher[r].live # None /\ runs[r].agent \in Hooked
    /\ launcher[r].pc \in {"running", "exited", "importing", "dead"}
    /\ LinkNativeSession(r, launcher[r].live)
    /\ hook' = [hook EXCEPT ![r] = [@ EXCEPT !.pc = "linked"]]
    /\ UNCHANGED <<launcher, transcript, known, faults>>

HookReads(r) ==
    /\ hook[r].pc = "linked"
    /\ hook' = [hook EXCEPT ![r] =
          IF Active(r) /\ ~runs[r].delivered
          THEN [pc |-> "read", after |-> runs[r].after, through |-> runs[r].through]
          ELSE NoHook]
    /\ UNCHANGED <<ledgerVars, launcher, transcript, known, faults>>

\* accept_startup_context: the packet is served only if the claim succeeds.
HookClaims(r) ==
    /\ hook[r].pc = "read"
    /\ \/ /\ AcceptContext(r, TRUE)
          /\ known' = [known EXCEPT ![launcher[r].live] =
                @ \cup Packet(runs[r].ws, hook[r].after, hook[r].through)]
       \/ /\ ~Active(r) \/ runs[r].delivered
          /\ UNCHANGED <<ledgerVars, known>>
    /\ hook' = [hook EXCEPT ![r] = NoHook]
    /\ UNCHANGED <<launcher, transcript, faults>>

---------------------------------------------------------------------------
(* After it exits: resolve the session, export its records, import them.   *)

Exit(r) ==
    /\ At(r, "running")
    /\ To(r, "exited")
    /\ UNCHANGED <<ledgerVars, hook, transcript, known, faults>>

\* The planned session, else the newest with records, else the linked one.
Resolved(r) ==
    LET l == launcher[r]
    IN CASE l.expected # None -> l.expected
         [] l.expected = None /\ transcript[l.live] > 0 -> l.live
         [] OTHER -> runs[r].session

\* Mutant: the prepared cursor is used for whatever session was resolved.
PositionAlways(r, s) ==
    IF s # None /\ launcher[r].cursor # None THEN launcher[r].cursor[2] ELSE 0

\* Where the export of s starts: the prepared cursor counts only for the
\* prepared session, and some adapters check whose cursor it is.
Position(r, s) ==
    LET c == launcher[r].cursor
    IN IF /\ s # None /\ s = launcher[r].prepared
          /\ c # None
          /\ AgentOf[s] \in PathCursors => c[1] = s
       THEN c[2] ELSE 0

\* Mutant: the cursor points one record too far.
NewCursorNext(s, n) == <<s, n + 1>>

NewCursor(s, n) == <<s, n>>

\* The export reads what the transcript holds now.  When it fails, the run is
\* finished without records, with the cursor the export was given.
Export(r) ==
    LET s == Resolved(r)
        start == Position(r, s)
        held == IF s = None THEN 0 ELSE transcript[s]
        kept == IF s = launcher[r].prepared THEN launcher[r].cursor ELSE None
    IN /\ At(r, "exited")
       /\ \/ /\ held > 0
             /\ launcher' = [launcher EXCEPT ![r] =
                  [@ EXCEPT !.pc = "importing", !.native = s, !.from = start,
                            !.upto = Larger(start, held),
                            !.cursor = NewCursor(s, Larger(start, held))]]
             /\ UNCHANGED faults
          \/ /\ launcher' = [launcher EXCEPT ![r] =
                  [@ EXCEPT !.pc = "importing", !.native = s, !.cursor = kept]]
             /\ IF held > 0 THEN Faulty ELSE UNCHANGED faults
       /\ UNCHANGED <<ledgerVars, hook, transcript, known>>

\* The batch that is due: record from + 1 if there is one; the last batch
\* completes the run and stores the new cursor.
Batch(r) ==
    LET l == launcher[r]
        last == l.upto <= l.from + 1
    IN [session |-> l.native, complete |-> last,
        record |-> IF l.from < l.upto
                   THEN [id |-> <<l.native, l.from + 1>>, agent |-> runs[r].agent,
                         session |-> l.native]
                   ELSE None,
        cursor |-> IF last THEN l.cursor ELSE None,
        boundary |-> IF l.native # None THEN l.native ELSE runs[r].session]

\* Mutant: a batch is taken as imported although the request failed.
SendBatchUnchecked(r) ==
    /\ At(r, "importing")
    /\ launcher' = [launcher EXCEPT ![r] =
          IF Batch(r).complete THEN [@ EXCEPT !.pc = "closed"]
                               ELSE [@ EXCEPT !.from = launcher[r].from + 1]]
    /\ \/ FinishRun(r, Batch(r)) /\ UNCHANGED faults
       \/ Faulty /\ UNCHANGED ledgerVars
    /\ UNCHANGED <<hook, transcript, known>>

SendBatch(r) ==
    /\ At(r, "importing")
    /\ FinishRun(r, Batch(r))
    /\ launcher' = [launcher EXCEPT ![r] =
          IF Batch(r).complete THEN [@ EXCEPT !.pc = "closed"]
                               ELSE [@ EXCEPT !.from = launcher[r].from + 1]]
    /\ UNCHANGED <<hook, transcript, known, faults>>

\* The reply is lost and the same batch is sent again.
BatchReplyLost(r) ==
    /\ At(r, "importing")
    /\ FinishRun(r, Batch(r))
    /\ Faulty
    /\ UNCHANGED <<launcher, hook, transcript, known>>

\* A finished run answers a repeated request with success.
BatchAlreadyDone(r) ==
    /\ At(r, "importing")
    /\ runs[r].state = "finished"
    /\ To(r, "closed")
    /\ UNCHANGED <<ledgerVars, hook, transcript, known, faults>>

PassThrough(r) ==
    /\ At(r, "passing")
    /\ FinishRun(r, [session |-> None, cursor |-> None, record |-> None,
                     boundary |-> runs[r].session, complete |-> TRUE])
    /\ To(r, "closed")
    /\ UNCHANGED <<hook, transcript, known, faults>>

\* A step fails for good, the user interrupts, or the run is no longer
\* active: the launcher cancels the run and ends.
GiveUp(r) ==
    /\ launcher[r].pc \in {"passing", "planned", "linked", "ready", "running", "exited", "importing"}
    /\ \/ CancelRun(r) /\ Faulty
       \/ runs[r].state = "expired" /\ UNCHANGED <<ledgerVars, faults>>
    /\ To(r, "dead")
    /\ UNCHANGED <<hook, transcript, known>>

Crash(r) ==
    /\ launcher[r].pc \notin {"off", "closed", "dead"}
    /\ Faulty
    /\ To(r, "dead")
    /\ UNCHANGED <<ledgerVars, hook, transcript, known>>

TimePasses == Tick /\ UNCHANGED <<launcher, hook, transcript, known, faults>>

RunNext ==
    \/ TimePasses
    \/ \E s \in Sessions : WriteRecord(s)
    \/ \E r \in Runs :
         \/ Prepare(r) \/ PrepareReplyLost(r)
         \/ LinkExpected(r) \/ FetchContext(r) \/ Spawn(r) \/ SpawnFails(r)
         \/ AcceptDirect(r) \/ RenewLease(r)
         \/ HookLinks(r) \/ HookReads(r) \/ HookClaims(r)
         \/ Exit(r) \/ Export(r) \/ SendBatch(r) \/ BatchReplyLost(r)
         \/ BatchAlreadyDone(r) \/ PassThrough(r) \/ GiveUp(r) \/ Crash(r)

RunSpec == RunInit /\ [][RunNext]_runVars

---------------------------------------------------------------------------
(* Correctness. *)

RunTypeOK ==
    /\ TypeOK
    /\ launcher \in [Runs -> LauncherRow]
    /\ hook \in [Runs -> HookRow]
    /\ transcript \in [Sessions -> 0..MaxRecords]
    /\ known \in [Sessions -> SUBSET (RecordIds \cup Runs)]
    /\ faults \in 0..MaxFaults

\* Session s was given event i of w, or wrote it.
Knows(s, w, i) == log[w][i].session = s \/ log[w][i].id \in known[s]

\* A session whose id the launcher chose is never marked as knowing an event
\* that it neither wrote nor was given, whatever crashed, lapsed, was retried
\* or raced: what is acknowledged was delivered (link, accept and finish).
HonestDelivery ==
    \A w \in Workstreams, s \in Sessions :
        AgentOf[s] \in Pinned =>
            \A i \in 1..native[w][s].delivery : Knows(s, w, i)

\* docs/managed-workstreams.md on harnesses that do not acknowledge their
\* packet: the failure mode is redelivery, never loss.
RedeliveryNeverLoss ==
    \A w \in Workstreams, s \in Sessions :
        \A i \in 1..native[w][s].delivery : Knows(s, w, i)

\* The records of a session enter the history in their order and without a
\* gap, although runs are cut short, replayed and continued by other runs
\* from the cursor they were prepared with.
ImportedInOrder ==
    \A w \in Workstreams : \A i \in DOMAIN log[w] :
        LET e == log[w][i]
        IN e.id \in RecordIds /\ e.id[2] > 1 =>
              \E j \in 1..(i - 1) : log[w][j].id = <<e.id[1], e.id[2] - 1>>

\* A cursor that lets the next export skip records is stored only when these
\* records are in the history.
SourceCovered ==
    \A w \in Workstreams, s \in Sessions :
        LET c == native[w][s].source
        IN c # None /\ c[1] = s => \A n \in 1..c[2] : HasEvent(log[w], <<s, n>>)
===========================================================================
