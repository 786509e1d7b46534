------------------------- MODULE WorkstreamLedger -------------------------
(***************************************************************************)
(* The managed-workstream tables and the transactions that change them     *)
(* (crates/ai-memory-store/src/workstream.rs).  Each action is one command *)
(* of the single-writer actor, hence one atomic transaction; an action     *)
(* that is not enabled for an input is a transaction that returns an error *)
(* or `false` and rolls back.                                              *)
(*                                                                         *)
(* All workstreams here belong to one checkout scope (workspace, project,  *)
(* repository and worktree fingerprints).  Lease timestamps are modelled   *)
(* by the ticks that remain: 0 is lease_expires_at <= now.                 *)
(***************************************************************************)
EXTENDS Naturals, Sequences

CONSTANTS
    Workstreams,  \* ids that workstreams may be given
    Names,        \* workstream names
    DefaultName,  \* the name of the workstream a bare `run` creates
    Agents,       \* harnesses
    Sessions,     \* native session ids of all harnesses
    AgentOf,      \* AgentOf[s]: the harness that native session s belongs to
    Runs,         \* managed run ids
    RecordIds,    \* event ids of native transcript records
    Cursors,      \* opaque adapter cursors into native transcripts
    LeaseTicks,   \* LEASE_MICROS in ticks
    None

\* A transcript record, or the boundary (checkpoint) event of a run, whose
\* id is derived from the run id.  Session None is "unresolved:<run>".
Event == [id: RecordIds \cup Runs, agent: Agents, session: Sessions \cup {None}]

ASSUME DefaultNameAssumption == DefaultName \in Names
ASSUME AgentOfAssumption == AgentOf \in [Sessions -> Agents]
ASSUME LeaseAssumption == LeaseTicks \in Nat \ {0}
ASSUME NoneAssumption ==
    /\ None \notin Workstreams
    /\ None \notin Names
    /\ None \notin Agents
    /\ None \notin Sessions
    /\ None \notin Runs
    /\ None \notin Cursors
    /\ None \notin Event
ASSUME EventIdAssumption == Runs \cap RecordIds = {}

VARIABLES
    name,      \* workstreams: the name of each id, None while there is no row
    selected,  \* the workstream with the latest selected_at
    runs,      \* managed_runs
    native,    \* workstream_native_sessions
    log        \* workstream_events, in sequence order

ledgerVars == <<name, selected, runs, native, log>>

---------------------------------------------------------------------------
(* Rows. *)

RunState == {"free", "active", "finished", "expired"}

RunRow == [state: RunState, ws: Workstreams \cup {None},
           agent: Agents \cup {None}, session: Sessions \cup {None},
           after: Nat, through: Nat, delivered: BOOLEAN, lease: 0..LeaseTicks]

NoRun == [state |-> "free", ws |-> None, agent |-> None, session |-> None,
          after |-> 0, through |-> 0, delivered |-> FALSE, lease |-> 0]

SessionRow == [linked: BOOLEAN, current: BOOLEAN,
               source: Cursors \cup {None}, delivery: Nat]

NoSessionRow == [linked |-> FALSE, current |-> FALSE,
                 source |-> None, delivery |-> 0]

---------------------------------------------------------------------------
(* Reads that the transactions make. *)

Exists(w) == name[w] # None

Active(r) == runs[r].state = "active"

\* The active run a workstream would still have once stale leases expire.
Busy(w) == \E r \in Runs : Active(r) /\ runs[r].ws = w /\ runs[r].lease > 0

CurrentSession(w, a) ==
    {s \in Sessions : AgentOf[s] = a /\ native[w][s].linked /\ native[w][s].current}

\* The harness an automatic launch continues: one with a current session
\* that the host offers, else the requested one.
AutomaticAgents(w, a, available) ==
    LET linked == {b \in available : CurrentSession(w, b) # {}}
    IN IF linked = {} THEN {a} ELSE linked

Established(w) ==
    \/ \E s \in Sessions : native[w][s].linked
    \/ \E i \in DOMAIN log[w] : log[w][i].id \in RecordIds

Larger(m, n) == IF m >= n THEN m ELSE n

HasEvent(l, id) == \E i \in DOMAIN l : l[i].id = id

\* Mutants: the deduplication is lost; a known event is stored again.
AppendAlways(l, e) == Append(l, e)
AppendOrReplace(l, e) == Append(SelectSeq(l, LAMBDA x : x.id # e.id), e)

AppendNew(l, e) == IF HasEvent(l, e.id) THEN l ELSE Append(l, e)

---------------------------------------------------------------------------
Init ==
    /\ name = [w \in Workstreams |-> None]
    /\ selected = None
    /\ runs = [r \in Runs |-> NoRun]
    /\ native = [w \in Workstreams |-> [s \in Sessions |-> NoSessionRow]]
    /\ log = [w \in Workstreams |-> <<>>]

\* One tick of the wall clock: every lease is closer to its expiry.
Tick ==
    /\ \E r \in Runs : Active(r) /\ runs[r].lease > 0
    /\ runs' = [r \in Runs |->
                  IF Active(r) /\ runs[r].lease > 0
                  THEN [runs[r] EXCEPT !.lease = @ - 1] ELSE runs[r]]
    /\ UNCHANGED <<name, selected, native, log>>

---------------------------------------------------------------------------
(* prepare_run *)

NewWorkstream(w, n) ==
    /\ ~Exists(w)
    /\ \A v \in Workstreams : name[v] # n
    /\ name' = [name EXCEPT ![w] = n]

SelectNew(w) == \E n \in Names : NewWorkstream(w, n)

SelectNamed(w) == Exists(w) /\ UNCHANGED name

SelectCurrent(w) ==
    \/ selected = w /\ UNCHANGED name
    \/ selected = None /\ NewWorkstream(w, DefaultName)

\* Mutant: stale runs are left active.
ExpiredNever(row) == row

\* Expire every stale lease, of any workstream.
Expired(row) ==
    IF row.state = "active" /\ row.lease = 0
    THEN [row EXCEPT !.state = "expired"] ELSE row

\* Mutant: the range to deliver is closed before it is read.
GrantedRowNoRange(w, a) ==
    [state |-> "active", ws |-> w, agent |-> a, session |-> None,
     after |-> 0, through |-> 0, delivered |-> FALSE, lease |-> LeaseTicks]

\* The row that grants run r of agent a on workstream w.
GrantedRow(w, a) ==
    LET cur == CurrentSession(w, a)
        s   == IF cur = {} THEN None ELSE CHOOSE x \in cur : TRUE
    IN [state |-> "active", ws |-> w, agent |-> a, session |-> s,
        after |-> IF s = None THEN 0 ELSE native[w][s].delivery,
        through |-> Len(log[w]), delivered |-> FALSE, lease |-> LeaseTicks]

Grant(r, w, a) ==
    /\ runs[r].state = "free"
    /\ ~Busy(w)
    /\ runs' = [q \in Runs |-> IF q = r THEN GrantedRow(w, a) ELSE Expired(runs[q])]
    /\ selected' = w
    /\ UNCHANGED <<native, log>>

PrepareRun(r, w, a) ==
    /\ SelectNew(w) \/ SelectNamed(w) \/ SelectCurrent(w)
    /\ Grant(r, w, a)

PrepareAutomaticRun(r, w, a, available) ==
    /\ a \in available
    /\ \E b \in AutomaticAgents(w, a, available) : PrepareRun(r, w, b)

---------------------------------------------------------------------------
(* heartbeat, cancel_run *)

\* Mutants: a renewal of a run that is no longer active.
HeartbeatAny(r) ==
    /\ runs[r].state # "free"
    /\ runs' = [runs EXCEPT ![r] = [@ EXCEPT !.lease = LeaseTicks]]
    /\ UNCHANGED <<name, selected, native, log>>
HeartbeatRevives(r) ==
    /\ runs[r].state \in {"active", "expired"} /\ ~Busy(runs[r].ws)
    /\ runs' = [runs EXCEPT ![r] = [@ EXCEPT !.state = "active", !.lease = LeaseTicks]]
    /\ UNCHANGED <<name, selected, native, log>>

Heartbeat(r) ==
    /\ Active(r)
    /\ runs' = [runs EXCEPT ![r] = [@ EXCEPT !.lease = LeaseTicks]]
    /\ UNCHANGED <<name, selected, native, log>>

CancelRun(r) ==
    /\ Active(r)
    /\ runs' = [runs EXCEPT ![r] = [@ EXCEPT !.state = "expired", !.lease = 0]]
    /\ UNCHANGED <<name, selected, native, log>>

---------------------------------------------------------------------------
(* link_native_session *)

\* Mutant: the harness of the session is not compared.
CanLinkForeign(r, s) ==
    Active(r) /\ ~(runs[r].delivered /\ runs[r].session \notin {None, s})

CanLink(r, s) ==
    /\ Active(r)
    /\ runs[r].agent = AgentOf[s]
    /\ ~(runs[r].delivered /\ runs[r].session \notin {None, s})

\* Mutant: linking a known session again forgets what it was given.
InitialDeliveryReset(r, s) == IF runs[r].delivered THEN runs[r].through ELSE 0

\* What the session already knows when it is linked.
InitialDelivery(r, s) ==
    LET row == native[runs[r].ws][s]
    IN CASE row.linked -> row.delivery
         [] ~row.linked /\ runs[r].delivered -> runs[r].through
         [] OTHER -> 0

\* Mutant: the previous current session stays current.
MakeAlsoCurrent(w, s, row) == native' = [native EXCEPT ![w][s] = row]

\* Make s the only current session of its harness on w.
MakeCurrent(w, s, row) ==
    native' = [native EXCEPT ![w] = [x \in Sessions |->
                 CASE x = s -> row
                   [] x # s /\ AgentOf[x] = AgentOf[s]
                        -> [native[w][x] EXCEPT !.current = FALSE]
                   [] OTHER -> native[w][x]]]

LinkNativeSession(r, s) ==
    LET w == runs[r].ws
        d == InitialDelivery(r, s)
    IN /\ CanLink(r, s)
       /\ MakeCurrent(w, s, [linked |-> TRUE, current |-> TRUE,
                             source |-> native[w][s].source, delivery |-> d])
       /\ runs' = [runs EXCEPT ![r] = [@ EXCEPT !.session = s, !.after = d]]
       /\ UNCHANGED <<name, selected, log>>

---------------------------------------------------------------------------
(* accept_context, claim_context_in_transaction *)

\* Mutant: the acknowledgement covers the ledger of now, not the range given.
AcceptLatest(r, require_undelivered) ==
    LET w == runs[r].ws
        s == runs[r].session
    IN /\ Active(r)
       /\ require_undelivered => ~runs[r].delivered
       /\ runs' = [runs EXCEPT ![r] = [@ EXCEPT !.delivered = TRUE, !.lease = LeaseTicks]]
       /\ native' = IF s # None /\ native[w][s].linked
                    THEN [native EXCEPT ![w][s].delivery = Len(log[w])]
                    ELSE native
       /\ UNCHANGED <<name, selected, log>>

AcceptContext(r, require_undelivered) ==
    LET w == runs[r].ws
        s == runs[r].session
    IN /\ Active(r)
       /\ require_undelivered => ~runs[r].delivered
       /\ runs' = [runs EXCEPT ![r] = [@ EXCEPT !.delivered = TRUE, !.lease = LeaseTicks]]
       /\ native' = IF s # None /\ native[w][s].linked
                    THEN [native EXCEPT ![w][s].delivery = Larger(@, runs[r].through)]
                    ELSE native
       /\ UNCHANGED <<name, selected, log>>

---------------------------------------------------------------------------
(* finish_run: import one batch, and with `complete` close the run.  A     *)
(* request `in` carries at most one transcript record; the HTTP handler    *)
(* adds the run's boundary event to the complete one, stamped with         *)
(* in.boundary.                                                            *)

BoundaryEvent(r, s) == [id |-> r, agent |-> runs[r].agent, session |-> s]

FinishSession(r, in) ==
    IF in.session # None THEN in.session ELSE runs[r].session

\* Every event names the harness of the run and the session it is known by.
EventsMatch(r, in) ==
    LET s == FinishSession(r, in)
    IN /\ in.record # None => /\ in.record.agent = runs[r].agent
                              /\ s # None => in.record.session = s
       /\ in.complete /\ s # None => in.boundary = s

\* Deduplicate by event id, then append: the retry of a batch adds nothing.
Imported(r, in) ==
    LET l == log[runs[r].ws]
        m == IF in.record = None THEN l ELSE AppendNew(l, in.record)
    IN IF in.complete THEN AppendNew(m, BoundaryEvent(r, in.boundary)) ELSE m

\* Mutant: the next sequence number, not the last one, is stored.
KnownThroughNext(r, l) ==
    IF runs[r].delivered \/ runs[r].after >= runs[r].through THEN Len(l) + 1 ELSE 0

\* The delivery cursor that the finished session has earned.
KnownThrough(r, l) ==
    IF runs[r].delivered \/ runs[r].after >= runs[r].through THEN Len(l) ELSE 0

FinishRun(r, in) ==
    LET w == runs[r].ws
        s == FinishSession(r, in)
        l == Imported(r, in)
    IN /\ Active(r)
       /\ EventsMatch(r, in)
       /\ log' = [log EXCEPT ![w] = l]
       /\ IF in.complete /\ s # None
          THEN MakeCurrent(w, s, [linked |-> TRUE, current |-> TRUE,
                   source |-> in.cursor,
                   delivery |-> Larger(native[w][s].delivery, KnownThrough(r, l))])
          ELSE UNCHANGED native
       /\ runs' = [runs EXCEPT ![r] =
                     IF in.complete
                     THEN [@ EXCEPT !.state = "finished", !.session = s, !.lease = 0]
                     ELSE [@ EXCEPT !.session = s, !.lease = LeaseTicks]]
       /\ UNCHANGED <<name, selected>>

---------------------------------------------------------------------------
(* rename *)

\* Mutant: the new name is not checked against the other workstreams.
RenameUnchecked(w, n) ==
    /\ Exists(w)
    /\ name' = [name EXCEPT ![w] = n]
    /\ UNCHANGED <<selected, runs, native, log>>

Rename(w, n) ==
    /\ Exists(w)
    /\ \A v \in Workstreams : name[v] # n
    /\ name' = [name EXCEPT ![w] = n]
    /\ UNCHANGED <<selected, runs, native, log>>

---------------------------------------------------------------------------
\* Requests any client may send for run r: session and events of the run's
\* own harness, whatever the order and whatever was sent before.
Request(r) ==
    {in \in [session: Sessions \cup {None}, cursor: Cursors \cup {None},
             record: {[id |-> i, agent |-> runs[r].agent, session |-> s] :
                        i \in RecordIds, s \in Sessions} \cup {None},
             boundary: Sessions \cup {None}, complete: BOOLEAN] :
        in.session # None => AgentOf[in.session] = runs[r].agent}

Next ==
    \/ Tick
    \/ \E r \in Runs :
         \/ \E w \in Workstreams, a \in Agents : PrepareRun(r, w, a)
         \/ \E w \in Workstreams, a \in Agents, available \in SUBSET Agents :
              PrepareAutomaticRun(r, w, a, available)
         \/ Heartbeat(r)
         \/ CancelRun(r)
         \/ \E s \in Sessions : LinkNativeSession(r, s)
         \/ \E u \in BOOLEAN : AcceptContext(r, u)
         \/ \E in \in Request(r) : FinishRun(r, in)
    \/ \E w \in Workstreams, n \in Names : Rename(w, n)

Spec == Init /\ [][Next]_ledgerVars

---------------------------------------------------------------------------
(* Correctness. *)

TypeOK ==
    /\ name \in [Workstreams -> Names \cup {None}]
    /\ selected \in Workstreams \cup {None}
    /\ runs \in [Runs -> RunRow]
    /\ \A r \in Runs : runs[r].state # "free" =>
          runs[r].ws \in Workstreams /\ runs[r].agent \in Agents
    /\ \A r \in Runs : runs[r].session # None =>
          AgentOf[runs[r].session] = runs[r].agent
    /\ native \in [Workstreams -> [Sessions -> SessionRow]]
    /\ log \in [Workstreams -> Seq(Event)]

\* A workstream has at most one active run, although any prepare expires
\* stale runs of every workstream and lapsed leases stay renewable
\* (prepare_run, heartbeat; idx_managed_runs_one_active).
OneActiveRunPerWorkstream ==
    \A q, r \in Runs :
        Active(q) /\ Active(r) /\ runs[q].ws = runs[r].ws => q = r

\* Per workstream and harness one native session is current: links by hooks
\* and by finishing runs never leave two sessions to resume
\* (link_native_session, finish_run; idx_workstream_native_current).
OneCurrentSessionPerHarness ==
    \A w \in Workstreams : \A s, t \in Sessions :
        /\ native[w][s].current /\ native[w][t].current
        /\ AgentOf[s] = AgentOf[t]
        => s = t

\* A record enters a workstream's history once, however often its batch is
\* retried or replayed by a later run (finish_run's dedup by event id).
NoDuplicateEvents ==
    \A w \in Workstreams : \A i, j \in DOMAIN log[w] :
        log[w][i].id = log[w][j].id => i = j

\* While a run is active, no session of its workstream is marked as knowing
\* more than the run was prepared with, and the range the run delivers,
\* (sync_after, sync_through], lies within the ledger.
CursorsWithinSync ==
    \A r \in Runs : Active(r) =>
        /\ runs[r].through <= Len(log[runs[r].ws])
        /\ runs[r].after <= runs[r].through
        /\ \A s \in Sessions : native[runs[r].ws][s].delivery <= runs[r].through

\* No cursor points past the end of the ledger.
DeliveryWithinLedger ==
    \A w \in Workstreams, s \in Sessions : native[w][s].delivery <= Len(log[w])

\* Everything beyond an active run's sync_through was imported by that very
\* run: it is what lets finish_run mark its session as knowing the whole
\* ledger (known_through = latest) after delivering only up to sync_through.
BeyondSyncIsOwn ==
    \A r \in Runs : Active(r) =>
        \A i \in DOMAIN log[runs[r].ws] :
            i > runs[r].through => log[runs[r].ws][i].agent = runs[r].agent

\* The ledger is append-only, and only the active run of a workstream, with
\* events of its own harness, extends it.
Extends(l, m) == Len(l) <= Len(m) /\ \A i \in DOMAIN l : m[i] = l[i]

LedgerStep ==
    \A w \in Workstreams :
        /\ Extends(log[w], log'[w])
        /\ log'[w] # log[w] =>
             \E r \in Runs : /\ Active(r)
                              /\ runs[r].ws = w
                              /\ \A i \in DOMAIN log'[w] :
                                    i > Len(log[w]) => log'[w][i].agent = runs[r].agent

AppendOnlyByHolder == [][LedgerStep]_ledgerVars

\* Finished, cancelled and superseded runs stay terminal: no late heartbeat,
\* link, acknowledgement or import revives them or changes their rows.
TerminalRunsStay ==
    [][\A r \in Runs : runs[r].state \in {"finished", "expired"} =>
                          runs'[r] = runs[r]]_ledgerVars

\* What a session has been given is never forgotten, so nothing is delivered
\* to it twice across runs (every delivery_cursor update takes the MAX).
DeliveryNeverRegresses ==
    [][\A w \in Workstreams, s \in Sessions :
          native'[w][s].delivery >= native[w][s].delivery]_ledgerVars

\* Names identify workstreams: neither --new nor a rename, in whatever order,
\* gives two workstreams one name (select_workstream, rename).
NamesUnique ==
    \A v, w \in Workstreams : Exists(v) /\ name[v] = name[w] => v = w

---------------------------------------------------------------------------
(* The ledger implements the exclusive ledger: the owner of a workstream   *)
(* is its active run.                                                      *)

HolderOf(w) ==
    IF \E r \in Runs : Active(r) /\ runs[r].ws = w
    THEN CHOOSE r \in Runs : Active(r) /\ runs[r].ws = w
    ELSE None

Holder == [w \in Workstreams |-> HolderOf(w)]

Retired == {r \in Runs : runs[r].state \in {"finished", "expired"}}

Exclusive == INSTANCE ExclusiveLedger
             WITH holder <- Holder, retired <- Retired, history <- log

\* Every transaction is a step of the promised ledger or changes nothing of
\* it: exclusive ownership, no second chance for a superseded run, exactly-
\* once append-only history (all of workstream.rs's writer commands).
ImplementsExclusiveLedger == Exclusive!Spec
===========================================================================
