-------------------------- MODULE ManagedRunSafety --------------------------
(***************************************************************************)
(* The launchers of ManagedRun, proved for every value of the constants.   *)
(* LaunchInv ties the stage of each launcher to its run and makes every    *)
(* step a transaction of the ledger (or none), so that all that is proved  *)
(* of WorkstreamLedger holds under its launchers.  ImportInv follows the   *)
(* cursors from the tables through a launcher and back, DeliveryInv the    *)
(* packets.                                                                *)
(***************************************************************************)
EXTENDS ManagedRun, WorkstreamLedgerSafety

Harnesses == {"planned", "linked", "ready", "spawned", "running", "exited", "importing"}

\* The sessions that a launcher names belong to the harness of its run.
OwnSessions(l, a) ==
    /\ l.prepared # None => AgentOf[l.prepared] = a
    /\ l.expected # None => AgentOf[l.expected] = a
    /\ l.live # None => AgentOf[l.live] = a
    /\ l.native # None => AgentOf[l.native] = a

\* What the stage of a launcher says of its own row.
StageOf(l) ==
    /\ l.pc = "off" => l = NoLauncher
    /\ l.pc = "planned" => l.expected # None
    /\ l.pc \in {"off", "passing", "planned", "linked", "ready"} => l.live = None
    /\ l.pc \in {"spawned", "running", "exited", "importing"} => l.live # None
    /\ l.pc \in {"spawned", "running", "exited"} => l.from = 0 /\ l.upto = 0
    /\ l.pc = "importing" => /\ l.from <= l.upto /\ l.upto <= MaxRecords
                             /\ l.native = None => l.upto = 0

Stage(r) ==
    /\ StageOf(launcher[r])
    /\ launcher[r].pc = "off" <=> runs[r].state = "free"
    /\ OwnSessions(launcher[r], runs[r].agent)
    /\ hook[r].pc # "idle" => launcher[r].live # None

LaunchInv == RunTypeOK /\ \A r \in Runs : Stage(r)

---------------------------------------------------------------------------
(* Every request is one that the ledger knows. *)

\* A record of a transcript, and the cursor behind it.
LEMMA RecordFacts ==
    /\ MaxRecords \in Nat
    /\ \A s \in Sessions, n \in 1..MaxRecords : <<s, n>> \in RecordIds
    /\ \A s \in Sessions, n \in 0..MaxRecords : <<s, n>> \in Cursors
    /\ \A c \in Cursors : c = <<c[1], c[2]>> /\ c[1] \in Sessions /\ c[2] \in 0..MaxRecords
    /\ \A i \in RecordIds : i = <<i[1], i[2]>> /\ i[1] \in Sessions /\ i[2] \in 1..MaxRecords
BY RecordAssumption

LEMMA LaunchTypes ==
    ASSUME LaunchInv, NEW r \in Runs
    PROVE  /\ TypeOK
           /\ launcher[r] \in LauncherRow /\ hook[r] \in HookRow
           /\ runs[r] \in RunRow
           /\ Stage(r)
           /\ launcher \in [Runs -> LauncherRow] /\ hook \in [Runs -> HookRow]
BY DEF LaunchInv, RunTypeOK, TypeOK

\* An issued run has a workstream and a harness, and its session, if any, is
\* one of that harness.
LEMMA IssuedRun ==
    ASSUME LaunchInv, NEW r \in Runs, launcher[r].pc # "off"
    PROVE  /\ runs[r].state # "free"
           /\ runs[r].ws \in Workstreams /\ runs[r].agent \in Agents
           /\ runs[r].session \in Sessions \cup {None}
           /\ runs[r].session # None => AgentOf[runs[r].session] = runs[r].agent
           /\ runs[r].after \in Nat /\ runs[r].through \in Nat
<1>1. runs[r].state # "free" /\ runs[r] \in RunRow /\ TypeOK
  BY LaunchTypes DEF Stage
<1> QED BY <1>1 DEF TypeOK, RunRow

\* A finish without a record.
LEMMA PlainRequest ==
    ASSUME NEW r \in Runs, NEW s \in Sessions \cup {None}, NEW c \in Cursors \cup {None},
           NEW b \in Sessions \cup {None}, s # None => AgentOf[s] = runs[r].agent
    PROVE  [session |-> s, cursor |-> c, record |-> None, boundary |-> b, complete |-> TRUE]
             \in Request(r)
BY DEF Request

LEMMA BatchRequest ==
    ASSUME LaunchInv, NEW r \in Runs, At(r, "importing")
    PROVE  /\ Batch(r) \in Request(r)
           /\ Batch(r).session = launcher[r].native
           /\ Batch(r).complete = (launcher[r].upto <= launcher[r].from + 1)
           /\ Batch(r).cursor = IF Batch(r).complete THEN launcher[r].cursor ELSE None
           /\ Batch(r).record =
                IF launcher[r].from < launcher[r].upto
                THEN [id |-> <<launcher[r].native, launcher[r].from + 1>>,
                      agent |-> runs[r].agent, session |-> launcher[r].native]
                ELSE None
           /\ Batch(r).boundary = FinishSession(r, Batch(r))
           /\ FinishSession(r, Batch(r)) =
                IF launcher[r].native # None THEN launcher[r].native ELSE runs[r].session
<1> DEFINE l == launcher[r]
           rec == IF l.from < l.upto
                  THEN [id |-> <<l.native, l.from + 1>>, agent |-> runs[r].agent,
                        session |-> l.native]
                  ELSE None
           last == l.upto <= l.from + 1
           cur == IF last THEN l.cursor ELSE None
           b == IF l.native # None THEN l.native ELSE runs[r].session
<1>1. /\ l \in LauncherRow /\ StageOf(l) /\ OwnSessions(l, runs[r].agent)
      /\ l.pc = "importing"
  BY LaunchTypes DEF Stage, At
<1>2. /\ l.native \in Sessions \cup {None} /\ l.cursor \in Cursors \cup {None}
      /\ l.from \in Nat /\ l.upto \in Nat
      /\ l.from <= l.upto /\ l.upto <= MaxRecords
      /\ l.native = None => l.upto = 0
      /\ l.native # None => AgentOf[l.native] = runs[r].agent
  BY <1>1 DEF LauncherRow, StageOf, OwnSessions
<1>3. runs[r].session \in Sessions \cup {None}
  BY <1>1, IssuedRun
<1> HIDE DEF l
<1>4. ASSUME l.from < l.upto
      PROVE  <<l.native, l.from + 1>> \in RecordIds /\ l.native \in Sessions
  <2>1. l.native \in Sessions /\ l.from + 1 \in 1..MaxRecords
    BY <1>2, <1>4, RecordFacts
  <2> QED BY <2>1, RecordFacts
<1>5. rec \in {[id |-> i, agent |-> runs[r].agent, session |-> s] :
                 i \in RecordIds, s \in Sessions} \cup {None}
  BY <1>4
<1>6. /\ last \in BOOLEAN /\ cur \in Cursors \cup {None}
      /\ b \in Sessions \cup {None}
  BY <1>2, <1>3
<1>7. Batch(r) = [session |-> l.native, complete |-> last, record |-> rec,
                  cursor |-> cur, boundary |-> b]
  BY DEF Batch, l
<1> HIDE DEF rec, last, cur, b
<1>8. Batch(r) \in Request(r)
  BY <1>2, <1>5, <1>6, <1>7 DEF Request
<1>9. /\ Batch(r).session = l.native /\ Batch(r).complete = last
      /\ Batch(r).record = rec /\ Batch(r).cursor = cur /\ Batch(r).boundary = b
  BY <1>7
<1>10. FinishSession(r, Batch(r)) = b
  BY <1>9 DEF FinishSession, b
<1>11. cur = IF Batch(r).complete THEN l.cursor ELSE None
  BY <1>9 DEF cur
<1> QED BY <1>8, <1>9, <1>10, <1>11 DEF rec, last, b, l

---------------------------------------------------------------------------
(* What the transactions do to the columns that the launchers read. *)

\* Run q keeps everything but its lease, and may lapse.
SameRow(q) ==
    /\ SameGrant(q)
    /\ runs'[q].after = runs[q].after
    /\ runs'[q].session = runs[q].session
    /\ runs'[q].delivered = runs[q].delivered
    /\ \/ runs'[q].state = runs[q].state
       \/ runs[q].state = "active" /\ runs'[q].state = "expired"

\* The sessions keep everything but their current mark.
SameSessions(except, w) ==
    \A v \in Workstreams, x \in Sessions :
        v # w \/ x # except =>
            /\ native'[v][x].linked = native[v][x].linked
            /\ native'[v][x].source = native[v][x].source
            /\ native'[v][x].delivery = native[v][x].delivery

LEMMA UnchangedRows ==
    ASSUME UNCHANGED <<runs, native>>
    PROVE  (\A q \in Runs : SameRow(q)) /\ SameSessions(None, None)
BY DEF SameRow, SameGrant, SameSessions

LEMMA QuietRows ==
    ASSUME TypeOK, Tick \/ \E r \in Runs : Heartbeat(r) \/ CancelRun(r)
    PROVE  /\ \A q \in Runs : SameRow(q)
           /\ UNCHANGED <<native, log>>
<1>0. runs \in [Runs -> RunRow]
  BY DEF TypeOK
<1>1. CASE Tick
  <2> SUFFICES ASSUME NEW q \in Runs PROVE SameRow(q)
    BY <1>1 DEF Tick
  <2>1. runs'[q] = runs[q] \/ runs'[q] = [runs[q] EXCEPT !.lease = @ - 1]
    BY <1>1 DEF Tick
  <2>2. runs[q] \in RunRow
    BY <1>0
  <2> QED BY <2>1, <2>2 DEF SameRow, SameGrant, RunRow
<1>2. ASSUME NEW r \in Runs, Heartbeat(r) \/ CancelRun(r)
      PROVE  /\ \A q \in Runs : SameRow(q)
             /\ UNCHANGED <<native, log>>
  <2>1. /\ runs[r].state = "active"
        /\ \A q \in Runs \ {r} : runs'[q] = runs[q]
        /\ \/ runs'[r] = [runs[r] EXCEPT !.lease = LeaseTicks]
           \/ runs'[r] = [runs[r] EXCEPT !.state = "expired", !.lease = 0]
        /\ UNCHANGED <<native, log>>
    BY <1>0, <1>2 DEF Heartbeat, CancelRun, Active
  <2>2. runs[r] \in RunRow
    BY <1>0
  <2>3. SameRow(r)
    BY <2>1, <2>2 DEF SameRow, SameGrant, RunRow
  <2> QED BY <2>1, <2>3 DEF SameRow, SameGrant
<1> QED BY <1>1, <1>2

LEMMA GrantRows ==
    ASSUME TypeOK, NEW r \in Runs, NEW w \in Workstreams, NEW a \in Agents,
           PrepareRun(r, w, a)
    PROVE  /\ runs[r].state = "free" /\ runs'[r] = GrantedRow(w, a)
           /\ \A q \in Runs \ {r} : SameRow(q)
           /\ UNCHANGED <<native, log>>
<1>1. /\ runs[r].state = "free"
      /\ runs' = [q \in Runs |-> IF q = r THEN GrantedRow(w, a) ELSE Expired(runs[q])]
      /\ UNCHANGED <<native, log>>
  BY DEF PrepareRun, Grant
<1>2. ASSUME NEW q \in Runs \ {r} PROVE SameRow(q)
  <2>1. runs[q] \in RunRow /\ runs'[q] = Expired(runs[q])
    BY <1>1 DEF TypeOK
  <2> QED BY <2>1 DEF Expired, SameRow, SameGrant, RunRow
<1> QED BY <1>1, <1>2

LEMMA LinkRows ==
    ASSUME TypeOK, NEW r \in Runs, NEW s \in Sessions, LinkNativeSession(r, s)
    PROVE  LET w == runs[r].ws
           IN /\ Active(r) /\ w \in Workstreams
              /\ SameGrant(r) /\ runs'[r].state = "active"
              /\ runs'[r].session = s
              /\ runs'[r].delivered = runs[r].delivered
              /\ \A q \in Runs \ {r} : SameRow(q)
              /\ native'[w][s].linked
              /\ native'[w][s].source = native[w][s].source
              /\ native'[w][s].delivery = runs'[r].after
              /\ native[w][s].linked => runs'[r].after = native[w][s].delivery
              /\ ~native[w][s].linked /\ ~runs[r].delivered => runs'[r].after = 0
              /\ SameSessions(s, w)
              /\ UNCHANGED log
<1> DEFINE w == runs[r].ws
           d == InitialDelivery(r, s)
           row == [linked |-> TRUE, current |-> TRUE,
                   source |-> native[w][s].source, delivery |-> d]
<1>1. /\ Active(r) /\ w \in Workstreams
      /\ d \in Nat /\ SameGrant(r) /\ runs'[r].state = "active" /\ runs'[r].after = d
      /\ \A q \in Runs \ {r} : runs'[q] = runs[q]
      /\ native[w][s].linked => d = native[w][s].delivery
      /\ UNCHANGED log
  BY LinkFacts
<1>2. native \in [Workstreams -> [Sessions -> SessionRow]] /\ runs[r] \in RunRow
      /\ runs \in [Runs -> RunRow]
  BY DEF TypeOK
<1>3. /\ MakeCurrent(w, s, row)
      /\ runs' = [runs EXCEPT ![r] = [@ EXCEPT !.session = s, !.after = d]]
  BY DEF LinkNativeSession
<1>4. ~native[w][s].linked /\ ~runs[r].delivered => d = 0
  BY DEF InitialDelivery
<1> HIDE DEF w, d
<1>5. row \in SessionRow
  BY <1>1, <1>2 DEF SessionRow
<1>6. /\ native'[w][s] = row
      /\ \A v \in Workstreams, x \in Sessions :
           v # w \/ x # s => \/ native'[v][x] = native[v][x]
                             \/ native'[v][x] = [native[v][x] EXCEPT !.current = FALSE]
  <2> HIDE DEF row
  <2> QED BY <1>1, <1>3, <1>5, MakeCurrentType
<1>7. SameSessions(s, w)
  <2> SUFFICES ASSUME NEW v \in Workstreams, NEW x \in Sessions, v # w \/ x # s
               PROVE  /\ native'[v][x].linked = native[v][x].linked
                      /\ native'[v][x].source = native[v][x].source
                      /\ native'[v][x].delivery = native[v][x].delivery
    BY DEF SameSessions
  <2>1. native[v][x] \in SessionRow
    BY <1>2
  <2> QED BY <1>6, <2>1 DEF SessionRow
<1>8. runs'[r].session = s /\ runs'[r].delivered = runs[r].delivered
  BY <1>2, <1>3 DEF RunRow
<1>9. \A q \in Runs \ {r} : SameRow(q)
  BY <1>1 DEF SameRow, SameGrant
<1> QED BY <1>1, <1>4, <1>6, <1>7, <1>8, <1>9 DEF w, row

LEMMA AcceptRows ==
    ASSUME TypeOK, NEW r \in Runs, NEW u \in BOOLEAN, AcceptContext(r, u)
    PROVE  LET w == runs[r].ws
               s == runs[r].session
           IN /\ Active(r) /\ w \in Workstreams
              /\ SameGrant(r) /\ runs'[r].state = "active"
              /\ runs'[r].after = runs[r].after
              /\ runs'[r].session = runs[r].session
              /\ runs'[r].delivered
              /\ \A q \in Runs \ {r} : SameRow(q)
              /\ SameSessions(s, w)
              /\ s # None =>
                   /\ native'[w][s].linked = native[w][s].linked
                   /\ native'[w][s].source = native[w][s].source
                   /\ native'[w][s].delivery \in {native[w][s].delivery, runs[r].through}
                   /\ native[w][s].delivery <= native'[w][s].delivery
              /\ UNCHANGED log
<1> DEFINE w == runs[r].ws
           s == runs[r].session
           row == [native[w][s] EXCEPT !.delivery = Larger(@, runs[r].through)]
<1>1. /\ Active(r) /\ w \in Workstreams
      /\ SameGrant(r) /\ runs'[r].state = "active" /\ runs'[r].after = runs[r].after
      /\ \A q \in Runs \ {r} : runs'[q] = runs[q]
      /\ UNCHANGED log
  BY AcceptFacts
<1>2. /\ native \in [Workstreams -> [Sessions -> SessionRow]] /\ runs[r] \in RunRow
      /\ runs \in [Runs -> RunRow]
  BY DEF TypeOK
<1>3. s \in Sessions \cup {None} /\ runs[r].through \in Nat
  BY <1>2 DEF RunRow
<1>4. runs' = [runs EXCEPT ![r] = [@ EXCEPT !.delivered = TRUE, !.lease = LeaseTicks]]
      /\ native' = IF s # None /\ native[w][s].linked
                   THEN [native EXCEPT ![w][s].delivery = Larger(@, runs[r].through)]
                   ELSE native
  BY DEF AcceptContext
<1>5. runs'[r].session = runs[r].session /\ runs'[r].delivered
  BY <1>2, <1>4 DEF RunRow
<1>6. \A q \in Runs \ {r} : SameRow(q)
  BY <1>1 DEF SameRow, SameGrant
<1>7. CASE ~(s # None /\ native[w][s].linked)
  <2>1. native' = native
    BY <1>4, <1>7
  <2>2. s # None => native[w][s].delivery \in Nat
    BY <1>1, <1>2, <1>3 DEF SessionRow
  <2> QED BY <1>1, <1>5, <1>6, <2>1, <2>2 DEF SameSessions
<1>8. CASE s # None /\ native[w][s].linked
  <2>1. native' = [native EXCEPT ![w][s].delivery = Larger(@, runs[r].through)]
    BY <1>4, <1>8
  <2>2. native[w][s] \in SessionRow /\ s \in Sessions
    BY <1>1, <1>2, <1>3, <1>8
  <2>3. native'[w][s] = row
    BY <1>1, <1>2, <2>1, <2>2
  <2>4. \A v \in Workstreams, x \in Sessions : v # w \/ x # s => native'[v][x] = native[v][x]
    BY <1>1, <1>2, <2>1, <2>2
  <2>5. /\ row.linked = native[w][s].linked /\ row.source = native[w][s].source
        /\ row.delivery = Larger(native[w][s].delivery, runs[r].through)
        /\ native[w][s].delivery \in Nat
    BY <2>2 DEF SessionRow
  <2> HIDE DEF row, s, w
  <2>6. /\ row.delivery \in {native[w][s].delivery, runs[r].through}
        /\ native[w][s].delivery <= row.delivery
    BY <1>3, <2>5 DEF Larger
  <2>7. SameSessions(s, w)
    BY <2>4 DEF SameSessions
  <2> QED BY <1>1, <1>5, <1>6, <2>3, <2>5, <2>6, <2>7 DEF s, w
<1> QED BY <1>7, <1>8

LEMMA FinishRows ==
    ASSUME TypeOK, NEW r \in Runs, NEW in \in Request(r), FinishRun(r, in)
    PROVE  LET w == runs[r].ws
               s == FinishSession(r, in)
               l == Imported(r, in)
           IN /\ Active(r) /\ w \in Workstreams
              /\ s \in Sessions \cup {None}
              /\ SameGrant(r)
              /\ runs'[r].state = IF in.complete THEN "finished" ELSE "active"
              /\ runs'[r].after = runs[r].after
              /\ runs'[r].session = s
              /\ runs'[r].delivered = runs[r].delivered
              /\ \A q \in Runs \ {r} : SameRow(q)
              /\ SameSessions(s, w)
              /\ s # None /\ in.complete =>
                   /\ native'[w][s].linked
                   /\ native'[w][s].source = in.cursor
                   /\ native'[w][s].delivery = Larger(native[w][s].delivery, KnownThrough(r, l))
              /\ s # None /\ ~in.complete => native'[w][s] = native[w][s]
              /\ l \in Seq(Event) /\ Extends(log[w], l)
              /\ log' = [log EXCEPT ![w] = l]
<1> DEFINE w == runs[r].ws
           s == FinishSession(r, in)
           l == Imported(r, in)
           k == KnownThrough(r, l)
           row == [linked |-> TRUE, current |-> TRUE, source |-> in.cursor,
                   delivery |-> Larger(native[w][s].delivery, k)]
<1>1. /\ Active(r) /\ EventsMatch(r, in) /\ w \in Workstreams
      /\ s \in Sessions \cup {None} /\ l \in Seq(Event)
      /\ log' = [log EXCEPT ![w] = l]
      /\ runs'[r].state = IF in.complete THEN "finished" ELSE "active"
      /\ SameGrant(r) /\ runs'[r].after = runs[r].after
      /\ \A q \in Runs \ {r} : runs'[q] = runs[q]
      /\ k \in {Len(l), 0}
      /\ \A v \in Workstreams, x \in Sessions :
           v # w \/ ~in.complete => native'[v][x] = native[v][x]
  BY FinishFacts
<1>2. Extends(log[w], l)
  BY <1>1, ImportedFacts
<1>3. /\ native \in [Workstreams -> [Sessions -> SessionRow]] /\ runs[r] \in RunRow
      /\ runs \in [Runs -> RunRow]
      /\ in.complete \in BOOLEAN /\ in.cursor \in Cursors \cup {None}
  BY <1>1, RequestType DEF TypeOK
<1>4. /\ IF in.complete /\ s # None THEN MakeCurrent(w, s, row) ELSE UNCHANGED native
      /\ runs' = [runs EXCEPT ![r] =
                    IF in.complete
                    THEN [@ EXCEPT !.state = "finished", !.session = s, !.lease = 0]
                    ELSE [@ EXCEPT !.session = s, !.lease = LeaseTicks]]
  BY DEF FinishRun
<1>5. k \in Nat
  BY <1>1
<1> HIDE DEF w, s, l, k
<1>6. runs'[r].session = s /\ runs'[r].delivered = runs[r].delivered
  <2>1. \/ runs'[r] = [runs[r] EXCEPT !.state = "finished", !.session = s, !.lease = 0]
        \/ runs'[r] = [runs[r] EXCEPT !.session = s, !.lease = LeaseTicks]
    BY <1>3, <1>4
  <2> QED BY <1>3, <2>1 DEF RunRow
<1>7. \A q \in Runs \ {r} : SameRow(q)
  BY <1>1 DEF SameRow, SameGrant
<1>8. CASE ~(in.complete /\ s # None)
  <2>1. native' = native
    BY <1>4, <1>8
  <2> QED BY <1>1, <1>2, <1>6, <1>7, <1>8, <2>1 DEF SameSessions, w, s, l
<1>9. CASE in.complete /\ s # None
  <2>1. row \in SessionRow
    BY <1>1, <1>3, <1>5, <1>9 DEF SessionRow, Larger
  <2>2. MakeCurrent(w, s, row) /\ s \in Sessions
    BY <1>1, <1>4, <1>9
  <2>3. /\ native'[w][s] = row
        /\ \A v \in Workstreams, x \in Sessions :
             v # w \/ x # s => \/ native'[v][x] = native[v][x]
                               \/ native'[v][x] = [native[v][x] EXCEPT !.current = FALSE]
    <3> HIDE DEF row
    <3> QED BY <1>1, <2>1, <2>2, MakeCurrentType
  <2>4. SameSessions(s, w)
    <3> SUFFICES ASSUME NEW v \in Workstreams, NEW x \in Sessions, v # w \/ x # s
                 PROVE  /\ native'[v][x].linked = native[v][x].linked
                        /\ native'[v][x].source = native[v][x].source
                        /\ native'[v][x].delivery = native[v][x].delivery
      BY DEF SameSessions
    <3>1. native[v][x] \in SessionRow
      BY <1>3
    <3> QED BY <2>3, <3>1 DEF SessionRow
  <2>5. /\ native'[w][s].linked /\ native'[w][s].source = in.cursor
        /\ native'[w][s].delivery = Larger(native[w][s].delivery, k)
    BY <2>3
  <2> QED BY <1>1, <1>2, <1>6, <1>7, <1>9, <2>4, <2>5 DEF w, s, l, k
<1> QED BY <1>8, <1>9

---------------------------------------------------------------------------
(* What the steps of a launcher do to its own row and to the others. *)

Stages == Harnesses \cup {"off", "passing", "closed", "dead"}

\* The launcher of r keeps everything but its stage.
Kept(r) ==
    /\ launcher'[r].prepared = launcher[r].prepared
    /\ launcher'[r].cursor = launcher[r].cursor
    /\ launcher'[r].expected = launcher[r].expected
    /\ launcher'[r].live = launcher[r].live
    /\ launcher'[r].native = launcher[r].native
    /\ launcher'[r].from = launcher[r].from
    /\ launcher'[r].upto = launcher[r].upto

\* The processes, as opposed to the tables.
ProcessTypes ==
    /\ launcher \in [Runs -> LauncherRow]
    /\ hook \in [Runs -> HookRow]
    /\ transcript \in [Sessions -> 0..MaxRecords]
    /\ known \in [Sessions -> SUBSET (RecordIds \cup Runs)]
    /\ faults \in 0..MaxFaults

LEMMA TypesSplit == RunTypeOK <=> TypeOK /\ ProcessTypes
BY DEF RunTypeOK, ProcessTypes

LEMMA ToFacts ==
    ASSUME launcher \in [Runs -> LauncherRow], NEW r \in Runs, NEW pc \in Stages, To(r, pc)
    PROVE  /\ launcher' \in [Runs -> LauncherRow]
           /\ launcher'[r].pc = pc
           /\ Kept(r)
           /\ \A q \in Runs \ {r} : launcher'[q] = launcher[q]
<1>1. launcher' = [launcher EXCEPT ![r] = [@ EXCEPT !.pc = pc]] /\ launcher[r] \in LauncherRow
  BY DEF To
<1>2. [launcher[r] EXCEPT !.pc = pc] \in LauncherRow
  BY <1>1 DEF LauncherRow, Stages, Harnesses
<1> QED BY <1>1, <1>2 DEF Kept, LauncherRow

LEMMA FaultyType == faults \in 0..MaxFaults /\ Faulty => faults' \in 0..MaxFaults
BY FaultsAssumption DEF Faulty

\* The launchers and the hooks of the other runs stay where they are.
Alone(r) ==
    \A q \in Runs \ {r} :
        /\ SameRow(q)
        /\ launcher'[q] = launcher[q]
        /\ hook'[q] = hook[q]

LEMMA StageFrame ==
    ASSUME LaunchInv, NEW q \in Runs, SameRow(q), launcher'[q] = launcher[q],
           hook'[q] = hook[q]
    PROVE  Stage(q)'
<1>1. Stage(q)
  BY DEF LaunchInv
<1>2. runs[q].state = "free" <=> runs'[q].state = "free"
  BY DEF SameRow
<1>3. runs'[q].agent = runs[q].agent
  BY DEF SameRow, SameGrant
<1> QED BY <1>1, <1>2, <1>3 DEF Stage, StageOf, OwnSessions

LEMMA StagesFrame ==
    ASSUME LaunchInv, NEW r \in Runs, Alone(r), Stage(r)'
    PROVE  \A q \in Runs : Stage(q)'
BY StageFrame DEF Alone

\* A launcher that only moves to a stage that asks for nothing more keeps
\* its promises, whatever happens to an issued run.
LEMMA StageMoves ==
    ASSUME LaunchInv, NEW r \in Runs, Kept(r), launcher[r].pc # "off",
           runs'[r].state # "free", runs'[r].agent = runs[r].agent,
           hook'[r].pc # "idle" => launcher[r].live # None,
           LET pc == launcher[r].pc
               new == launcher'[r].pc
           IN \/ new \in {"closed", "dead", pc}
              \/ new \in {"linked", "ready"} /\ pc \in {"planned", "linked"}
              \/ new \in {"running", "exited"} /\ pc \in {"spawned", "running"}
    PROVE  Stage(r)'
<1>1. Stage(r) /\ launcher[r] \in LauncherRow
  BY LaunchTypes
<1>2. launcher'[r].pc # "off"
  BY <1>1
<1>3. OwnSessions(launcher'[r], runs'[r].agent)
  BY <1>1 DEF OwnSessions, Kept, Stage
<1>4. StageOf(launcher'[r])
  BY <1>1, <1>2 DEF StageOf, Kept, Stage
<1>5. hook'[r].pc # "idle" => launcher'[r].live # None
  BY DEF Kept
<1> QED BY <1>2, <1>3, <1>4, <1>5 DEF Stage

\* A packet holds ids of events.
LEMMA PacketIds ==
    ASSUME TypeOK, NEW w \in Workstreams, NEW m, NEW n
    PROVE  Packet(w, m, n) \subseteq RecordIds \cup Runs
<1>1. log[w] \in Seq(Event)
  BY DEF TypeOK
<1>2. \A i \in DOMAIN log[w] : log[w][i] \in Event
  BY <1>1
<1>3. \A i \in DOMAIN log[w] : log[w][i].id \in RecordIds \cup Runs
  BY <1>2 DEF Event
<1> QED BY <1>3 DEF Packet

\* The session a launcher exports, and the position it exports from.
LEMMA ExportFacts ==
    ASSUME LaunchInv, NEW r \in Runs, At(r, "exited")
    PROVE  LET s == Resolved(r)
           IN /\ s \in Sessions \cup {None}
              /\ s # None => AgentOf[s] = runs[r].agent
              /\ Position(r, s) \in 0..MaxRecords
              /\ s # None => transcript[s] \in 0..MaxRecords
              /\ (s = None) = (launcher[r].expected = None /\ transcript[launcher[r].live] = 0
                                 /\ runs[r].session = None)
<1> DEFINE l == launcher[r]
           s == Resolved(r)
<1>1. /\ l \in LauncherRow /\ StageOf(l) /\ OwnSessions(l, runs[r].agent) /\ l.pc = "exited"
      /\ transcript \in [Sessions -> 0..MaxRecords]
  BY LaunchTypes DEF Stage, At, LaunchInv, RunTypeOK
<1>2. /\ l.expected \in Sessions \cup {None} /\ l.cursor \in Cursors \cup {None}
      /\ l.live \in Sessions
      /\ l.expected # None => AgentOf[l.expected] = runs[r].agent
      /\ AgentOf[l.live] = runs[r].agent
  BY <1>1 DEF LauncherRow, StageOf, OwnSessions
<1>3. /\ runs[r].session \in Sessions \cup {None}
      /\ runs[r].session # None => AgentOf[runs[r].session] = runs[r].agent
  BY <1>1, IssuedRun
<1>4. transcript[l.live] \in Nat
  BY <1>1, <1>2, RecordFacts
<1>5. \/ l.expected # None /\ s = l.expected
      \/ l.expected = None /\ transcript[l.live] > 0 /\ s = l.live
      \/ l.expected = None /\ transcript[l.live] = 0 /\ s = runs[r].session
  BY <1>4 DEF Resolved
<1> HIDE DEF s
<1>6. Position(r, s) \in 0..MaxRecords
  BY <1>2, RecordFacts DEF Position
<1>8. s \in Sessions \cup {None} /\ (s # None => AgentOf[s] = runs[r].agent)
  BY <1>2, <1>3, <1>5
<1>9. s # None => transcript[s] \in 0..MaxRecords
  BY <1>1, <1>8
<1>10. (s = None) = (l.expected = None /\ transcript[l.live] = 0 /\ runs[r].session = None)
  BY <1>2, <1>4, <1>5, NoneAssumption
<1> QED BY <1>6, <1>8, <1>9, <1>10 DEF s

---------------------------------------------------------------------------
(* Every step is a transaction of the ledger or leaves it alone. *)

LEMMA SpawnFailsRequest ==
    ASSUME LaunchInv, NEW r \in Runs, SpawnFails(r)
    PROVE  \E in \in Request(r) :
             /\ FinishRun(r, in)
             /\ in.session = launcher[r].expected /\ in.cursor = launcher[r].cursor
             /\ in.record = None /\ in.complete
             /\ in.boundary = FinishSession(r, in)
             /\ FinishSession(r, in) = IF launcher[r].expected # None
                                       THEN launcher[r].expected ELSE runs[r].session
<1> DEFINE l == launcher[r]
           s == IF l.expected # None THEN l.expected ELSE runs[r].session
           in == [session |-> l.expected, cursor |-> l.cursor, record |-> None,
                  boundary |-> s, complete |-> TRUE]
<1>1. /\ l \in LauncherRow /\ OwnSessions(l, runs[r].agent) /\ l.pc = "ready"
  BY LaunchTypes DEF Stage, At, SpawnFails
<1>2. /\ l.expected \in Sessions \cup {None} /\ l.cursor \in Cursors \cup {None}
      /\ l.expected # None => AgentOf[l.expected] = runs[r].agent
  BY <1>1 DEF LauncherRow, OwnSessions
<1>3. s \in Sessions \cup {None}
  BY <1>1, <1>2, IssuedRun
<1>4. in \in Request(r)
  <2> HIDE DEF l, s
  <2> QED BY <1>2, <1>3, PlainRequest
<1>5. FinishSession(r, in) = s
  BY DEF FinishSession
<1>6. FinishRun(r, in)
  BY DEF SpawnFails
<1>7. /\ in.session = l.expected /\ in.cursor = l.cursor /\ in.record = None
      /\ in.complete /\ in.boundary = s
  OBVIOUS
<1> HIDE DEF in, s
<1> QED BY <1>4, <1>5, <1>6, <1>7 DEF l, s

LEMMA PassThroughRequest ==
    ASSUME LaunchInv, NEW r \in Runs, PassThrough(r)
    PROVE  \E in \in Request(r) :
             /\ FinishRun(r, in)
             /\ in.session = None /\ in.cursor = None /\ in.record = None /\ in.complete
             /\ FinishSession(r, in) = runs[r].session
<1> DEFINE in == [session |-> None, cursor |-> None, record |-> None,
                  boundary |-> runs[r].session, complete |-> TRUE]
<1>1. launcher[r].pc = "passing"
  BY DEF PassThrough, At
<1>2. runs[r].session \in Sessions \cup {None}
  BY <1>1, IssuedRun
<1>3. in \in Request(r) /\ FinishRun(r, in)
  BY <1>2, PlainRequest DEF PassThrough
<1>4. FinishSession(r, in) = runs[r].session
  BY DEF FinishSession
<1> QED BY <1>3, <1>4

LEMMA LedgerSteps == LaunchInv /\ [RunNext]_runVars => [Next]_ledgerVars
<1> SUFFICES ASSUME LaunchInv, RunNext
             PROVE  Next \/ UNCHANGED ledgerVars
  BY DEF runVars, ledgerVars
<1>1. CASE TimePasses
  BY <1>1 DEF TimePasses, Next
<1>2. ASSUME NEW s \in Sessions, WriteRecord(s) PROVE UNCHANGED ledgerVars
  BY <1>2 DEF WriteRecord
<1> SUFFICES ASSUME NEW r \in Runs,
                    \/ Prepare(r) \/ PrepareReplyLost(r)
                    \/ LinkExpected(r) \/ FetchContext(r) \/ Spawn(r) \/ SpawnFails(r)
                    \/ AcceptDirect(r) \/ RenewLease(r)
                    \/ HookLinks(r) \/ HookReads(r) \/ HookClaims(r)
                    \/ Exit(r) \/ Export(r) \/ SendBatch(r) \/ BatchReplyLost(r)
                    \/ BatchAlreadyDone(r) \/ PassThrough(r) \/ GiveUp(r) \/ Crash(r)
             PROVE  Next \/ UNCHANGED ledgerVars
  BY <1>1, <1>2 DEF RunNext
<1>3. CASE Prepare(r) \/ PrepareReplyLost(r)
  <2>1. \E w \in Workstreams, a \in Agents : PrepareRun(r, w, a)
    BY <1>3 DEF Prepare, PrepareReplyLost
  <2> QED BY <2>1 DEF Next
<1>4. CASE LinkExpected(r) \/ HookLinks(r)
  <2>1. PICK s : LinkNativeSession(r, s) /\ s \in {launcher[r].expected, launcher[r].live}
                 /\ s # None
    BY <1>4, LaunchTypes DEF LinkExpected, HookLinks, Stage, StageOf, At
  <2>2. s \in Sessions
    BY <2>1, LaunchTypes DEF LauncherRow
  <2> QED BY <2>1, <2>2 DEF Next
<1>5. CASE AcceptDirect(r)
  <2>1. AcceptContext(r, FALSE) \/ UNCHANGED ledgerVars
    BY <1>5 DEF AcceptDirect
  <2>2. FALSE \in BOOLEAN
    OBVIOUS
  <2> QED BY <2>1, <2>2 DEF Next
<1>6. CASE HookClaims(r)
  <2>1. AcceptContext(r, TRUE) \/ UNCHANGED ledgerVars
    BY <1>6 DEF HookClaims
  <2>2. TRUE \in BOOLEAN
    OBVIOUS
  <2> QED BY <2>1, <2>2 DEF Next
<1>7. CASE RenewLease(r)
  BY <1>7 DEF RenewLease, Next
<1>8. CASE GiveUp(r)
  <2>1. CancelRun(r) \/ UNCHANGED ledgerVars
    BY <1>8 DEF GiveUp
  <2> QED BY <2>1 DEF Next
<1>9. CASE SpawnFails(r) \/ PassThrough(r) \/ SendBatch(r) \/ BatchReplyLost(r)
  <2>1. \E in \in Request(r) : FinishRun(r, in)
    BY <1>9, SpawnFailsRequest, PassThroughRequest, BatchRequest DEF SendBatch, BatchReplyLost
  <2> QED BY <2>1 DEF Next
<1>10. CASE \/ FetchContext(r) \/ Spawn(r) \/ HookReads(r) \/ Exit(r) \/ Export(r)
            \/ BatchAlreadyDone(r) \/ Crash(r)
  BY <1>10 DEF FetchContext, Spawn, HookReads, Exit, Export, BatchAlreadyDone, Crash
<1> QED BY <1>3, <1>4, <1>5, <1>6, <1>7, <1>8, <1>9, <1>10

---------------------------------------------------------------------------
(* The steps that change more of a launcher than its stage. *)

LEMMA PlansFacts ==
    ASSUME NEW w \in Workstreams, NEW a \in Agents, NEW p \in Sessions \cup {None},
           NEW e \in Plans(w, a, p)
    PROVE  /\ e \in Sessions \cup {None}
           /\ e # None => AgentOf[e] = a
           /\ a \in Pinned => e # None
           /\ a \notin Pinned \cup Selectors /\ p # None => e \in {p, None}
BY NoneAssumption DEF Plans, Started

LEMMA PrepareEffect ==
    ASSUME LaunchInv, NEW r \in Runs, Prepare(r)
    PROVE  \E w \in Workstreams, a \in Agents :
             LET p == GrantedRow(w, a).session
                 l == launcher'[r]
             IN /\ PrepareRun(r, w, a) /\ launcher[r].pc = "off"
                /\ l \in LauncherRow
                /\ launcher' = [launcher EXCEPT ![r] = l]
                /\ l.prepared = p
                /\ l.cursor = IF p = None THEN None ELSE native[w][p].source
                /\ l.live = None /\ l.native = None /\ l.from = 0 /\ l.upto = 0
                /\ \/ l.pc = "passing" /\ l.expected = None
                   \/ /\ l.expected \in Plans(w, a, p)
                      /\ IF l.expected # None THEN l.pc = "planned"
                         ELSE l.pc \in {"linked", "ready"}
                /\ UNCHANGED <<hook, transcript, known, faults>>
<1>1. PICK w \in Workstreams, a \in Agents :
        LET p == GrantedRow(w, a).session
            row == [NoLauncher EXCEPT !.prepared = p,
                       !.cursor = IF p = None THEN None ELSE native[w][p].source]
        IN /\ At(r, "off")
           /\ PrepareRun(r, w, a)
           /\ \/ \E e \in Plans(w, a, p) :
                    launcher' = [launcher EXCEPT ![r] =
                       [row EXCEPT !.expected = e,
                                   !.pc = IF e # None THEN "planned"
                                          ELSE IF a \in Direct THEN "linked" ELSE "ready"]]
              \/ launcher' = [launcher EXCEPT ![r] = [row EXCEPT !.pc = "passing"]]
           /\ UNCHANGED <<hook, transcript, known, faults>>
  BY DEF Prepare
<1> DEFINE p == GrantedRow(w, a).session
           c == IF p = None THEN None ELSE native[w][p].source
           l == launcher'[r]
<1>2. /\ launcher \in [Runs -> LauncherRow]
      /\ p \in Sessions \cup {None}
  BY LaunchTypes, GrantedRowType DEF RunRow
<1>3. c \in Cursors \cup {None}
  BY <1>2, LaunchTypes DEF TypeOK, SessionRow
<1> HIDE DEF p, c
<1> DEFINE base == [NoLauncher EXCEPT !.prepared = p, !.cursor = c]
           row(e, pc) == [base EXCEPT !.expected = e, !.pc = pc]
<1>4. /\ base \in LauncherRow /\ base.pc = "off" /\ base.prepared = p /\ base.cursor = c
      /\ base.expected = None /\ base.live = None /\ base.native = None
      /\ base.from = 0 /\ base.upto = 0
  <2>1. NoLauncher \in LauncherRow
    BY DEF NoLauncher, LauncherRow
  <2>2. /\ NoLauncher.pc = "off" /\ NoLauncher.expected = None /\ NoLauncher.live = None
        /\ NoLauncher.native = None /\ NoLauncher.from = 0 /\ NoLauncher.upto = 0
    BY DEF NoLauncher
  <2> QED BY <1>2, <1>3, <2>1, <2>2 DEF LauncherRow
<1>5. \/ launcher' = [launcher EXCEPT ![r] = [base EXCEPT !.pc = "passing"]]
      \/ \E e \in Plans(w, a, p) :
           launcher' = [launcher EXCEPT ![r] =
              row(e, IF e # None THEN "planned" ELSE IF a \in Direct THEN "linked" ELSE "ready")]
  BY <1>1 DEF p, c
<1> HIDE DEF base
<1>6. CASE launcher' = [launcher EXCEPT ![r] = [base EXCEPT !.pc = "passing"]]
  <2> DEFINE m == [base EXCEPT !.pc = "passing"]
  <2>1. /\ m \in LauncherRow /\ m.pc = "passing" /\ m.expected = None
        /\ m.prepared = p /\ m.cursor = c
        /\ m.live = None /\ m.native = None /\ m.from = 0 /\ m.upto = 0
    BY <1>4 DEF LauncherRow
  <2>2. l = m
    BY <1>2, <1>6
  <2> HIDE DEF m
  <2>3. launcher' = [launcher EXCEPT ![r] = l]
    BY <1>6, <2>2 DEF m
  <2> QED BY <1>1, <2>1, <2>2, <2>3 DEF p, c, At
<1>7. ASSUME NEW e \in Plans(w, a, p), NEW pc \in Stages,
             pc = IF e # None THEN "planned" ELSE IF a \in Direct THEN "linked" ELSE "ready",
             launcher' = [launcher EXCEPT ![r] = row(e, pc)]
      PROVE  /\ launcher' = [launcher EXCEPT ![r] = l] /\ l \in LauncherRow
             /\ l.pc = pc /\ l.expected = e /\ l.prepared = p /\ l.cursor = c
             /\ l.live = None /\ l.native = None /\ l.from = 0 /\ l.upto = 0
  <2> DEFINE m == row(e, pc)
  <2>1. /\ m \in LauncherRow /\ m.pc = pc /\ m.expected = e
        /\ m.prepared = p /\ m.cursor = c
        /\ m.live = None /\ m.native = None /\ m.from = 0 /\ m.upto = 0
    <3>1. e \in Sessions \cup {None}
      BY <1>2, PlansFacts
    <3> QED BY <1>4, <3>1 DEF LauncherRow, Stages, Harnesses
  <2>2. l = m
    BY <1>2, <1>7
  <2> HIDE DEF m
  <2>3. launcher' = [launcher EXCEPT ![r] = l]
    BY <1>7, <2>2 DEF m
  <2> QED BY <2>1, <2>2, <2>3
<1>8. CASE ~(launcher' = [launcher EXCEPT ![r] = [base EXCEPT !.pc = "passing"]])
  <2>1. PICK e \in Plans(w, a, p) :
           launcher' = [launcher EXCEPT ![r] =
              row(e, IF e # None THEN "planned" ELSE IF a \in Direct THEN "linked" ELSE "ready")]
    BY <1>5, <1>8
  <2> DEFINE pc == IF e # None THEN "planned" ELSE IF a \in Direct THEN "linked" ELSE "ready"
  <2>2. pc \in Stages
    BY DEF Stages, Harnesses
  <2>3. /\ launcher' = [launcher EXCEPT ![r] = l] /\ l \in LauncherRow
        /\ l.pc = pc /\ l.expected = e /\ l.prepared = p /\ l.cursor = c
        /\ l.live = None /\ l.native = None /\ l.from = 0 /\ l.upto = 0
    <3> HIDE DEF row, l
    <3> QED BY <1>7, <2>1, <2>2
  <2> HIDE DEF row, l
  <2>4. /\ l.expected \in Plans(w, a, p)
        /\ IF l.expected # None THEN l.pc = "planned" ELSE l.pc \in {"linked", "ready"}
    BY <2>3
  <2> HIDE DEF pc
  <2> QED BY <1>1, <2>3, <2>4 DEF p, c, l, At
<1> QED BY <1>6, <1>8

LEMMA SpawnEffect ==
    ASSUME LaunchInv, NEW r \in Runs, Spawn(r)
    PROVE  LET l == launcher[r]
               m == launcher'[r]
           IN /\ l.pc = "ready" /\ m \in LauncherRow
              /\ launcher' = [launcher EXCEPT ![r] = m]
              /\ m.live \in Sessions /\ AgentOf[m.live] = runs[r].agent
              /\ l.expected # None => m.live = l.expected
              /\ m.from = 0 /\ m.upto = 0
              /\ m.pc = IF runs[r].agent \in Direct THEN "spawned" ELSE "running"
              /\ m.prepared = l.prepared /\ m.cursor = l.cursor
              /\ m.expected = l.expected /\ m.native = l.native
              /\ known' = [known EXCEPT ![m.live] =
                             @ \cup Packet(runs[r].ws, l.from, l.upto)]
              /\ UNCHANGED <<ledgerVars, hook, transcript, faults>>
<1> DEFINE l == launcher[r]
           m == launcher'[r]
<1>1. /\ launcher \in [Runs -> LauncherRow] /\ l \in LauncherRow
      /\ l.pc = "ready"
      /\ UNCHANGED <<ledgerVars, hook, transcript, faults>>
  BY LaunchTypes DEF Spawn, At
<1>2. PICK s \in Sessions :
        /\ AgentOf[s] = runs[r].agent
        /\ l.expected # None => s = l.expected
        /\ launcher' = [launcher EXCEPT ![r] =
              [@ EXCEPT !.live = s, !.from = 0, !.upto = 0,
                        !.pc = IF runs[r].agent \in Direct THEN "spawned" ELSE "running"]]
        /\ known' = [known EXCEPT ![s] = @ \cup Packet(runs[r].ws, l.from, l.upto)]
  BY DEF Spawn
<1>3. PICK pc \in {"spawned", "running"} :
        pc = IF runs[r].agent \in Direct THEN "spawned" ELSE "running"
  OBVIOUS
<1>4. launcher' = [launcher EXCEPT ![r] =
                     [l EXCEPT !.live = s, !.from = 0, !.upto = 0, !.pc = pc]]
  BY <1>2, <1>3
<1> DEFINE row == [l EXCEPT !.live = s, !.from = 0, !.upto = 0, !.pc = pc]
<1>5. /\ row \in LauncherRow
      /\ row.live = s /\ row.from = 0 /\ row.upto = 0 /\ row.pc = pc
      /\ row.prepared = l.prepared /\ row.cursor = l.cursor
      /\ row.expected = l.expected /\ row.native = l.native
  <2> HIDE DEF l
  <2> QED BY <1>1 DEF LauncherRow
<1>6. m = row
  BY <1>1, <1>4
<1> HIDE DEF row
<1>7. launcher' = [launcher EXCEPT ![r] = m]
  BY <1>4, <1>6 DEF row
<1> QED BY <1>1, <1>2, <1>3, <1>5, <1>6, <1>7

LEMMA FetchEffect ==
    ASSUME LaunchInv, NEW r \in Runs, FetchContext(r)
    PROVE  LET l == launcher[r]
               m == launcher'[r]
           IN /\ l.pc = "linked" /\ Active(r) /\ m \in LauncherRow
              /\ launcher' = [launcher EXCEPT ![r] = m]
              /\ m.pc = "ready" /\ m.from = runs[r].after /\ m.upto = runs[r].through
              /\ m.prepared = l.prepared /\ m.cursor = l.cursor /\ m.live = l.live
              /\ m.expected = l.expected /\ m.native = l.native
              /\ UNCHANGED <<ledgerVars, hook, transcript, known, faults>>
<1> DEFINE l == launcher[r]
           m == launcher'[r]
           row == [l EXCEPT !.pc = "ready", !.from = runs[r].after, !.upto = runs[r].through]
<1>1. /\ launcher \in [Runs -> LauncherRow] /\ l \in LauncherRow
      /\ l.pc = "linked" /\ Active(r)
      /\ launcher' = [launcher EXCEPT ![r] = row]
      /\ UNCHANGED <<ledgerVars, hook, transcript, known, faults>>
  BY LaunchTypes DEF FetchContext, At
<1>2. runs[r].after \in Nat /\ runs[r].through \in Nat
  BY <1>1, IssuedRun
<1>3. /\ row \in LauncherRow /\ row.pc = "ready"
      /\ row.from = runs[r].after /\ row.upto = runs[r].through
      /\ row.prepared = l.prepared /\ row.cursor = l.cursor /\ row.live = l.live
      /\ row.expected = l.expected /\ row.native = l.native
  <2> HIDE DEF l
  <2> QED BY <1>1, <1>2 DEF LauncherRow
<1>4. m = row /\ launcher' = [launcher EXCEPT ![r] = m]
  BY <1>1
<1> HIDE DEF row
<1> QED BY <1>1, <1>3, <1>4

LEMMA ExportEffect ==
    ASSUME LaunchInv, NEW r \in Runs, Export(r)
    PROVE  LET l == launcher[r]
               m == launcher'[r]
               s == Resolved(r)
               end == Larger(Position(r, s), transcript[s])
           IN /\ l.pc = "exited" /\ m \in LauncherRow
              /\ launcher' = [launcher EXCEPT ![r] = m]
              /\ m.pc = "importing" /\ m.native = s
              /\ m.prepared = l.prepared /\ m.live = l.live /\ m.expected = l.expected
              /\ \/ /\ s # None /\ end \in 0..MaxRecords /\ Position(r, s) <= end
                    /\ m.from = Position(r, s) /\ m.upto = end /\ m.cursor = <<s, end>>
                    /\ UNCHANGED faults
                 \/ /\ m.from = l.from /\ m.upto = l.upto
                    /\ m.cursor = IF s = l.prepared THEN l.cursor ELSE None
                    /\ Faulty \/ UNCHANGED faults
              /\ UNCHANGED <<ledgerVars, hook, transcript, known>>
<1> DEFINE l == launcher[r]
           m == launcher'[r]
           s == Resolved(r)
           start == Position(r, s)
           end == Larger(start, transcript[s])
           kept == IF s = l.prepared THEN l.cursor ELSE None
           full == [l EXCEPT !.pc = "importing", !.native = s, !.from = start,
                             !.upto = end, !.cursor = <<s, end>>]
           bare == [l EXCEPT !.pc = "importing", !.native = s, !.cursor = kept]
<1>1. /\ launcher \in [Runs -> LauncherRow] /\ l \in LauncherRow
      /\ l.pc = "exited"
      /\ UNCHANGED <<ledgerVars, hook, transcript, known>>
  BY LaunchTypes DEF Export, At
<1>2. /\ s \in Sessions \cup {None} /\ start \in 0..MaxRecords
      /\ s # None => transcript[s] \in 0..MaxRecords
  BY <1>1, ExportFacts DEF At
<1>3. \/ /\ s # None /\ launcher' = [launcher EXCEPT ![r] = full] /\ UNCHANGED faults
      \/ launcher' = [launcher EXCEPT ![r] = bare] /\ (Faulty \/ UNCHANGED faults)
  <2> DEFINE held == IF s = None THEN 0 ELSE transcript[s]
             some == [l EXCEPT !.pc = "importing", !.native = s, !.from = start,
                               !.upto = Larger(start, held),
                               !.cursor = <<s, Larger(start, held)>>]
  <2>1. \/ held > 0 /\ launcher' = [launcher EXCEPT ![r] = some] /\ UNCHANGED faults
        \/ launcher' = [launcher EXCEPT ![r] = bare] /\ (Faulty \/ UNCHANGED faults)
    BY DEF Export, NewCursor
  <2>2. held > 0 => s # None /\ held = transcript[s]
    OBVIOUS
  <2>3. held > 0 => some = full
    BY <2>2
  <2> HIDE DEF held, some, full, bare
  <2> QED BY <2>1, <2>2, <2>3
<1> HIDE DEF start, s, l
<1>4. s # None => end \in 0..MaxRecords /\ start <= end /\ <<s, end>> \in Cursors
                  /\ start \in Nat /\ end \in Nat
  BY <1>2, RecordFacts DEF Larger
<1>5. kept \in Cursors \cup {None}
  BY <1>1 DEF LauncherRow
<1> HIDE DEF end, kept
<1>6. /\ bare \in LauncherRow /\ bare.pc = "importing" /\ bare.native = s
      /\ bare.prepared = l.prepared /\ bare.live = l.live /\ bare.expected = l.expected
      /\ bare.from = l.from /\ bare.upto = l.upto /\ bare.cursor = kept
  BY <1>1, <1>2, <1>5 DEF LauncherRow
<1>7. s # None =>
      /\ full \in LauncherRow /\ full.pc = "importing" /\ full.native = s
      /\ full.prepared = l.prepared /\ full.live = l.live /\ full.expected = l.expected
      /\ full.from = start /\ full.upto = end /\ full.cursor = <<s, end>>
  BY <1>1, <1>2, <1>4 DEF LauncherRow
<1> HIDE DEF full, bare
<1>8. \/ s # None /\ m = full /\ UNCHANGED faults /\ launcher' = [launcher EXCEPT ![r] = m]
      \/ m = bare /\ (Faulty \/ UNCHANGED faults) /\ launcher' = [launcher EXCEPT ![r] = m]
  BY <1>1, <1>3
<1> HIDE DEF m
<1>9. CASE s # None /\ m = full /\ UNCHANGED faults /\ launcher' = [launcher EXCEPT ![r] = m]
  BY <1>1, <1>4, <1>7, <1>9 DEF m, l, s, start, end
<1>10. CASE m = bare /\ (Faulty \/ UNCHANGED faults) /\ launcher' = [launcher EXCEPT ![r] = m]
  BY <1>1, <1>6, <1>10 DEF m, l, s, start, kept
<1> QED BY <1>8, <1>9, <1>10

LEMMA SendEffect ==
    ASSUME LaunchInv, NEW r \in Runs, SendBatch(r)
    PROVE  LET l == launcher[r]
               m == launcher'[r]
           IN /\ l.pc = "importing" /\ m \in LauncherRow
              /\ launcher' = [launcher EXCEPT ![r] = m]
              /\ m.pc = IF l.upto <= l.from + 1 THEN "closed" ELSE "importing"
              /\ m.from = IF l.upto <= l.from + 1 THEN l.from ELSE l.from + 1
              /\ m.prepared = l.prepared /\ m.cursor = l.cursor /\ m.live = l.live
              /\ m.expected = l.expected /\ m.native = l.native /\ m.upto = l.upto
<1> DEFINE l == launcher[r]
           m == launcher'[r]
           done == [l EXCEPT !.pc = "closed"]
           more == [l EXCEPT !.from = l.from + 1]
<1>1. /\ launcher \in [Runs -> LauncherRow] /\ l \in LauncherRow
      /\ l.pc = "importing" /\ At(r, "importing")
  BY LaunchTypes DEF SendBatch, At
<1>2. launcher' = [launcher EXCEPT ![r] = IF Batch(r).complete THEN done ELSE more]
  BY DEF SendBatch
<1>3. Batch(r).complete = (l.upto <= l.from + 1)
  BY <1>1, BatchRequest
<1> HIDE DEF l
<1>4. /\ done \in LauncherRow /\ done.pc = "closed" /\ done.from = l.from
      /\ done.prepared = l.prepared /\ done.cursor = l.cursor /\ done.live = l.live
      /\ done.expected = l.expected /\ done.native = l.native /\ done.upto = l.upto
  BY <1>1 DEF LauncherRow
<1>5. /\ more \in LauncherRow /\ more.pc = "importing" /\ more.from = l.from + 1
      /\ more.prepared = l.prepared /\ more.cursor = l.cursor /\ more.live = l.live
      /\ more.expected = l.expected /\ more.native = l.native /\ more.upto = l.upto
  BY <1>1 DEF LauncherRow
<1> HIDE DEF done, more
<1>6. CASE l.upto <= l.from + 1
  <2>1. launcher' = [launcher EXCEPT ![r] = done]
    BY <1>2, <1>3, <1>6
  <2>2. m = done /\ launcher' = [launcher EXCEPT ![r] = m]
    BY <1>1, <2>1
  <2> QED BY <1>1, <1>4, <1>6, <2>2 DEF l
<1>7. CASE ~(l.upto <= l.from + 1)
  <2>1. launcher' = [launcher EXCEPT ![r] = more]
    BY <1>2, <1>3, <1>7
  <2>2. m = more /\ launcher' = [launcher EXCEPT ![r] = m]
    BY <1>1, <2>1
  <2> QED BY <1>1, <1>5, <1>7, <2>2 DEF l
<1> QED BY <1>6, <1>7

LEMMA HookEffects ==
    ASSUME LaunchInv, NEW r \in Runs, HookLinks(r) \/ HookReads(r) \/ HookClaims(r)
    PROVE  /\ hook' \in [Runs -> HookRow]
           /\ \A q \in Runs \ {r} : hook'[q] = hook[q]
           /\ HookLinks(r) => hook'[r].pc = "linked"
           /\ HookReads(r) => \/ hook'[r].pc = "idle"
                              \/ /\ hook'[r].pc = "read" /\ Active(r) /\ ~runs[r].delivered
                                 /\ hook'[r].after = runs[r].after
                                 /\ hook'[r].through = runs[r].through
           /\ HookClaims(r) => hook'[r].pc = "idle"
<1>1. hook \in [Runs -> HookRow] /\ hook[r] \in HookRow
  BY LaunchTypes
<1>2. CASE HookLinks(r)
  <2>1. hook' = [hook EXCEPT ![r] = [hook[r] EXCEPT !.pc = "linked"]] /\ hook[r].pc = "idle"
    BY <1>2 DEF HookLinks
  <2>2. [hook[r] EXCEPT !.pc = "linked"] \in HookRow
        /\ [hook[r] EXCEPT !.pc = "linked"].pc = "linked"
    BY <1>1 DEF HookRow
  <2> QED BY <1>1, <2>1, <2>2 DEF HookReads, HookClaims
<1>3. CASE HookReads(r)
  <2>1. hook[r].pc = "linked"
    BY <1>3 DEF HookReads
  <2>2. NoHook \in HookRow /\ NoHook.pc = "idle"
    BY DEF HookRow, NoHook
  <2>3. CASE ~(Active(r) /\ ~runs[r].delivered)
    <3>1. hook' = [hook EXCEPT ![r] = NoHook]
      BY <1>3, <2>3 DEF HookReads
    <3> QED BY <1>1, <2>1, <2>2, <3>1 DEF HookLinks, HookClaims
  <2>4. CASE Active(r) /\ ~runs[r].delivered
    <3> DEFINE h == [pc |-> "read", after |-> runs[r].after, through |-> runs[r].through]
    <3>1. hook' = [hook EXCEPT ![r] = h]
      BY <1>3, <2>4 DEF HookReads
    <3>2. runs[r].after \in Nat /\ runs[r].through \in Nat
      BY LaunchTypes DEF RunRow
    <3>3. /\ h \in HookRow /\ h.pc = "read" /\ h.after = runs[r].after
          /\ h.through = runs[r].through
      BY <3>2 DEF HookRow
    <3> HIDE DEF h
    <3> QED BY <1>1, <2>1, <2>4, <3>1, <3>3 DEF HookLinks, HookClaims
  <2> QED BY <2>3, <2>4
<1>4. CASE HookClaims(r)
  <2>1. hook' = [hook EXCEPT ![r] = NoHook] /\ hook[r].pc = "read"
    BY <1>4 DEF HookClaims
  <2>2. NoHook \in HookRow /\ NoHook.pc = "idle"
    BY DEF HookRow, NoHook
  <2> QED BY <1>1, <2>1, <2>2 DEF HookLinks, HookReads
<1> QED BY <1>2, <1>3, <1>4

---------------------------------------------------------------------------
(* LaunchInv is inductive. *)

\* The part of the invariant that is not about the tables.
Processes == ProcessTypes /\ \A q \in Runs : Stage(q)

LEMMA GrantSteps ==
    ASSUME LaunchInv, NEW r \in Runs, Prepare(r) \/ PrepareReplyLost(r)
    PROVE  Processes'
<1>1. /\ launcher \in [Runs -> LauncherRow] /\ launcher[r] \in LauncherRow
      /\ Stage(r) /\ ProcessTypes /\ TypeOK
  BY LaunchTypes, TypesSplit DEF LaunchInv
<1>2. CASE Prepare(r)
  <2> DEFINE l == launcher'[r]
  <2>1. PICK w \in Workstreams, a \in Agents :
          LET p == GrantedRow(w, a).session
          IN /\ PrepareRun(r, w, a) /\ launcher[r].pc = "off"
             /\ l \in LauncherRow
             /\ launcher' = [launcher EXCEPT ![r] = l]
             /\ l.prepared = p
             /\ l.live = None /\ l.native = None /\ l.from = 0 /\ l.upto = 0
             /\ \/ l.pc = "passing" /\ l.expected = None
                \/ /\ l.expected \in Plans(w, a, p)
                   /\ IF l.expected # None THEN l.pc = "planned"
                      ELSE l.pc \in {"linked", "ready"}
             /\ UNCHANGED <<hook, transcript, known, faults>>
    BY <1>2, PrepareEffect
  <2>2. /\ runs'[r] = GrantedRow(w, a)
        /\ \A q \in Runs \ {r} : SameRow(q)
    BY <1>1, <2>1, GrantRows
  <2>3. /\ runs'[r].state = "active" /\ runs'[r].agent = a
        /\ GrantedRow(w, a).session \in Sessions \cup {None}
        /\ GrantedRow(w, a).session # None => AgentOf[GrantedRow(w, a).session] = a
    BY <1>1, <2>2, GrantedRowType DEF RunRow
  <2>4. l.expected # None => AgentOf[l.expected] = a
    BY <2>1, <2>3, PlansFacts
  <2>5. OwnSessions(l, runs'[r].agent)
    BY <2>1, <2>3, <2>4 DEF OwnSessions
  <2>6. launcher[r].live = None
    BY <1>1, <2>1 DEF Stage, StageOf
  <2>7. hook'[r].pc = "idle"
    BY <1>1, <2>1, <2>6 DEF Stage, ProcessTypes
  <2>8. l.pc \in {"passing", "planned", "linked", "ready"} /\ (l.pc = "planned" => l.expected # None)
    BY <2>1
  <2>9. StageOf(l)
    BY <2>1, <2>8 DEF StageOf
  <2>10. Stage(r)'
    BY <2>3, <2>5, <2>7, <2>8, <2>9 DEF Stage
  <2>11. Alone(r)
    BY <1>1, <2>1, <2>2 DEF Alone
  <2>12. \A q \in Runs : Stage(q)'
    BY <2>10, <2>11, StagesFrame
  <2>13. launcher' \in [Runs -> LauncherRow]
    BY <1>1, <2>1
  <2> QED BY <1>1, <2>1, <2>12, <2>13 DEF Processes, ProcessTypes
<1>3. CASE PrepareReplyLost(r)
  <2>1. PICK w \in Workstreams, a \in Agents : PrepareRun(r, w, a)
    BY <1>3 DEF PrepareReplyLost
  <2>2. /\ runs'[r] = GrantedRow(w, a)
        /\ \A q \in Runs \ {r} : SameRow(q)
    BY <1>1, <2>1, GrantRows
  <2>3. runs'[r].state = "active"
    BY <1>1, <2>2, GrantedRowType
  <2>4. /\ At(r, "off") /\ To(r, "dead") /\ Faulty
        /\ UNCHANGED <<hook, transcript, known>>
    BY <1>3 DEF PrepareReplyLost
  <2>5. "dead" \in Stages
    BY DEF Stages
  <2>6. /\ launcher' \in [Runs -> LauncherRow] /\ launcher'[r].pc = "dead" /\ Kept(r)
        /\ \A q \in Runs \ {r} : launcher'[q] = launcher[q]
    BY <1>1, <2>4, <2>5, ToFacts
  <2>7. launcher[r] = NoLauncher
    BY <1>1, <2>4 DEF Stage, StageOf, At
  <2>8. /\ launcher'[r].prepared = None /\ launcher'[r].expected = None
        /\ launcher'[r].live = None /\ launcher'[r].native = None
        /\ hook[r].pc = "idle"
    BY <1>1, <2>6, <2>7 DEF Kept, NoLauncher, Stage
  <2>9. Stage(r)'
    BY <2>3, <2>4, <2>6, <2>8 DEF Stage, StageOf, OwnSessions
  <2>10. Alone(r)
    BY <2>2, <2>4, <2>6 DEF Alone
  <2>11. \A q \in Runs : Stage(q)'
    BY <2>9, <2>10, StagesFrame
  <2>12. faults' \in 0..MaxFaults
    BY <1>1, <2>4, FaultyType DEF ProcessTypes
  <2> QED BY <1>1, <2>4, <2>6, <2>11, <2>12 DEF Processes, ProcessTypes
<1> QED BY <1>2, <1>3

\* The steps in which a launcher only moves to another stage.
LEMMA MoveSteps ==
    ASSUME LaunchInv, NEW r \in Runs, NEW pc \in Stages, To(r, pc), launcher[r].pc # "off",
           \/ pc \in {"closed", "dead"}
           \/ pc \in {"linked", "ready"} /\ launcher[r].pc \in {"planned", "linked"}
           \/ pc \in {"running", "exited"} /\ launcher[r].pc \in {"spawned", "running"},
           runs'[r].state # "free", SameGrant(r), \A q \in Runs \ {r} : SameRow(q),
           UNCHANGED <<hook, transcript, known>>, Faulty \/ UNCHANGED faults
    PROVE  Processes'
<1>1. /\ launcher \in [Runs -> LauncherRow] /\ Stage(r) /\ ProcessTypes
  BY LaunchTypes, TypesSplit DEF LaunchInv
<1>2. /\ launcher' \in [Runs -> LauncherRow]
      /\ launcher'[r].pc = pc
      /\ Kept(r)
      /\ \A q \in Runs \ {r} : launcher'[q] = launcher[q]
  BY <1>1, ToFacts
<1>3. runs'[r].agent = runs[r].agent
  BY DEF SameGrant
<1>4. hook'[r].pc # "idle" => launcher[r].live # None
  BY <1>1 DEF Stage
<1>5. Stage(r)'
  BY <1>2, <1>3, <1>4, StageMoves
<1>6. Alone(r)
  BY <1>2 DEF Alone
<1>7. \A q \in Runs : Stage(q)'
  BY <1>5, <1>6, StagesFrame
<1>8. faults' \in 0..MaxFaults
  BY <1>1, FaultyType DEF ProcessTypes
<1> QED BY <1>1, <1>2, <1>7, <1>8 DEF Processes, ProcessTypes

\* Rows of issued runs never become free again.
LEMMA IssuedStays ==
    ASSUME NEW r \in Runs, SameRow(r), runs[r].state # "free"
    PROVE  runs'[r].state # "free" /\ SameGrant(r)
BY DEF SameRow

LEMMA FinishKeepsIssued ==
    ASSUME TypeOK, NEW r \in Runs, NEW in \in Request(r), FinishRun(r, in)
    PROVE  /\ runs'[r].state # "free" /\ SameGrant(r)
           /\ \A q \in Runs \ {r} : SameRow(q)
BY FinishRows

\* A step that leaves the launchers alone, except perhaps for one hook.
LEMMA HookStage ==
    ASSUME LaunchInv, NEW r \in Runs, UNCHANGED launcher, launcher[r].pc # "off",
           runs'[r].state # "free", SameGrant(r),
           \A q \in Runs \ {r} : SameRow(q) /\ hook'[q] = hook[q],
           hook'[r].pc # "idle" => launcher[r].live # None
    PROVE  \A q \in Runs : Stage(q)'
<1>1. Kept(r) /\ launcher'[r].pc = launcher[r].pc
  BY DEF Kept
<1>2. runs'[r].agent = runs[r].agent
  BY DEF SameGrant
<1>3. Stage(r)'
  BY <1>1, <1>2, StageMoves
<1> QED BY <1>3, StagesFrame DEF Alone

LEMMA FinishSteps ==
    ASSUME LaunchInv, NEW r \in Runs,
           SpawnFails(r) \/ PassThrough(r) \/ SendBatch(r) \/ BatchReplyLost(r)
    PROVE  Processes'
<1>1. /\ TypeOK /\ ProcessTypes /\ Stage(r) /\ launcher[r] \in LauncherRow
  BY LaunchTypes, TypesSplit DEF LaunchInv
<1>2. PICK in \in Request(r) : FinishRun(r, in)
  BY SpawnFailsRequest, PassThroughRequest, BatchRequest DEF SendBatch, BatchReplyLost
<1>3. /\ runs'[r].state # "free" /\ SameGrant(r)
      /\ \A q \in Runs \ {r} : SameRow(q)
  BY <1>1, <1>2, FinishKeepsIssued
<1>4. "closed" \in Stages /\ "dead" \in Stages
  BY DEF Stages
<1>5. CASE SpawnFails(r)
  <2>1. /\ To(r, "dead") /\ launcher[r].pc = "ready" /\ Faulty
        /\ UNCHANGED <<hook, transcript, known>>
    BY <1>5 DEF SpawnFails, At
  <2> QED BY <1>3, <1>4, <2>1, MoveSteps
<1>6. CASE PassThrough(r)
  <2>1. /\ To(r, "closed") /\ launcher[r].pc = "passing"
        /\ UNCHANGED <<hook, transcript, known, faults>>
    BY <1>6 DEF PassThrough, At
  <2> QED BY <1>3, <1>4, <2>1, MoveSteps
<1>7. CASE SendBatch(r)
  <2> DEFINE l == launcher[r]
             m == launcher'[r]
  <2>1. /\ l.pc = "importing" /\ m \in LauncherRow
        /\ launcher' = [launcher EXCEPT ![r] = m]
        /\ m.pc = IF l.upto <= l.from + 1 THEN "closed" ELSE "importing"
        /\ m.from = IF l.upto <= l.from + 1 THEN l.from ELSE l.from + 1
        /\ m.prepared = l.prepared /\ m.cursor = l.cursor /\ m.live = l.live
        /\ m.expected = l.expected /\ m.native = l.native /\ m.upto = l.upto
    BY <1>7, SendEffect
  <2>2. UNCHANGED <<hook, transcript, known, faults>>
    BY <1>7 DEF SendBatch
  <2>3. /\ l.from \in Nat /\ l.upto \in Nat /\ l.live # None
        /\ l.from <= l.upto /\ l.upto <= MaxRecords /\ (l.native = None => l.upto = 0)
    BY <1>1, <2>1 DEF Stage, StageOf, LauncherRow
  <2>4. m.from <= m.upto /\ m.pc \in {"closed", "importing"}
    BY <2>1, <2>3
  <2>5. StageOf(m)
    BY <2>1, <2>3, <2>4 DEF StageOf
  <2>6. OwnSessions(m, runs'[r].agent)
    BY <1>1, <1>3, <2>1 DEF OwnSessions, Stage, SameGrant
  <2>7. Stage(r)'
    BY <1>3, <2>1, <2>3, <2>4, <2>5, <2>6 DEF Stage
  <2>8. Alone(r)
    BY <1>1, <1>3, <2>1, <2>2 DEF Alone, ProcessTypes
  <2>9. \A q \in Runs : Stage(q)'
    BY <2>7, <2>8, StagesFrame
  <2> QED BY <1>1, <2>1, <2>2, <2>9 DEF Processes, ProcessTypes
<1>8. CASE BatchReplyLost(r)
  <2>1. /\ launcher[r].pc = "importing" /\ Faulty
        /\ UNCHANGED <<launcher, hook, transcript, known>>
    BY <1>8 DEF BatchReplyLost, At
  <2>2. hook'[r].pc # "idle" => launcher[r].live # None
    BY <1>1, <2>1 DEF Stage
  <2>3. \A q \in Runs : Stage(q)'
    BY <1>3, <2>1, <2>2, HookStage
  <2>4. faults' \in 0..MaxFaults
    BY <1>1, <2>1, FaultyType DEF ProcessTypes
  <2> QED BY <1>1, <2>1, <2>3, <2>4 DEF Processes, ProcessTypes
<1> QED BY <1>5, <1>6, <1>7, <1>8

LEMMA LaunchStep == LaunchInv /\ [RunNext]_runVars => LaunchInv'
<1> SUFFICES ASSUME LaunchInv, [RunNext]_runVars
             PROVE  LaunchInv'
  OBVIOUS
<1>0. TypeOK /\ ProcessTypes /\ \A q \in Runs : Stage(q)
  BY TypesSplit DEF LaunchInv
<1>a. TypeOK'
  BY <1>0, LedgerSteps, LedgerTypes
<1>b. Processes' => LaunchInv'
  BY <1>a, TypesSplit DEF Processes, LaunchInv, ProcessTypes, RunTypeOK
<1>c. ASSUME \A q \in Runs : SameRow(q), UNCHANGED <<launcher, hook>>
      PROVE  \A q \in Runs : Stage(q)'
  BY <1>c, StageFrame
<1>1. CASE UNCHANGED runVars
  <2>1. UNCHANGED <<runs, native, launcher, hook, transcript, known, faults>>
    BY <1>1 DEF runVars, ledgerVars
  <2> QED BY <1>0, <1>b, <1>c, <2>1, UnchangedRows DEF Processes, ProcessTypes
<1>2. CASE TimePasses
  <2>1. Tick /\ UNCHANGED <<launcher, hook, transcript, known, faults>>
    BY <1>2 DEF TimePasses
  <2>2. \A q \in Runs : SameRow(q)
    BY <1>0, <2>1, QuietRows
  <2> QED BY <1>0, <1>b, <1>c, <2>1, <2>2 DEF Processes, ProcessTypes
<1>3. ASSUME NEW s \in Sessions, WriteRecord(s) PROVE LaunchInv'
  <2>1. /\ transcript[s] < MaxRecords
        /\ transcript' = [transcript EXCEPT ![s] = @ + 1]
        /\ UNCHANGED <<runs, native, launcher, hook, known, faults>>
    BY <1>3 DEF WriteRecord, ledgerVars
  <2>2. transcript[s] \in 0..MaxRecords
    BY <1>0 DEF ProcessTypes
  <2>3. transcript[s] + 1 \in 0..MaxRecords
    BY <2>1, <2>2, RecordFacts
  <2>4. transcript' \in [Sessions -> 0..MaxRecords]
    BY <1>0, <2>1, <2>3 DEF ProcessTypes
  <2> QED BY <1>0, <1>b, <1>c, <2>1, <2>4, UnchangedRows DEF Processes, ProcessTypes
<1> SUFFICES ASSUME NEW r \in Runs,
                    \/ Prepare(r) \/ PrepareReplyLost(r)
                    \/ LinkExpected(r) \/ FetchContext(r) \/ Spawn(r) \/ SpawnFails(r)
                    \/ AcceptDirect(r) \/ RenewLease(r)
                    \/ HookLinks(r) \/ HookReads(r) \/ HookClaims(r)
                    \/ Exit(r) \/ Export(r) \/ SendBatch(r) \/ BatchReplyLost(r)
                    \/ BatchAlreadyDone(r) \/ PassThrough(r) \/ GiveUp(r) \/ Crash(r)
             PROVE  LaunchInv'
  BY <1>1, <1>2, <1>3 DEF RunNext
<1>d. /\ launcher[r] \in LauncherRow /\ Stage(r) /\ launcher \in [Runs -> LauncherRow]
      /\ hook \in [Runs -> HookRow]
  BY LaunchTypes
<1>e. launcher[r].pc # "off" => runs[r].state # "free"
  BY <1>d DEF Stage
<1>f. {"ready", "linked", "running", "exited", "closed", "dead"} \subseteq Stages
  BY DEF Stages, Harnesses
<1>4. CASE Prepare(r) \/ PrepareReplyLost(r)
  BY <1>4, <1>b, GrantSteps
<1>5. CASE SpawnFails(r) \/ PassThrough(r) \/ SendBatch(r) \/ BatchReplyLost(r)
  BY <1>5, <1>b, FinishSteps
<1>6. CASE LinkExpected(r)
  <2>1. /\ launcher[r].pc = "planned" /\ LinkNativeSession(r, launcher[r].expected)
        /\ To(r, IF runs[r].agent \in Direct THEN "linked" ELSE "ready")
        /\ UNCHANGED <<hook, transcript, known, faults>>
    BY <1>6 DEF LinkExpected, At
  <2>2. launcher[r].expected \in Sessions
    BY <1>d, <2>1 DEF Stage, StageOf, LauncherRow
  <2>3. /\ runs'[r].state # "free" /\ SameGrant(r)
        /\ \A q \in Runs \ {r} : SameRow(q)
    BY <1>0, <2>1, <2>2, LinkRows
  <2>4. PICK pc \in {"linked", "ready"} : To(r, pc)
    BY <2>1
  <2> QED BY <1>b, <1>f, <2>1, <2>3, <2>4, MoveSteps
<1>7. CASE FetchContext(r)
  <2> DEFINE l == launcher[r]
             m == launcher'[r]
  <2>1. /\ l.pc = "linked" /\ m \in LauncherRow
        /\ launcher' = [launcher EXCEPT ![r] = m]
        /\ m.pc = "ready"
        /\ m.prepared = l.prepared /\ m.live = l.live
        /\ m.expected = l.expected /\ m.native = l.native
        /\ UNCHANGED <<ledgerVars, hook, transcript, known, faults>>
    BY <1>7, FetchEffect
  <2>2. \A q \in Runs : SameRow(q)
    BY <2>1, UnchangedRows DEF ledgerVars
  <2>3. StageOf(m) /\ OwnSessions(m, runs'[r].agent)
    BY <1>d, <2>1 DEF StageOf, OwnSessions, Stage, ledgerVars
  <2>4. Stage(r)'
    BY <1>d, <1>e, <2>1, <2>3 DEF Stage, ledgerVars
  <2>5. Alone(r)
    BY <1>d, <2>1, <2>2 DEF Alone
  <2>6. \A q \in Runs : Stage(q)'
    BY <2>4, <2>5, StagesFrame
  <2>7. launcher' \in [Runs -> LauncherRow]
    BY <1>d, <2>1
  <2> QED BY <1>0, <1>b, <2>1, <2>6, <2>7 DEF Processes, ProcessTypes
<1>8. CASE Spawn(r)
  <2> DEFINE l == launcher[r]
             m == launcher'[r]
             p == Packet(runs[r].ws, l.from, l.upto)
  <2>1. /\ l.pc = "ready" /\ m \in LauncherRow
        /\ launcher' = [launcher EXCEPT ![r] = m]
        /\ m.live \in Sessions /\ AgentOf[m.live] = runs[r].agent
        /\ m.from = 0 /\ m.upto = 0
        /\ m.pc = IF runs[r].agent \in Direct THEN "spawned" ELSE "running"
        /\ m.prepared = l.prepared
        /\ m.expected = l.expected /\ m.native = l.native
        /\ known' = [known EXCEPT ![m.live] = @ \cup p]
        /\ UNCHANGED <<ledgerVars, hook, transcript, faults>>
    BY <1>8, SpawnEffect
  <2>2. \A q \in Runs : SameRow(q)
    BY <2>1, UnchangedRows DEF ledgerVars
  <2>3. m.pc \in {"spawned", "running"} /\ m.live # None
    BY <2>1, NoneAssumption
  <2>4. StageOf(m) /\ OwnSessions(m, runs'[r].agent)
    BY <1>d, <2>1, <2>3 DEF StageOf, OwnSessions, Stage, ledgerVars
  <2>5. Stage(r)'
    BY <1>d, <1>e, <2>1, <2>3, <2>4 DEF Stage, ledgerVars
  <2>6. Alone(r)
    BY <1>d, <2>1, <2>2 DEF Alone
  <2>7. \A q \in Runs : Stage(q)'
    BY <2>5, <2>6, StagesFrame
  <2>8. launcher' \in [Runs -> LauncherRow]
    BY <1>d, <2>1
  <2>9. runs[r].ws \in Workstreams
    BY <2>1, IssuedRun
  <2>10. p \subseteq RecordIds \cup Runs
    BY <1>0, <2>9, PacketIds
  <2> HIDE DEF p, m
  <2>11. known' \in [Sessions -> SUBSET (RecordIds \cup Runs)]
    BY <1>0, <2>1, <2>10 DEF ProcessTypes
  <2> QED BY <1>0, <1>b, <2>1, <2>7, <2>8, <2>11 DEF Processes, ProcessTypes
<1>9. CASE AcceptDirect(r)
  <2>1. /\ launcher[r].pc = "spawned" /\ To(r, "running")
        /\ AcceptContext(r, FALSE) \/ UNCHANGED ledgerVars
        /\ Faulty \/ UNCHANGED faults
        /\ UNCHANGED <<hook, transcript, known>>
    BY <1>9 DEF AcceptDirect, At
  <2>2. /\ runs'[r].state # "free" /\ SameGrant(r)
        /\ \A q \in Runs \ {r} : SameRow(q)
    <3>1. CASE AcceptContext(r, FALSE)
      BY <1>0, <3>1, AcceptRows
    <3>2. CASE UNCHANGED ledgerVars
      BY <1>e, <2>1, <3>2, UnchangedRows, IssuedStays DEF ledgerVars
    <3> QED BY <2>1, <3>1, <3>2
  <2> QED BY <1>b, <1>f, <2>1, <2>2, MoveSteps
<1>10. CASE RenewLease(r)
  <2>1. Heartbeat(r) /\ UNCHANGED <<launcher, hook, transcript, known, faults>>
    BY <1>10 DEF RenewLease
  <2>2. \A q \in Runs : SameRow(q)
    BY <1>0, <2>1, QuietRows
  <2> QED BY <1>0, <1>b, <1>c, <2>1, <2>2 DEF Processes, ProcessTypes
<1>11. CASE HookLinks(r) \/ HookReads(r) \/ HookClaims(r)
  <2>1. /\ hook' \in [Runs -> HookRow]
        /\ \A q \in Runs \ {r} : hook'[q] = hook[q]
        /\ UNCHANGED <<launcher, transcript, faults>>
    BY <1>11, HookEffects DEF HookLinks, HookReads, HookClaims
  <2>2. launcher[r].live # None
    BY <1>11, <1>d DEF HookLinks, HookReads, HookClaims, Stage
  <2>3. launcher[r].live \in Sessions /\ launcher[r].pc # "off"
    BY <1>d, <2>2 DEF LauncherRow, Stage, StageOf, NoLauncher
  <2>4. /\ runs'[r].state # "free" /\ SameGrant(r)
        /\ \A q \in Runs \ {r} : SameRow(q)
    <3>1. CASE LinkNativeSession(r, launcher[r].live)
      BY <1>0, <2>3, <3>1, LinkRows
    <3>2. CASE AcceptContext(r, TRUE)
      BY <1>0, <3>2, AcceptRows
    <3>3. CASE UNCHANGED ledgerVars
      BY <1>e, <2>3, <3>3, UnchangedRows, IssuedStays DEF ledgerVars
    <3> QED BY <1>11, <3>1, <3>2, <3>3 DEF HookLinks, HookReads, HookClaims
  <2>5. \A q \in Runs : Stage(q)'
    BY <2>1, <2>2, <2>3, <2>4, HookStage
  <2>6. known' \in [Sessions -> SUBSET (RecordIds \cup Runs)]
    <3>1. CASE UNCHANGED known
      BY <1>0, <3>1 DEF ProcessTypes
    <3>2. CASE ~UNCHANGED known
      <4> DEFINE p == Packet(runs[r].ws, hook[r].after, hook[r].through)
      <4>1. known' = [known EXCEPT ![launcher[r].live] = @ \cup p]
        BY <1>11, <3>2 DEF HookLinks, HookReads, HookClaims
      <4>2. p \subseteq RecordIds \cup Runs
        BY <1>0, <2>3, IssuedRun, PacketIds
      <4> HIDE DEF p
      <4> QED BY <1>0, <4>1, <4>2 DEF ProcessTypes
    <3> QED BY <3>1, <3>2
  <2> QED BY <1>0, <1>b, <2>1, <2>5, <2>6 DEF Processes, ProcessTypes
<1>12. CASE Exit(r) \/ BatchAlreadyDone(r) \/ GiveUp(r) \/ Crash(r)
  <2>1. PICK pc \in {"exited", "closed", "dead"} :
          /\ To(r, pc) /\ launcher[r].pc # "off"
          /\ pc = "exited" => launcher[r].pc = "running"
    BY <1>12 DEF Exit, BatchAlreadyDone, GiveUp, Crash, At
  <2>2. UNCHANGED <<hook, transcript, known>> /\ (Faulty \/ UNCHANGED faults)
    BY <1>12 DEF Exit, BatchAlreadyDone, GiveUp, Crash
  <2>3. UNCHANGED ledgerVars \/ CancelRun(r)
    BY <1>12 DEF Exit, BatchAlreadyDone, GiveUp, Crash
  <2>4. \A q \in Runs : SameRow(q)
    BY <1>0, <2>3, UnchangedRows, QuietRows DEF ledgerVars
  <2>5. runs'[r].state # "free" /\ SameGrant(r)
    BY <1>e, <2>1, <2>4, IssuedStays
  <2> QED BY <1>b, <1>f, <2>1, <2>2, <2>4, <2>5, MoveSteps
<1>13. CASE Export(r)
  <2> DEFINE l == launcher[r]
             m == launcher'[r]
             s == Resolved(r)
             end == Larger(Position(r, s), transcript[s])
  <2>1. /\ l.pc = "exited" /\ m \in LauncherRow
        /\ launcher' = [launcher EXCEPT ![r] = m]
        /\ m.pc = "importing" /\ m.native = s
        /\ m.prepared = l.prepared /\ m.live = l.live /\ m.expected = l.expected
        /\ \/ /\ s # None /\ end \in 0..MaxRecords /\ Position(r, s) <= end
              /\ m.from = Position(r, s) /\ m.upto = end
              /\ UNCHANGED faults
           \/ /\ m.from = l.from /\ m.upto = l.upto
              /\ Faulty \/ UNCHANGED faults
        /\ UNCHANGED <<ledgerVars, hook, transcript, known>>
    BY <1>13, ExportEffect
  <2>2. /\ s \in Sessions \cup {None}
        /\ s # None => AgentOf[s] = runs[r].agent
    BY <2>1, ExportFacts DEF At
  <2>3. /\ l.live # None /\ l.from = 0 /\ l.upto = 0 /\ MaxRecords \in Nat
        /\ OwnSessions(l, runs[r].agent)
    BY <1>d, <2>1, RecordFacts DEF Stage, StageOf
  <2> HIDE DEF s, end
  <2>4. m.from <= m.upto /\ m.upto <= MaxRecords /\ (m.native = None => m.upto = 0)
    BY <2>1, <2>3
  <2>5. StageOf(m) /\ OwnSessions(m, runs'[r].agent)
    BY <2>1, <2>2, <2>3, <2>4 DEF StageOf, OwnSessions, ledgerVars
  <2>6. Stage(r)'
    BY <1>d, <1>e, <2>1, <2>3, <2>5 DEF Stage, ledgerVars
  <2>7. \A q \in Runs : SameRow(q)
    BY <2>1, UnchangedRows DEF ledgerVars
  <2>8. Alone(r)
    BY <1>d, <2>1, <2>7 DEF Alone
  <2>9. \A q \in Runs : Stage(q)'
    BY <2>6, <2>8, StagesFrame
  <2>10. launcher' \in [Runs -> LauncherRow]
    BY <1>d, <2>1
  <2>11. faults' \in 0..MaxFaults
    BY <1>0, <2>1, FaultyType DEF ProcessTypes
  <2> QED BY <1>0, <1>b, <2>1, <2>9, <2>10, <2>11 DEF Processes, ProcessTypes
<1> QED BY <1>4, <1>5, <1>6, <1>7, <1>8, <1>9, <1>10, <1>11, <1>12, <1>13

LEMMA LaunchStart == RunInit => LaunchInv
<1> SUFFICES ASSUME RunInit PROVE LaunchInv
  OBVIOUS
<1>1. /\ Init
      /\ launcher = [r \in Runs |-> NoLauncher]
      /\ hook = [r \in Runs |-> NoHook]
      /\ transcript = [s \in Sessions |-> 0]
      /\ known = [s \in Sessions |-> {}]
      /\ faults = 0
  BY DEF RunInit
<1>2. TypeOK
  BY <1>1, LedgerStart
<1>3. NoLauncher \in LauncherRow /\ NoHook \in HookRow /\ 0 \in 0..MaxRecords
      /\ 0 \in 0..MaxFaults
  BY RecordFacts, FaultsAssumption DEF NoLauncher, LauncherRow, NoHook, HookRow
<1>4. RunTypeOK
  BY <1>1, <1>2, <1>3 DEF RunTypeOK
<1>5. ASSUME NEW r \in Runs PROVE Stage(r)
  <2>1. launcher[r] = NoLauncher /\ hook[r] = NoHook /\ runs[r] = NoRun
    BY <1>1 DEF Init
  <2> QED BY <2>1 DEF Stage, StageOf, OwnSessions, NoLauncher, NoHook, NoRun
<1> QED BY <1>4, <1>5 DEF LaunchInv

---------------------------------------------------------------------------
\* The launchers keep their types and stay in step with their runs.
THEOREM LaunchInvariant == RunSpec => []LaunchInv
BY LaunchStart, LaunchStep, PTL DEF RunSpec

\* Every launcher, hook, transcript and table keeps its type, whatever the
\* launchers do to the ledger.
THEOREM RunTypes == RunSpec => []RunTypeOK
BY LaunchInvariant, PTL DEF LaunchInv

\* Under its launchers the ledger behaves as WorkstreamLedger says: every
\* request they send is one of its transactions.
THEOREM LedgerUnderRuns == RunSpec => Spec
<1>1. RunInit => Init
  BY DEF RunInit
<1> QED BY <1>1, LedgerSteps, LaunchInvariant, PTL DEF RunSpec, Spec

\* What `ai-memory run` does to the ledger is what the exclusive ledger
\* promises, with the crashes and retries of its launchers.
THEOREM RunRefinement == RunSpec => ImplementsExclusiveLedger
BY LedgerUnderRuns, Refinement

---------------------------------------------------------------------------
(* The cursors.  A cursor is exact when it names its transcript, or when   *)
(* nothing but the prepared session can be exported or finished with it:   *)
(* the launcher neither picks nor takes another session for the harness.   *)

Exact == {a \in Agents : a \in PathCursors \/ a \notin Pinned \cup Selectors}

\* History l holds every record that cursor c lies behind.
Reached(l, c) == \A n \in 1..c[2] : HasEvent(l, <<c[1], n>>)

Own(a, c, s) == a \notin PathCursors => c[1] = s

CursorsReached ==
    \A w \in Workstreams, s \in Sessions :
        LET c == native[w][s].source
        IN AgentOf[s] \in Exact /\ c # None =>
              Reached(log[w], c) /\ Own(AgentOf[s], c, s)

\* Until the export, a launcher carries the cursor of the prepared session.
CarriesCursor(r) ==
    LET l == launcher[r]
        a == runs[r].agent
    IN l.pc \in {"planned", "linked", "ready", "spawned", "running", "exited"}
          /\ l.cursor # None =>
          /\ Reached(log[runs[r].ws], l.cursor)
          /\ l.prepared # None /\ Own(a, l.cursor, l.prepared)
          /\ a \notin PathCursors => l.expected \in {None, l.prepared}

LinksPrepared(r) ==
    LET l == launcher[r]
    IN l.pc \in {"linked", "ready"} /\ l.expected = None => runs[r].session = l.prepared

\* What it has sent is in the history; the cursor it will store is reached,
\* now or with the last batch.
Imports(r) ==
    LET l == launcher[r]
        h == log[runs[r].ws]
    IN l.pc = "importing" =>
          /\ l.native # None => Reached(h, <<l.native, l.from>>)
          /\ l.cursor # None =>
                /\ l.native # None /\ Own(runs[r].agent, l.cursor, l.native)
                /\ Reached(h, l.cursor) \/ l.cursor = <<l.native, l.upto>>

LauncherReached(r) ==
    runs[r].agent \in Exact => CarriesCursor(r) /\ LinksPrepared(r) /\ Imports(r)

OrderedImports ==
    \A w \in Workstreams : \A i \in DOMAIN log[w] :
        LET e == log[w][i]
        IN e.id \in RecordIds /\ AgentOf[e.id[1]] \in Exact /\ e.id[2] > 1 =>
              \E j \in 1..(i - 1) : log[w][j].id = <<e.id[1], e.id[2] - 1>>

ImportInv == CursorsReached /\ (\A r \in Runs : LauncherReached(r)) /\ OrderedImports

---------------------------------------------------------------------------
Grows == \A w \in Workstreams : Extends(log[w], log'[w])

LEMMA ExtendsHas ==
    ASSUME NEW l \in Seq(Event), NEW m \in Seq(Event), Extends(l, m)
    PROVE  /\ \A id : HasEvent(l, id) => HasEvent(m, id)
           /\ \A c : Reached(l, c) => Reached(m, c)
<1>1. \A i \in DOMAIN l : i \in DOMAIN m /\ m[i] = l[i]
  BY DEF Extends
<1>2. \A id : HasEvent(l, id) => HasEvent(m, id)
  BY <1>1 DEF HasEvent
<1> QED BY <1>2 DEF Reached

LEMMA GrowsReached ==
    ASSUME TypeOK, TypeOK', Grows, NEW w \in Workstreams
    PROVE  \A c : Reached(log[w], c) => Reached(log'[w], c)
<1>1. log[w] \in Seq(Event) /\ log'[w] \in Seq(Event) /\ Extends(log[w], log'[w])
  BY DEF TypeOK, Grows
<1> QED BY <1>1, ExtendsHas

LEMMA SameLogGrows ==
    ASSUME TypeOK, UNCHANGED log
    PROVE  Grows
<1> SUFFICES ASSUME NEW w \in Workstreams PROVE Extends(log[w], log[w])
  BY DEF Grows
<1>1. log[w] \in Seq(Event)
  BY DEF TypeOK
<1> QED BY <1>1 DEF Extends

\* What an import brings: the record, if any, and the boundary of the run,
\* both of the session that the run finishes with.
LEMMA ImportedEvents ==
    ASSUME TypeOK, NEW r \in Runs, NEW in \in Request(r), FinishRun(r, in)
    PROVE  LET l == log[runs[r].ws]
               m == Imported(r, in)
               s == FinishSession(r, in)
           IN /\ in.record # None => HasEvent(m, in.record.id)
              /\ \A i \in DOMAIN m : i > Len(l) =>
                    /\ m[i].id \in Runs \/ (in.record # None /\ m[i] = in.record)
                    /\ s # None => m[i].session = s
<1> DEFINE l == log[runs[r].ws]
           k == IF in.record = None THEN l ELSE AppendNew(l, in.record)
           b == BoundaryEvent(r, in.boundary)
           m == Imported(r, in)
           s == FinishSession(r, in)
<1>1. /\ Active(r) /\ EventsMatch(r, in) /\ runs[r].ws \in Workstreams
  BY FinishFacts
<1>2. /\ l \in Seq(Event)
      /\ in.record \in Event \cup {None}
      /\ b \in Event /\ b.id = r /\ b.session = in.boundary
      /\ in.record # None /\ s # None => in.record.session = s
      /\ in.complete /\ s # None => in.boundary = s
      /\ in.complete \in BOOLEAN
  BY <1>1, RequestType DEF TypeOK, BoundaryEvent, EventsMatch
<1>3. m = IF in.complete THEN AppendNew(k, b) ELSE k
  BY DEF Imported
<1> HIDE DEF l, b, m, s
<1>4. /\ k \in Seq(Event) /\ Len(l) <= Len(k)
      /\ in.record # None => HasEvent(k, in.record.id)
      /\ \A i \in DOMAIN k : i > Len(l) => in.record # None /\ k[i] = in.record
  <2>1. CASE in.record = None
    BY <1>2, <2>1
  <2>2. CASE in.record # None
    <3>1. k = AppendNew(l, in.record) /\ in.record \in Event
      BY <1>2, <2>2
    <3>2. /\ k \in Seq(Event) /\ Extends(l, k)
          /\ \A i \in DOMAIN k : i > Len(l) => k[i] = in.record
      BY <1>2, <3>1, AppendNewFacts
    <3>3. HasEvent(k, in.record.id)
      <4>1. CASE HasEvent(l, in.record.id)
        BY <3>1, <4>1 DEF AppendNew
      <4>2. CASE ~HasEvent(l, in.record.id)
        <5>1. k = Append(l, in.record)
          BY <3>1, <4>2 DEF AppendNew
        <5>2. Len(l) + 1 \in DOMAIN k /\ k[Len(l) + 1] = in.record
          BY <1>2, <3>1, <5>1
        <5> QED BY <5>2 DEF HasEvent
      <4> QED BY <4>1, <4>2
    <3> QED BY <2>2, <3>2, <3>3 DEF Extends
  <2> QED BY <2>1, <2>2
<1> HIDE DEF k
<1>5. CASE ~in.complete
  BY <1>2, <1>3, <1>4, <1>5 DEF m, l, s
<1>6. CASE in.complete
  <2>1. /\ m \in Seq(Event) /\ Extends(k, m)
        /\ \A i \in DOMAIN m : i > Len(k) => m[i] = b
    BY <1>2, <1>3, <1>4, <1>6, AppendNewFacts
  <2>2. in.record # None => HasEvent(m, in.record.id)
    BY <1>4, <2>1, ExtendsHas
  <2>3. ASSUME NEW i \in DOMAIN m, i > Len(l)
        PROVE  /\ m[i].id \in Runs \/ (in.record # None /\ m[i] = in.record)
               /\ s # None => m[i].session = s
    <3>1. CASE i > Len(k)
      BY <1>2, <1>6, <2>1, <3>1
    <3>2. CASE ~(i > Len(k))
      <4>1. i \in DOMAIN k /\ m[i] = k[i]
        BY <1>4, <2>1, <2>3, <3>2 DEF Extends
      <4> QED BY <1>2, <1>4, <2>3, <4>1
    <3> QED BY <3>1, <3>2
  <2> QED BY <2>2, <2>3 DEF m, l, s
<1> QED BY <1>2, <1>5, <1>6

---------------------------------------------------------------------------
(* Frames. *)

LEMMA ReachedFrame ==
    ASSUME LaunchInv, TypeOK', Grows, NEW q \in Runs, LauncherReached(q),
           SameRow(q), launcher'[q] = launcher[q]
    PROVE  LauncherReached(q)'
<1>1. CASE launcher[q].pc = "off"
  BY <1>1 DEF LauncherReached, CarriesCursor, LinksPrepared, Imports
<1>2. CASE launcher[q].pc # "off"
  <2>1. runs[q].ws \in Workstreams
    BY <1>2, IssuedRun
  <2>2. /\ runs'[q].ws = runs[q].ws /\ runs'[q].agent = runs[q].agent
        /\ runs'[q].session = runs[q].session
    BY DEF SameRow, SameGrant
  <2>3. \A c : Reached(log[runs[q].ws], c) => Reached(log'[runs[q].ws], c)
    BY <2>1, GrowsReached, LaunchTypes
  <2>4. CarriesCursor(q) => CarriesCursor(q)'
    BY <2>2, <2>3 DEF CarriesCursor
  <2>5. LinksPrepared(q) => LinksPrepared(q)'
    BY <2>2 DEF LinksPrepared
  <2>6. Imports(q) => Imports(q)'
    BY <2>2, <2>3 DEF Imports
  <2> QED BY <2>2, <2>4, <2>5, <2>6 DEF LauncherReached
<1> QED BY <1>1, <1>2

LEMMA SourcesFrame ==
    ASSUME TypeOK, TypeOK', Grows, CursorsReached,
           NEW w, NEW s, SameSessions(s, w),
           w \in Workstreams /\ s \in Sessions =>
              \/ native'[w][s].source = native[w][s].source
              \/ LET c == native'[w][s].source
                 IN AgentOf[s] \in Exact /\ c # None =>
                       Reached(log'[w], c) /\ Own(AgentOf[s], c, s)
    PROVE  CursorsReached'
<1> SUFFICES ASSUME NEW v \in Workstreams, NEW x \in Sessions,
                    AgentOf[x] \in Exact, native'[v][x].source # None
             PROVE  /\ Reached(log'[v], native'[v][x].source)
                    /\ Own(AgentOf[x], native'[v][x].source, x)
  BY DEF CursorsReached
<1>1. CASE native'[v][x].source = native[v][x].source
  <2>1. Reached(log[v], native[v][x].source) /\ Own(AgentOf[x], native[v][x].source, x)
    BY <1>1 DEF CursorsReached
  <2> QED BY <1>1, <2>1, GrowsReached
<1>2. CASE native'[v][x].source # native[v][x].source
  <2>1. v = w /\ x = s
    BY <1>2 DEF SameSessions
  <2> QED BY <1>2, <2>1
<1> QED BY <1>1, <1>2

LEMMA OrderedFrame ==
    ASSUME OrderedImports, UNCHANGED log
    PROVE  OrderedImports'
BY DEF OrderedImports

\* An import keeps the order when the record before the imported one is
\* there.
LEMMA FinishOrdered ==
    ASSUME TypeOK, OrderedImports, NEW r \in Runs, NEW in \in Request(r), FinishRun(r, in),
           in.record # None /\ AgentOf[in.record.id[1]] \in Exact /\ in.record.id[2] > 1 =>
              HasEvent(log[runs[r].ws], <<in.record.id[1], in.record.id[2] - 1>>)
    PROVE  OrderedImports'
<1> DEFINE w == runs[r].ws
           m == Imported(r, in)
<1>1. /\ w \in Workstreams /\ m \in Seq(Event) /\ Extends(log[w], m)
      /\ log' = [log EXCEPT ![w] = m]
  BY FinishRows
<1>2. log \in [Workstreams -> Seq(Event)] /\ log[w] \in Seq(Event)
  BY <1>1 DEF TypeOK
<1>3. \A i \in DOMAIN m : i > Len(log[w]) =>
         m[i].id \in Runs \/ (in.record # None /\ m[i] = in.record)
  BY ImportedEvents
<1>4. log'[w] = m /\ \A v \in Workstreams \ {w} : log'[v] = log[v]
  BY <1>1, <1>2
<1> HIDE DEF m, w
<1> SUFFICES ASSUME NEW v \in Workstreams, NEW i \in DOMAIN log'[v],
                    log'[v][i].id \in RecordIds, AgentOf[log'[v][i].id[1]] \in Exact,
                    log'[v][i].id[2] > 1
             PROVE  \E j \in 1..(i - 1) :
                      log'[v][j].id = <<log'[v][i].id[1], log'[v][i].id[2] - 1>>
  BY DEF OrderedImports
<1>5. CASE v # w
  <2>1. log'[v] = log[v]
    BY <1>4, <1>5
  <2> QED BY <2>1 DEF OrderedImports
<1>6. CASE v = w /\ i <= Len(log[w])
  <2>1. i \in DOMAIN log[w] /\ log'[w][i] = log[w][i]
    BY <1>1, <1>2, <1>4, <1>6 DEF Extends
  <2>2. PICK j \in 1..(i - 1) :
          log[w][j].id = <<log[w][i].id[1], log[w][i].id[2] - 1>>
    BY <1>1, <1>6, <2>1 DEF OrderedImports
  <2>3. j \in DOMAIN log[w]
    BY <1>2, <2>1, <2>2
  <2>4. log'[w][j] = log[w][j]
    BY <1>1, <1>4, <2>3 DEF Extends
  <2> QED BY <1>6, <2>1, <2>2, <2>4
<1>7. CASE v = w /\ ~(i <= Len(log[w]))
  <2>1. i \in DOMAIN m /\ i \in Nat /\ i > Len(log[w])
    BY <1>1, <1>2, <1>4, <1>7
  <2>2. m[i].id \notin Runs
    BY <1>4, <1>7, EventIdAssumption
  <2>3. in.record # None /\ m[i] = in.record
    BY <1>3, <2>1, <2>2
  <2>4. HasEvent(log[w], <<in.record.id[1], in.record.id[2] - 1>>)
    BY <1>4, <1>7, <2>3 DEF w
  <2>5. PICK j \in DOMAIN log[w] :
          log[w][j].id = <<in.record.id[1], in.record.id[2] - 1>>
    BY <2>4 DEF HasEvent
  <2>6. j \in 1..(i - 1) /\ log'[w][j] = log[w][j]
    BY <1>1, <1>2, <1>4, <2>1, <2>5 DEF Extends
  <2> QED BY <1>4, <1>7, <2>3, <2>5, <2>6
<1> QED BY <1>2, <1>5, <1>6, <1>7

---------------------------------------------------------------------------
(* ImportInv is inductive: the launcher's own steps. *)

\* The stages in which a launcher says nothing of cursors.
LEMMA Silent ==
    ASSUME NEW r \in Runs, launcher'[r].pc \in {"off", "passing", "closed", "dead"}
    PROVE  LauncherReached(r)'
BY DEF LauncherReached, CarriesCursor, LinksPrepared, Imports

\* Before the export the launcher only moves on with what it carries.
LEMMA Carries ==
    ASSUME LaunchInv, TypeOK', Grows, NEW r \in Runs, LauncherReached(r), SameGrant(r),
           launcher[r].pc \in {"planned", "linked", "ready", "spawned", "running", "exited"},
           launcher'[r].pc \in {"linked", "ready", "spawned", "running", "exited"},
           launcher'[r].prepared = launcher[r].prepared,
           launcher'[r].cursor = launcher[r].cursor,
           launcher'[r].expected = launcher[r].expected,
           launcher'[r].pc \in {"linked", "ready"} /\ launcher[r].expected = None =>
              launcher[r].pc \in {"linked", "ready"} /\ runs'[r].session = runs[r].session
    PROVE  LauncherReached(r)'
<1>1. runs[r].ws \in Workstreams /\ TypeOK
  BY IssuedRun, LaunchTypes
<1>2. runs'[r].ws = runs[r].ws /\ runs'[r].agent = runs[r].agent
  BY DEF SameGrant
<1>3. \A c : Reached(log[runs[r].ws], c) => Reached(log'[runs[r].ws], c)
  BY <1>1, GrowsReached
<1>4. CarriesCursor(r) => CarriesCursor(r)'
  BY <1>2, <1>3 DEF CarriesCursor
<1>5. LinksPrepared(r) => LinksPrepared(r)'
  BY DEF LinksPrepared
<1>6. Imports(r)'
  BY DEF Imports
<1> QED BY <1>2, <1>4, <1>5, <1>6 DEF LauncherReached

LEMMA PrepareReached ==
    ASSUME LaunchInv, TypeOK', ImportInv, NEW r \in Runs, Prepare(r)
    PROVE  LauncherReached(r)'
<1> DEFINE l == launcher'[r]
<1>0. TypeOK
  BY LaunchTypes
<1>1. PICK w \in Workstreams, a \in Agents :
        LET p == GrantedRow(w, a).session
        IN /\ PrepareRun(r, w, a)
           /\ l.prepared = p
           /\ l.cursor = IF p = None THEN None ELSE native[w][p].source
           /\ \/ l.pc = "passing" /\ l.expected = None
              \/ /\ l.expected \in Plans(w, a, p)
                 /\ IF l.expected # None THEN l.pc = "planned"
                    ELSE l.pc \in {"linked", "ready"}
  BY PrepareEffect
<1> DEFINE p == GrantedRow(w, a).session
<1>2. /\ runs'[r] = GrantedRow(w, a) /\ UNCHANGED <<native, log>>
  BY <1>0, <1>1, GrantRows
<1>3. /\ runs'[r].ws = w /\ runs'[r].agent = a /\ runs'[r].session = p
      /\ p \in Sessions \cup {None} /\ (p # None => AgentOf[p] = a)
  BY <1>0, <1>2, GrantedRowType DEF RunRow
<1>4. CASE l.pc = "passing"
  BY <1>4, Silent
<1>5. CASE l.pc # "passing"
  <2>1. /\ l.expected \in Plans(w, a, p)
        /\ l.pc \in {"planned", "linked", "ready"}
        /\ l.pc \in {"linked", "ready"} => l.expected = None
    BY <1>1, <1>5
  <2>2. ASSUME a \in Exact, l.cursor # None
        PROVE  /\ Reached(log'[w], l.cursor) /\ l.prepared # None
               /\ Own(a, l.cursor, l.prepared)
               /\ a \notin PathCursors => l.expected \in {None, l.prepared}
    <3>1. p # None /\ l.prepared = p /\ l.cursor = native[w][p].source
      BY <1>1, <2>2
    <3> HIDE DEF p
    <3>2. Reached(log[w], native[w][p].source) /\ Own(a, native[w][p].source, p)
      BY <1>3, <2>2, <3>1 DEF ImportInv, CursorsReached
    <3>3. a \notin PathCursors => l.expected \in {None, p}
      BY <1>3, <2>1, <2>2, <3>1, PlansFacts DEF Exact
    <3> QED BY <1>2, <3>1, <3>2, <3>3
  <2> HIDE DEF l
  <2>3. a \in Exact => CarriesCursor(r)'
    BY <1>3, <2>2 DEF CarriesCursor, l
  <2>4. LinksPrepared(r)'
    BY <1>1, <1>3 DEF LinksPrepared, l
  <2>5. Imports(r)'
    BY <2>1 DEF Imports, l
  <2> QED BY <1>3, <2>3, <2>4, <2>5 DEF LauncherReached
<1> QED BY <1>4, <1>5

LEMMA ExportReached ==
    ASSUME LaunchInv, NEW r \in Runs, LauncherReached(r), Export(r)
    PROVE  LauncherReached(r)'
<1> DEFINE l == launcher[r]
           m == launcher'[r]
           s == Resolved(r)
           a == runs[r].agent
           h == log[runs[r].ws]
           start == Position(r, s)
           end == Larger(start, transcript[s])
<1>1. /\ l.pc = "exited" /\ m.pc = "importing" /\ m.native = s
      /\ \/ /\ s # None /\ m.from = start /\ m.upto = end /\ m.cursor = <<s, end>>
         \/ /\ m.from = l.from /\ m.upto = l.upto
            /\ m.cursor = IF s = l.prepared THEN l.cursor ELSE None
      /\ UNCHANGED ledgerVars
  BY ExportEffect
<1>2. /\ l.from = 0 /\ l.upto = 0 /\ l.cursor \in Cursors \cup {None}
      /\ s \in Sessions \cup {None} /\ (s # None => AgentOf[s] = a)
  BY <1>1, LaunchTypes, ExportFacts DEF Stage, StageOf, LauncherRow, At
<1>3. /\ runs'[r].agent = a /\ log'[runs'[r].ws] = h
  BY <1>1 DEF ledgerVars
<1> SUFFICES ASSUME a \in Exact
             PROVE  CarriesCursor(r)' /\ LinksPrepared(r)' /\ Imports(r)'
  BY <1>3 DEF LauncherReached
<1>4. l.cursor # None =>
        /\ Reached(h, l.cursor) /\ l.prepared # None /\ Own(a, l.cursor, l.prepared)
  BY <1>1 DEF LauncherReached, CarriesCursor
<1>5. \A x : Reached(h, <<x, 0>>)
  BY DEF Reached
<1> HIDE DEF s, l, a, h
<1>6. s # None => Reached(h, <<s, start>>)
  <2>1. CASE start = 0
    BY <1>5, <2>1
  <2>2. CASE s # None /\ start # 0
    <3>1. /\ s = l.prepared /\ l.cursor # None /\ start = l.cursor[2]
          /\ AgentOf[s] \in PathCursors => l.cursor[1] = s
      BY <2>2 DEF Position, l
    <3>2. l.cursor[1] = s
      BY <1>2, <1>4, <2>2, <3>1 DEF Own
    <3>3. l.cursor = <<s, start>>
      BY <1>2, <3>1, <3>2, RecordFacts
    <3> QED BY <1>4, <3>1, <3>3
  <2> QED BY <2>1, <2>2
<1> HIDE DEF start, end
<1>7. /\ m.native # None => Reached(h, <<m.native, m.from>>)
      /\ m.cursor # None =>
           /\ m.native # None /\ Own(a, m.cursor, m.native)
           /\ Reached(h, m.cursor) \/ m.cursor = <<m.native, m.upto>>
  <2>1. CASE s # None /\ m.from = start /\ m.upto = end /\ m.cursor = <<s, end>>
    BY <1>1, <1>6, <2>1 DEF Own
  <2>2. CASE /\ m.from = l.from /\ m.upto = l.upto
             /\ m.cursor = IF s = l.prepared THEN l.cursor ELSE None
    BY <1>1, <1>2, <1>4, <1>5, <2>2
  <2> QED BY <1>1, <2>1, <2>2
<1> HIDE DEF m
<1>8. CarriesCursor(r)' /\ LinksPrepared(r)'
  BY <1>1 DEF CarriesCursor, LinksPrepared, m
<1>9. Imports(r)'
  BY <1>3, <1>7 DEF Imports, m, a, h
<1> QED BY <1>8, <1>9

\* A batch brings the record that is due, and the last one its cursor.
LEMMA BatchReached ==
    ASSUME LaunchInv, TypeOK', NEW r \in Runs, ImportInv, At(r, "importing"),
           FinishRun(r, Batch(r))
    PROVE  /\ Grows /\ \A q \in Runs \ {r} : SameRow(q)
           /\ SameGrant(r)
           /\ CursorsReached' /\ OrderedImports'
           /\ launcher[r].from < launcher[r].upto /\ runs[r].agent \in Exact =>
                Reached(log'[runs[r].ws], <<launcher[r].native, launcher[r].from + 1>>)
<1> DEFINE l == launcher[r]
           in == Batch(r)
           w == runs[r].ws
           a == runs[r].agent
           s == FinishSession(r, in)
           h == log[w]
           h2 == Imported(r, in)
<1>0. TypeOK /\ CursorsReached /\ OrderedImports /\ LauncherReached(r)
  BY LaunchTypes DEF ImportInv
<1>1. /\ in \in Request(r)
      /\ in.complete = (l.upto <= l.from + 1)
      /\ in.cursor = IF in.complete THEN l.cursor ELSE None
      /\ in.record = IF l.from < l.upto
                     THEN [id |-> <<l.native, l.from + 1>>, agent |-> a, session |-> l.native]
                     ELSE None
      /\ s = IF l.native # None THEN l.native ELSE runs[r].session
  BY BatchRequest
<1>2. /\ w \in Workstreams /\ s \in Sessions \cup {None}
      /\ SameGrant(r) /\ \A q \in Runs \ {r} : SameRow(q)
      /\ SameSessions(s, w)
      /\ s # None /\ in.complete => native'[w][s].source = in.cursor
      /\ s # None /\ ~in.complete => native'[w][s] = native[w][s]
      /\ h2 \in Seq(Event) /\ Extends(h, h2)
      /\ log' = [log EXCEPT ![w] = h2]
  BY <1>0, <1>1, FinishRows
<1>3. /\ l.pc = "importing" /\ l.native \in Sessions \cup {None} /\ l.from \in Nat
      /\ l.upto \in Nat /\ l.cursor \in Cursors \cup {None}
      /\ l.from <= l.upto /\ (l.native = None => l.upto = 0)
      /\ l.native # None => AgentOf[l.native] = a
      /\ runs[r].session \in Sessions \cup {None}
  BY LaunchTypes, IssuedRun DEF Stage, StageOf, OwnSessions, LauncherRow, At
<1>4. in.record # None => HasEvent(h2, in.record.id)
  BY <1>0, <1>1, ImportedEvents
<1>5. a \in Exact =>
        /\ l.native # None => Reached(h, <<l.native, l.from>>)
        /\ l.cursor # None =>
             /\ l.native # None /\ Own(a, l.cursor, l.native)
             /\ Reached(h, l.cursor) \/ l.cursor = <<l.native, l.upto>>
  BY <1>0, <1>3 DEF LauncherReached, Imports
<1>6. FinishRun(r, in)
  OBVIOUS
<1> HIDE DEF l, in, s, h, h2, a, w
<1>7. /\ log \in [Workstreams -> Seq(Event)] /\ h \in Seq(Event)
      /\ log'[w] = h2 /\ \A v \in Workstreams \ {w} : log'[v] = log[v]
  BY <1>0, <1>2 DEF TypeOK, h
<1>8. Grows
  <2> SUFFICES ASSUME NEW v \in Workstreams PROVE Extends(log[v], log'[v])
    BY DEF Grows
  <2>1. CASE v = w
    BY <1>2, <1>7, <2>1 DEF h
  <2>2. CASE v # w
    <3>1. log[v] \in Seq(Event) /\ log'[v] = log[v]
      BY <1>7, <2>2
    <3> QED BY <3>1 DEF Extends
  <2> QED BY <2>1, <2>2
<1>9. \A c : Reached(h, c) => Reached(h2, c)
  BY <1>2, <1>7, ExtendsHas
<1>10. ASSUME l.from < l.upto, a \in Exact
       PROVE  /\ Reached(h2, <<l.native, l.from + 1>>) /\ l.native # None
              /\ in.record # None /\ in.record.id = <<l.native, l.from + 1>>
              /\ l.from + 1 > 1 => HasEvent(h, <<l.native, l.from>>)
  <2>1. l.native # None
    BY <1>3, <1>10
  <2>2. in.record = [id |-> <<l.native, l.from + 1>>, agent |-> a, session |-> l.native]
    BY <1>1, <1>10
  <2>3. <<l.native, l.from + 1>> \in RecordIds /\ l.native \in Sessions /\ a \in Agents
    <3>1. l.upto <= MaxRecords /\ MaxRecords \in Nat
      BY <1>3, LaunchTypes, RecordFacts DEF Stage, StageOf, l
    <3>2. l.from + 1 \in 1..MaxRecords /\ l.native \in Sessions
      BY <1>3, <1>10, <2>1, <3>1
    <3>3. a \in Agents
      BY <1>3, IssuedRun DEF l, a
    <3> QED BY <3>2, <3>3, RecordFacts
  <2>4. in.record # None /\ in.record.id = <<l.native, l.from + 1>>
    <3>1. in.record \in Event
      BY <2>2, <2>3 DEF Event
    <3> QED BY <2>2, <3>1, NoneAssumption
  <2>5. Reached(h, <<l.native, l.from>>)
    BY <1>5, <1>10, <2>1
  <2>6. HasEvent(h2, <<l.native, l.from + 1>>)
    BY <1>4, <2>4
  <2>7. \A n \in 1..l.from : HasEvent(h, <<l.native, n>>)
    BY <2>5 DEF Reached
  <2>8. \A n \in 1..l.from : HasEvent(h2, <<l.native, n>>)
    BY <1>2, <1>7, <2>7, ExtendsHas
  <2>9. Reached(h2, <<l.native, l.from + 1>>)
    <3> SUFFICES ASSUME NEW n \in 1..(l.from + 1) PROVE HasEvent(h2, <<l.native, n>>)
      BY DEF Reached
    <3> QED BY <1>3, <2>6, <2>8
  <2>10. l.from + 1 > 1 => HasEvent(h, <<l.native, l.from>>)
    BY <1>3, <2>7
  <2> QED BY <2>1, <2>4, <2>9, <2>10
<1>11. OrderedImports'
  <2>1. ASSUME in.record # None, AgentOf[in.record.id[1]] \in Exact, in.record.id[2] > 1
        PROVE  HasEvent(log[w], <<in.record.id[1], in.record.id[2] - 1>>)
    <3>1. l.from < l.upto
      BY <1>1, <2>1
    <3>2. l.native # None /\ l.native \in Sessions
      BY <1>3, <3>1
    <3>3. in.record = [id |-> <<l.native, l.from + 1>>, agent |-> a, session |-> l.native]
      BY <1>1, <3>1
    <3>4. in.record.id[1] = l.native /\ in.record.id[2] = l.from + 1
      BY <3>3
    <3>5. a \in Exact /\ l.from + 1 > 1
      BY <1>3, <2>1, <3>2, <3>4
    <3>6. HasEvent(h, <<l.native, l.from>>)
      BY <1>10, <3>1, <3>5
    <3>7. in.record.id[2] - 1 = l.from
      BY <1>3, <3>4
    <3> QED BY <3>4, <3>6, <3>7 DEF h
  <2> QED BY <1>0, <1>1, <1>6, <2>1, FinishOrdered DEF w
<1>12. CursorsReached'
  <2>1. ASSUME w \in Workstreams, s \in Sessions, native'[w][s].source # native[w][s].source,
               AgentOf[s] \in Exact, native'[w][s].source # None
        PROVE  /\ Reached(log'[w], native'[w][s].source)
               /\ Own(AgentOf[s], native'[w][s].source, s)
    <3>1. s # None /\ in.complete /\ native'[w][s].source = l.cursor /\ l.cursor # None
      BY <1>1, <1>2, <2>1, NoneAssumption
    <3>2. a \in Exact
      <4>1. runs[r].session # None => AgentOf[runs[r].session] = a
        BY <1>3, IssuedRun DEF l, a
      <4> QED BY <1>1, <1>3, <2>1, <3>1, <4>1
    <3>3. /\ l.native # None /\ Own(a, l.cursor, l.native)
          /\ Reached(h, l.cursor) \/ l.cursor = <<l.native, l.upto>>
      BY <1>5, <3>1, <3>2
    <3>4. s = l.native /\ AgentOf[s] = a
      BY <1>1, <1>3, <3>3
    <3>5. l.upto <= l.from + 1
      BY <1>1, <3>1
    <3>6. Reached(h2, <<l.native, l.upto>>)
      <4>1. CASE l.from < l.upto
        <5>1. l.upto = l.from + 1
          BY <1>3, <3>5, <4>1
        <5> QED BY <1>10, <3>2, <4>1, <5>1
      <4>2. CASE ~(l.from < l.upto)
        <5>1. l.upto = l.from
          BY <1>3, <4>2
        <5> QED BY <1>5, <1>9, <3>2, <3>3, <5>1
      <4> QED BY <4>1, <4>2
    <3>7. Reached(h2, l.cursor)
      BY <1>9, <3>3, <3>6
    <3> QED BY <1>7, <3>1, <3>3, <3>4, <3>7
  <2> QED BY <1>0, <1>2, <1>8, <2>1, SourcesFrame
<1> QED BY <1>2, <1>7, <1>8, <1>10, <1>11, <1>12 DEF l, a, w

\* The import of a batch moves its own launcher on.
LEMMA SendReached ==
    ASSUME LaunchInv, TypeOK', ImportInv, NEW r \in Runs, SendBatch(r)
    PROVE  LauncherReached(r)'
<1> DEFINE l == launcher[r]
           m == launcher'[r]
           a == runs[r].agent
           w == runs[r].ws
<1>1. /\ l.pc = "importing"
      /\ m.pc = IF l.upto <= l.from + 1 THEN "closed" ELSE "importing"
      /\ m.from = IF l.upto <= l.from + 1 THEN l.from ELSE l.from + 1
      /\ m.cursor = l.cursor /\ m.native = l.native /\ m.upto = l.upto
  BY SendEffect
<1>2. CASE l.upto <= l.from + 1
  BY <1>1, <1>2, Silent
<1>3. CASE ~(l.upto <= l.from + 1)
  <2>1. /\ Grows /\ SameGrant(r)
        /\ l.from < l.upto /\ a \in Exact => Reached(log'[w], <<l.native, l.from + 1>>)
    BY <1>1, BatchReached DEF SendBatch, At
  <2>2. /\ l.from \in Nat /\ l.upto \in Nat /\ w \in Workstreams /\ TypeOK
    BY <1>1, LaunchTypes, IssuedRun DEF LauncherRow
  <2>3. runs'[r].ws = w /\ runs'[r].agent = a
    BY <2>1 DEF SameGrant
  <2>4. m.pc = "importing" /\ m.from = l.from + 1 /\ l.from < l.upto
    BY <1>1, <1>3, <2>2
  <2>5. a \in Exact =>
          /\ l.cursor # None => /\ l.native # None /\ Own(a, l.cursor, l.native)
                                /\ Reached(log[w], l.cursor) \/ l.cursor = <<l.native, l.upto>>
    BY <1>1 DEF ImportInv, LauncherReached, Imports
  <2>6. Reached(log[w], l.cursor) => Reached(log'[w], l.cursor)
    BY <2>1, <2>2, GrowsReached
  <2> HIDE DEF l, m, a, w
  <2>7. a \in Exact => Imports(r)'
    <3> SUFFICES ASSUME a \in Exact PROVE Imports(r)'
      OBVIOUS
    <3>1. Reached(log'[w], <<m.native, m.from>>)
      BY <1>1, <2>1, <2>4
    <3>2. m.cursor # None => /\ m.native # None /\ Own(a, m.cursor, m.native)
                             /\ Reached(log'[w], m.cursor) \/ m.cursor = <<m.native, m.upto>>
      BY <1>1, <2>5, <2>6
    <3> QED BY <2>3, <3>1, <3>2 DEF Imports, m
  <2>8. CarriesCursor(r)' /\ LinksPrepared(r)'
    BY <2>4 DEF CarriesCursor, LinksPrepared, m
  <2> QED BY <2>3, <2>7, <2>8 DEF LauncherReached
<1> QED BY <1>2, <1>3

\* A launcher that failed to start its harness stores the cursor of the
\* session it had planned, which is the prepared one.
LEMMA SpawnFailsReached ==
    ASSUME LaunchInv, TypeOK', ImportInv, NEW r \in Runs, SpawnFails(r) \/ PassThrough(r)
    PROVE  /\ Grows /\ \A q \in Runs \ {r} : SameRow(q)
           /\ CursorsReached' /\ OrderedImports'
<1> DEFINE l == launcher[r]
           w == runs[r].ws
           a == runs[r].agent
<1>0. TypeOK /\ CursorsReached /\ OrderedImports /\ LauncherReached(r)
  BY LaunchTypes DEF ImportInv
<1>1. PICK in \in Request(r) :
        /\ FinishRun(r, in) /\ in.record = None
        /\ \/ in.cursor = None
           \/ /\ l.pc = "ready" /\ in.cursor = l.cursor
              /\ FinishSession(r, in) = IF l.expected # None THEN l.expected
                                                             ELSE runs[r].session
  BY SpawnFailsRequest, PassThroughRequest DEF SpawnFails, At
<1> DEFINE s == FinishSession(r, in)
           h2 == Imported(r, in)
<1>2. /\ w \in Workstreams /\ s \in Sessions \cup {None}
      /\ \A q \in Runs \ {r} : SameRow(q)
      /\ SameSessions(s, w)
      /\ s # None /\ in.complete => native'[w][s].source = in.cursor
      /\ s # None /\ ~in.complete => native'[w][s] = native[w][s]
      /\ h2 \in Seq(Event) /\ Extends(log[w], h2)
      /\ log' = [log EXCEPT ![w] = h2]
  BY <1>0, <1>1, FinishRows
<1>3. s # None => AgentOf[s] = a
  BY <1>0, <1>1, RequestType, FinishFacts
<1> HIDE DEF s, h2
<1>4. Grows
  <2> SUFFICES ASSUME NEW v \in Workstreams PROVE Extends(log[v], log'[v])
    BY DEF Grows
  <2>1. log \in [Workstreams -> Seq(Event)] /\ log[v] \in Seq(Event)
    BY <1>0 DEF TypeOK
  <2>2. CASE v = w
    BY <1>2, <2>1, <2>2
  <2>3. CASE v # w
    BY <1>2, <2>1, <2>3 DEF Extends
  <2> QED BY <2>2, <2>3
<1>5. OrderedImports'
  BY <1>0, <1>1, FinishOrdered
<1>6. CursorsReached'
  <2>1. ASSUME w \in Workstreams, s \in Sessions, native'[w][s].source # native[w][s].source,
               AgentOf[s] \in Exact, native'[w][s].source # None
        PROVE  /\ Reached(log'[w], native'[w][s].source)
               /\ Own(AgentOf[s], native'[w][s].source, s)
    <3>1. /\ s # None /\ native'[w][s].source = l.cursor /\ l.cursor # None
          /\ l.pc = "ready" /\ a \in Exact
          /\ s = IF l.expected # None THEN l.expected ELSE runs[r].session
      BY <1>1, <1>2, <1>3, <2>1, NoneAssumption DEF s
    <3>2. /\ Reached(log[w], l.cursor) /\ l.prepared # None
          /\ Own(a, l.cursor, l.prepared)
          /\ a \notin PathCursors => l.expected \in {None, l.prepared}
          /\ l.expected = None => runs[r].session = l.prepared
      BY <1>0, <3>1 DEF LauncherReached, CarriesCursor, LinksPrepared
    <3>3. a \notin PathCursors => s = l.prepared
      BY <3>1, <3>2
    <3>4. Own(a, l.cursor, s)
      BY <3>2, <3>3 DEF Own
    <3>5. Reached(log'[w], l.cursor)
      BY <1>0, <1>2, <1>4, <3>2, GrowsReached
    <3> QED BY <1>3, <3>1, <3>4, <3>5
  <2> HIDE DEF w
  <2> QED BY <1>0, <1>2, <1>4, <2>1, SourcesFrame
<1> QED BY <1>2, <1>4, <1>5, <1>6

\* Sources and history stay: only the launcher of r has to be looked at.
LEMMA QuietReached ==
    ASSUME LaunchInv, TypeOK', ImportInv, NEW r \in Runs, UNCHANGED log,
           NEW w, NEW s, SameSessions(s, w),
           w \in Workstreams /\ s \in Sessions =>
              native'[w][s].source = native[w][s].source,
           \A q \in Runs \ {r} : SameRow(q) /\ launcher'[q] = launcher[q],
           LauncherReached(r)'
    PROVE  ImportInv'
<1>1. TypeOK /\ Grows
  BY LaunchTypes, SameLogGrows
<1>2. CursorsReached'
  BY <1>1, SourcesFrame DEF ImportInv
<1>3. OrderedImports'
  BY OrderedFrame DEF ImportInv
<1>4. \A q \in Runs \ {r} : LauncherReached(q)'
  BY <1>1, ReachedFrame DEF ImportInv
<1> QED BY <1>2, <1>3, <1>4 DEF ImportInv

LEMMA FinishReached ==
    ASSUME LaunchInv, TypeOK', ImportInv, NEW r \in Runs,
           SpawnFails(r) \/ PassThrough(r) \/ SendBatch(r) \/ BatchReplyLost(r)
    PROVE  ImportInv'
<1>1. /\ Grows /\ \A q \in Runs \ {r} : SameRow(q)
      /\ CursorsReached' /\ OrderedImports'
  BY SpawnFailsReached, BatchReached DEF SendBatch, BatchReplyLost
<1>2. \A q \in Runs \ {r} : launcher'[q] = launcher[q]
  <2>1. launcher \in [Runs -> LauncherRow]
    BY LaunchTypes
  <2>2. /\ SpawnFails(r) => To(r, "dead")
        /\ PassThrough(r) => To(r, "closed")
        /\ BatchReplyLost(r) => UNCHANGED launcher
    BY DEF SpawnFails, PassThrough, BatchReplyLost
  <2>3. SendBatch(r) => launcher' = [launcher EXCEPT ![r] = launcher'[r]]
    BY SendEffect
  <2> QED BY <2>1, <2>2, <2>3 DEF To
<1>3. LauncherReached(r)'
  <2>1. CASE SpawnFails(r) \/ PassThrough(r)
    <3>1. launcher'[r].pc \in {"dead", "closed"}
      <4>1. launcher \in [Runs -> LauncherRow] /\ "dead" \in Stages /\ "closed" \in Stages
        BY LaunchTypes DEF Stages
      <4>2. To(r, "dead") \/ To(r, "closed")
        BY <2>1 DEF SpawnFails, PassThrough
      <4> QED BY <4>1, <4>2, ToFacts
    <3> QED BY <3>1, Silent
  <2>2. CASE SendBatch(r)
    BY <2>2, SendReached
  <2>3. CASE BatchReplyLost(r)
    <3>1. SameGrant(r) /\ UNCHANGED launcher /\ launcher[r].pc = "importing"
      BY <2>3, BatchReached DEF BatchReplyLost, At
    <3>2. runs[r].ws \in Workstreams /\ TypeOK
      BY <3>1, IssuedRun, LaunchTypes
    <3>3. \A c : Reached(log[runs[r].ws], c) => Reached(log'[runs[r].ws], c)
      BY <1>1, <3>2, GrowsReached
    <3>4. LauncherReached(r)
      BY DEF ImportInv
    <3>5. runs'[r].ws = runs[r].ws /\ runs'[r].agent = runs[r].agent
      BY <3>1 DEF SameGrant
    <3>6. Imports(r) => Imports(r)'
      BY <3>1, <3>3, <3>5 DEF Imports
    <3>7. CarriesCursor(r)' /\ LinksPrepared(r)'
      BY <3>1 DEF CarriesCursor, LinksPrepared
    <3> QED BY <3>4, <3>5, <3>6, <3>7 DEF LauncherReached
  <2> QED BY <2>1, <2>2, <2>3
<1>4. \A q \in Runs \ {r} : LauncherReached(q)'
  BY <1>1, <1>2, ReachedFrame DEF ImportInv
<1> QED BY <1>1, <1>3, <1>4 DEF ImportInv

\* The rows of r that no finish touches: their session stays unless a link
\* changes it, and no link or acknowledgement changes a source.
LEMMA LinkSources ==
    ASSUME TypeOK, NEW r \in Runs, NEW s \in Sessions, LinkNativeSession(r, s)
    PROVE  /\ SameSessions(s, runs[r].ws)
           /\ native'[runs[r].ws][s].source = native[runs[r].ws][s].source
           /\ \A q \in Runs \ {r} : SameRow(q)
           /\ SameGrant(r) /\ UNCHANGED log
BY LinkRows

LEMMA AcceptSources ==
    ASSUME TypeOK, NEW r \in Runs, NEW u \in BOOLEAN, AcceptContext(r, u)
    PROVE  /\ SameSessions(runs[r].session, runs[r].ws)
           /\ runs[r].session # None =>
                native'[runs[r].ws][runs[r].session].source =
                  native[runs[r].ws][runs[r].session].source
           /\ \A q \in Runs \ {r} : SameRow(q)
           /\ SameGrant(r) /\ runs'[r].session = runs[r].session /\ UNCHANGED log
BY AcceptRows

LEMMA ImportStep == LaunchInv /\ TypeOK' /\ ImportInv /\ [RunNext]_runVars => ImportInv'
<1> SUFFICES ASSUME LaunchInv, TypeOK', ImportInv, [RunNext]_runVars
             PROVE  ImportInv'
  OBVIOUS
<1>0. /\ TypeOK /\ launcher \in [Runs -> LauncherRow]
      /\ \A q \in Runs : LauncherReached(q)
  BY LaunchTypes, TypesSplit DEF ImportInv, LaunchInv, ProcessTypes
<1>a. ASSUME UNCHANGED <<native, log, launcher>>, \A q \in Runs : SameRow(q)
      PROVE  ImportInv'
  <2>1. Grows /\ SameSessions(None, None)
    BY <1>0, <1>a, SameLogGrows DEF SameSessions
  <2>2. CursorsReached'
    BY <1>0, <1>a, <2>1, SourcesFrame DEF ImportInv
  <2>3. \A q \in Runs : LauncherReached(q)'
    BY <1>0, <1>a, <2>1, ReachedFrame
  <2> QED BY <1>a, <2>2, <2>3, OrderedFrame DEF ImportInv
<1>1. CASE UNCHANGED runVars
  BY <1>1, <1>a, UnchangedRows DEF runVars, ledgerVars
<1>2. CASE TimePasses
  <2>1. Tick /\ UNCHANGED launcher
    BY <1>2 DEF TimePasses
  <2> QED BY <1>0, <1>a, <2>1, QuietRows
<1>3. ASSUME NEW s \in Sessions, WriteRecord(s) PROVE ImportInv'
  BY <1>3, <1>a, UnchangedRows DEF WriteRecord, ledgerVars
<1> SUFFICES ASSUME NEW r \in Runs,
                    \/ Prepare(r) \/ PrepareReplyLost(r)
                    \/ LinkExpected(r) \/ FetchContext(r) \/ Spawn(r) \/ SpawnFails(r)
                    \/ AcceptDirect(r) \/ RenewLease(r)
                    \/ HookLinks(r) \/ HookReads(r) \/ HookClaims(r)
                    \/ Exit(r) \/ Export(r) \/ SendBatch(r) \/ BatchReplyLost(r)
                    \/ BatchAlreadyDone(r) \/ PassThrough(r) \/ GiveUp(r) \/ Crash(r)
             PROVE  ImportInv'
  BY <1>1, <1>2, <1>3 DEF RunNext
<1>d. /\ launcher[r] \in LauncherRow /\ Stage(r)
  BY LaunchTypes
<1>f. {"ready", "linked", "running", "exited", "closed", "dead"} \subseteq Stages
  BY DEF Stages, Harnesses
\* The ledger stays and the launcher of r alone moves.
<1>b. ASSUME UNCHANGED <<native, log>>, \A q \in Runs \ {r} : SameRow(q),
             \A q \in Runs \ {r} : launcher'[q] = launcher[q], LauncherReached(r)'
      PROVE  ImportInv'
  <2>1. SameSessions(None, None)
    BY <1>b DEF SameSessions
  <2> QED BY <1>b, <2>1, QuietReached
<1>c. ASSUME NEW pc \in {"exited", "closed", "dead"}, To(r, pc),
             pc = "exited" => launcher[r].pc = "running",
             UNCHANGED <<native, log>>, \A q \in Runs : SameRow(q)
      PROVE  ImportInv'
  <2>1. /\ launcher'[r].pc = pc /\ Kept(r)
        /\ \A q \in Runs \ {r} : launcher'[q] = launcher[q]
    BY <1>0, <1>c, <1>f, ToFacts
  <2>2. CASE pc # "exited"
    <3>1. LauncherReached(r)'
      BY <2>1, <2>2, Silent
    <3> QED BY <1>b, <1>c, <2>1, <3>1
  <2>3. CASE pc = "exited"
    <3>1. Grows /\ SameGrant(r)
      BY <1>0, <1>c, SameLogGrows DEF SameRow
    <3>2. LauncherReached(r)'
      BY <1>0, <1>c, <2>1, <2>3, <3>1, Carries DEF Kept
    <3> QED BY <1>b, <1>c, <2>1, <3>2
  <2> QED BY <2>2, <2>3
<1>4. CASE Prepare(r)
  <2>1. PICK w \in Workstreams, a \in Agents :
          PrepareRun(r, w, a) /\ launcher' = [launcher EXCEPT ![r] = launcher'[r]]
    BY <1>4, PrepareEffect
  <2>2. UNCHANGED <<native, log>> /\ \A q \in Runs \ {r} : SameRow(q)
    BY <1>0, <2>1, GrantRows
  <2>3. \A q \in Runs \ {r} : launcher'[q] = launcher[q]
    BY <1>0, <2>1
  <2> QED BY <1>4, <1>b, <2>2, <2>3, PrepareReached
<1>5. CASE PrepareReplyLost(r)
  <2>1. PICK w \in Workstreams, a \in Agents : PrepareRun(r, w, a)
    BY <1>5 DEF PrepareReplyLost
  <2>2. UNCHANGED <<native, log>> /\ \A q \in Runs \ {r} : SameRow(q)
    BY <1>0, <2>1, GrantRows
  <2>3. /\ launcher'[r].pc = "dead"
        /\ \A q \in Runs \ {r} : launcher'[q] = launcher[q]
    BY <1>0, <1>5, <1>f, ToFacts DEF PrepareReplyLost
  <2>4. LauncherReached(r)'
    BY <2>3, Silent
  <2> QED BY <1>b, <2>2, <2>3, <2>4
<1>6. CASE SpawnFails(r) \/ PassThrough(r) \/ SendBatch(r) \/ BatchReplyLost(r)
  BY <1>6, FinishReached
<1>7. CASE LinkExpected(r)
  <2>1. /\ launcher[r].pc = "planned" /\ LinkNativeSession(r, launcher[r].expected)
        /\ To(r, IF runs[r].agent \in Direct THEN "linked" ELSE "ready")
    BY <1>7 DEF LinkExpected, At
  <2>2. launcher[r].expected \in Sessions /\ launcher[r].expected # None
    BY <1>d, <2>1 DEF Stage, StageOf, LauncherRow
  <2>3. PICK pc \in {"linked", "ready"} : To(r, pc)
    BY <2>1
  <2>4. /\ launcher'[r].pc = pc /\ Kept(r)
        /\ \A q \in Runs \ {r} : launcher'[q] = launcher[q]
    BY <1>0, <1>f, <2>3, ToFacts
  <2>5. /\ SameSessions(launcher[r].expected, runs[r].ws)
        /\ native'[runs[r].ws][launcher[r].expected].source =
             native[runs[r].ws][launcher[r].expected].source
        /\ \A q \in Runs \ {r} : SameRow(q)
        /\ SameGrant(r) /\ UNCHANGED log
    BY <1>0, <2>1, <2>2, LinkSources
  <2>6. LauncherReached(r)'
    BY <1>0, <2>1, <2>2, <2>4, <2>5, Carries, SameLogGrows DEF Kept
  <2> QED BY <2>4, <2>5, <2>6, QuietReached
<1>8. CASE FetchContext(r) \/ Spawn(r)
  <2>1. /\ launcher' = [launcher EXCEPT ![r] = launcher'[r]]
        /\ launcher'[r].prepared = launcher[r].prepared
        /\ launcher'[r].cursor = launcher[r].cursor
        /\ launcher'[r].expected = launcher[r].expected
        /\ UNCHANGED ledgerVars
        /\ \/ launcher[r].pc = "linked" /\ launcher'[r].pc = "ready"
           \/ launcher[r].pc = "ready" /\ launcher'[r].pc \in {"spawned", "running"}
    <3>1. CASE FetchContext(r)
      BY <3>1, FetchEffect
    <3>2. CASE Spawn(r)
      BY <3>2, SpawnEffect
    <3> QED BY <1>8, <3>1, <3>2
  <2>2. \A q \in Runs \ {r} : launcher'[q] = launcher[q]
    BY <1>0, <2>1
  <2>3. UNCHANGED <<runs, native, log>>
    BY <2>1 DEF ledgerVars
  <2>4. \A q \in Runs : SameRow(q)
    BY <2>3, UnchangedRows
  <2>5. LauncherReached(r)'
    BY <1>0, <2>1, <2>3, <2>4, Carries, SameLogGrows DEF SameRow
  <2> QED BY <1>b, <2>2, <2>3, <2>4, <2>5
<1>9. CASE AcceptDirect(r)
  <2>1. /\ launcher[r].pc = "spawned" /\ To(r, "running")
        /\ AcceptContext(r, FALSE) \/ UNCHANGED ledgerVars
    BY <1>9 DEF AcceptDirect, At
  <2>2. /\ launcher'[r].pc = "running" /\ Kept(r)
        /\ \A q \in Runs \ {r} : launcher'[q] = launcher[q]
    BY <1>0, <1>f, <2>1, ToFacts
  <2>3. CASE AcceptContext(r, FALSE)
    <3>1. /\ SameSessions(runs[r].session, runs[r].ws)
          /\ runs[r].session # None =>
               native'[runs[r].ws][runs[r].session].source =
                 native[runs[r].ws][runs[r].session].source
          /\ \A q \in Runs \ {r} : SameRow(q)
          /\ SameGrant(r) /\ UNCHANGED log
      BY <1>0, <2>3, AcceptSources
    <3>2. LauncherReached(r)'
      BY <1>0, <2>1, <2>2, <3>1, Carries, SameLogGrows DEF Kept
    <3> QED BY <2>2, <3>1, <3>2, QuietReached, NoneAssumption
  <2>4. CASE UNCHANGED ledgerVars
    <3>1. UNCHANGED <<runs, native, log>>
      BY <2>4 DEF ledgerVars
    <3>2. \A q \in Runs : SameRow(q)
      BY <3>1, UnchangedRows
    <3>3. LauncherReached(r)'
      BY <1>0, <2>1, <2>2, <3>1, <3>2, Carries, SameLogGrows DEF Kept, SameRow
    <3> QED BY <1>b, <2>2, <3>1, <3>2, <3>3
  <2> QED BY <2>1, <2>3, <2>4
<1>10. CASE RenewLease(r)
  <2>1. Heartbeat(r) /\ UNCHANGED launcher
    BY <1>10 DEF RenewLease
  <2> QED BY <1>0, <1>a, <2>1, QuietRows
<1>11. CASE HookLinks(r) \/ HookReads(r) \/ HookClaims(r)
  <2>1. UNCHANGED launcher /\ launcher[r].live # None
    BY <1>11, <1>d DEF HookLinks, HookReads, HookClaims, Stage
  <2>2. /\ launcher[r].live \in Sessions
        /\ launcher[r].pc \in {"spawned", "running", "exited", "importing", "closed", "dead"}
    BY <1>d, <2>1 DEF LauncherRow, Stage, StageOf
  <2>3. ASSUME Grows, SameGrant(r) PROVE LauncherReached(r)'
    <3>1. runs[r].ws \in Workstreams
      BY <2>2, IssuedRun
    <3>2. \A c : Reached(log[runs[r].ws], c) => Reached(log'[runs[r].ws], c)
      BY <1>0, <2>3, <3>1, GrowsReached
    <3>3. runs'[r].ws = runs[r].ws /\ runs'[r].agent = runs[r].agent
      BY <2>3 DEF SameGrant
    <3>4. CarriesCursor(r) => CarriesCursor(r)'
      BY <2>1, <3>2, <3>3 DEF CarriesCursor
    <3>5. LinksPrepared(r)'
      BY <2>1, <2>2 DEF LinksPrepared
    <3>6. Imports(r) => Imports(r)'
      BY <2>1, <3>2, <3>3 DEF Imports
    <3> QED BY <1>0, <3>3, <3>4, <3>5, <3>6 DEF LauncherReached
  <2>4. CASE LinkNativeSession(r, launcher[r].live)
    <3>1. /\ SameSessions(launcher[r].live, runs[r].ws)
          /\ native'[runs[r].ws][launcher[r].live].source =
               native[runs[r].ws][launcher[r].live].source
          /\ \A q \in Runs \ {r} : SameRow(q)
          /\ SameGrant(r) /\ UNCHANGED log
      BY <1>0, <2>2, <2>4, LinkSources
    <3> QED BY <1>0, <2>1, <2>3, <3>1, QuietReached, SameLogGrows
  <2>5. CASE AcceptContext(r, TRUE)
    <3>1. /\ SameSessions(runs[r].session, runs[r].ws)
          /\ runs[r].session # None =>
               native'[runs[r].ws][runs[r].session].source =
                 native[runs[r].ws][runs[r].session].source
          /\ \A q \in Runs \ {r} : SameRow(q)
          /\ SameGrant(r) /\ UNCHANGED log
      BY <1>0, <2>5, AcceptSources
    <3> QED BY <1>0, <2>1, <2>3, <3>1, QuietReached, SameLogGrows, NoneAssumption
  <2>6. CASE UNCHANGED ledgerVars
    BY <1>a, <2>1, <2>6, UnchangedRows DEF ledgerVars
  <2> QED BY <1>11, <2>4, <2>5, <2>6 DEF HookLinks, HookReads, HookClaims
<1>12. CASE Exit(r) \/ BatchAlreadyDone(r) \/ GiveUp(r) \/ Crash(r)
  <2>1. PICK pc \in {"exited", "closed", "dead"} :
          /\ To(r, pc)
          /\ pc = "exited" => launcher[r].pc = "running"
    BY <1>12 DEF Exit, BatchAlreadyDone, GiveUp, Crash, At
  <2>2. UNCHANGED ledgerVars \/ CancelRun(r)
    BY <1>12 DEF Exit, BatchAlreadyDone, GiveUp, Crash
  <2>3. UNCHANGED <<native, log>> /\ \A q \in Runs : SameRow(q)
    BY <1>0, <2>2, UnchangedRows, QuietRows DEF ledgerVars
  <2> QED BY <1>c, <2>1, <2>3
<1>13. CASE Export(r)
  <2>1. /\ launcher' = [launcher EXCEPT ![r] = launcher'[r]]
        /\ UNCHANGED ledgerVars
    BY <1>13, ExportEffect
  <2>2. \A q \in Runs \ {r} : launcher'[q] = launcher[q]
    BY <1>0, <2>1
  <2>3. UNCHANGED <<runs, native, log>>
    BY <2>1 DEF ledgerVars
  <2>4. LauncherReached(r)'
    BY <1>0, <1>13, ExportReached
  <2> QED BY <1>b, <2>2, <2>3, <2>4, UnchangedRows
<1> QED BY <1>4, <1>5, <1>6, <1>7, <1>8, <1>9, <1>10, <1>11, <1>12, <1>13

LEMMA ImportStart == RunInit => ImportInv
<1> SUFFICES ASSUME RunInit PROVE ImportInv
  OBVIOUS
<1>1. /\ native = [w \in Workstreams |-> [s \in Sessions |-> NoSessionRow]]
      /\ log = [w \in Workstreams |-> <<>>]
      /\ launcher = [r \in Runs |-> NoLauncher]
  BY DEF RunInit, Init
<1>2. \A w \in Workstreams, s \in Sessions : native[w][s].source = None
  BY <1>1 DEF NoSessionRow
<1>3. \A r \in Runs : launcher[r].pc = "off"
  BY <1>1 DEF NoLauncher
<1>4. ASSUME NEW w \in Workstreams PROVE DOMAIN log[w] = {}
  <2>1. log[w] = <<>>
    BY <1>1
  <2> QED BY <2>1
<1>5. CursorsReached
  BY <1>2 DEF CursorsReached
<1>6. \A r \in Runs : LauncherReached(r)
  BY <1>3 DEF LauncherReached, CarriesCursor, LinksPrepared, Imports
<1>7. OrderedImports
  BY <1>4 DEF OrderedImports
<1> QED BY <1>5, <1>6, <1>7 DEF ImportInv

---------------------------------------------------------------------------
\* Every cursor of an exact harness lies behind records that the history
\* holds, in the tables and on its way through a launcher, and their records
\* were imported in order.
THEOREM ImportInvariant == RunSpec => []ImportInv
<1>1. RunSpec => []TypeOK
  BY LedgerUnderRuns, TypeInvariant, PTL
<1> QED BY <1>1, ImportStart, ImportStep, LaunchInvariant, PTL DEF RunSpec

\* Among harnesses whose cursors are all exact, no cursor lets an export skip
\* a record that the history lacks.
THEOREM SourcesAreCovered ==
    ASSUME Agents \subseteq Exact
    PROVE  RunSpec => []SourceCovered
<1>1. LaunchInv /\ ImportInv => SourceCovered
  <2> SUFFICES ASSUME LaunchInv, ImportInv,
                      NEW w \in Workstreams, NEW s \in Sessions,
                      native[w][s].source # None, native[w][s].source[1] = s,
                      NEW n \in 1..native[w][s].source[2]
               PROVE  HasEvent(log[w], <<s, n>>)
    BY DEF SourceCovered
  <2>1. AgentOf[s] \in Exact
    BY AgentOfAssumption
  <2> QED BY <2>1 DEF ImportInv, CursorsReached, Reached
<1> QED BY <1>1, LaunchInvariant, ImportInvariant, PTL

\* Among such harnesses every history holds the records of a session in
\* their order and without a gap.
THEOREM ImportsAreOrdered ==
    ASSUME Agents \subseteq Exact
    PROVE  RunSpec => []ImportedInOrder
<1>1. ImportInv => ImportedInOrder
  <2> SUFFICES ASSUME ImportInv, NEW w \in Workstreams, NEW i \in DOMAIN log[w],
                      log[w][i].id \in RecordIds, log[w][i].id[2] > 1
               PROVE  \E j \in 1..(i - 1) :
                        log[w][j].id = <<log[w][i].id[1], log[w][i].id[2] - 1>>
    BY DEF ImportedInOrder
  <2>1. AgentOf[log[w][i].id[1]] \in Exact
    BY AgentOfAssumption, RecordFacts
  <2> QED BY <2>1 DEF ImportInv, OrderedImports
<1> QED BY <1>1, ImportInvariant, PTL

---------------------------------------------------------------------------
(* The packets.  The launcher of a pinned harness names the session before *)
(* it starts, so that the session of the run, the one that gets the packet *)
(* and the one that is finished are the same.                              *)

NamesOne(r) ==
    LET l == launcher[r]
    IN /\ l.pc \in Harnesses => l.expected # None
       /\ l.live # None => l.expected = l.live
       /\ l.pc = "importing" => l.native = l.live
       /\ runs[r].delivered => l.live # None

LinksOne(r) ==
    LET l == launcher[r]
        s == runs[r].session
    IN l.pc \in {"linked", "ready"} \/ l.live # None =>
          l.expected # None /\ s = l.expected /\ native[runs[r].ws][s].linked

\* What the acknowledgement and the finish of an active run will claim for
\* its session is true: the packet on its way is the run's range, and what
\* lies beyond the range is the session's own.
Earned(r) ==
    LET l == launcher[r]
        w == runs[r].ws
        s == runs[r].session
    IN /\ s # None => runs[r].after <= native[w][s].delivery
       /\ runs[r].delivered => \A i \in 1..runs[r].through : Knows(s, w, i)
       /\ \A i \in DOMAIN log[w] : i > runs[r].through => log[w][i].session = s
       /\ l.pc = "planned" => Len(log[w]) <= runs[r].through
       /\ l.pc = "ready" /\ runs[r].agent \in Direct =>
             l.from = runs[r].after /\ l.upto = runs[r].through
       /\ l.pc = "spawned" =>
             \A i \in 1..runs[r].through : i > runs[r].after => Knows(s, w, i)
       /\ hook[r].pc = "read" =>
             hook[r].after = runs[r].after /\ hook[r].through = runs[r].through

Delivering(r) ==
    runs[r].agent \in Pinned =>
        NamesOne(r) /\ LinksOne(r) /\ (Active(r) => Earned(r))

DeliveryInv == HonestDelivery /\ \A r \in Runs : Delivering(r)

---------------------------------------------------------------------------
(* Nothing is forgotten. *)

KnowsAfter(s, w, i) == log'[w][i].session = s \/ log'[w][i].id \in known'[s]

Forward ==
    /\ Grows
    /\ \A s \in Sessions : known[s] \subseteq known'[s]
    /\ \A w \in Workstreams, s \in Sessions :
          /\ native[w][s].linked => native'[w][s].linked
          /\ native[w][s].delivery <= native'[w][s].delivery

LEMMA KnownGrows ==
    ASSUME LaunchInv, [RunNext]_runVars
    PROVE  \A s \in Sessions : known[s] \subseteq known'[s]
<1>1. known \in [Sessions -> SUBSET (RecordIds \cup Runs)]
  BY DEF LaunchInv, RunTypeOK
<1>2. ASSUME NEW x \in Sessions, NEW p, known' = [known EXCEPT ![x] = @ \cup p]
      PROVE  \A s \in Sessions : known[s] \subseteq known'[s]
  BY <1>1, <1>2
<1>3. CASE UNCHANGED known
  BY <1>3
<1>4. CASE \E r \in Runs : Spawn(r)
  <2>1. PICK r \in Runs : Spawn(r)
    BY <1>4
  <2>2. /\ launcher'[r].live \in Sessions
        /\ known' = [known EXCEPT ![launcher'[r].live] =
                       @ \cup Packet(runs[r].ws, launcher[r].from, launcher[r].upto)]
    BY <2>1, SpawnEffect
  <2> QED BY <1>2, <2>2
<1>5. CASE \E r \in Runs : HookClaims(r) /\ ~UNCHANGED known
  <2>1. PICK r \in Runs : HookClaims(r) /\ ~UNCHANGED known
    BY <1>5
  <2>2. known' = [known EXCEPT ![launcher[r].live] =
                    @ \cup Packet(runs[r].ws, hook[r].after, hook[r].through)]
        /\ hook[r].pc # "idle"
    BY <2>1 DEF HookClaims
  <2>3. launcher[r].live \in Sessions
    BY <2>2, LaunchTypes DEF Stage, LauncherRow
  <2> QED BY <1>2, <2>2, <2>3
<1>6. CASE UNCHANGED runVars \/ TimePasses \/ \E s \in Sessions : WriteRecord(s)
  BY <1>3, <1>6 DEF runVars, TimePasses, WriteRecord
<1>7. ASSUME NEW r \in Runs,
             \/ Prepare(r) \/ PrepareReplyLost(r) \/ LinkExpected(r) \/ FetchContext(r)
             \/ SpawnFails(r) \/ AcceptDirect(r) \/ RenewLease(r) \/ HookLinks(r)
             \/ HookReads(r)
      PROVE  UNCHANGED known
  BY <1>7 DEF Prepare, PrepareReplyLost, LinkExpected, FetchContext, SpawnFails, AcceptDirect,
              RenewLease, HookLinks, HookReads
<1>8. ASSUME NEW r \in Runs,
             \/ Exit(r) \/ Export(r) \/ SendBatch(r) \/ BatchReplyLost(r)
             \/ BatchAlreadyDone(r) \/ PassThrough(r) \/ GiveUp(r) \/ Crash(r)
      PROVE  UNCHANGED known
  BY <1>8 DEF Exit, Export, SendBatch, BatchReplyLost, BatchAlreadyDone, PassThrough, GiveUp,
              Crash
<1>9. CASE \E r \in Runs : HookClaims(r)
  BY <1>3, <1>5, <1>9
<1> QED BY <1>3, <1>4, <1>6, <1>7, <1>8, <1>9 DEF RunNext

LEMMA LinksStay ==
    ASSUME TypeOK, [Next]_ledgerVars, NEW v \in Workstreams, NEW x \in Sessions,
           native[v][x].linked
    PROVE  native'[v][x].linked
<1>1. CASE Quiet
  BY <1>1 DEF Quiet
<1>2. CASE \E r \in Runs, w \in Workstreams, a \in Agents : PrepareRun(r, w, a)
  BY <1>2, GrantRows
<1>3. ASSUME NEW r \in Runs, NEW s \in Sessions, LinkNativeSession(r, s)
      PROVE  native'[v][x].linked
  <2>1. native'[runs[r].ws][s].linked /\ SameSessions(s, runs[r].ws)
    BY <1>3, LinkRows
  <2> QED BY <2>1 DEF SameSessions
<1>4. ASSUME NEW r \in Runs, NEW u \in BOOLEAN, AcceptContext(r, u)
      PROVE  native'[v][x].linked
  <2>1. /\ SameSessions(runs[r].session, runs[r].ws)
        /\ runs[r].session # None => native'[runs[r].ws][runs[r].session].linked
                                       = native[runs[r].ws][runs[r].session].linked
    BY <1>4, AcceptRows
  <2> QED BY <2>1, NoneAssumption DEF SameSessions
<1>5. ASSUME NEW r \in Runs, NEW in \in Request(r), FinishRun(r, in)
      PROVE  native'[v][x].linked
  <2> DEFINE s == FinishSession(r, in)
  <2>1. /\ SameSessions(s, runs[r].ws)
        /\ s # None /\ in.complete => native'[runs[r].ws][s].linked
        /\ s # None /\ ~in.complete => native'[runs[r].ws][s] = native[runs[r].ws][s]
    BY <1>5, FinishRows
  <2> HIDE DEF s
  <2> QED BY <2>1, NoneAssumption DEF SameSessions
<1> QED BY <1>1, <1>2, <1>3, <1>4, <1>5, StepCases

NoRegress == \A w \in Workstreams, s \in Sessions :
                native'[w][s].delivery >= native[w][s].delivery

LEMMA ForwardStep ==
    ASSUME LaunchInv, [RunNext]_runVars, [LedgerStep]_ledgerVars, [NoRegress]_ledgerVars
    PROVE  Forward
<1>1. TypeOK /\ [Next]_ledgerVars
  BY LaunchTypes, LedgerSteps, TypesSplit DEF LaunchInv
<1>2. \A w \in Workstreams, s \in Sessions : native[w][s].delivery \in Nat
  BY <1>1 DEF TypeOK, SessionRow
<1>3. Grows
  <2>1. CASE UNCHANGED ledgerVars
    BY <1>1, <2>1, SameLogGrows DEF ledgerVars
  <2>2. CASE LedgerStep
    BY <2>2 DEF LedgerStep, Grows
  <2> QED BY <2>1, <2>2
<1>4. ASSUME NEW w \in Workstreams, NEW s \in Sessions
      PROVE  native[w][s].delivery <= native'[w][s].delivery
  <2>1. CASE UNCHANGED ledgerVars
    BY <1>2, <2>1 DEF ledgerVars
  <2>2. CASE NoRegress
    BY <2>2 DEF NoRegress
  <2> QED BY <2>1, <2>2
<1>5. \A w \in Workstreams, s \in Sessions : native[w][s].linked => native'[w][s].linked
  BY <1>1, LinksStay
<1> QED BY <1>3, <1>4, <1>5, KnownGrows DEF Forward

\* What a session knows of a history it goes on knowing.
LEMMA KnowsKept ==
    ASSUME TypeOK, Forward, NEW w \in Workstreams, NEW s \in Sessions,
           NEW i \in 1..Len(log[w]), Knows(s, w, i)
    PROVE  KnowsAfter(s, w, i)
<1>1. log[w] \in Seq(Event) /\ Extends(log[w], log'[w])
  BY DEF TypeOK, Forward, Grows
<1>2. log'[w][i] = log[w][i]
  BY <1>1 DEF Extends
<1> QED BY <1>2 DEF Knows, KnowsAfter, Forward

LEMMA HonestFrame ==
    ASSUME TypeOK, TypeOK', DeliveryWithinLedger, HonestDelivery, Forward,
           NEW w, NEW s, SameSessions(s, w),
           w \in Workstreams /\ s \in Sessions /\ AgentOf[s] \in Pinned =>
              \/ native'[w][s].delivery = native[w][s].delivery
              \/ \A i \in 1..native'[w][s].delivery : KnowsAfter(s, w, i)
    PROVE  HonestDelivery'
<1> SUFFICES ASSUME NEW v \in Workstreams, NEW x \in Sessions, AgentOf[x] \in Pinned,
                    NEW i \in 1..native'[v][x].delivery
             PROVE  KnowsAfter(x, v, i)
  BY DEF HonestDelivery, Knows, KnowsAfter
<1>1. CASE native'[v][x].delivery = native[v][x].delivery
  <2>1. /\ native[v][x].delivery \in Nat /\ Len(log[v]) \in Nat
        /\ native[v][x].delivery <= Len(log[v])
    BY DEF TypeOK, SessionRow, DeliveryWithinLedger
  <2>2. i \in 1..native[v][x].delivery /\ i \in 1..Len(log[v])
    BY <1>1, <2>1
  <2>3. Knows(x, v, i)
    BY <2>2 DEF HonestDelivery
  <2> QED BY <2>2, <2>3, KnowsKept
<1>2. CASE ~(native'[v][x].delivery = native[v][x].delivery)
  <2>1. v = w /\ x = s
    BY <1>2 DEF SameSessions
  <2> QED BY <1>2, <2>1
<1> QED BY <1>1, <1>2

\* A run whose rows, launcher and hook stay, and whose history stays while it
\* is active.
LEMMA DeliverFrame ==
    ASSUME LaunchInv, TypeOK', IInv, Forward, NEW q \in Runs, Delivering(q),
           SameRow(q), launcher'[q] = launcher[q], hook'[q] = hook[q],
           Active(q) => log'[runs[q].ws] = log[runs[q].ws]
    PROVE  Delivering(q)'
<1>0. TypeOK
  BY DEF IInv
<1>1. /\ runs'[q].ws = runs[q].ws /\ runs'[q].agent = runs[q].agent
      /\ runs'[q].through = runs[q].through /\ runs'[q].after = runs[q].after
      /\ runs'[q].session = runs[q].session /\ runs'[q].delivered = runs[q].delivered
      /\ runs'[q].state = "active" => runs[q].state = "active"
  BY DEF SameRow, SameGrant
<1> SUFFICES ASSUME runs[q].agent \in Pinned
             PROVE  NamesOne(q)' /\ LinksOne(q)' /\ (Active(q)' => Earned(q)')
  BY <1>1 DEF Delivering
<1>2. NamesOne(q)'
  BY <1>1 DEF Delivering, NamesOne
<1>3. CASE launcher[q].pc = "off"
  <2>1. launcher[q].live = None /\ runs[q].state = "free"
    BY <1>3, LaunchTypes DEF Stage, StageOf
  <2> QED BY <1>1, <1>2, <1>3, <2>1 DEF LinksOne, Active
<1>4. CASE launcher[q].pc # "off"
  <2>1. /\ runs[q].ws \in Workstreams /\ runs[q].session \in Sessions \cup {None}
        /\ runs[q].after \in Nat /\ runs[q].through \in Nat
    BY <1>4, IssuedRun
  <2>2. LinksOne(q)'
    <3> SUFFICES ASSUME launcher[q].pc \in {"linked", "ready"} \/ launcher[q].live # None
                 PROVE  /\ launcher[q].expected # None
                        /\ runs[q].session = launcher[q].expected
                        /\ native'[runs[q].ws][runs[q].session].linked
      BY <1>1 DEF LinksOne
    <3>1. /\ launcher[q].expected # None
          /\ runs[q].session = launcher[q].expected
          /\ native[runs[q].ws][runs[q].session].linked
      BY DEF Delivering, LinksOne
    <3>2. runs[q].session \in Sessions
      BY <2>1, <3>1
    <3> QED BY <2>1, <3>1, <3>2 DEF Forward
  <2>3. ASSUME Active(q), Earned(q) PROVE Earned(q)'
    <3> DEFINE w == runs[q].ws
               s == runs[q].session
    <3>1. /\ log'[w] = log[w] /\ runs[q].through <= Len(log[w]) /\ Len(log[w]) \in Nat
      BY <1>0, <2>1, <2>3 DEF IInv, CursorsWithinSync, TypeOK
    <3>2. s # None => runs[q].after <= native'[w][s].delivery
      <4> SUFFICES ASSUME s # None PROVE runs[q].after <= native'[w][s].delivery
        OBVIOUS
      <4>1. /\ runs[q].after <= native[w][s].delivery
            /\ native[w][s].delivery <= native'[w][s].delivery
            /\ native[w][s].delivery \in Nat /\ native'[w][s].delivery \in Nat
        BY <1>0, <2>1, <2>3 DEF Earned, Forward, TypeOK, SessionRow
      <4> QED BY <2>1, <4>1
    <3>3. \A i \in 1..runs[q].through : s # None /\ Knows(s, w, i) => KnowsAfter(s, w, i)
      BY <1>0, <2>1, <3>1, KnowsKept
    <3>4. s # None \/ (launcher[q].live = None /\ launcher[q].pc # "spawned")
      <4>1. launcher[q].pc = "spawned" => launcher[q].live # None
        BY LaunchTypes DEF Stage, StageOf
      <4> QED BY <4>1 DEF Delivering, LinksOne
    <3>5. runs[q].delivered => launcher[q].live # None
      BY DEF Delivering, NamesOne
    <3>6. runs[q].delivered => \A i \in 1..runs[q].through : KnowsAfter(s, w, i)
      BY <2>3, <3>3, <3>4, <3>5 DEF Earned
    <3>7. launcher[q].pc = "spawned" =>
            \A i \in 1..runs[q].through : i > runs[q].after => KnowsAfter(s, w, i)
      BY <2>3, <3>3, <3>4 DEF Earned
    <3> QED BY <1>1, <2>3, <3>1, <3>2, <3>6, <3>7 DEF Earned, Knows, KnowsAfter
  <2> QED BY <1>1, <1>2, <2>2, <2>3 DEF Active, Delivering
<1> QED BY <1>3, <1>4

---------------------------------------------------------------------------
(* DeliveryInv is inductive. *)

\* The facts a step starts from, and what it keeps in any case.
Onward == LaunchInv /\ TypeOK' /\ IInv /\ DeliveryInv /\ Forward

LEMMA OnwardFacts ==
    ASSUME Onward
    PROVE  /\ LaunchInv /\ TypeOK /\ TypeOK' /\ IInv /\ Forward
           /\ DeliveryWithinLedger /\ CursorsWithinSync /\ OneActiveRunPerWorkstream
           /\ HonestDelivery
           /\ \A r \in Runs : Delivering(r)
BY DEF Onward, IInv, DeliveryInv

\* The run of a pinned harness, once it is issued.
LEMMA PinnedRun ==
    ASSUME Onward, NEW r \in Runs, launcher[r].pc # "off"
    PROVE  /\ runs[r].ws \in Workstreams /\ runs[r].session \in Sessions \cup {None}
           /\ runs[r].after \in Nat /\ runs[r].through \in Nat
           /\ runs[r].session # None => AgentOf[runs[r].session] = runs[r].agent
           /\ launcher[r] \in LauncherRow /\ Stage(r)
           /\ log[runs[r].ws] \in Seq(Event)
           /\ Active(r) => runs[r].through <= Len(log[runs[r].ws])
           /\ runs[r].agent \in Pinned =>
                 NamesOne(r) /\ LinksOne(r) /\ (Active(r) => Earned(r))
<1>1. LaunchInv /\ TypeOK /\ CursorsWithinSync /\ Delivering(r)
  BY OnwardFacts
<1>2. /\ runs[r].ws \in Workstreams /\ runs[r].session \in Sessions \cup {None}
      /\ runs[r].after \in Nat /\ runs[r].through \in Nat
      /\ runs[r].session # None => AgentOf[runs[r].session] = runs[r].agent
  BY <1>1, IssuedRun
<1>3. launcher[r] \in LauncherRow /\ Stage(r)
  BY <1>1, LaunchTypes
<1> QED BY <1>1, <1>2, <1>3 DEF TypeOK, CursorsWithinSync, Delivering

LEMMA OthersDeliver ==
    ASSUME Onward, NEW r \in Runs, Alone(r), Delivering(r)',
           \A q \in Runs \ {r} : Active(q) => log'[runs[q].ws] = log[runs[q].ws]
    PROVE  \A q \in Runs : Delivering(q)'
<1> SUFFICES ASSUME NEW q \in Runs, q # r PROVE Delivering(q)'
  OBVIOUS
<1>1. SameRow(q) /\ launcher'[q] = launcher[q] /\ hook'[q] = hook[q]
  BY DEF Alone
<1> QED BY <1>1, OnwardFacts, DeliverFrame

\* No session is marked as knowing more.
LEMMA SameMarks ==
    ASSUME Onward, UNCHANGED native
    PROVE  HonestDelivery'
<1>1. SameSessions(None, None)
  BY DEF SameSessions
<1> QED BY <1>1, OnwardFacts, HonestFrame, NoneAssumption

\* A grant promises the range from what its session knows to the end of the
\* history; nothing lies beyond it.
LEMMA GrantDelivers ==
    ASSUME Onward, NEW r \in Runs, NEW w \in Workstreams, NEW a \in Agents,
           PrepareRun(r, w, a), Alone(r),
           launcher'[r].live = None, hook'[r].pc = "idle",
           \/ launcher'[r].pc \in {"passing", "dead"}
           \/ launcher'[r].pc = "planned" /\ launcher'[r].expected # None
    PROVE  DeliveryInv'
<1>1. /\ runs'[r] = GrantedRow(w, a) /\ UNCHANGED <<native, log>>
  BY OnwardFacts, GrantRows
<1>2. log[w] \in Seq(Event)
  BY OnwardFacts DEF TypeOK
<1>3. /\ runs'[r].ws = w /\ runs'[r].through = Len(log[w]) /\ ~runs'[r].delivered
      /\ runs'[r].session # None => runs'[r].after = native[w][runs'[r].session].delivery
  BY <1>1 DEF GrantedRow
<1>4. runs'[r].session \in Sessions \cup {None}
  BY <1>1, OnwardFacts, GrantedRowType DEF RunRow
<1>5. NamesOne(r)' /\ LinksOne(r)'
  BY <1>3 DEF NamesOne, LinksOne, Harnesses
<1>6. runs'[r].session # None => runs'[r].after <= native'[w][runs'[r].session].delivery
  <2> SUFFICES ASSUME runs'[r].session # None
               PROVE  runs'[r].after <= native'[w][runs'[r].session].delivery
    OBVIOUS
  <2>1. native[w][runs'[r].session].delivery \in Nat
    BY <1>4, OnwardFacts DEF TypeOK, SessionRow
  <2> QED BY <1>1, <1>3, <2>1
<1>7. \A i \in DOMAIN log'[w] : ~(i > Len(log[w]))
  BY <1>1, <1>2
<1>8. Len(log'[w]) <= Len(log[w])
  BY <1>1, <1>2
<1>9. Earned(r)'
  BY <1>3, <1>6, <1>7, <1>8 DEF Earned
<1>10. Delivering(r)'
  BY <1>5, <1>9 DEF Delivering
<1>11. \A q \in Runs : Delivering(q)'
  BY <1>1, <1>10, OthersDeliver
<1> QED BY <1>1, <1>11, SameMarks DEF DeliveryInv

\* A launcher moves to a stage that promises no more, and its run stays.
LEMMA MoveDelivers ==
    ASSUME Onward, NEW r \in Runs, launcher[r].pc # "off", SameRow(r), Kept(r),
           hook'[r] = hook[r], UNCHANGED <<native, log>>,
           \/ launcher'[r].pc \in {"closed", "dead"}
           \/ launcher'[r].pc \in {"running", "exited"} /\ launcher[r].pc \in {"spawned", "running"}
    PROVE  Delivering(r)'
<1>1. /\ runs'[r].ws = runs[r].ws /\ runs'[r].agent = runs[r].agent
      /\ runs'[r].through = runs[r].through /\ runs'[r].after = runs[r].after
      /\ runs'[r].session = runs[r].session /\ runs'[r].delivered = runs[r].delivered
      /\ runs'[r].state = "active" => runs[r].state = "active"
  BY DEF SameRow, SameGrant
<1> SUFFICES ASSUME runs[r].agent \in Pinned
             PROVE  NamesOne(r)' /\ LinksOne(r)' /\ (Active(r)' => Earned(r)')
  BY <1>1 DEF Delivering
<1>2. /\ NamesOne(r) /\ LinksOne(r) /\ (Active(r) => Earned(r))
      /\ runs[r].ws \in Workstreams /\ runs[r].session \in Sessions \cup {None}
      /\ runs[r].through \in Nat
      /\ log[runs[r].ws] \in Seq(Event)
      /\ Active(r) => runs[r].through <= Len(log[runs[r].ws])
      /\ TypeOK /\ Forward
  BY PinnedRun, OnwardFacts
<1>3. NamesOne(r)'
  BY <1>1, <1>2 DEF NamesOne, Kept, Harnesses
<1>4. LinksOne(r)'
  BY <1>1, <1>2 DEF LinksOne, Kept
<1>5. ASSUME Active(r), Earned(r) PROVE Earned(r)'
  <2> DEFINE w == runs[r].ws
             s == runs[r].session
  <2>1. runs[r].delivered => s \in Sessions /\ \A i \in 1..runs[r].through : KnowsAfter(s, w, i)
    <3> SUFFICES ASSUME runs[r].delivered
                 PROVE  s \in Sessions /\ \A i \in 1..runs[r].through : KnowsAfter(s, w, i)
      OBVIOUS
    <3>1. s \in Sessions
      BY <1>2 DEF NamesOne, LinksOne
    <3>2. \A i \in 1..runs[r].through : i \in 1..Len(log[w]) /\ Knows(s, w, i)
      BY <1>2, <1>5 DEF Earned
    <3> QED BY <1>2, <3>1, <3>2, KnowsKept
  <2> QED BY <1>1, <1>5, <2>1 DEF Earned, Knows, KnowsAfter
<1> QED BY <1>1, <1>2, <1>3, <1>4, <1>5 DEF Active

\* A link of the named session: what it is marked with, it was given.
LEMMA LinkDelivers ==
    ASSUME Onward, NEW r \in Runs, NEW s \in Sessions, LinkNativeSession(r, s), Alone(r),
           Kept(r), UNCHANGED known,
           \/ /\ launcher[r].pc = "planned" /\ s = launcher[r].expected
              /\ launcher'[r].pc \in {"linked", "ready"}
              /\ runs[r].agent \in Direct => launcher'[r].pc = "linked"
              /\ hook'[r].pc = "idle"
           \/ /\ launcher[r].pc \in {"running", "exited", "importing", "dead", "closed"}
              /\ launcher'[r].pc = launcher[r].pc
              /\ s = launcher[r].live /\ hook'[r].pc = "linked"
    PROVE  DeliveryInv'
<1> DEFINE w == runs[r].ws
<1>1. /\ Active(r) /\ w \in Workstreams
      /\ SameGrant(r) /\ runs'[r].session = s /\ runs'[r].delivered = runs[r].delivered
      /\ native'[w][s].linked
      /\ native'[w][s].delivery = runs'[r].after
      /\ native[w][s].linked => runs'[r].after = native[w][s].delivery
      /\ ~native[w][s].linked /\ ~runs[r].delivered => runs'[r].after = 0
      /\ SameSessions(s, w)
      /\ UNCHANGED log
  BY OnwardFacts, LinkRows
<1>2. /\ runs'[r].ws = w /\ runs'[r].agent = runs[r].agent
      /\ runs'[r].through = runs[r].through
      /\ AgentOf[s] = runs[r].agent /\ s # None
  BY <1>1, NoneAssumption DEF SameGrant, LinkNativeSession, CanLink
<1>3. /\ Stage(r) /\ log[w] \in Seq(Event) /\ TypeOK /\ TypeOK' /\ Forward
      /\ runs[r].through \in Nat /\ runs[r].through <= Len(log[w])
      /\ runs[r].agent \in Pinned => NamesOne(r) /\ LinksOne(r) /\ Earned(r)
      /\ native'[w][s].delivery \in Nat
  <2>1. launcher[r].pc # "off" /\ TypeOK /\ TypeOK' /\ Forward
    BY OnwardFacts
  <2>2. native'[w][s].delivery \in Nat
    BY <1>1, <2>1 DEF TypeOK, SessionRow
  <2> QED BY <1>1, <2>1, <2>2, PinnedRun
<1>4. ASSUME runs[r].agent \in Pinned
      PROVE  \/ native'[w][s].delivery = native[w][s].delivery
             \/ native'[w][s].delivery = 0
  <2>1. CASE launcher[r].pc = "planned"
    <3>1. ~runs[r].delivered
      BY <1>3, <1>4, <2>1 DEF NamesOne, Stage, StageOf
    <3> QED BY <1>1, <3>1
  <2>2. CASE launcher[r].pc # "planned"
    <3>1. native[w][s].linked
      BY <1>2, <1>3, <1>4, <2>2 DEF NamesOne, LinksOne
    <3> QED BY <1>1, <3>1
  <2> QED BY <2>1, <2>2
<1>5. HonestDelivery'
  <2>1. AgentOf[s] \in Pinned =>
           \/ native'[w][s].delivery = native[w][s].delivery
           \/ \A i \in 1..native'[w][s].delivery : KnowsAfter(s, w, i)
    BY <1>2, <1>4
  <2> QED BY <1>1, <2>1, OnwardFacts, HonestFrame
<1>6. Delivering(r)'
  <2> SUFFICES ASSUME runs[r].agent \in Pinned
               PROVE  NamesOne(r)' /\ LinksOne(r)' /\ Earned(r)'
    BY <1>2 DEF Delivering
  <2>1. NamesOne(r)'
    BY <1>1, <1>3 DEF NamesOne, Kept, Harnesses
  <2>2. launcher'[r].expected = s
    BY <1>2, <1>3 DEF NamesOne, Kept
  <2>3. LinksOne(r)'
    BY <1>1, <1>2, <2>2 DEF LinksOne
  <2>4. runs'[r].after <= native'[w][s].delivery
    BY <1>1, <1>3
  <2>5. runs[r].delivered => \A i \in 1..runs[r].through : KnowsAfter(s, w, i)
    <3> SUFFICES ASSUME runs[r].delivered, NEW i \in 1..runs[r].through
                 PROVE  KnowsAfter(s, w, i)
      OBVIOUS
    <3>1. runs[r].session = s
      BY <1>3 DEF NamesOne, LinksOne, Stage, StageOf
    <3>2. Knows(s, w, i) /\ i \in 1..Len(log[w])
      BY <1>3, <3>1 DEF Earned
    <3> QED BY <1>1, <1>3, <3>2, KnowsKept
  <2>6. \A i \in DOMAIN log[w] : i > runs[r].through => log[w][i].session = s
    <3>1. CASE launcher[r].pc = "planned"
      <4>1. Len(log[w]) <= runs[r].through
        BY <1>3, <3>1 DEF Earned
      <4> QED BY <1>3, <4>1
    <3>2. CASE launcher[r].pc # "planned"
      <4>1. runs[r].session = s
        BY <1>2, <1>3, <3>2 DEF NamesOne, LinksOne
      <4> QED BY <1>3, <4>1 DEF Earned
    <3> QED BY <3>1, <3>2
  <2>7. /\ launcher'[r].pc # "planned" /\ launcher'[r].pc # "spawned"
        /\ hook'[r].pc # "read"
        /\ ~(launcher'[r].pc = "ready" /\ runs'[r].agent \in Direct)
    BY <1>2
  <2> QED BY <1>1, <1>2, <2>1, <2>3, <2>4, <2>5, <2>6, <2>7 DEF Earned, Knows, KnowsAfter
<1>7. \A q \in Runs : Delivering(q)'
  BY <1>1, <1>6, OthersDeliver
<1> QED BY <1>5, <1>7 DEF DeliveryInv

\* An acknowledgement: the session knows what came before the range, and the
\* range was given to it, now or when the harness started.
LEMMA AcceptDelivers ==
    ASSUME Onward, NEW r \in Runs, NEW u \in BOOLEAN, AcceptContext(r, u), Alone(r), Kept(r),
           launcher[r].live # None, launcher'[r].pc \notin {"planned", "linked", "ready"},
           launcher'[r].pc \in Harnesses => launcher[r].pc \in Harnesses,
           launcher'[r].pc = "importing" => launcher[r].pc = "importing",
           hook'[r].pc # "read" \/ hook'[r] = hook[r],
           runs[r].agent \in Pinned =>
              \A i \in 1..runs[r].through : i > runs[r].after =>
                 KnowsAfter(runs[r].session, runs[r].ws, i)
    PROVE  DeliveryInv'
<1> DEFINE w == runs[r].ws
           s == runs[r].session
<1>1. /\ Active(r) /\ w \in Workstreams
      /\ SameGrant(r) /\ runs'[r].after = runs[r].after /\ runs'[r].session = s
      /\ SameSessions(s, w)
      /\ s # None =>
           /\ native'[w][s].linked = native[w][s].linked
           /\ native'[w][s].delivery \in {native[w][s].delivery, runs[r].through}
           /\ native[w][s].delivery <= native'[w][s].delivery
      /\ UNCHANGED log
  BY OnwardFacts, AcceptRows
<1>2. /\ runs'[r].ws = w /\ runs'[r].agent = runs[r].agent
      /\ runs'[r].through = runs[r].through
  BY <1>1 DEF SameGrant
<1>3. /\ Stage(r) /\ log[w] \in Seq(Event) /\ TypeOK /\ TypeOK' /\ Forward
      /\ HonestDelivery
      /\ s \in Sessions \cup {None} /\ (s # None => AgentOf[s] = runs[r].agent)
      /\ runs[r].through \in Nat /\ runs[r].through <= Len(log[w]) /\ runs[r].after \in Nat
      /\ runs[r].agent \in Pinned => NamesOne(r) /\ LinksOne(r) /\ Earned(r)
  <2>1. launcher[r].pc # "off" /\ TypeOK /\ TypeOK' /\ Forward /\ HonestDelivery
    <3>1. Stage(r)
      BY OnwardFacts, LaunchTypes
    <3> QED BY <3>1, OnwardFacts DEF Stage, StageOf
  <2> QED BY <1>1, <2>1, PinnedRun
<1> HIDE DEF w, s
<1>4. ASSUME runs[r].agent \in Pinned
      PROVE  /\ s \in Sessions /\ s # None
             /\ runs[r].after <= native[w][s].delivery
             /\ native[w][s].delivery \in Nat /\ native'[w][s].delivery \in Nat
  <2>1. s \in Sessions /\ s # None
    BY <1>3, <1>4 DEF LinksOne, s
  <2>2. runs[r].after <= native[w][s].delivery
    BY <1>3, <1>4, <2>1 DEF Earned, s, w
  <2>3. native[w][s].delivery \in Nat /\ native'[w][s].delivery \in Nat
    BY <1>1, <1>3, <2>1 DEF TypeOK, SessionRow
  <2> QED BY <2>1, <2>2, <2>3
<1>5. ASSUME runs[r].agent \in Pinned
      PROVE  s \in Sessions /\ \A i \in 1..runs[r].through : KnowsAfter(s, w, i)
  <2>1. s \in Sessions
    BY <1>5, <1>4
  <2>2. ASSUME NEW i \in 1..runs[r].through PROVE KnowsAfter(s, w, i)
    <3>1. CASE i > runs[r].after
      BY <1>5, <3>1 DEF s, w
    <3>2. CASE ~(i > runs[r].after)
      <4>1. /\ runs[r].after <= native[w][s].delivery
            /\ native[w][s].delivery \in Nat
        BY <1>5, <1>4
      <4>2. i \in 1..native[w][s].delivery /\ i \in 1..Len(log[w])
        BY <1>3, <3>2, <4>1
      <4>3. Knows(s, w, i)
        BY <1>1, <1>3, <1>5, <2>1, <4>2, NoneAssumption DEF HonestDelivery
      <4> QED BY <1>1, <1>3, <2>1, <4>2, <4>3, KnowsKept
    <3> QED BY <3>1, <3>2
  <2> QED BY <2>1, <2>2
<1>6. HonestDelivery'
  <2>1. s \in Sessions /\ AgentOf[s] \in Pinned =>
           \/ native'[w][s].delivery = native[w][s].delivery
           \/ \A i \in 1..native'[w][s].delivery : KnowsAfter(s, w, i)
    BY <1>1, <1>3, <1>5, NoneAssumption
  <2> QED BY <1>1, <2>1, OnwardFacts, HonestFrame
<1>7. Delivering(r)'
  <2> SUFFICES ASSUME runs[r].agent \in Pinned
               PROVE  NamesOne(r)' /\ LinksOne(r)' /\ Earned(r)'
    BY <1>2 DEF Delivering
  <2>1. NamesOne(r)'
    BY <1>3 DEF NamesOne, Kept
  <2>2. LinksOne(r)'
    BY <1>1, <1>2, <1>3, <1>5, NoneAssumption DEF LinksOne, Kept, s, w
  <2>3. runs'[r].after <= native'[w][s].delivery
    <3>1. native[w][s].delivery <= native'[w][s].delivery
      BY <1>1, <1>4
    <3> QED BY <1>1, <1>3, <1>4, <3>1
  <2>4. \A i \in DOMAIN log[w] : i > runs[r].through => log[w][i].session = s
    BY <1>3 DEF Earned, s, w
  <2>5. hook'[r].pc = "read" => hook'[r].after = runs[r].after /\ hook'[r].through = runs[r].through
    BY <1>3 DEF Earned
  <2> QED BY <1>1, <1>2, <1>5, <2>1, <2>2, <2>3, <2>4, <2>5 DEF Earned, Knows, KnowsAfter
<1>8. \A q \in Runs : Delivering(q)'
  BY <1>1, <1>7, OthersDeliver
<1> QED BY <1>6, <1>8 DEF DeliveryInv

\* A step that leaves the tables alone.
LEMMA LocalDelivers ==
    ASSUME Onward, NEW r \in Runs, UNCHANGED <<runs, native, log>>,
           \A q \in Runs \ {r} : launcher'[q] = launcher[q] /\ hook'[q] = hook[q],
           Delivering(r)'
    PROVE  DeliveryInv'
<1>1. Alone(r)
  BY UnchangedRows DEF Alone
<1>2. \A q \in Runs : Delivering(q)'
  BY <1>1, OthersDeliver
<1> QED BY <1>2, SameMarks DEF DeliveryInv

LEMMA FetchDelivers ==
    ASSUME Onward, NEW r \in Runs, FetchContext(r)
    PROVE  DeliveryInv'
<1>1. LaunchInv /\ launcher \in [Runs -> LauncherRow]
  BY OnwardFacts, LaunchTypes
<1>2. /\ launcher[r].pc = "linked" /\ launcher'[r].pc = "ready"
      /\ launcher' = [launcher EXCEPT ![r] = launcher'[r]]
      /\ launcher'[r].from = runs[r].after /\ launcher'[r].upto = runs[r].through
      /\ launcher'[r].live = launcher[r].live /\ launcher'[r].expected = launcher[r].expected
      /\ UNCHANGED <<ledgerVars, hook, known>>
  BY <1>1, FetchEffect
<1>3. UNCHANGED <<runs, native, log>>
  BY <1>2 DEF ledgerVars
<1>4. runs[r].agent \in Pinned => NamesOne(r) /\ LinksOne(r) /\ (Active(r) => Earned(r))
  BY <1>2, PinnedRun
<1>5. NamesOne(r) => NamesOne(r)'
  BY <1>2, <1>3 DEF NamesOne, Harnesses
<1>6. LinksOne(r) => LinksOne(r)'
  BY <1>2, <1>3 DEF LinksOne
<1>7. Earned(r) => Earned(r)'
  BY <1>2, <1>3 DEF Earned, Knows
<1>8. Delivering(r)'
  BY <1>3, <1>4, <1>5, <1>6, <1>7 DEF Delivering, Active
<1>9. \A q \in Runs \ {r} : launcher'[q] = launcher[q] /\ hook'[q] = hook[q]
  BY <1>1, <1>2
<1> QED BY <1>3, <1>8, <1>9, LocalDelivers

\* The harness starts with the packet that the launcher fetched.
LEMMA SpawnDelivers ==
    ASSUME Onward, NEW r \in Runs, Spawn(r)
    PROVE  DeliveryInv'
<1> DEFINE w == runs[r].ws
           s == runs[r].session
           l == launcher[r]
           m == launcher'[r]
<1>1. LaunchInv /\ launcher \in [Runs -> LauncherRow] /\ Forward
  BY OnwardFacts, LaunchTypes
<1>2. /\ l.pc = "ready" /\ launcher' = [launcher EXCEPT ![r] = m]
      /\ m.live \in Sessions /\ (l.expected # None => m.live = l.expected)
      /\ m.pc = IF runs[r].agent \in Direct THEN "spawned" ELSE "running"
      /\ m.expected = l.expected
      /\ known' = [known EXCEPT ![m.live] = @ \cup Packet(w, l.from, l.upto)]
      /\ UNCHANGED <<ledgerVars, hook>>
  BY <1>1, SpawnEffect
<1>3. UNCHANGED <<runs, native, log>>
  BY <1>2 DEF ledgerVars
<1>4. /\ runs[r].agent \in Pinned => NamesOne(r) /\ LinksOne(r) /\ (Active(r) => Earned(r))
      /\ Stage(r) /\ log[w] \in Seq(Event) /\ runs[r].through \in Nat
      /\ Active(r) => runs[r].through <= Len(log[w])
  BY <1>2, PinnedRun
<1>5. known \in [Sessions -> SUBSET (RecordIds \cup Runs)]
  BY <1>1 DEF LaunchInv, RunTypeOK
<1>6. ASSUME runs[r].agent \in Pinned
      PROVE  /\ s = m.live /\ m.live = m.expected /\ s # None
             /\ l.live = None /\ ~runs[r].delivered /\ hook[r].pc = "idle"
  BY <1>2, <1>4, <1>6 DEF NamesOne, LinksOne, Stage, StageOf, Harnesses
<1>7. ASSUME runs[r].agent \in Pinned, Active(r) PROVE Earned(r)'
  <2>1. ASSUME runs[r].agent \in Direct, NEW i \in 1..runs[r].through, i > runs[r].after
        PROVE  KnowsAfter(s, w, i)
    <3>1. l.from = runs[r].after /\ l.upto = runs[r].through
      BY <1>2, <1>4, <1>7, <2>1 DEF Earned
    <3>2. i \in DOMAIN log[w]
      BY <1>4, <1>7
    <3>3. log[w][i].id \in Packet(w, l.from, l.upto)
      BY <2>1, <3>1, <3>2 DEF Packet
    <3>4. log[w][i].id \in known'[s]
      BY <1>2, <1>5, <1>6, <1>7, <3>3
    <3> QED BY <1>3, <3>4 DEF KnowsAfter
  <2>2. m.pc = "spawned" => runs[r].agent \in Direct
    BY <1>2
  <2>3. m.pc \notin {"planned", "ready"}
    BY <1>2
  <2>4. Earned(r) /\ ~runs[r].delivered /\ hook'[r].pc = "idle"
    BY <1>2, <1>4, <1>6, <1>7
  <2> HIDE DEF m, l
  <2> QED BY <1>3, <2>1, <2>2, <2>3, <2>4 DEF Earned, Knows, KnowsAfter, m
<1>8. ASSUME runs[r].agent \in Pinned PROVE NamesOne(r)' /\ LinksOne(r)'
  <2>1. m.pc \in {"spawned", "running"}
    BY <1>2
  <2>2. native[w][s].linked
    BY <1>2, <1>4, <1>8 DEF LinksOne
  <2>3. NamesOne(r)'
    BY <1>3, <1>6, <1>8, <2>1 DEF NamesOne
  <2>4. LinksOne(r)'
    BY <1>3, <1>6, <1>8, <2>2 DEF LinksOne
  <2> QED BY <2>3, <2>4
<1>9. Delivering(r)'
  BY <1>3, <1>7, <1>8 DEF Delivering, Active
<1>10. \A q \in Runs \ {r} : launcher'[q] = launcher[q] /\ hook'[q] = hook[q]
  BY <1>1, <1>2
<1> QED BY <1>3, <1>9, <1>10, LocalDelivers

LEMMA HookReadDelivers ==
    ASSUME Onward, NEW r \in Runs, HookReads(r)
    PROVE  DeliveryInv'
<1>1. LaunchInv
  BY OnwardFacts
<1>2. UNCHANGED <<ledgerVars, launcher, known>> /\ hook[r].pc = "linked"
  BY DEF HookReads
<1>3. /\ \A q \in Runs \ {r} : hook'[q] = hook[q]
      /\ \/ hook'[r].pc = "idle"
         \/ hook'[r].after = runs[r].after /\ hook'[r].through = runs[r].through
  BY <1>1, HookEffects
<1>4. UNCHANGED <<runs, native, log>>
  BY <1>2 DEF ledgerVars
<1>5. launcher[r].pc # "off"
  BY <1>1, <1>2, LaunchTypes DEF Stage, StageOf
<1>6. runs[r].agent \in Pinned => NamesOne(r) /\ LinksOne(r) /\ (Active(r) => Earned(r))
  BY <1>5, PinnedRun
<1>7. /\ NamesOne(r) => NamesOne(r)'
      /\ LinksOne(r) => LinksOne(r)'
  BY <1>2, <1>4 DEF NamesOne, LinksOne
<1>8. Earned(r) => Earned(r)'
  BY <1>2, <1>3, <1>4 DEF Earned, Knows
<1>9. Delivering(r)'
  BY <1>4, <1>6, <1>7, <1>8 DEF Delivering, Active
<1> QED BY <1>2, <1>3, <1>4, <1>9, LocalDelivers

\* The hook hands its packet out with the claim.
LEMMA HookClaimDelivers ==
    ASSUME Onward, NEW r \in Runs, HookClaims(r)
    PROVE  DeliveryInv'
<1> DEFINE w == runs[r].ws
           s == runs[r].session
<1>1. LaunchInv /\ launcher[r] \in LauncherRow /\ Stage(r) /\ TypeOK
  BY OnwardFacts, LaunchTypes
<1>2. /\ hook[r].pc = "read" /\ UNCHANGED <<launcher, transcript>>
      /\ launcher[r].live \in Sessions /\ launcher[r].live # None
  BY <1>1 DEF HookClaims, Stage, LauncherRow
<1>3. /\ \A q \in Runs \ {r} : hook'[q] = hook[q]
      /\ hook'[r].pc = "idle"
  BY <1>1, HookEffects
<1>4. launcher[r].pc # "off" /\ launcher[r].pc \notin {"planned", "ready", "linked"}
  BY <1>1, <1>2 DEF Stage, StageOf
<1>5. /\ runs[r].agent \in Pinned => NamesOne(r) /\ LinksOne(r) /\ (Active(r) => Earned(r))
      /\ log[w] \in Seq(Event) /\ runs[r].through \in Nat
      /\ Active(r) => runs[r].through <= Len(log[w])
  BY <1>4, PinnedRun
<1>6. known \in [Sessions -> SUBSET (RecordIds \cup Runs)]
  BY <1>1 DEF LaunchInv, RunTypeOK
<1>7. CASE UNCHANGED <<ledgerVars, known>>
  <2>1. UNCHANGED <<runs, native, log>>
    BY <1>7 DEF ledgerVars
  <2>2. /\ NamesOne(r) => NamesOne(r)'
        /\ LinksOne(r) => LinksOne(r)'
    BY <1>2, <2>1 DEF NamesOne, LinksOne
  <2>3. Earned(r) => Earned(r)'
    BY <1>2, <1>3, <1>7, <2>1 DEF Earned, Knows
  <2>4. Delivering(r)'
    BY <1>5, <2>1, <2>2, <2>3 DEF Delivering, Active
  <2> QED BY <1>2, <1>3, <2>1, <2>4, LocalDelivers
<1>8. CASE /\ AcceptContext(r, TRUE)
           /\ known' = [known EXCEPT ![launcher[r].live] =
                          @ \cup Packet(w, hook[r].after, hook[r].through)]
  <2>1. Active(r) /\ UNCHANGED log /\ \A q \in Runs \ {r} : SameRow(q)
    BY <1>1, <1>8, AcceptRows
  <2>2. ASSUME runs[r].agent \in Pinned, NEW i \in 1..runs[r].through, i > runs[r].after
        PROVE  KnowsAfter(s, w, i)
    <3>1. /\ hook[r].after = runs[r].after /\ hook[r].through = runs[r].through
          /\ s = launcher[r].live
      BY <1>2, <1>5, <2>1, <2>2 DEF Earned, LinksOne, NamesOne
    <3>2. i \in DOMAIN log[w]
      BY <1>5, <2>1, <2>2
    <3>3. log[w][i].id \in Packet(w, hook[r].after, hook[r].through)
      BY <2>2, <3>1, <3>2 DEF Packet
    <3>4. log[w][i].id \in known'[s]
      BY <1>2, <1>6, <1>8, <3>1, <3>3
    <3> QED BY <2>1, <3>4 DEF KnowsAfter
  <2>3. Alone(r) /\ Kept(r) /\ launcher'[r].pc = launcher[r].pc
    BY <1>2, <1>3, <2>1 DEF Alone, Kept
  <2>4. TRUE \in BOOLEAN
    OBVIOUS
  <2> QED BY <1>2, <1>3, <1>4, <1>8, <2>2, <2>3, <2>4, AcceptDelivers
<1> QED BY <1>7, <1>8 DEF HookClaims

\* The export resolves the session that the launcher named.
LEMMA ExportDelivers ==
    ASSUME Onward, NEW r \in Runs, Export(r)
    PROVE  DeliveryInv'
<1>1. LaunchInv /\ launcher \in [Runs -> LauncherRow]
  BY OnwardFacts, LaunchTypes
<1>2. /\ launcher[r].pc = "exited" /\ launcher'[r].pc = "importing"
      /\ launcher' = [launcher EXCEPT ![r] = launcher'[r]]
      /\ launcher'[r].native = Resolved(r)
      /\ launcher'[r].live = launcher[r].live /\ launcher'[r].expected = launcher[r].expected
      /\ UNCHANGED <<ledgerVars, hook, known>>
  BY <1>1, ExportEffect
<1>3. UNCHANGED <<runs, native, log>>
  BY <1>2 DEF ledgerVars
<1>4. /\ runs[r].agent \in Pinned => NamesOne(r) /\ LinksOne(r) /\ (Active(r) => Earned(r))
      /\ Stage(r)
  BY <1>2, PinnedRun
<1>5. launcher[r].expected # None => Resolved(r) = launcher[r].expected
  BY DEF Resolved
<1>6. NamesOne(r) => NamesOne(r)'
  BY <1>2, <1>3, <1>4, <1>5 DEF NamesOne, Harnesses, Stage, StageOf
<1>7. LinksOne(r) => LinksOne(r)'
  BY <1>2, <1>3 DEF LinksOne
<1>8. Earned(r) => Earned(r)'
  BY <1>2, <1>3 DEF Earned, Knows
<1>9. Delivering(r)'
  BY <1>3, <1>4, <1>6, <1>7, <1>8 DEF Delivering, Active
<1>10. \A q \in Runs \ {r} : launcher'[q] = launcher[q] /\ hook'[q] = hook[q]
  BY <1>1, <1>2
<1> QED BY <1>3, <1>9, <1>10, LocalDelivers

\* A run that finishes with its own session: when it acknowledged its range,
\* or had none to give, the session knows the history to its end, because
\* what lies beyond the range it wrote itself.
LEMMA FinishEarns ==
    ASSUME Onward, NEW r \in Runs, NEW in \in Request(r), FinishRun(r, in),
           launcher[r].pc # "off", runs[r].agent \in Pinned,
           FinishSession(r, in) = runs[r].session, runs[r].session # None
    PROVE  LET w == runs[r].ws
               s == runs[r].session
               m == Imported(r, in)
           IN /\ \A i \in 1..native[w][s].delivery : KnowsAfter(s, w, i)
              /\ runs[r].delivered => \A i \in 1..runs[r].through : KnowsAfter(s, w, i)
              /\ \A i \in 1..KnownThrough(r, m) : KnowsAfter(s, w, i)
              /\ \A i \in DOMAIN m : i > runs[r].through => m[i].session = s
              /\ log'[w] = m /\ runs[r].after <= native[w][s].delivery
<1> DEFINE w == runs[r].ws
           s == runs[r].session
           m == Imported(r, in)
<1>1. /\ Active(r) /\ w \in Workstreams /\ m \in Seq(Event) /\ Extends(log[w], m)
      /\ log' = [log EXCEPT ![w] = m]
  BY OnwardFacts, FinishRows
<1>2. /\ TypeOK /\ Forward /\ HonestDelivery /\ DeliveryWithinLedger
      /\ log \in [Workstreams -> Seq(Event)]
      /\ log[w] \in Seq(Event)
  BY <1>1, OnwardFacts DEF TypeOK
<1>3. /\ s \in Sessions /\ AgentOf[s] \in Pinned
      /\ runs[r].through \in Nat /\ runs[r].through <= Len(log[w]) /\ runs[r].after \in Nat
      /\ Earned(r)
  BY <1>1, PinnedRun
<1>4. log'[w] = m
  BY <1>1, <1>2
<1>5. /\ native[w][s].delivery \in Nat /\ native[w][s].delivery <= Len(log[w])
      /\ runs[r].after <= native[w][s].delivery
  BY <1>1, <1>2, <1>3 DEF TypeOK, SessionRow, DeliveryWithinLedger, Earned
<1>6. \A i \in DOMAIN m : i > Len(log[w]) => m[i].session = s
  BY <1>2, ImportedEvents
<1> HIDE DEF w, s, m
<1>7. ASSUME NEW i \in 1..native[w][s].delivery PROVE KnowsAfter(s, w, i)
  <2>1. Knows(s, w, i) /\ i \in 1..Len(log[w])
    BY <1>1, <1>2, <1>3, <1>5 DEF HonestDelivery
  <2> QED BY <1>1, <1>2, <1>3, <2>1, KnowsKept
<1>8. ASSUME runs[r].delivered, NEW i \in 1..runs[r].through PROVE KnowsAfter(s, w, i)
  <2>1. Knows(s, w, i) /\ i \in 1..Len(log[w])
    BY <1>2, <1>3, <1>8 DEF Earned, w, s
  <2> QED BY <1>1, <1>2, <1>3, <2>1, KnowsKept
<1>9. ASSUME NEW i \in DOMAIN m, i > runs[r].through PROVE m[i].session = s
  <2>1. CASE i > Len(log[w])
    BY <1>6, <2>1
  <2>2. CASE ~(i > Len(log[w]))
    <3>1. i \in DOMAIN log[w] /\ m[i] = log[w][i]
      BY <1>1, <1>2, <1>9, <2>2 DEF Extends
    <3> QED BY <1>3, <1>9, <3>1 DEF Earned, w, s
  <2> QED BY <2>1, <2>2
<1>10. ASSUME NEW i \in 1..KnownThrough(r, m) PROVE KnowsAfter(s, w, i)
  <2>1. /\ runs[r].delivered \/ runs[r].after >= runs[r].through
        /\ i \in DOMAIN m /\ i \in 1..Len(m)
    <3>1. Len(m) \in Nat /\ DOMAIN m = 1..Len(m)
      BY <1>1
    <3> QED BY <1>10, <3>1 DEF KnownThrough
  <2>2. CASE i > runs[r].through
    BY <1>4, <1>9, <2>1, <2>2 DEF KnowsAfter
  <2>3. CASE ~(i > runs[r].through) /\ runs[r].delivered
    BY <1>3, <1>8, <2>1, <2>3
  <2>4. CASE ~(i > runs[r].through) /\ runs[r].after >= runs[r].through
    <3>1. i \in 1..native[w][s].delivery
      BY <1>3, <1>5, <2>1, <2>4
    <3> QED BY <1>7, <3>1
  <2> QED BY <2>1, <2>2, <2>3, <2>4
<1> QED BY <1>4, <1>5, <1>7, <1>8, <1>9, <1>10 DEF w, s, m

\* A finish with the session of the run, complete or not.
LEMMA FinishDelivers ==
    ASSUME Onward, NEW r \in Runs, NEW in \in Request(r), FinishRun(r, in), in.complete \in BOOLEAN,
           Alone(r), launcher[r].pc # "off", hook'[r] = hook[r],
           runs[r].agent \in Pinned => FinishSession(r, in) = runs[r].session,
           launcher'[r].live = launcher[r].live,
           launcher'[r].expected = launcher[r].expected,
           launcher'[r].native = launcher[r].native,
           \/ launcher'[r].pc \in {"closed", "dead"} /\ in.complete
           \/ launcher'[r].pc = "importing" /\ launcher[r].pc = "importing"
    PROVE  DeliveryInv'
<1> DEFINE w == runs[r].ws
           s == FinishSession(r, in)
           m == Imported(r, in)
<1>1. /\ Active(r) /\ w \in Workstreams /\ s \in Sessions \cup {None}
      /\ SameGrant(r)
      /\ runs'[r].state = IF in.complete THEN "finished" ELSE "active"
      /\ runs'[r].after = runs[r].after /\ runs'[r].session = s
      /\ runs'[r].delivered = runs[r].delivered
      /\ SameSessions(s, w)
      /\ s # None /\ in.complete =>
           /\ native'[w][s].linked
           /\ native'[w][s].delivery = Larger(native[w][s].delivery, KnownThrough(r, m))
      /\ s # None /\ ~in.complete => native'[w][s] = native[w][s]
      /\ m \in Seq(Event)
      /\ log' = [log EXCEPT ![w] = m]
  BY OnwardFacts, FinishRows
<1>2. /\ runs'[r].ws = w /\ runs'[r].agent = runs[r].agent
      /\ runs'[r].through = runs[r].through
  BY <1>1 DEF SameGrant
<1>3. /\ Stage(r)
      /\ runs[r].session \in Sessions \cup {None}
      /\ runs[r].session # None => AgentOf[runs[r].session] = runs[r].agent
      /\ s # None => AgentOf[s] = runs[r].agent
      /\ runs[r].agent \in Pinned => NamesOne(r) /\ LinksOne(r) /\ Earned(r)
      /\ TypeOK /\ TypeOK' /\ Forward
  BY <1>1, PinnedRun, RequestType, OnwardFacts
<1>4. ASSUME runs[r].agent \in Pinned, s # None
      PROVE  /\ s = runs[r].session
             /\ \A i \in 1..native[w][s].delivery : KnowsAfter(s, w, i)
             /\ runs[r].delivered => \A i \in 1..runs[r].through : KnowsAfter(s, w, i)
             /\ \A i \in 1..KnownThrough(r, m) : KnowsAfter(s, w, i)
             /\ \A i \in DOMAIN m : i > runs[r].through => m[i].session = s
             /\ log'[w] = m /\ runs[r].after <= native[w][s].delivery
  BY <1>4, FinishEarns
<1> HIDE DEF w, s, m
<1>5. HonestDelivery'
  <2>1. ASSUME s \in Sessions, AgentOf[s] \in Pinned
        PROVE  \/ native'[w][s].delivery = native[w][s].delivery
               \/ \A i \in 1..native'[w][s].delivery : KnowsAfter(s, w, i)
    <3>0. s # None /\ runs[r].agent \in Pinned
      BY <1>3, <2>1, NoneAssumption
    <3>1. CASE in.complete
      BY <1>1, <1>4, <3>0, <3>1 DEF Larger
    <3>2. CASE ~in.complete
      BY <1>1, <3>0, <3>2
    <3> QED BY <3>1, <3>2
  <2> QED BY <1>1, <2>1, OnwardFacts, HonestFrame
<1>6. Delivering(r)'
  <2> SUFFICES ASSUME runs[r].agent \in Pinned
               PROVE  NamesOne(r)' /\ LinksOne(r)' /\ (Active(r)' => Earned(r)')
    BY <1>2 DEF Delivering
  <2>1. NamesOne(r)'
    BY <1>1, <1>3 DEF NamesOne, Harnesses
  <2>2. s = runs[r].session
    BY DEF s
  <2>3. LinksOne(r)'
    <3> SUFFICES ASSUME launcher[r].live # None
                 PROVE  /\ launcher[r].expected # None /\ s = launcher[r].expected
                        /\ native'[w][s].linked
      BY <1>1, <1>2 DEF LinksOne
    <3>1. launcher[r].expected # None /\ s = launcher[r].expected /\ native[w][s].linked
      BY <1>3, <2>2 DEF LinksOne, w
    <3> QED BY <1>1, <1>3, <3>1 DEF Forward
  <2>4. ASSUME ~in.complete PROVE Earned(r)'
    <3>1. launcher[r].pc = "importing" /\ launcher'[r].pc = "importing" /\ s # None
      BY <1>3, <2>2, <2>4 DEF Stage, StageOf, LinksOne
    <3>2. /\ native'[w][s] = native[w][s] /\ log'[w] = m
          /\ runs[r].after <= native[w][s].delivery
      BY <1>1, <1>4, <2>4, <3>1
    <3>3. /\ runs[r].delivered => \A i \in 1..runs[r].through : KnowsAfter(s, w, i)
          /\ \A i \in DOMAIN m : i > runs[r].through => m[i].session = s
      BY <1>4, <3>1
    <3>4. hook[r].pc = "read" => hook[r].after = runs[r].after /\ hook[r].through = runs[r].through
      BY <1>3 DEF Earned
    <3> QED BY <1>1, <1>2, <3>1, <3>2, <3>3, <3>4 DEF Earned, Knows, KnowsAfter
  <2>5. in.complete => ~Active(r)'
    BY <1>1 DEF Active
  <2> QED BY <2>1, <2>3, <2>4, <2>5
<1>7. ASSUME NEW q \in Runs \ {r}, Active(q) PROVE log'[runs[q].ws] = log[runs[q].ws]
  <2>1. runs[q].ws # w
    BY <1>1, <1>7, OnwardFacts DEF OneActiveRunPerWorkstream, w
  <2>2. runs[q].ws \in Workstreams
    BY <1>3, <1>7 DEF TypeOK, Active
  <2> QED BY <1>1, <1>3, <2>1, <2>2 DEF TypeOK
<1>8. \A q \in Runs : Delivering(q)'
  BY <1>6, <1>7, OthersDeliver
<1> QED BY <1>5, <1>8 DEF DeliveryInv

LEMMA FinishStepsDeliver ==
    ASSUME Onward, NEW r \in Runs,
           SpawnFails(r) \/ PassThrough(r) \/ SendBatch(r) \/ BatchReplyLost(r)
    PROVE  DeliveryInv'
<1>0. LaunchInv /\ TypeOK /\ launcher \in [Runs -> LauncherRow] /\ Stage(r)
      /\ {"dead", "closed"} \subseteq Stages
  BY OnwardFacts, LaunchTypes DEF Stages
<1>1. PICK in \in Request(r) :
        /\ FinishRun(r, in)
        /\ SpawnFails(r) \/ PassThrough(r) => in.complete
        /\ SendBatch(r) \/ BatchReplyLost(r) => in = Batch(r)
        /\ FinishSession(r, in) =
             IF launcher[r].pc = "ready" /\ launcher[r].expected # None
             THEN launcher[r].expected
             ELSE IF launcher[r].pc = "importing" /\ launcher[r].native # None
             THEN launcher[r].native ELSE runs[r].session
  <2>1. CASE SpawnFails(r)
    <3>1. launcher[r].pc = "ready"
      BY <2>1 DEF SpawnFails, At
    <3> QED BY <1>0, <2>1, <3>1, SpawnFailsRequest DEF PassThrough, SendBatch, BatchReplyLost, At
  <2>2. CASE PassThrough(r)
    <3>1. launcher[r].pc = "passing"
      BY <2>2 DEF PassThrough, At
    <3> QED BY <1>0, <2>2, <3>1, PassThroughRequest DEF SpawnFails, SendBatch, BatchReplyLost, At
  <2>3. CASE SendBatch(r) \/ BatchReplyLost(r)
    <3>1. At(r, "importing") /\ launcher[r].pc = "importing" /\ FinishRun(r, Batch(r))
      BY <2>3 DEF SendBatch, BatchReplyLost, At
    <3>2. /\ Batch(r) \in Request(r)
          /\ FinishSession(r, Batch(r)) =
               IF launcher[r].native # None THEN launcher[r].native ELSE runs[r].session
      BY <1>0, <3>1, BatchRequest
    <3> QED BY <3>1, <3>2 DEF SpawnFails, PassThrough, At
  <2> QED BY <2>1, <2>2, <2>3
<1>2. /\ launcher[r].pc \in {"ready", "passing", "importing"}
      /\ UNCHANGED <<hook, known>>
  BY DEF SpawnFails, PassThrough, SendBatch, BatchReplyLost, At
<1>3. runs[r].agent \in Pinned => NamesOne(r) /\ LinksOne(r)
  BY <1>2, PinnedRun
<1>4. runs[r].agent \in Pinned => FinishSession(r, in) = runs[r].session
  BY <1>0, <1>1, <1>3 DEF NamesOne, LinksOne, Stage, StageOf
<1>5. Active(r) /\ \A q \in Runs \ {r} : SameRow(q)
  BY <1>0, <1>1, FinishRows
<1>6. in.complete \in BOOLEAN
  BY <1>0, <1>1, <1>5, RequestType
<1>7. CASE SpawnFails(r) \/ PassThrough(r)
  <2>1. PICK pc \in {"dead", "closed"} : To(r, pc)
    BY <1>7 DEF SpawnFails, PassThrough
  <2>2. /\ launcher'[r].pc = pc /\ Kept(r)
        /\ \A q \in Runs \ {r} : launcher'[q] = launcher[q]
    BY <1>0, <2>1, ToFacts
  <2>3. Alone(r)
    BY <1>2, <1>5, <2>2 DEF Alone
  <2> QED BY <1>1, <1>2, <1>4, <1>6, <1>7, <2>2, <2>3, FinishDelivers DEF Kept
<1>8. CASE SendBatch(r)
  <2>1. /\ launcher[r].pc = "importing"
        /\ launcher' = [launcher EXCEPT ![r] = launcher'[r]]
        /\ launcher'[r].pc = IF launcher[r].upto <= launcher[r].from + 1
                             THEN "closed" ELSE "importing"
        /\ launcher'[r].live = launcher[r].live
        /\ launcher'[r].expected = launcher[r].expected
        /\ launcher'[r].native = launcher[r].native
    BY <1>0, <1>8, SendEffect
  <2>2. in.complete = (launcher[r].upto <= launcher[r].from + 1)
    BY <1>0, <1>1, <1>8, <2>1, BatchRequest DEF At
  <2>3. \A q \in Runs \ {r} : launcher'[q] = launcher[q]
    BY <1>0, <2>1
  <2>4. Alone(r)
    BY <1>2, <1>5, <2>3 DEF Alone
  <2> QED BY <1>1, <1>2, <1>4, <1>6, <2>1, <2>2, <2>4, FinishDelivers
<1>9. CASE BatchReplyLost(r)
  <2>1. UNCHANGED launcher /\ launcher[r].pc = "importing"
    BY <1>9 DEF BatchReplyLost, At
  <2>2. Alone(r)
    BY <1>2, <1>5, <2>1 DEF Alone
  <2> QED BY <1>1, <1>2, <1>4, <1>6, <2>1, <2>2, FinishDelivers
<1> QED BY <1>7, <1>8, <1>9

LEMMA DeliveryStep == Onward /\ [RunNext]_runVars => DeliveryInv'
<1> SUFFICES ASSUME Onward, [RunNext]_runVars
             PROVE  DeliveryInv'
  OBVIOUS
<1>0. /\ LaunchInv /\ TypeOK /\ launcher \in [Runs -> LauncherRow] /\ hook \in [Runs -> HookRow]
      /\ \A q \in Runs : Delivering(q)
  BY OnwardFacts, LaunchTypes, TypesSplit DEF LaunchInv, ProcessTypes
\* The sessions and the history stay, the launchers and hooks too.
<1>a. ASSUME UNCHANGED <<native, log, launcher, hook>>, \A q \in Runs : SameRow(q)
      PROVE  DeliveryInv'
  <2>1. \A q \in Runs : Delivering(q)'
    BY <1>a, OnwardFacts, DeliverFrame
  <2> QED BY <1>a, <2>1, SameMarks DEF DeliveryInv
<1>1. CASE UNCHANGED runVars
  BY <1>1, <1>a, UnchangedRows DEF runVars, ledgerVars
<1>2. CASE TimePasses
  BY <1>0, <1>2, <1>a, QuietRows DEF TimePasses
<1>3. ASSUME NEW s \in Sessions, WriteRecord(s) PROVE DeliveryInv'
  BY <1>3, <1>a, UnchangedRows DEF WriteRecord, ledgerVars
<1> SUFFICES ASSUME NEW r \in Runs,
                    \/ Prepare(r) \/ PrepareReplyLost(r)
                    \/ LinkExpected(r) \/ FetchContext(r) \/ Spawn(r) \/ SpawnFails(r)
                    \/ AcceptDirect(r) \/ RenewLease(r)
                    \/ HookLinks(r) \/ HookReads(r) \/ HookClaims(r)
                    \/ Exit(r) \/ Export(r) \/ SendBatch(r) \/ BatchReplyLost(r)
                    \/ BatchAlreadyDone(r) \/ PassThrough(r) \/ GiveUp(r) \/ Crash(r)
             PROVE  DeliveryInv'
  BY <1>1, <1>2, <1>3 DEF RunNext
<1>d. /\ launcher[r] \in LauncherRow /\ Stage(r) /\ hook[r] \in HookRow
      /\ {"ready", "linked", "running", "exited", "closed", "dead"} \subseteq Stages
  BY <1>0, LaunchTypes DEF Stages, Harnesses
\* The launcher of r moves, and its run at most lapses.
<1>b. ASSUME NEW pc \in {"running", "exited", "closed", "dead"}, To(r, pc),
             launcher[r].pc # "off",
             pc \in {"running", "exited"} => launcher[r].pc \in {"spawned", "running"},
             UNCHANGED <<native, log, hook>>, \A q \in Runs : SameRow(q)
      PROVE  DeliveryInv'
  <2>1. /\ launcher'[r].pc = pc /\ Kept(r)
        /\ \A q \in Runs \ {r} : launcher'[q] = launcher[q]
    BY <1>0, <1>b, <1>d, ToFacts
  <2>2. Delivering(r)'
    BY <1>b, <2>1, MoveDelivers
  <2>3. Alone(r)
    BY <1>b, <2>1 DEF Alone
  <2>4. \A q \in Runs : Delivering(q)'
    BY <1>b, <2>2, <2>3, OthersDeliver
  <2> QED BY <1>b, <2>4, SameMarks DEF DeliveryInv
<1>4. CASE Prepare(r)
  <2>1. PICK w \in Workstreams, a \in Agents :
          /\ PrepareRun(r, w, a) /\ launcher[r].pc = "off"
          /\ launcher' = [launcher EXCEPT ![r] = launcher'[r]]
          /\ launcher'[r].live = None
          /\ \/ launcher'[r].pc = "passing"
             \/ /\ launcher'[r].expected \in Plans(w, a, GrantedRow(w, a).session)
                /\ IF launcher'[r].expected # None THEN launcher'[r].pc = "planned"
                   ELSE launcher'[r].pc \in {"linked", "ready"}
          /\ UNCHANGED <<hook, known>>
    BY <1>0, <1>4, PrepareEffect
  <2>2. \A q \in Runs \ {r} : SameRow(q) /\ launcher'[q] = launcher[q]
    BY <1>0, <2>1, GrantRows
  <2>3. Alone(r)
    BY <2>1, <2>2 DEF Alone
  <2>4. hook'[r].pc = "idle"
    BY <1>d, <2>1 DEF Stage, StageOf
  <2>5. GrantedRow(w, a).session \in Sessions \cup {None}
    BY <1>0, GrantedRowType DEF RunRow
  <2>6. CASE launcher'[r].pc \in {"passing", "planned"}
    <3>1. launcher'[r].pc = "planned" => launcher'[r].expected # None
      BY <2>1
    <3> QED BY <2>1, <2>3, <2>4, <2>6, <3>1, GrantDelivers
  \* Only a harness that is not pinned starts without an expected session.
  <2>7. CASE launcher'[r].pc \notin {"passing", "planned"}
    <3>1. launcher'[r].expected = None
      BY <2>1, <2>7
    <3>2. a \notin Pinned
      BY <2>1, <2>5, <2>7, <3>1, PlansFacts
    <3>3. runs'[r].agent = a /\ UNCHANGED <<native, log>>
      BY <1>0, <2>1, GrantRows, GrantedRowType
    <3>4. Delivering(r)'
      BY <3>2, <3>3 DEF Delivering
    <3>5. \A q \in Runs : Delivering(q)'
      BY <2>3, <3>3, <3>4, OthersDeliver
    <3> QED BY <3>3, <3>5, SameMarks DEF DeliveryInv
  <2> QED BY <2>6, <2>7
<1>5. CASE PrepareReplyLost(r)
  <2>1. /\ launcher[r].pc = "off" /\ To(r, "dead") /\ UNCHANGED hook
        /\ \E w \in Workstreams, a \in Agents : PrepareRun(r, w, a)
    BY <1>5 DEF PrepareReplyLost, At
  <2>2. PICK w \in Workstreams, a \in Agents : PrepareRun(r, w, a)
    BY <2>1
  <2>3. /\ launcher'[r].pc = "dead" /\ Kept(r)
        /\ \A q \in Runs \ {r} : launcher'[q] = launcher[q]
    BY <1>0, <1>d, <2>1, ToFacts
  <2>4. launcher'[r].live = None /\ hook'[r].pc = "idle"
    BY <1>d, <2>1, <2>3 DEF Stage, StageOf, Kept
  <2>5. Alone(r)
    BY <1>0, <2>1, <2>2, <2>3, GrantRows DEF Alone
  <2> QED BY <2>2, <2>3, <2>4, <2>5, GrantDelivers
<1>6. CASE SpawnFails(r) \/ PassThrough(r) \/ SendBatch(r) \/ BatchReplyLost(r)
  BY <1>6, FinishStepsDeliver
<1>7. CASE LinkExpected(r)
  <2>1. /\ launcher[r].pc = "planned" /\ LinkNativeSession(r, launcher[r].expected)
        /\ UNCHANGED <<hook, known>>
    BY <1>7 DEF LinkExpected, At
  <2>2. PICK pc \in {"linked", "ready"} :
          To(r, pc) /\ (runs[r].agent \in Direct => pc = "linked")
    BY <1>7 DEF LinkExpected
  <2>3. /\ launcher'[r].pc = pc /\ Kept(r)
        /\ \A q \in Runs \ {r} : launcher'[q] = launcher[q]
    BY <1>0, <1>d, <2>2, ToFacts
  <2>4. launcher[r].expected \in Sessions /\ hook'[r].pc = "idle"
    BY <1>d, <2>1 DEF Stage, StageOf, LauncherRow
  <2>5. Alone(r)
    BY <1>0, <2>1, <2>3, <2>4, LinkRows DEF Alone
  <2> QED BY <2>1, <2>2, <2>3, <2>4, <2>5, LinkDelivers
<1>8. CASE FetchContext(r) \/ Spawn(r) \/ Export(r)
  BY <1>8, FetchDelivers, SpawnDelivers, ExportDelivers
<1>9. CASE AcceptDirect(r)
  <2>1. /\ launcher[r].pc = "spawned" /\ To(r, "running")
        /\ AcceptContext(r, FALSE) \/ UNCHANGED ledgerVars
        /\ UNCHANGED <<hook, known>>
    BY <1>9 DEF AcceptDirect, At
  <2>2. CASE AcceptContext(r, FALSE)
    <3>1. /\ launcher'[r].pc = "running" /\ Kept(r)
          /\ \A q \in Runs \ {r} : launcher'[q] = launcher[q]
      BY <1>0, <1>d, <2>1, ToFacts
    <3>2. FALSE \in BOOLEAN /\ "running" \in Harnesses /\ "spawned" \in Harnesses
      BY DEF Harnesses
    <3>3. Active(r) /\ UNCHANGED log /\ Alone(r)
      BY <1>0, <2>1, <2>2, <3>1, <3>2, AcceptRows DEF Alone
    <3>4. launcher[r].live # None
      BY <1>d, <2>1 DEF Stage, StageOf
    <3>5. runs[r].agent \in Pinned =>
            \A i \in 1..runs[r].through : i > runs[r].after =>
               KnowsAfter(runs[r].session, runs[r].ws, i)
      BY <2>1, <3>3, PinnedRun DEF Earned, Knows, KnowsAfter
    <3> QED BY <2>1, <2>2, <3>1, <3>2, <3>3, <3>4, <3>5, AcceptDelivers
  <2>3. CASE UNCHANGED ledgerVars
    <3>1. UNCHANGED <<runs, native, log>>
      BY <2>3 DEF ledgerVars
    <3> QED BY <1>b, <2>1, <3>1, UnchangedRows
  <2> QED BY <2>1, <2>2, <2>3
<1>10. CASE RenewLease(r)
  BY <1>0, <1>10, <1>a, QuietRows DEF RenewLease
<1>11. CASE HookLinks(r)
  <2>1. /\ launcher[r].pc \in {"running", "exited", "importing", "dead"}
        /\ LinkNativeSession(r, launcher[r].live) /\ launcher[r].live # None
        /\ UNCHANGED <<launcher, known>>
    BY <1>11 DEF HookLinks
  <2>2. launcher[r].live \in Sessions /\ Kept(r)
    BY <1>d, <2>1 DEF LauncherRow, Kept
  <2>3. hook'[r].pc = "linked" /\ \A q \in Runs \ {r} : hook'[q] = hook[q]
    BY <1>0, <1>11, HookEffects
  <2>4. Alone(r)
    BY <1>0, <2>1, <2>2, <2>3, LinkRows DEF Alone
  <2> QED BY <2>1, <2>2, <2>3, <2>4, LinkDelivers
<1>12. CASE HookReads(r) \/ HookClaims(r)
  BY <1>12, HookReadDelivers, HookClaimDelivers
<1>13. CASE Exit(r) \/ BatchAlreadyDone(r) \/ GiveUp(r) \/ Crash(r)
  <2>1. PICK pc \in {"exited", "closed", "dead"} :
          /\ To(r, pc) /\ launcher[r].pc # "off"
          /\ pc = "exited" => launcher[r].pc = "running"
    BY <1>13 DEF Exit, BatchAlreadyDone, GiveUp, Crash, At
  <2>2. /\ UNCHANGED hook
        /\ UNCHANGED ledgerVars \/ CancelRun(r)
    BY <1>13 DEF Exit, BatchAlreadyDone, GiveUp, Crash
  <2>3. UNCHANGED <<native, log>> /\ \A q \in Runs : SameRow(q)
    BY <1>0, <2>2, UnchangedRows, QuietRows DEF ledgerVars
  <2> QED BY <1>b, <2>1, <2>2, <2>3
<1> QED BY <1>4, <1>5, <1>6, <1>7, <1>8, <1>9, <1>10, <1>11, <1>12, <1>13

LEMMA DeliveryStart == RunInit => DeliveryInv
<1> SUFFICES ASSUME RunInit PROVE DeliveryInv
  OBVIOUS
<1>1. /\ native = [w \in Workstreams |-> [s \in Sessions |-> NoSessionRow]]
      /\ runs = [r \in Runs |-> NoRun]
      /\ launcher = [r \in Runs |-> NoLauncher]
  BY DEF RunInit, Init
<1>2. \A w \in Workstreams, s \in Sessions : native[w][s].delivery = 0
  BY <1>1 DEF NoSessionRow
<1>3. HonestDelivery
  BY <1>2 DEF HonestDelivery
<1>4. ASSUME NEW r \in Runs PROVE Delivering(r)
  <2>1. runs[r].state = "free" /\ ~runs[r].delivered
        /\ launcher[r].pc = "off" /\ launcher[r].live = None
    BY <1>1 DEF NoRun, NoLauncher
  <2> QED BY <2>1 DEF Delivering, NamesOne, LinksOne, Active, Harnesses
<1> QED BY <1>3, <1>4 DEF DeliveryInv

---------------------------------------------------------------------------
\* What a run will acknowledge for a session that the launcher named, that
\* session was given or wrote.
THEOREM DeliveryInvariant == RunSpec => []DeliveryInv
<1>1. RunSpec => [](TypeOK /\ IInv) /\ [][LedgerStep]_ledgerVars
  BY LedgerUnderRuns, TypeInvariant, InductiveInvariant, LedgerAppendOnly, PTL
  DEF AppendOnlyByHolder
<1>2. RunSpec => [][NoRegress]_ledgerVars
  BY LedgerUnderRuns, NoRedelivery, PTL DEF DeliveryNeverRegresses, NoRegress
<1>3. LaunchInv /\ (TypeOK /\ IInv) /\ (TypeOK /\ IInv)' /\ DeliveryInv /\ [RunNext]_runVars
        /\ [LedgerStep]_ledgerVars /\ [NoRegress]_ledgerVars => DeliveryInv'
  BY ForwardStep, DeliveryStep DEF Onward
<1> QED BY <1>1, <1>2, <1>3, DeliveryStart, LaunchInvariant, PTL DEF RunSpec

\* No session whose id the launcher chose is ever marked as knowing an event
\* that it neither wrote nor was given, whatever crashed, lapsed or raced.
THEOREM HonestMarks == RunSpec => []HonestDelivery
BY DeliveryInvariant, PTL DEF DeliveryInv
===========================================================================
