------------------------------ MODULE Handoff ------------------------------
(***************************************************************************)
(* Handoffs between sessions of one project: the store transactions        *)
(* (crates/ai-memory-store/src/ops.rs, reader.rs, writer.rs), the startup  *)
(* request and the SessionEnd handler that call them                       *)
(* (ai-memory-hooks/src/router.rs) and the handoff tools                   *)
(* (ai-memory-mcp/src/server.rs).                                          *)
(*                                                                         *)
(* A session that ends after real work leaves an automatic handoff, a      *)
(* "baton", for the next session in its directory; a person may post a     *)
(* manual one.  Batons are numbered in the order they were created, which  *)
(* stands for created_at: the clock is taken never to step back.  What a   *)
(* baton says is left out.                                                 *)
(***************************************************************************)
EXTENDS Naturals

CONSTANTS
    Sessions,     \* native sessions, all of the project
    Agent,        \* a receiver without a session id: the MCP tool, or a hook
                  \* that cannot name its session
    Managed,      \* sessions that `ai-memory run` may start or resume
    Operators,    \* identities that authentication can name
    Shared,       \* no identity: an actorless request, an unowned row
    AnyOwner,     \* the owner filter of an administrator
    Dirs,         \* working directories
    NoDir,        \* a request or row without one
    Within,       \* pairs <<outer, inner>>: a path inside another, or itself
    Keyed,        \* sessions whose events are spooled with an ingest key
    Calls,        \* bound: the <<request, receiver, actor, directory>> with which
                  \* startups, accepts and events occur
    Authors,      \* actors that post manual handoffs
    Topologies,   \* whether the deployment tells operators apart, now or after
                  \* a restart
    MaxBatons,    \* bound: handoffs ever posted
    Requests,     \* bound: startup and accept requests in flight
    Handlers,     \* bound: SessionEnd handlers in flight
    None

Batons == 1..MaxBatons
Actors == Operators \cup {Shared}
Filters == Actors \cup {AnyOwner}
Receivers == Sessions \cup {Agent}

ASSUME BatonAssumption == MaxBatons \in Nat
ASSUME ReceiverAssumption == Agent \notin Sessions /\ None \notin Receivers /\ Managed \subseteq Sessions /\ Keyed \subseteq Sessions
ASSUME OwnerAssumption == Shared \notin Operators /\ AnyOwner \notin Actors
ASSUME NoneAssumption == None \notin Batons
ASSUME DirAssumption == NoDir \notin Dirs /\ Within \subseteq Dirs \X Dirs
ASSUME CallAssumption == Calls \subseteq Requests \X Receivers \X Actors \X (Dirs \cup {NoDir})
ASSUME AuthorAssumption == Authors \subseteq Actors
ASSUME TopologyAssumption == Topologies \subseteq BOOLEAN /\ Topologies # {}

VARIABLES
    baton,      \* baton[h]: the handoffs table
    session,    \* session[s]: the sessions table, and what its observations say
    packet,     \* packet[s]: the managed context of the latest run of s
    request,    \* request[r]: what a startup or accept request has read
    handler,    \* handler[e]: what a SessionEnd handler is doing
    cut,        \* sessions with a keyed end event whose handling was cut short
    tellsApart, \* distinguishes_operators
    readers,    \* history: the receivers each baton was given to
    discarded   \* history: batons cancelled or expired by an operator

vars == <<baton, session, packet, request, handler, cut, tellsApart, readers, discarded>>

-----------------------------------------------------------------------------
(* Rows *)

BatonRow == [state: {"absent", "open", "accepted", "expired"},
             auto: BOOLEAN,                \* from_session_id IS NOT NULL
             dir: Dirs \cup {NoDir}, owner: Actors,
             by: Receivers \cup {None}, user: Actors]

NoBaton == [state |-> "absent", auto |-> FALSE, dir |-> NoDir, owner |-> Shared,
            by |-> None, user |-> Shared]

\* `work`: the session has a prompt or a tool use.  `fresh`: it has more
\* observations than ended_observation_count.
SessionRow == [known: BOOLEAN, owner: Actors, ended: BOOLEAN, work: BOOLEAN, fresh: BOOLEAN]

NoSession == [known |-> FALSE, owner |-> Shared, ended |-> FALSE, work |-> FALSE, fresh |-> FALSE]

RequestRow == [pc: {"idle", "fetched"}, for: Receivers, by: Actors, any: BOOLEAN,
               dir: Dirs \cup {NoDir}, baton: Batons \cup {None}, packet: BOOLEAN]

NoRequest == [pc |-> "idle", for |-> Agent, by |-> Shared, any |-> FALSE,
              dir |-> NoDir, baton |-> None, packet |-> FALSE]

\* The verdict of is_ephemeral_session: `empty` or `page`.
HandlerRow == [pc: {"idle", "empty", "page"},
               session: Sessions \cup {None}]

NoHandler == [pc |-> "idle", session |-> None]

Init ==
    /\ baton = [h \in Batons |-> NoBaton]
    /\ session = [s \in Sessions |-> NoSession]
    /\ packet = [s \in Sessions |-> "none"]
    /\ request = [r \in Requests |-> NoRequest]
    /\ handler = [e \in Handlers |-> NoHandler]
    /\ cut = {}
    /\ tellsApart \in Topologies
    /\ readers = [h \in Batons |-> {}]
    /\ discarded = {}

-----------------------------------------------------------------------------
(* Owners, directories and order *)

\* Mutant: everybody's batons are everybody's.
AdmitsAll(filter, owner) == TRUE

\* OwnerFilter::admits
Admits(filter, owner) == owner = Shared \/ filter = AnyOwner \/ filter = owner

\* owner_stamp_for_event
Stamp(actor) == IF tellsApart THEN actor ELSE Shared

\* auto_handoff_matches_cwd
Matches(outer, inner) == outer = NoDir \/ inner = NoDir \/ <<outer, inner>> \in Within

\* handoff_selection_key: manual before automatic, then the newest
Beats(h, g) ==
    IF baton[h].auto = baton[g].auto THEN h > g ELSE baton[g].auto

OpenBatons == {h \in Batons : baton[h].state = "open"}
OpenAutos == {h \in OpenBatons : baton[h].auto}

Candidates(filter, dir) ==
    {h \in OpenBatons : /\ Admits(filter, baton[h].owner)
                        /\ baton[h].auto => Matches(baton[h].dir, dir)}

\* latest_open_handoff
Latest(filter, dir, h) ==
    LET c == Candidates(filter, dir)
    IN IF c = {} THEN h = None
       ELSE h \in c /\ \A g \in c \ {h} : Beats(h, g)

Holding(s) == {h \in Batons : baton[h].state = "accepted" /\ baton[h].by = s}

\* Batons are created in the order of their numbers.
Unused(h) == /\ baton[h].state = "absent"
             /\ \A g \in 1..(h - 1) : baton[g].state # "absent"

\* Mutant: no update.
RetiredNone(dir, owner) == {}

\* insert_handoff_row: an automatic baton retires the open automatic ones of
\* its directory and owner.
Retired(dir, owner) ==
    {g \in OpenAutos : baton[g].dir = dir /\ baton[g].owner = owner}

\* Mutant: not limited to older batons.
SupersededAll(h, dir) ==
    {g \in OpenAutos : /\ g # h
                       /\ baton[g].owner = baton[h].owner
                       /\ Matches(baton[g].dir, IF dir = NoDir THEN baton[h].dir ELSE dir)}

\* expire_superseded_auto_handoffs: what an accepted automatic baton leaves
\* behind in the receiving directory.
Superseded(h, dir) ==
    {g \in OpenAutos : /\ g < h
                       /\ baton[g].owner = baton[h].owner
                       /\ Matches(baton[g].dir, IF dir = NoDir THEN baton[h].dir ELSE dir)}

ExpireRows(rows, gone) == [g \in Batons |-> IF g \in gone THEN [rows[g] EXCEPT !.state = "expired"] ELSE rows[g]]

PostedRow(auto, dir, owner) ==
    [NoBaton EXCEPT !.state = "open", !.auto = auto, !.dir = dir, !.owner = owner]

-----------------------------------------------------------------------------
(* Observations *)

ObservedRow(row, actor, working) ==
    [known |-> TRUE, owner |-> IF row.known THEN row.owner ELSE Stamp(actor),
     ended |-> row.ended, work |-> row.work \/ working, fresh |-> TRUE]

\* A hook event other than SessionEnd, `working` for a prompt or a tool use.
\* An event of someone the session does not belong to is dropped.
Observe(s, actor, working) ==
    /\ LET row == ObservedRow(session[s], actor, working) IN
       /\ Admits(actor, row.owner)
       /\ session' = [session EXCEPT ![s] = row]
    /\ UNCHANGED <<baton, packet, request, handler, cut, tellsApart, readers, discarded>>

-----------------------------------------------------------------------------
(* GET /handoff at session start, and memory_handoff_accept *)

\* Reads the managed packet, then the best open baton.  Only the tool may ask
\* for every owner's.
StartFetch(r, x, actor, any, dir) ==
    /\ request[r].pc = "idle"
    /\ any => x = Agent
    /\ \E h \in Batons \cup {None} :
          /\ Latest(IF any THEN AnyOwner ELSE actor, dir, h)
          /\ LET wanted == x \in Sessions /\ packet[x] = "pending" IN
             /\ h # None \/ wanted
             /\ request' = [request EXCEPT ![r] =
                   [pc |-> "fetched", for |-> x, by |-> actor,
                    any |-> any, dir |-> dir, baton |-> h, packet |-> wanted]]
    /\ UNCHANGED <<baton, session, packet, handler, cut, tellsApart, readers, discarded>>

\* The admission chain refuses the claim or takes longer than
\* AUTOMATIC_HANDOFF_ADMISSION_TIMEOUT: the startup goes on without the baton.
\* The tool fails instead (Abandon).
StartRefused(r) ==
    /\ request[r].pc = "fetched" /\ request[r].baton # None
    /\ request[r].for # Agent
    /\ request' = [request EXCEPT ![r] = IF @.packet THEN [@ EXCEPT !.baton = None] ELSE NoRequest]
    /\ UNCHANGED <<baton, session, packet, handler, cut, tellsApart, readers, discarded>>

\* A client that has gone away, a refused tool call, a server that died.
Abandon(r) ==
    /\ request[r].pc # "idle"
    /\ request' = [request EXCEPT ![r] = NoRequest]
    /\ UNCHANGED <<baton, session, packet, handler, cut, tellsApart, readers, discarded>>

\* Mutant: an ended session may accept.
ReceiverValidEnded(r) ==
    LET s == request[r].for IN
    request[r].baton # None /\ s \in Sessions =>
        (session[s].known => session[s].owner = Stamp(request[r].by))

\* A claim with a session id registers the session first, which must have the
\* stamp of this request (begin_session_in_transaction) and be open
\* (accept_handoff_in_transaction); otherwise the transaction fails.
ReceiverValid(r) ==
    LET s == request[r].for IN
    request[r].baton # None /\ s \in Sessions =>
        ~session[s].ended /\ (session[s].known => session[s].owner = Stamp(request[r].by))

\* Mutant: the baton is claimed although the packet was not.
PacketIgnored(r) == TRUE

PacketValid(r) == request[r].packet => packet[request[r].for] = "pending"

\* Mutant: a session may take a second baton.
TakesMore(r) == request[r].baton # None /\ baton[request[r].baton].state = "open"

\* Mutant: the update without `AND state = 'open'`.
TakesTaken(r) ==
    /\ request[r].baton # None
    /\ request[r].for \in Sessions => Holding(request[r].for) = {}

\* The compare-and-set of the baton, for a session that holds none yet.
Takes(r) ==
    LET h == request[r].baton IN
    /\ h # None
    /\ request[r].for \in Sessions => Holding(request[r].for) = {}
    /\ baton[h].state = "open"
    /\ Admits(IF request[r].any THEN AnyOwner ELSE request[r].by, baton[h].owner)

TakenRows(r) ==
    LET h == request[r].baton
        rows == [baton EXCEPT ![h] = [@ EXCEPT !.state = "accepted", !.by = request[r].for,
                                               !.user = request[r].by]]
    IN ExpireRows(rows, IF baton[h].auto THEN Superseded(h, request[r].dir) ELSE {})

Registered(r) ==
    LET s == request[r].for IN
    IF request[r].baton # None /\ s \in Sessions /\ ~session[s].known
    THEN [session EXCEPT ![s] = [@ EXCEPT !.known = TRUE, !.owner = Stamp(request[r].by)]]
    ELSE session

\* accept_startup_context: one transaction for session row, packet and baton,
\* and the answer.  A failed one answers with nothing.
StartClaim(r) ==
    /\ request[r].pc = "fetched"
    /\ request' = [request EXCEPT ![r] = NoRequest]
    /\ IF ReceiverValid(r) /\ PacketValid(r)
       THEN /\ session' = Registered(r)
            /\ packet' = IF request[r].packet THEN [packet EXCEPT ![request[r].for] = "claimed"]
                                              ELSE packet
            /\ IF Takes(r)
               THEN /\ baton' = TakenRows(r)
                    /\ readers' = [readers EXCEPT ![request[r].baton] = @ \cup {request[r].for}]
               ELSE UNCHANGED <<baton, readers>>
       ELSE UNCHANGED <<baton, session, packet, readers>>
    /\ UNCHANGED <<handler, cut, tellsApart, discarded>>

\* prepare_run: a run that starts or resumes the session.
RunPrepared(s) ==
    /\ s \in Managed
    /\ packet[s] # "pending"
    /\ packet' = [packet EXCEPT ![s] = "pending"]
    /\ UNCHANGED <<baton, session, request, handler, cut, tellsApart, readers, discarded>>

\* The run ends, is cancelled or expires: its packet can no longer be claimed.
RunOver(s) ==
    /\ packet[s] = "pending"
    /\ packet' = [packet EXCEPT ![s] = "none"]
    /\ UNCHANGED <<baton, session, request, handler, cut, tellsApart, readers, discarded>>

-----------------------------------------------------------------------------
(* SessionEnd *)

\* admit_hook_session_event: a new event adds an observation; a replay of a
\* keyed event that was cut short does not, and finds the session already
\* ended when nothing has happened since its end.  The observations are read
\* next; work that comes in between is found by the end's own transaction.
EndAdmit(e, s, filter) ==
    /\ handler[e].pc = "idle"
    /\ session[s].known
    /\ Admits(filter, session[s].owner)
    /\ \/ /\ session[s].ended => session[s].fresh
          /\ session' = [session EXCEPT ![s].fresh = TRUE]
          /\ UNCHANGED cut
       \/ /\ s \in cut
          /\ session[s].ended => session[s].fresh
          /\ cut' = cut \ {s}
          /\ UNCHANGED session
    /\ handler' = [handler EXCEPT ![e] =
          [pc |-> IF session[s].work THEN "page" ELSE "empty", session |-> s]]
    /\ UNCHANGED <<baton, packet, request, tellsApart, readers, discarded>>

\* The replay of an end that did commit only repairs what followed it.
EndReplayed(s) ==
    /\ s \in cut
    /\ session[s].ended /\ ~session[s].fresh
    /\ cut' = cut \ {s}
    /\ UNCHANGED <<baton, session, packet, request, handler, tellsApart, readers, discarded>>

\* The end has committed.  The handler goes on to mark the key complete, or is
\* cut short before that.
Settle(e) ==
    /\ handler' = [handler EXCEPT ![e] = NoHandler]
    /\ cut' \in {cut, cut \cup ({handler[e].session} \cap Keyed)}

EndedRow(row) == [row EXCEPT !.ended = TRUE, !.fresh = FALSE]

\* Mutant: the router's verdict is not checked again.
StillEmptyAsRead(s) == TRUE

\* Whether the transaction that ends an empty session finds it still empty.
StillEmpty(s) == ~session[s].work

\* Mutant: the state is reset and the acceptance is not.
ReopenedClaimed(s) ==
    [h \in Batons |-> IF h \in Holding(s) THEN [baton[h] EXCEPT !.state = "open"] ELSE baton[h]]

ReopenedRows(s) ==
    [h \in Batons |-> IF h \in Holding(s)
                      THEN [baton[h] EXCEPT !.state = "open", !.by = None, !.user = Shared]
                      ELSE baton[h]]

\* end_lifecycle_only_session_in_tx.  A session holds at most one baton
\* (HoldsOne), so "the latest one it accepted" is all it holds.
EndEmpty(e) ==
    LET s == handler[e].session IN
    /\ handler[e].pc = "empty"
    /\ IF StillEmpty(s)
       THEN /\ session' = [session EXCEPT ![s] = EndedRow(@)]
            /\ baton' = ReopenedRows(s)
            /\ Settle(e)
       ELSE /\ handler' = [handler EXCEPT ![e].pc = "page"]
            /\ UNCHANGED <<session, baton, cut>>
    /\ UNCHANGED <<packet, request, tellsApart, readers, discarded>>

\* end_admitted_session_with_handoff, after the page was written: the end
\* stamp and the baton in one transaction.  The baton has the directory of the
\* event; it is stamped with the session's owner, and must have it.
EndWithHandoff(e, h, dir) ==
    LET s == handler[e].session
        owner == Stamp(session[s].owner)
    IN
    /\ handler[e].pc = "page"
    /\ owner = session[s].owner
    /\ Unused(h)
    /\ session' = [session EXCEPT ![s] = EndedRow(@)]
    /\ baton' = [ExpireRows(baton, Retired(dir, owner))
                    EXCEPT ![h] = PostedRow(TRUE, dir, owner)]
    /\ Settle(e)
    /\ UNCHANGED <<packet, request, tellsApart, readers, discarded>>

\* The store rejects the baton as a session collision, which the batch
\* endpoint counts as accepted: the event is over and the session not ended.
EndCollision(e) ==
    LET s == handler[e].session IN
    /\ handler[e].pc = "page"
    /\ Stamp(session[s].owner) # session[s].owner
    /\ handler' = [handler EXCEPT ![e] = NoHandler]
    /\ UNCHANGED <<baton, session, packet, request, cut, tellsApart, readers, discarded>>

\* A managed run's session, or a baton the admission chain refused.
EndWithoutHandoff(e) ==
    /\ handler[e].pc = "page"
    /\ session' = [session EXCEPT ![handler[e].session] = EndedRow(@)]
    /\ Settle(e)
    /\ UNCHANGED <<baton, packet, request, tellsApart, readers, discarded>>

\* The handler's request is cancelled, a store call fails, the server dies.
EndCut(e) ==
    /\ handler[e].pc # "idle"
    /\ cut' = cut \cup ({handler[e].session} \cap Keyed)
    /\ handler' = [handler EXCEPT ![e] = NoHandler]
    /\ UNCHANGED <<baton, session, packet, request, tellsApart, readers, discarded>>

-----------------------------------------------------------------------------
(* Tools and administration *)

\* memory_handoff_begin: a manual baton, which retires nothing.  Its directory
\* is never compared; a shared one is posted without an owner.
Begin(h, actor) ==
    /\ Unused(h)
    /\ baton' = [baton EXCEPT ![h] = PostedRow(FALSE, NoDir, Stamp(actor))]
    /\ UNCHANGED <<session, packet, request, handler, cut, tellsApart, readers, discarded>>

\* memory_handoff_cancel, and expire_open_handoffs: an exact id, or everything
\* up to an age, of what the operator may see.
Visible(filter, cutoff) == {h \in OpenBatons : h <= cutoff /\ Admits(filter, baton[h].owner)}

Discard(gone) ==
    /\ gone # {}
    /\ baton' = ExpireRows(baton, gone)
    /\ discarded' = discarded \cup gone
    /\ UNCHANGED <<session, packet, request, handler, cut, tellsApart, readers>>

\* A restart with other authentication settings, or a first user.
Reconfigure ==
    /\ tellsApart' \in Topologies
    /\ tellsApart' # tellsApart
    /\ UNCHANGED <<baton, session, packet, request, handler, cut, readers, discarded>>

-----------------------------------------------------------------------------

Next ==
    \/ \E c \in Calls, working \in BOOLEAN : c[2] # Agent /\ Observe(c[2], c[3], working)
    \/ \E c \in Calls, any \in BOOLEAN : StartFetch(c[1], c[2], c[3], any, c[4])
    \/ \E r \in Requests : StartClaim(r) \/ StartRefused(r) \/ Abandon(r)
    \/ \E s \in Sessions : RunPrepared(s) \/ RunOver(s) \/ EndReplayed(s)
    \/ \E e \in Handlers, c \in Calls, filter \in Filters :
          c[2] # Agent /\ filter \in {c[3], AnyOwner} /\ EndAdmit(e, c[2], filter)
    \/ \E e \in Handlers : \/ EndEmpty(e) \/ EndWithoutHandoff(e) \/ EndCut(e)
    \/ \E e \in Handlers, h \in Batons, c \in Calls :
          c[2] = handler[e].session /\ EndWithHandoff(e, h, c[4])
    \/ \E h \in Batons, actor \in Authors : Begin(h, actor)
    \/ \E gone \in {{h} : h \in Visible(AnyOwner, MaxBatons)}
                  \cup {Visible(filter, cutoff) : filter \in Filters, cutoff \in Batons} : Discard(gone)

Spec == Init /\ [][Next]_vars

\* The settings change while sessions are under way.
RestartNext == Next \/ Reconfigure \/ \E e \in Handlers : EndCollision(e)

RestartSpec == Init /\ [][RestartNext]_vars

-----------------------------------------------------------------------------
(* Properties *)

\* The tables and requests are well typed, and a baton names its receiver
\* exactly while it is accepted: a returned one is "indistinguishable from the
\* original open row" (end_lifecycle_only_session).
TypeOK ==
    /\ baton \in [Batons -> BatonRow]
    /\ \A h \in Batons : (baton[h].state = "accepted") <=> (baton[h].by # None)
    /\ session \in [Sessions -> SessionRow]
    /\ packet \in [Sessions -> {"none", "pending", "claimed"}]
    /\ request \in [Requests -> RequestRow]
    /\ handler \in [Handlers -> HandlerRow]
    /\ cut \subseteq Sessions
    /\ tellsApart \in Topologies
    /\ readers \in [Batons -> SUBSET Receivers]
    /\ discarded \subseteq Batons

\* "Callers must not hand the body to the agent on `false`, or a lost race
\* delivers the same baton twice" (accept_handoff): whoever was given a baton
\* and is not its holder is a session that has ended.
OneActiveReader ==
    \A h \in Batons : \A x \in readers[h] :
        \/ baton[h].state = "accepted" /\ baton[h].by = x
        \/ x \in Sessions /\ session[x].ended

\* "One receiver must never consume a second baton, or an empty end could
\* return only one and strand the first" (accept_handoff_in_transaction).
HoldsOne ==
    \A s \in Sessions : \A g, h \in Holding(s) : g = h

\* A session that ended without any work, whatever overlapped with its end,
\* leaves no baton taken (end_lifecycle_only_session).
UnusedIsReturned ==
    \A s \in Sessions : session[s].ended /\ ~session[s].work => Holding(s) = {}

\* A baton that no operator discarded is expired only in favour of a newer
\* automatic one of the same owner that is there to be read, was read, or was
\* discarded by an operator; a manual one is never swept
\* (insert_handoff_row, expire_superseded_auto_handoffs).
SweptHasSuccessor ==
    \A h \in Batons \ discarded :
        baton[h].state = "expired" =>
            /\ baton[h].auto
            /\ \E g \in Batons :
                  /\ g > h
                  /\ baton[g].auto /\ baton[g].owner = baton[h].owner
                  /\ baton[g].state \in {"open", "accepted"} \/ g \in discarded

\* Abandoned sessions of one directory do not pile up: of two open automatic
\* batons of one directory and owner, the older was returned by a reader.
OneFreshPerDirectory ==
    \A g, h \in OpenAutos :
        g < h /\ baton[g].dir = baton[h].dir /\ baton[g].owner = baton[h].owner
            => readers[g] # {}

\* A session start claims only unowned batons and those of its own operator
\* (is_handoff_candidate, accept_handoff_in_transaction).
OwnerRespected ==
    \A s \in Sessions : \A h \in Holding(s) : baton[h].owner \in {Shared, baton[h].user}

\* "Claim both single-use inputs ... in one transaction so a failed or racing
\* managed claim cannot consume the handoff by itself" (router.rs): a startup
\* that read a packet takes its baton only together with the packet.
ClaimedTogether ==
    [][\A r \in Requests :
          /\ request[r].packet /\ request[r].baton # None
          /\ baton[request[r].baton].state # baton'[request[r].baton].state
          /\ StartClaim(r)
          => packet[request[r].for] = "pending" /\ packet'[request[r].for] = "claimed"]_vars

\* Work that arrives while a session is ended keeps its baton: only a session
\* without work gives one back (the recheck of end_lifecycle_only_session).
ReturnedUnused ==
    [][\A h \in Batons :
          baton[h].state = "accepted" /\ baton'[h].state # "accepted" =>
              /\ baton[h].by \in Sessions /\ ~session[baton[h].by].work
              /\ baton'[h].state = "open"]_vars

StateOf ==
    [h \in Batons |-> CASE baton[h].state = "accepted" -> "held"
                        [] baton[h].state = "expired" -> "void"
                        [] OTHER -> baton[h].state]

HolderOf == [h \in Batons |-> baton[h].by]

Over == {s \in Sessions : session[s].ended}

Promise == INSTANCE Baton WITH
    Anonymous <- Agent, state <- StateOf, holder <- HolderOf, over <- Over

\* Every behaviour, restarts with other settings included, is one of
\* single-use batons.
ImplementsBaton == Promise!Spec

\* "When both exist, the curated handoff is rendered first and their delivery
\* claims commit atomically" (docs/design-decisions.md): a startup that read a
\* packet nobody else claimed leaves it claimed.
PacketDelivered ==
    [][\A r \in Requests :
          request[r].packet /\ packet[request[r].for] = "pending" /\ StartClaim(r)
          => packet'[request[r].for] = "claimed"]_vars

=============================================================================
