--------------------------- MODULE HandoffProofs ---------------------------
(***************************************************************************)
(* Handoffs are single-use batons, for any sessions, operators,            *)
(* directories and numbers of requests and handlers.  The proofs hold for  *)
(* RestartSpec, whose settings may change, and so for Spec.                *)
(***************************************************************************)
EXTENDS Handoff, TLAPS

\* Requests and handlers name what they work for; only the tool asks for
\* every owner's batons, only a session has a packet, and a handler with the
\* verdict `page` saw work.
InFlight ==
    /\ \A r \in Requests : /\ request[r].any => request[r].for = Agent
                           /\ request[r].packet => request[r].for \in Sessions
    /\ \A e \in Handlers :
          handler[e].pc # "idle" =>
              /\ handler[e].session \in Sessions
              /\ handler[e].pc = "page" => session[handler[e].session].work

Typed == TypeOK /\ InFlight

\* Expiring rows keeps them well formed as long as only open ones expire.
LEMMA ExpireType ==
    ASSUME NEW rows \in [Batons -> BatonRow], NEW gone,
           \A h \in Batons : (rows[h].state = "accepted") <=> (rows[h].by # None),
           \A h \in Batons : h \in gone => rows[h].state # "accepted"
    PROVE  /\ ExpireRows(rows, gone) \in [Batons -> BatonRow]
           /\ \A h \in Batons : (ExpireRows(rows, gone)[h].state = "accepted")
                                    <=> (ExpireRows(rows, gone)[h].by # None)
BY DEF ExpireRows, BatonRow

LEMMA OpenNotAccepted ==
    ASSUME NEW h \in Batons, h \in OpenBatons PROVE baton[h].state = "open"
BY DEF OpenBatons

LEMMA TypedInit == Init => Typed
<1> SUFFICES ASSUME Init PROVE Typed
    OBVIOUS
<1> USE DEF Init
<1>1. baton \in [Batons -> BatonRow]
    BY DEF NoBaton, BatonRow, Actors
<1>2. session \in [Sessions -> SessionRow]
    BY DEF NoSession, SessionRow, Actors
<1>3. request \in [Requests -> RequestRow]
    BY DEF NoRequest, RequestRow, Receivers, Actors
<1>4. handler \in [Handlers -> HandlerRow]
    BY DEF NoHandler, HandlerRow
<1>5. \A h \in Batons : (baton[h].state = "accepted") <=> (baton[h].by # None)
    BY DEF NoBaton
<1>6. InFlight
    BY DEF InFlight, NoRequest, NoHandler
<1> QED
    BY <1>1, <1>2, <1>3, <1>4, <1>5, <1>6, TopologyAssumption DEF Typed, TypeOK

\* What an actor is stamped with is an actor.
LEMMA StampType == \A a \in Actors : Stamp(a) \in Actors
BY DEF Stamp, Actors

\* The end stamp leaves the rest of a session row alone.
LEMMA EndedType ==
    \A row \in SessionRow : /\ EndedRow(row) \in SessionRow
                            /\ EndedRow(row).work = row.work
                            /\ EndedRow(row).owner = row.owner
                            /\ EndedRow(row).ended
BY DEF EndedRow, SessionRow

LEMMA TypedStep == Typed /\ [RestartNext]_vars => Typed'
<1> SUFFICES ASSUME Typed, [RestartNext]_vars PROVE Typed'
    OBVIOUS
<1> USE DEF Typed
<1>a. ASSUME NEW c \in Calls, NEW working \in BOOLEAN, c[2] # Agent, Observe(c[2], c[3], working)
      PROVE  Typed'
    <2>1. c[2] \in Sessions /\ c[3] \in Actors
        BY <1>a, CallAssumption DEF Receivers
    <2>2. Stamp(c[3]) \in Actors
        BY <2>1, StampType
    <2> DEFINE row == ObservedRow(session[c[2]], c[3], working)
    <2>r. row \in SessionRow /\ (session[c[2]].work => row.work)
        BY <2>1, <2>2 DEF ObservedRow, TypeOK, SessionRow
    <2>s. session' = [session EXCEPT ![c[2]] = row]
        BY <1>a DEF Observe
    <2>3. session' \in [Sessions -> SessionRow]
        BY <2>1, <2>r, <2>s DEF TypeOK
    <2>4. \A s \in Sessions : session[s].work => session'[s].work
        BY <2>1, <2>r, <2>s DEF TypeOK
    <2>5. TypeOK'
        BY <1>a, <2>3 DEF Observe, TypeOK, OpenBatons
    <2>6. InFlight'
        BY <1>a, <2>4 DEF Observe, InFlight
    <2> QED BY <2>5, <2>6
<1>b. ASSUME NEW c \in Calls, NEW any \in BOOLEAN, StartFetch(c[1], c[2], c[3], any, c[4])
      PROVE  Typed'
    <2>1. c[1] \in Requests /\ c[2] \in Receivers /\ c[3] \in Actors /\ c[4] \in Dirs \cup {NoDir}
        BY CallAssumption
    <2>2. PICK h \in Batons \cup {None} :
              request' = [request EXCEPT ![c[1]] =
                   [pc |-> "fetched", for |-> c[2], by |-> c[3], any |-> any, dir |-> c[4],
                    baton |-> h, packet |-> (c[2] \in Sessions /\ packet[c[2]] = "pending")]]
        BY <1>b DEF StartFetch
    <2>3. request' \in [Requests -> RequestRow]
        BY <2>1, <2>2 DEF TypeOK, RequestRow
    <2>4. TypeOK'
        BY <1>b, <2>3 DEF StartFetch, TypeOK
    <2>5. InFlight'
        BY <1>b, <2>1, <2>2 DEF StartFetch, TypeOK, InFlight
    <2> QED BY <2>4, <2>5
<1>c. ASSUME NEW r \in Requests, StartRefused(r) \/ Abandon(r)
      PROVE  Typed'
    <2> DEFINE row == request'[r]
    <2>a. request[r] \in RequestRow /\ (request[r].any => request[r].for = Agent)
         /\ (request[r].packet => request[r].for \in Sessions)
        BY DEF TypeOK, InFlight
    <2>b. NoRequest \in RequestRow /\ ~NoRequest.any /\ ~NoRequest.packet
        BY DEF NoRequest, RequestRow, Actors, Receivers
    <2>c. /\ [request[r] EXCEPT !.baton = None] \in RequestRow
          /\ [request[r] EXCEPT !.baton = None].any = request[r].any
          /\ [request[r] EXCEPT !.baton = None].for = request[r].for
          /\ [request[r] EXCEPT !.baton = None].packet = request[r].packet
        BY <2>a DEF RequestRow
    <2>d. \/ request' = [request EXCEPT ![r] = NoRequest]
          \/ request' = [request EXCEPT ![r] = [request[r] EXCEPT !.baton = None]]
        BY <1>c DEF StartRefused, Abandon
    <2>1. request' \in [Requests -> RequestRow] /\ \A q \in Requests : (request'[q].any => request'[q].for = Agent)
                                                    /\ (request'[q].packet => request'[q].for \in Sessions)
        BY <2>a, <2>b, <2>c, <2>d DEF TypeOK, InFlight
    <2>2. UNCHANGED <<baton, session, packet, handler, cut, tellsApart, readers, discarded>>
        BY <1>c DEF StartRefused, Abandon
    <2> QED BY <2>1, <2>2 DEF TypeOK, InFlight
<1>d. ASSUME NEW r \in Requests, StartClaim(r)
      PROVE  Typed'
    <2> DEFINE h == request[r].baton
               s == request[r].for
    <2>0. request[r] \in RequestRow /\ s \in Receivers /\ request[r].by \in Actors
        BY DEF TypeOK, RequestRow
    <2>1. request' \in [Requests -> RequestRow] /\ \A q \in Requests : (request'[q].any => request'[q].for = Agent)
                                                    /\ (request'[q].packet => request'[q].for \in Sessions)
        BY <1>d DEF StartClaim, TypeOK, InFlight, RequestRow, NoRequest, Actors, Receivers
    <2>2. Registered(r) \in [Sessions -> SessionRow]
          /\ \A x \in Sessions : session[x].work => Registered(r)[x].work
        BY <2>0, StampType DEF Registered, TypeOK, SessionRow
    <2>3. session' \in [Sessions -> SessionRow] /\ \A x \in Sessions : session[x].work => session'[x].work
        BY <1>d, <2>2 DEF StartClaim, TypeOK
    <2>4. packet' \in [Sessions -> {"none", "pending", "claimed"}]
        BY <1>d DEF StartClaim, TypeOK
    <2>5. /\ baton' \in [Batons -> BatonRow]
          /\ \A g \in Batons : (baton'[g].state = "accepted") <=> (baton'[g].by # None)
          /\ readers' \in [Batons -> SUBSET Receivers]
        <3>1. CASE UNCHANGED <<baton, readers>>
            BY <3>1 DEF TypeOK
        <3>2. CASE Takes(r) /\ baton' = TakenRows(r)
                   /\ readers' = [readers EXCEPT ![h] = @ \cup {s}]
            <4>1. h \in Batons
                BY <2>0, <3>2 DEF Takes, RequestRow
            <4> DEFINE rows == [baton EXCEPT ![h] = [@ EXCEPT !.state = "accepted", !.by = s,
                                                              !.user = request[r].by]]
                       gone == IF baton[h].auto THEN Superseded(h, request[r].dir) ELSE {}
            <4>2. /\ rows \in [Batons -> BatonRow]
                  /\ \A g \in Batons : (rows[g].state = "accepted") <=> (rows[g].by # None)
                <5> DEFINE row == [baton[h] EXCEPT !.state = "accepted", !.by = s,
                                                   !.user = request[r].by]
                <5>1. baton \in [Batons -> BatonRow]
                    BY DEF TypeOK
                <5>2. \A g \in Batons : (baton[g].state = "accepted") <=> (baton[g].by # None)
                    BY DEF TypeOK
                <5>3. baton[h] \in BatonRow
                    BY <4>1, <5>1
                <5>4. row \in BatonRow /\ row.state = "accepted" /\ row.by = s
                    BY <2>0, <5>3 DEF BatonRow
                <5>5. s # None
                    BY <2>0, ReceiverAssumption
                <5>6. rows = [baton EXCEPT ![h] = row]
                    OBVIOUS
                <5> HIDE DEF row, rows, s, h
                <5>7. rows \in [Batons -> BatonRow]
                    BY <4>1, <5>1, <5>4, <5>6
                <5>8. ASSUME NEW g \in Batons
                      PROVE  (rows[g].state = "accepted") <=> (rows[g].by # None)
                    <6>1. CASE g = h
                        <7>1. rows[g] = row
                            BY <5>1, <5>6, <6>1
                        <7> QED BY <5>4, <5>5, <7>1
                    <6>2. CASE g # h
                        <7>1. rows[g] = baton[g]
                            BY <5>1, <5>6, <6>2
                        <7> QED BY <5>2, <7>1
                    <6> QED BY <6>1, <6>2
                <5> QED BY <5>7, <5>8
            <4>3. \A g \in Batons : g \in gone => g # h /\ baton[g].state = "open"
                BY <4>1 DEF Superseded, OpenAutos, OpenBatons, Batons
            <4>4. \A g \in Batons : g \in gone => rows[g].state # "accepted"
                BY <4>1, <4>3 DEF TypeOK
            <4>5. /\ ExpireRows(rows, gone) \in [Batons -> BatonRow]
                  /\ \A g \in Batons : (ExpireRows(rows, gone)[g].state = "accepted")
                                          <=> (ExpireRows(rows, gone)[g].by # None)
                <5> HIDE DEF rows, gone
                <5> QED BY <4>2, <4>4, ExpireType
            <4>6. baton' = ExpireRows(rows, gone)
                BY <3>2 DEF TakenRows
            <4>7. readers' \in [Batons -> SUBSET Receivers]
                BY <2>0, <3>2, <4>1 DEF TypeOK
            <4> QED BY <4>5, <4>6, <4>7
        <3> QED BY <1>d, <3>1, <3>2 DEF StartClaim
    <2>6. UNCHANGED <<handler, cut, tellsApart, discarded>>
        BY <1>d DEF StartClaim
    <2> QED BY <2>1, <2>3, <2>4, <2>5, <2>6 DEF TypeOK, InFlight
<1>e. ASSUME NEW s \in Sessions, RunPrepared(s) \/ RunOver(s)
      PROVE  Typed'
    <2>1. packet' \in [Sessions -> {"none", "pending", "claimed"}]
        BY <1>e DEF RunPrepared, RunOver, TypeOK
    <2>2. UNCHANGED <<baton, session, request, handler, cut, tellsApart, readers, discarded>>
        BY <1>e DEF RunPrepared, RunOver
    <2> QED BY <2>1, <2>2 DEF TypeOK, InFlight
<1>f. ASSUME NEW s \in Sessions, EndReplayed(s)
      PROVE  Typed'
    BY <1>f DEF EndReplayed, TypeOK, InFlight
<1>g. ASSUME NEW e \in Handlers, NEW c \in Calls, NEW filter \in Filters, c[2] # Agent,
             EndAdmit(e, c[2], filter)
      PROVE  Typed'
    <2>1. c[2] \in Sessions
        BY <1>g, CallAssumption DEF Receivers
    <2>2. session' \in [Sessions -> SessionRow] /\ \A x \in Sessions : session'[x].work = session[x].work
        <3>1. session' = session \/ session' = [session EXCEPT ![c[2]] = [session[c[2]] EXCEPT !.fresh = TRUE]]
            BY <1>g DEF EndAdmit
        <3>2. /\ [session[c[2]] EXCEPT !.fresh = TRUE] \in SessionRow
              /\ [session[c[2]] EXCEPT !.fresh = TRUE].work = session[c[2]].work
            BY <2>1 DEF TypeOK, SessionRow
        <3> QED BY <2>1, <3>1, <3>2 DEF TypeOK
    <2>3. handler' = [handler EXCEPT ![e] = [pc |-> IF session[c[2]].work THEN "page" ELSE "empty",
                                             session |-> c[2]]]
        BY <1>g DEF EndAdmit
    <2>4. handler' \in [Handlers -> HandlerRow]
        BY <2>1, <2>3 DEF TypeOK, HandlerRow
    <2>5. cut' \subseteq Sessions
        BY <1>g DEF EndAdmit, TypeOK
    <2>6. UNCHANGED <<baton, packet, request, tellsApart, readers, discarded>>
        BY <1>g DEF EndAdmit
    <2>7. InFlight'
        BY <2>1, <2>2, <2>3, <2>6 DEF TypeOK, InFlight
    <2> QED BY <2>2, <2>4, <2>5, <2>6, <2>7 DEF TypeOK
<1>h. ASSUME NEW e \in Handlers, EndEmpty(e) \/ EndWithoutHandoff(e)
                                 \/ EndCut(e) \/ EndCollision(e)
      PROVE  Typed'
    <2> DEFINE s == handler[e].session
    <2>1. s \in Sessions
        BY <1>h DEF EndEmpty, EndWithoutHandoff, EndCut, EndCollision, InFlight
    <2>2. /\ session' \in [Sessions -> SessionRow]
          /\ \A x \in Sessions : session'[x].work = session[x].work
        <3>1. session' = session \/ session' = [session EXCEPT ![s] = EndedRow(session[s])]
            BY <1>h DEF EndEmpty, EndWithoutHandoff, EndCut, EndCollision
        <3> QED BY <2>1, <3>1, EndedType DEF TypeOK
    <2>3. cut' \subseteq Sessions
        BY <1>h, <2>1 DEF EndEmpty, EndWithoutHandoff, EndCut, EndCollision, TypeOK, Settle
    <2>4. \/ handler' = [handler EXCEPT ![e] = NoHandler]
          \/ /\ handler' = [handler EXCEPT ![e].pc = "page"]
             /\ session[s].work
        <3>1. CASE EndEmpty(e)
            <4>1. CASE StillEmpty(s)
                BY <3>1, <4>1 DEF EndEmpty, Settle
            <4>2. CASE ~StillEmpty(s)
                BY <3>1, <4>2 DEF EndEmpty, StillEmpty
            <4> QED BY <4>1, <4>2
        <3>2. CASE EndWithoutHandoff(e) \/ EndCut(e) \/ EndCollision(e)
            BY <3>2 DEF EndWithoutHandoff, EndCut, EndCollision, Settle
        <3> QED BY <1>h, <3>1, <3>2
    <2>5. handler' \in [Handlers -> HandlerRow]
        BY <2>4 DEF TypeOK, HandlerRow, NoHandler
    <2>6. /\ baton' \in [Batons -> BatonRow]
          /\ \A h \in Batons : (baton'[h].state = "accepted") <=> (baton'[h].by # None)
        <3>1. CASE UNCHANGED baton
            BY <3>1 DEF TypeOK
        <3>2. CASE baton' = ReopenedRows(s)
            <4>1. /\ baton \in [Batons -> BatonRow]
                  /\ \A h \in Batons : (baton[h].state = "accepted") <=> (baton[h].by # None)
                BY DEF TypeOK
            <4>2. ASSUME NEW h \in Batons
                  PROVE  LET row == [baton[h] EXCEPT !.state = "open", !.by = None, !.user = Shared]
                         IN row \in BatonRow /\ row.state = "open" /\ row.by = None
                BY <4>1 DEF BatonRow, Actors
            <4> QED BY <3>2, <4>1, <4>2 DEF ReopenedRows
        <3> QED BY <1>h, <3>1, <3>2 DEF EndEmpty, EndWithoutHandoff, EndCut, EndCollision
    <2>7. UNCHANGED <<packet, request, tellsApart, readers, discarded>>
        BY <1>h DEF EndEmpty, EndWithoutHandoff, EndCut, EndCollision
    <2>8. InFlight'
        <3>1. \A d \in Handlers \ {e} : handler'[d] = handler[d]
            BY <2>4 DEF TypeOK
        <3>2. \/ handler'[e].pc = "idle"
              \/ handler'[e].pc = "page" /\ handler'[e].session = s /\ session[s].work
            BY <2>4 DEF TypeOK, HandlerRow, NoHandler
        <3> QED BY <2>1, <2>2, <2>7, <3>1, <3>2 DEF InFlight
    <2> QED BY <2>2, <2>3, <2>5, <2>6, <2>7, <2>8 DEF TypeOK
<1>i. ASSUME NEW e \in Handlers, NEW h \in Batons, NEW c \in Calls, EndWithHandoff(e, h, c[4])
      PROVE  Typed'
    <2> DEFINE s == handler[e].session
               owner == Stamp(session[s].owner)
               gone == Retired(c[4], owner)
    <2>1. s \in Sessions /\ c[4] \in Dirs \cup {NoDir}
        BY <1>i, CallAssumption DEF EndWithHandoff, InFlight
    <2>2. owner \in Actors
        BY <2>1, StampType DEF TypeOK, SessionRow
    <2>3. /\ session' \in [Sessions -> SessionRow]
          /\ \A x \in Sessions : session'[x].work = session[x].work
        <3>1. session' = [session EXCEPT ![s] = EndedRow(session[s])]
            BY <1>i DEF EndWithHandoff
        <3> QED BY <2>1, <3>1, EndedType DEF TypeOK
    <2>4. handler' = [handler EXCEPT ![e] = NoHandler] /\ cut' \subseteq Sessions
        BY <1>i, <2>1 DEF EndWithHandoff, Settle, TypeOK
    <2>5. handler' \in [Handlers -> HandlerRow]
        BY <2>4 DEF TypeOK, HandlerRow, NoHandler
    <2>6. \A g \in Batons : g \in gone => baton[g].state # "accepted"
        BY DEF Retired, OpenAutos, OpenBatons
    <2>7. /\ ExpireRows(baton, gone) \in [Batons -> BatonRow]
          /\ \A g \in Batons : (ExpireRows(baton, gone)[g].state = "accepted")
                                  <=> (ExpireRows(baton, gone)[g].by # None)
        BY <2>6, ExpireType DEF TypeOK
    <2>8. PostedRow(TRUE, c[4], owner) \in BatonRow
          /\ PostedRow(TRUE, c[4], owner).state = "open" /\ PostedRow(TRUE, c[4], owner).by = None
        BY <2>1, <2>2 DEF PostedRow, NoBaton, BatonRow, Actors
    <2>9. baton' = [ExpireRows(baton, gone) EXCEPT ![h] = PostedRow(TRUE, c[4], owner)]
        BY <1>i DEF EndWithHandoff
    <2>10. /\ baton' \in [Batons -> BatonRow]
           /\ \A g \in Batons : (baton'[g].state = "accepted") <=> (baton'[g].by # None)
        BY <2>7, <2>8, <2>9
    <2>11. UNCHANGED <<packet, request, tellsApart, readers, discarded>>
        BY <1>i DEF EndWithHandoff
    <2>12. InFlight'
        BY <2>3, <2>4, <2>11 DEF InFlight, NoHandler, TypeOK
    <2> QED BY <2>3, <2>4, <2>5, <2>10, <2>11, <2>12 DEF TypeOK
<1>j. ASSUME NEW h \in Batons, NEW actor \in Authors, Begin(h, actor)
      PROVE  Typed'
    <2>1. PostedRow(FALSE, NoDir, Stamp(actor)) \in BatonRow
          /\ PostedRow(FALSE, NoDir, Stamp(actor)).state = "open"
          /\ PostedRow(FALSE, NoDir, Stamp(actor)).by = None
        BY StampType, AuthorAssumption DEF PostedRow, NoBaton, BatonRow, Actors
    <2>2. UNCHANGED <<session, packet, request, handler, cut, tellsApart, readers, discarded>>
        BY <1>j DEF Begin
    <2>3. baton' = [baton EXCEPT ![h] = PostedRow(FALSE, NoDir, Stamp(actor))]
        BY <1>j DEF Begin
    <2> QED BY <2>1, <2>2, <2>3 DEF TypeOK, InFlight
<1>k. ASSUME NEW gone, gone \subseteq OpenBatons, Discard(gone)
      PROVE  Typed'
    <2>1. /\ ExpireRows(baton, gone) \in [Batons -> BatonRow]
          /\ \A g \in Batons : (ExpireRows(baton, gone)[g].state = "accepted")
                                  <=> (ExpireRows(baton, gone)[g].by # None)
        BY <1>k, ExpireType DEF TypeOK, OpenBatons
    <2>2. discarded' \subseteq Batons
        BY <1>k DEF Discard, TypeOK, OpenBatons
    <2> QED BY <1>k, <2>1, <2>2 DEF Discard, TypeOK, InFlight
<1>l. CASE Reconfigure
    BY <1>l DEF Reconfigure, TypeOK, InFlight
<1>m. CASE UNCHANGED vars
    BY <1>m DEF vars, TypeOK, InFlight
<1> QED
    BY <1>a, <1>b, <1>c, <1>d, <1>e, <1>f, <1>g, <1>h, <1>i, <1>j, <1>k, <1>l, <1>m
    DEF RestartNext, Next, Visible

=============================================================================
