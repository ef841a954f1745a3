-------------------------------- MODULE Gateway --------------------------------
(***************************************************************************)
(* The local gateway (gateway.rs): its accept loop, the connections it     *)
(* serves and the answers it keeps for /v1/responses, by which a later     *)
(* request continues an earlier one.  Each start makes a gateway with a    *)
(* store and a count of its own; a connection belongs to the one that has  *)
(* accepted it and may outlive it.                                         *)
(***************************************************************************)
EXTENDS Naturals, Sequences, FiniteSets

CONSTANTS
  Requests,       \* connections, and the ids of the answers
  NoRequest,
  MAX_RESPONSES,
  MaxStarts       \* bound: gateways started

VARIABLE gw
vars == <<gw>>

Starts == 1..MaxStarts
Pcs == {"new", "accepted", "counted", "asking", "streaming", "answered", "telling", "done"}

TypeOK ==
  /\ gw.loop \in 0..MaxStarts /\ gw.started \in 0..MaxStarts /\ gw.stop \in BOOLEAN
  /\ \A r \in Requests : LET conn == gw.conn[r] IN
       /\ conn.pc \in Pcs /\ conn.of \in 0..MaxStarts /\ conn.previous \in Requests \cup {NoRequest}
       /\ Len(conn.messages) <= Cardinality(Requests)
  /\ \A g \in Starts : gw.stored[g] \subseteq Requests /\ gw.active[g] \in 0..Cardinality(Requests)
  /\ {gw.evicted, gw.deleted} \subseteq SUBSET Requests

Init ==
  gw = [ loop |-> 0,       \* the gateway whose accept loop runs
         stop |-> FALSE,   \* its stop flag
         started |-> 0,
         conn |-> [r \in Requests |-> [pc |-> "new", of |-> 0, previous |-> NoRequest, messages |-> <<>>]],
         stored |-> [g \in Starts |-> {}],   \* responses
         active |-> [g \in Starts |-> 0],    \* active_requests
         evicted |-> {}, deleted |-> {} ]    \* for the properties

-----------------------------------------------------------------------------
Conn(r) == gw.conn[r]
At(r, pc) == Conn(r).pc = pc
To(s, r, pc) == [s EXCEPT !.conn[r].pc = pc]
\* The connection's task ends, and ActiveRequestGuard is dropped.
Over(s, r) == [To(s, r, "done") EXCEPT !.active[Conn(r).of] = @ - 1]
Stopped(g) == g # gw.loop \/ gw.stop

\* start: the port is free, because stop has waited for the loop's end.
Start ==
  /\ gw.loop = 0 /\ gw.started < MaxStarts
  /\ gw' = [gw EXCEPT !.loop = gw.started + 1, !.started = @ + 1, !.stop = FALSE]

\* stop sets the flag ...
Stop == gw.loop # 0 /\ ~gw.stop /\ gw' = [gw EXCEPT !.stop = TRUE]
\* ... and awaits the loop, which looks at it every 250 ms.
LoopEnds == gw.loop # 0 /\ gw.stop /\ gw' = [gw EXCEPT !.loop = 0]

\* The loop may have looked at the flag just before it was set.
Accept(r) ==
  /\ At(r, "new") /\ gw.loop # 0
  /\ gw' = [To(gw, r, "accepted") EXCEPT !.conn[r].of = gw.loop]

\* Mutant: a connection is counted before it looks at the flag.
Counted_First(r) ==
  /\ At(r, "accepted")
  /\ IF Stopped(Conn(r).of) THEN gw' = [To(gw, r, "done") EXCEPT !.active[Conn(r).of] = @ + 1]
     ELSE gw' = [To(gw, r, "counted") EXCEPT !.active[Conn(r).of] = @ + 1]

\* handle_connection
Counted(r) ==
  /\ At(r, "accepted")
  /\ IF Stopped(Conn(r).of) THEN gw' = To(gw, r, "done")
     ELSE gw' = [To(gw, r, "counted") EXCEPT !.active[Conn(r).of] = @ + 1]

\* Mutant: a request that continues an unknown answer begins a conversation.
Asks_Anew(r) ==
  /\ At(r, "counted")
  /\ \E p \in Requests \ {r} :
       gw' = [To(gw, r, "asking") EXCEPT
                !.conn[r].previous = p,
                !.conn[r].messages = IF p \in gw.stored[Conn(r).of] THEN Append(Conn(p).messages, r) ELSE <<r>>]

\* The request is read; without a key, a valid body or the answer it continues there is
\* an error.  What it continues is copied now, whatever becomes of it later.
Asks(r) ==
  /\ At(r, "counted")
  /\ \/ gw' = Over(gw, r)
     \/ gw' = [To(gw, r, "asking") EXCEPT !.conn[r].messages = <<r>>]
     \/ \E p \in gw.stored[Conn(r).of] :
          gw' = [To(gw, r, "asking") EXCEPT !.conn[r].previous = p,
                                            !.conn[r].messages = Append(Conn(p).messages, r)]

\* The server's answer comes whole, as a stream, or not at all.
Upstream(r) ==
  /\ At(r, "asking")
  /\ \E pc \in {"streaming", "answered", "done"} :
       gw' = IF pc = "done" THEN Over(gw, r) ELSE To(gw, r, pc)

\* Mutant: a stream is remembered when it begins, too.
StreamEnds_Twice(r) ==
  /\ At(r, "streaming")
  /\ \/ gw' = To(gw, r, "answered")
     \/ gw' = [gw EXCEPT !.stored[Conn(r).of] = @ \cup {r}]

\* A stream that ends is remembered like a whole answer; one that fails, or whose
\* client has gone, is not.
StreamEnds(r) ==
  /\ At(r, "streaming")
  /\ gw' \in {To(gw, r, "answered"), Over(gw, r)}

\* Mutant: one more than the limit is kept.
Dropped_Late(ids) ==
  IF Cardinality(ids) <= MAX_RESPONSES + 1 THEN {{}}
  ELSE {out \in SUBSET ids : Cardinality(ids \ out) = MAX_RESPONSES + 1}

\* remember_response: what goes, in the order of a hash map, when there are too many.
Dropped(ids) ==
  IF Cardinality(ids) <= MAX_RESPONSES THEN {{}}
  ELSE {out \in SUBSET ids : Cardinality(ids \ out) = MAX_RESPONSES}

\* The answer is kept, and can be continued, before the client is sent the end of it ...
Remember(r) ==
  LET g == Conn(r).of
      ids == gw.stored[g] \cup {r} IN
  /\ At(r, "answered")
  /\ \E out \in Dropped(ids) :
       gw' = [To(gw, r, "telling") EXCEPT !.stored[g] = ids \ out, !.evicted = @ \cup out]

\* Mutant: a client that has gone leaves the request counted.
Tells_Leak(r) == At(r, "telling") /\ gw' \in {Over(gw, r), To(gw, r, "done")}

\* ... which it gets or not; with that the request is over.
Tells(r) == At(r, "telling") /\ gw' = Over(gw, r)

\* DELETE and cancel, by a connection of its own: only what is kept is found, so
\* neither ends a request that is under way.
Delete ==
  \E g \in 1..gw.started : \E r \in gw.stored[g] :
    gw' = [gw EXCEPT !.stored[g] = @ \ {r}, !.deleted = @ \cup {r}]

Next ==
  \/ Start \/ Stop \/ LoopEnds \/ Delete
  \/ \E r \in Requests : Accept(r) \/ Counted(r) \/ Asks(r) \/ Upstream(r) \/ StreamEnds(r) \/ Remember(r)
                         \/ Tells(r)

Spec == Init /\ [][Next]_vars

-----------------------------------------------------------------------------
Serving == {"counted", "asking", "streaming", "answered", "telling"}

\* An answer that is kept has the whole conversation it continues, whether or not
\* the earlier answers were deleted or gave way since, of the same gateway, and whole
\* answers, though their own requests may still be sending them to a client.
Continues ==
  \A g \in Starts : \A r \in gw.stored[g] :
    LET earlier == Conn(r).previous IN
    /\ Conn(r).messages = IF earlier = NoRequest THEN <<r>> ELSE Append(Conn(earlier).messages, r)
    /\ earlier # NoRequest => Conn(earlier).of = g /\ Conn(earlier).pc \in {"telling", "done"}

\* No gateway keeps more than its limit, nor an answer that was deleted, although
\* an answer may be deleted while requests that continue it are served.
StoreHolds ==
  \A g \in Starts : Cardinality(gw.stored[g]) <= MAX_RESPONSES /\ gw.stored[g] \cap gw.deleted = {}

\* On whatever way requests end, active_requests is the number being served.
ActiveIsCounted ==
  \A g \in Starts : gw.active[g] = Cardinality({r \in Requests : Conn(r).of = g /\ Conn(r).pc \in Serving})
===============================================================================
