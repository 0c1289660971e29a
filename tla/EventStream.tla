---------------------------- MODULE EventStream ----------------------------
(* The committed events of a run on their way to a dashboard: the event log *)
(* (event-store.ts), the server's connection that tails it and respects the *)
(* back-pressure of the socket (event-stream.ts), and the browser that      *)
(* bootstraps from the status route, reads frames, and reconnects with the  *)
(* last sequence it saw (event-stream-client.ts, use-simulation-stream.ts). *)
(* Event k of the log is the one the code numbers k - 1.                    *)
EXTENDS Integers, Sequences, FiniteSets, SequencesExt

CONSTANTS Batches,        (* what one transaction may append: sequences of event types *)
          LastSeq,        (* bound: the length of the log                              *)
          Topics,         (* the topics the client subscribes to                       *)
          MaxBacklog,     (* events one poll may read before it reports a gap          *)
          HighWater,      (* frames the response buffers before write returns false    *)
          SocketRoom,     (* bound: frames between the two sockets                     *)
          MaxReconnects   (* attempts after the first                                  *)

(* "digest" stands for simulation.tick.completed, "lifecycle" for the seven *)
(* types of LIFECYCLE_EVENT_TYPES, "other" for every other event.           *)
EventTypes == {"digest", "lifecycle", "other"}

ASSUME StreamAssumption ==
  /\ Batches \subseteq Seq(EventTypes)
  /\ {LastSeq, MaxBacklog, HighWater, SocketRoom} \subseteq Nat \ {0}
  /\ MaxReconnects \in Nat

VARIABLES events, server, conn, client
vars == <<events, server, conn, client>>

Latest == Len(events)
Closed == [state |-> "none", afterSeq |-> 0, blocked |-> FALSE, wire |-> <<>>, buffered |-> 0]

-----------------------------------------------------------------------------
(* The server's side of a connection *)

comment == [id |-> 0, event |-> "comment", from |-> 0]
gapFrame(after) == [id |-> Latest, event |-> "gap", from |-> after + 1]

subscribed(s) == events[s] \in Topics
frameForCommittedEvent(s) == [id |-> s, event |-> events[s], from |-> s]

(* One more event than a page may hold is asked for, oldest first: when it  *)
(* is there, one gap up to the latest event replaces them all. Otherwise    *)
(* each event is a delivery, with a frame when its topic is subscribed.     *)
query(after) == {s \in after + 1 .. Latest : s <= after + MaxBacklog + 1}
hasMore(after) == Cardinality(query(after)) > MaxBacklog
readCommittedEventBatch(after) ==
  IF hasMore(after) THEN <<[through |-> Latest, frames |-> <<gapFrame(after)>>]>>
  ELSE [k \in 1 .. Latest - after |->
         [through |-> after + k,
          frames |-> IF subscribed(after + k)
                       THEN <<frameForCommittedEvent(after + k)>> ELSE <<>>]]

(* The response takes every frame; at the high-water mark it says so.       *)
write(c, frame) ==
  [c EXCEPT !.wire = Append(@, frame), !.buffered = @ + 1,
            !.blocked = c.buffered + 1 >= HighWater]

sendDelivery(c, d) ==
  LET sent == IF d.frames = <<>> THEN c ELSE write(c, d.frames[1])
  IN  IF c.blocked THEN c ELSE [sent EXCEPT !.afterSeq = d.through]
sendUnchecked(c, d) ==                                      (* mutant *)
  LET sent == IF d.frames = <<>> THEN c ELSE write(c, d.frames[1])
  IN  [(IF c.blocked THEN c ELSE sent) EXCEPT !.afterSeq = d.through]
deliverSkipping(c, batch) == FoldLeft(sendUnchecked, c, batch)  (* mutant *)
deliverEach(c, batch) ==
  LET sent[k \in 0 .. Len(batch)] ==
        IF k = 0 THEN c ELSE sendDelivery(sent[k - 1], batch[k])
  IN  sent[Len(batch)]
poll(c) ==
  IF c.state # "open" \/ c.blocked THEN c
  ELSE deliverEach(c, readCommittedEventBatch(c.afterSeq))

start(after) == poll(write([Closed EXCEPT !.state = "open", !.afterSeq = after], comment))
drainedStillBlocked(c) == c                                (* mutant *)
drained(c) == poll([c EXCEPT !.blocked = FALSE])
beat(c) == IF c.state # "open" \/ c.blocked THEN c ELSE write(c, comment)
(* close() ends the response: what it holds is still sent.                  *)
close(c) == IF c.state = "open" THEN [c EXCEPT !.state = "ended", !.blocked = FALSE] ELSE c

-----------------------------------------------------------------------------
(* The browser's side *)

(* The route's Last-Event-ID: a client without one is sent the whole log.   *)
parseLastEventId(c) == c.sequence

deliver(c, frame) ==
  IF frame.event = "comment" THEN c
  ELSE [c EXCEPT !.sequence = frame.id, !.seen = @ \cup (frame.from .. frame.id)]

retry(c) ==
  IF c.state # "live" /\ c.state # "connecting" THEN c
  ELSE IF c.attempt = MaxReconnects THEN [c EXCEPT !.state = "offline"]
  ELSE [c EXCEPT !.state = "waiting"]

-----------------------------------------------------------------------------
Init ==
  /\ events = <<"lifecycle">>
  /\ server = "up" /\ conn = Closed
  /\ client = [state |-> "idle", sequence |-> 0, boot |-> 0, attempt |-> 0, seen |-> {}]

(* The tick's transaction appends its events under the run's next_event_seq.*)
appendBatch ==
  /\ server = "up"
  /\ \E batch \in Batches : Latest + Len(batch) <= LastSeq /\ events' = events \o batch
  /\ UNCHANGED <<server, conn, client>>

(* The page asks for the status first; its latestEventSeq is where the      *)
(* stream starts. A client without one starts at the first event.           *)
getStatus ==
  /\ client.state = "idle" /\ server = "up"
  /\ \E s \in {0, Latest} :
       client' = [client EXCEPT !.state = "connecting", !.sequence = s, !.boot = s]
  /\ UNCHANGED <<events, server, conn>>

connect ==
  /\ client.state = "connecting" /\ server = "up"
  /\ conn' = start(parseLastEventId(client))
  /\ client' = [client EXCEPT !.state = "live"]
  /\ UNCHANGED <<events, server>>

(* fetch throws while nobody listens, or the route answers with an error    *)
(* because the server is closing.                                           *)
connectFails ==
  /\ client.state = "connecting" /\ server = "down"
  /\ client' = retry(client) /\ UNCHANGED <<events, server, conn>>

waitForRetry ==
  /\ client.state = "waiting"
  /\ client' = [client EXCEPT !.state = "connecting", !.attempt = @ + 1]
  /\ UNCHANGED <<events, server, conn>>

pollTimer ==
  /\ server = "up" /\ conn' = poll(conn) /\ conn' # conn
  /\ UNCHANGED <<events, server, client>>

(* Reading the log fails (the file is locked or gone): the stream ends.     *)
pollFails ==
  /\ server = "up" /\ conn.state = "open" /\ ~conn.blocked
  /\ conn' = close(conn) /\ UNCHANGED <<events, server, client>>

heartbeat ==
  /\ server = "up" /\ conn.state = "open"
  /\ Len(conn.wire) <= HighWater + SocketRoom              (* bound *)
  /\ conn' = beat(conn) /\ conn' # conn /\ UNCHANGED <<events, server, client>>

(* The socket takes the next frame of the response's buffer; once the       *)
(* buffer is empty the response emits "drain".                              *)
flush ==
  /\ conn.buffered > 0 /\ Len(conn.wire) - conn.buffered < SocketRoom
  /\ conn' = [conn EXCEPT !.buffered = @ - 1] /\ UNCHANGED <<events, server, client>>

handleDrain ==
  /\ server = "up" /\ conn.state = "open" /\ conn.blocked /\ conn.buffered = 0
  /\ conn' = drained(conn) /\ UNCHANGED <<events, server, client>>

consumeEventStream ==
  /\ client.state = "live" /\ Len(conn.wire) > conn.buffered
  /\ client' = deliver(client, Head(conn.wire))
  /\ conn' = [conn EXCEPT !.wire = Tail(@)]
  /\ UNCHANGED <<events, server>>

endReceived ==
  /\ client.state = "live" /\ conn.state = "ended" /\ conn.wire = <<>>
  /\ client' = retry(client) /\ conn' = Closed /\ UNCHANGED <<events, server>>

(* The connection breaks: what is on its way is lost, a frame cut in two    *)
(* included, and the reader throws.                                         *)
cut ==
  /\ client.state = "live"
  /\ client' = retry(client) /\ conn' = Closed /\ UNCHANGED <<events, server>>

preClose ==
  /\ server = "up" /\ server' = "down"
  /\ conn' = close(conn) /\ UNCHANGED <<events, client>>

(* A crash takes the response's buffer with it, not what the socket holds.  *)
crash ==
  /\ server = "up" /\ server' = "down"
  /\ conn' = [close(conn) EXCEPT !.buffered = 0,
                !.wire = SubSeq(conn.wire, 1, Len(conn.wire) - conn.buffered)]
  /\ UNCHANGED <<events, client>>

restart ==
  /\ server = "down" /\ conn.buffered = 0
  /\ server' = "up" /\ UNCHANGED <<events, conn, client>>

Reconnecting == connect \/ connectFails \/ waitForRetry
Next == \/ appendBatch \/ getStatus \/ Reconnecting
        \/ pollTimer \/ pollFails \/ heartbeat \/ flush \/ handleDrain
        \/ consumeEventStream \/ endReceived \/ cut \/ preClose \/ crash \/ restart

(* The timers of the page and of the connection fire again and again, the   *)
(* sockets move what they can, a stopped server is started again. The       *)
(* status query is repeated until it is answered. Nothing says that ticks   *)
(* commit, that the network holds or that it breaks.                        *)
Fairness ==
  /\ SF_vars(getStatus) /\ WF_vars(Reconnecting) /\ WF_vars(pollTimer)
  /\ WF_vars(flush) /\ WF_vars(handleDrain) /\ WF_vars(consumeEventStream)
  /\ WF_vars(endReceived) /\ WF_vars(restart)
Spec == Init /\ [][Next]_vars /\ Fairness

-----------------------------------------------------------------------------
TypeOK ==
  /\ Len(events) <= LastSeq /\ server \in {"up", "down"}
  /\ conn.state \in {"none", "open", "ended"} /\ conn.buffered \in 0 .. Len(conn.wire)
  /\ client.state \in {"idle", "connecting", "live", "waiting", "offline"}
  /\ client.attempt \in 0 .. MaxReconnects /\ client.sequence \in 0 .. Latest

(* The places of the wire that hold an event or a gap, and what they tell.  *)
Frames == {i \in DOMAIN conn.wire : conn.wire[i].event # "comment"}
onItsWay == UNION {conn.wire[i].from .. conn.wire[i].id : i \in Frames}
subscribedIn(lo, hi) == {s \in lo + 1 .. hi : subscribed(s)}

(* Every subscribed event behind the client's sequence was received or lies *)
(* in a gap it was told of.                                                 *)
BehindIsSeen == subscribedIn(client.boot, client.sequence) \subseteq client.seen
(* What the server has put behind it is behind the client or on its way,    *)
(* in order and once.                                                       *)
AheadIsOnItsWay ==
  client.state = "live" /\ conn.state = "open" =>
    /\ subscribedIn(client.sequence, conn.afterSeq) \subseteq onItsWay
    /\ \A i \in Frames :
         /\ conn.wire[i].from > client.sequence
         /\ \A j \in Frames : j < i => conn.wire[i].from > conn.wire[j].id
GapsAreEarned ==
  \A i \in Frames :
    conn.wire[i].event = "gap" => conn.wire[i].id - conn.wire[i].from >= MaxBacklog

(* Across reconnections, restarts of the server and slow sockets, no        *)
(* committed event of a subscribed topic escapes the client unnoticed, none *)
(* is sent twice on a connection, and a gap is reported only for a backlog  *)
(* beyond the limit (readCommittedEventBatch, poll, Last-Event-ID).         *)
NothingLost == TypeOK /\ BehindIsSeen /\ AheadIsOnItsWay /\ GapsAreEarned

(* A response that said it is full is not written to until it has drained,  *)
(* by the poll timer or by the heartbeat: its buffer never passes the mark  *)
(* (StreamConnection.write, heartbeat).                                     *)
BackpressureHeld ==
  /\ conn.buffered <= HighWater
  /\ conn.state = "open" /\ conn.buffered = HighWater => conn.blocked

(* What holds of the stream in every state. *)
StreamSound == NothingLost /\ BackpressureHeld

(* A client ends up with everything committed, or says that it is offline:  *)
(* a connection that filled up starts again by itself (handleDrain).        *)
CatchesUp ==
  <>[](client.state = "offline" \/ subscribedIn(client.boot, Latest) \subseteq client.seen)
=============================================================================
