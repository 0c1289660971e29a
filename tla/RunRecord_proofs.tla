-------------------------- MODULE RunRecord_proofs --------------------------
(***************************************************************************)
(* Proofs about what is kept of a run: the journal a replay reproduces and *)
(* the snapshots it can be restored from.                                  *)
(*                                                                         *)
(* About module Replay: whatever is on record of a replay is true          *)
(* (RecordIsTrue), every write is one the tables accept and no strict      *)
(* replay goes on after a divergence (StepsAccepted), and a source no      *)
(* failure touched is reproduced exactly (ExactReplay).                    *)
(*                                                                         *)
(* About module SnapshotStore, in the last sections: what a row promises   *)
(* survives concurrent work, failed attempts, crashes and power failures   *)
(* (SnapshotsSound), and the store implements SnapshotCatalog.             *)
(*                                                                         *)
(* The inductive invariant IInv has one part per actor.  SourceInv: the    *)
(* source's journal is ordered by tick, begins with its genesis, and once  *)
(* a replay exists no tick, answer or terminal fact can join it.           *)
(* WorkerInv: what the job in memory knows at each of its transactions     *)
(* (where its comparison starts, what it has reproduced, whether a strict  *)
(* replay may still go on, what the hashes said).  TargetInv: the target   *)
(* stands between the progress mark and the replay's last tick, and its    *)
(* journal holds the event of the tick it stands at.  Matched and Verdict  *)
(* restate the record event by event; the argument that nothing of the     *)
(* source is missing below the target's tick needs the order of the        *)
(* source's ticks and the tick event the target shares with it.            *)
(*                                                                         *)
(* Exact replay needs more, ExactInv.  Clean: the journal of a source no   *)
(* failure touched is a chain, in which each event says what the next one  *)
(* can be (Succ), and what its last event still owes the row remembers     *)
(* (End).  Position: the target's journal begins that chain, and at each   *)
(* of its transactions the worker knows which event of it comes next.  The *)
(* chain makes the next event the one the worker makes: a command brings   *)
(* its fact, a charge its tick, a tick its snapshot, and the recorded call *)
(* with the next ordinal is the call of the next tick.                     *)
(***************************************************************************)
EXTENDS Replay, SnapshotStore, FiniteSetTheorems, SequenceTheorems, TLAPS

-----------------------------------------------------------------------------
(* The invariant *)

(* The source's row; its engine is the one that made the journal. *)
SourceRow ==
  [status : S!RunStatus, tick : 0..EndTick, log : Seq(Event), drift : {FALSE},
   lock : BOOLEAN, owed : BOOLEAN, call : {"none", "answered", "charged", "cached"},
   cached : BOOLEAN, sent : Nat, clean : BOOLEAN]

Settled == sourceTerminal /\ ~src.lock /\ src.call = "none"

(* A provider call belongs to a tick whose snapshots are all there. *)
Calling == src.call # "none" => /\ src.lock
                                /\ src.tick + 1 \in CallTicks
                                /\ ~snapshotMissing(src)

(* The source's journal begins with its genesis and never goes back in time;
   under a replay the source is terminal and nothing of a tick is pending. *)
SourceInv ==
  /\ src \in SourceRow
  /\ Calling
  /\ rep.status # "none" => Settled
  /\ Len(src.log) >= Len(Genesis) /\ \A i \in 1..Len(Genesis) : src.log[i] = Genesis[i]
  /\ \A i \in 1..Len(src.log) : src.log[i].tick <= src.tick
  /\ \A i, j \in 1..Len(src.log) : i <= j => src.log[i].tick <= src.log[j].tick
  /\ \A i \in 1..Len(src.log) : src.log[i].type = "snapshot" => src.log[i].v = "same"

(* s is a prefix of t, event by event. *)
Extends(t, s) == Len(s) <= Len(t) /\ \A i \in 1..Len(s) : t[i] = s[i]

(* The transactions on the way to a tick *)
Ticking == {"prepare"} \cup Answer

(* What the worker knows before each of its transactions. *)
WorkerInv ==
  /\ job.source \in Seq(Event) /\ Extends(src.log, job.source)
  /\ job.pc \in {"compare", "progress", "seal"} \cup Ticking => job.from = rep.compared
  /\ job.pc \in {"boundary", "finish", "conclude"} => rep.compared = Len(tgt.log)
  /\ job.pc = "progress" /\ rep.divs = {} => reproduced
  /\ job.pc \in Ticking => tgt.tick < rep.toTick /\ ~strictlyDiverged
  /\ job.pc \in {"finish", "conclude"} /\ rep.divs = {} => tgt.tick = rep.toTick /\ job.compare
  /\ job.pc = "conclude" /\ rep.divs = {} => sourceHash \in {NoHash, hashOf(tgt)}

(* The target stands between the progress mark and the replay's end, and its
   journal holds the event of the tick it stands at. *)
TargetInv ==
  /\ rep.status = "none" => tgt = NoRun /\ rep = NoReplay /\ job = Idle
  /\ rep.status # "none" => rep.tick <= tgt.tick /\ tgt.tick <= rep.toTick /\ rep.toTick <= src.tick
  /\ tgt.tick > 0 => \E i \in 1..Len(tgt.log) : tgt.log[i].type = "tick" /\ tgt.log[i].tick = tgt.tick

(* ComparedEventsMatch, event by event *)
Matched ==
  rep.status \in {"running", "completed", "diverged"} /\ rep.divs = {} =>
    /\ rep.compared <= Len(src.log)
    /\ \A i \in 1..rep.compared : tgt.log[i] = src.log[i]

(* What a completed replay's row says of its source *)
Verdict ==
  rep.status = "completed" =>
    /\ tgt.tick = rep.toTick
    /\ rep.divs = {}
    /\ rep.compared = Len(tgt.log)
    /\ rep.toTick = src.tick =>
         \A i \in 1..Len(src.log) :
           src.log[i].v = "stop" \/ src.log[i].type = "completed" => i <= Len(tgt.log)
    /\ tgt.drift => rep.stateHash = NoHash /\ rep.toTick < src.tick

-----------------------------------------------------------------------------
(* Sequences of events *)

LEMMA ExtendsConcat ==
  ASSUME NEW A, NEW s \in Seq(A), NEW new \in Seq(A)
  PROVE  /\ s \o new \in Seq(A) /\ Len(s \o new) = Len(s) + Len(new)
         /\ Extends(s \o new, s)
         /\ \A i \in 1..(Len(s) + Len(new)) :
              \/ i \in 1..Len(s) /\ (s \o new)[i] = s[i]
              \/ \E k \in 1..Len(new) : i = Len(s) + k /\ (s \o new)[i] = new[k]
<1>1. Len(s) \in Nat /\ Len(new) \in Nat
  OBVIOUS
<1>2. s \o new \in Seq(A) /\ Len(s \o new) = Len(s) + Len(new)
  OBVIOUS
<1>3. \A i \in 1..(Len(s) + Len(new)) :
        (s \o new)[i] = IF i <= Len(s) THEN s[i] ELSE new[i - Len(s)]
  BY <1>1, <1>2
<1>4. Extends(s \o new, s)
  BY <1>1, <1>2, <1>3 DEF Extends
<1>5. ASSUME NEW i \in 1..(Len(s) + Len(new))
      PROVE  \/ i \in 1..Len(s) /\ (s \o new)[i] = s[i]
             \/ \E k \in 1..Len(new) : i = Len(s) + k /\ (s \o new)[i] = new[k]
  <2>1. CASE i <= Len(s)
    BY <1>1, <1>3, <2>1
  <2>2. CASE ~(i <= Len(s))
    <3>1. i - Len(s) \in 1..Len(new) /\ i = Len(s) + (i - Len(s))
      BY <1>1, <2>2
    <3> QED BY <1>3, <2>2, <3>1
  <2> QED BY <2>1, <2>2
<1> QED BY <1>2, <1>4, <1>5

LEMMA EventConcat ==
  \A s, new \in Seq(Event) :
    /\ s \o new \in Seq(Event)
    /\ Len(s \o new) = Len(s) + Len(new) /\ Extends(s \o new, s)
    /\ \A i \in 1..(Len(s) + Len(new)) :
         \/ i \in 1..Len(s) /\ (s \o new)[i] = s[i]
         \/ \E k \in 1..Len(new) : i = Len(s) + k /\ (s \o new)[i] = new[k]
<1> TAKE s, new \in Seq(Event)
<1> QED BY ExtendsConcat

LEMMA AppendAsConcat ==
  ASSUME NEW A, NEW s \in Seq(A), NEW a \in A
  PROVE  Append(s, a) = s \o <<a>> /\ <<a>> \in Seq(A) /\ Len(<<a>>) = 1 /\ <<a>>[1] = a
OBVIOUS

LEMMA ExtendsTrans ==
  ASSUME NEW A, NEW s \in Seq(A), NEW t \in Seq(A), NEW u \in Seq(A),
         Extends(t, s), Extends(u, t)
  PROVE  Extends(u, s)
<1>1. Len(s) \in Nat /\ Len(t) \in Nat /\ Len(u) \in Nat
  OBVIOUS
<1> QED BY <1>1 DEF Extends

(* The events of a command. *)
LEMMA CommandEvents ==
  ASSUME NEW c \in Command, NEW t \in 0..EndTick
  PROVE  /\ commandEvents(c, t) \in Seq(Event)
         /\ \A k \in 1..Len(commandEvents(c, t)) :
              /\ commandEvents(c, t)[k].tick = t /\ commandEvents(c, t)[k].v = c
              /\ commandEvents(c, t)[k].type \in {"command", "fact"}
<1>1. event("command", c, t) \in Event /\ event("fact", c, t) \in Event
  BY DEF event, Event
<1>2. /\ event("command", c, t).tick = t /\ event("command", c, t).v = c
      /\ event("command", c, t).type = "command"
      /\ event("fact", c, t).tick = t /\ event("fact", c, t).v = c
      /\ event("fact", c, t).type = "fact"
  BY DEF event
<1> DEFINE a == event("command", c, t)
           b == event("fact", c, t)
<1> HIDE DEF a, b
<1>3. <<a>> \in Seq(Event) /\ <<a, b>> \in Seq(Event)
  BY <1>1 DEF a, b
<1>4. commandEvents(c, t) = <<a>> \/ commandEvents(c, t) = <<a, b>>
  BY DEF commandEvents, a, b
<1>5. \A k \in 1..Len(<<a>>) : <<a>>[k] = a
  OBVIOUS
<1>6. \A k \in 1..Len(<<a, b>>) : <<a, b>>[k] = a \/ <<a, b>>[k] = b
  OBVIOUS
<1> QED BY <1>2, <1>3, <1>4, <1>5, <1>6 DEF a, b

LEMMA EventTypes ==
  /\ \A t \in 0..EndTick : \A ty \in {"usage", "error", "work", "completed"} :
       /\ event(ty, "none", t) \in Event /\ event(ty, "none", t).type = ty
       /\ event(ty, "none", t).tick = t /\ event(ty, "none", t).v = "none"
  /\ \A t \in 1..EndTick : \A a \in Answer :
       /\ event("tick", a, t) \in Event /\ event("tick", a, t).type = "tick"
       /\ event("tick", a, t).tick = t /\ event("tick", a, t).v = a
  /\ \A t \in 1..EndTick : \A a \in {"same", "drift"} :
       /\ event("snapshot", a, t) \in Event /\ event("snapshot", a, t).type = "snapshot"
       /\ event("snapshot", a, t).tick = t /\ event("snapshot", a, t).v = a
  /\ \A x \in Event : x.tick \in 0..EndTick
BY ReplayAssumption DEF event, Event

-----------------------------------------------------------------------------
(* What a step of the source does to its row. *)
SourceEffect ==
  /\ src' \in SourceRow
  /\ src'.tick \in {src.tick, src.tick + 1}
  /\ Calling'
  /\ \E new \in Seq(Event) :
       /\ src'.log = src.log \o new
       /\ \A k \in 1..Len(new) :
            /\ new[k].tick = src'.tick
            /\ new[k].type = "snapshot" => new[k].v = "same"
            /\ Settled => new[k].type # "completed" /\ new[k].v # "stop"
  /\ Settled => src'.tick = src.tick /\ Settled'
                /\ job.pc \notin {"finish", "conclude"}

(* A row and the events it gains. *)
LEMMA SourceWrites ==
  ASSUME src \in SourceRow, src' \in SourceRow, NEW new \in Seq(Event),
         src'.log = src.log \o new,
         src'.tick \in {src.tick, src.tick + 1},
         Calling',
         \A k \in 1..Len(new) : /\ new[k].tick = src'.tick
                                /\ new[k].type = "snapshot" => new[k].v = "same",
         ~Settled
  PROVE  SourceEffect
BY DEF SourceEffect

LEMMA SourceStep ==
  ASSUME SourceInv, SourceNext
  PROVE  SourceEffect
<1> USE ReplayAssumption
<1>0. /\ src \in SourceRow /\ src.log \in Seq(Event) /\ src.tick \in 0..EndTick
      /\ src.sent \in Nat /\ Calling /\ src.drift = FALSE /\ SnapshotInterval \in Nat
  BY DEF SourceInv, SourceRow
<1>e. <<>> \in Seq(Event) /\ src.log = src.log \o <<>> /\ Len(<<>>) = 0
  BY <1>0
<1>h. ASSUME NEW new \in Seq(Event), src'.log = src.log \o new, src'.tick = src.tick
      PROVE  snapshotMissing(src)' => snapshotMissing(src)
  <2>1. Extends(src'.log, src.log)
    BY <1>0, <1>h, ExtendsConcat
  <2>2. hasSnapshot(src.log, src.tick) => hasSnapshot(src'.log, src'.tick)
    BY <1>0, <1>h, <2>1 DEF hasSnapshot, Extends
  <2>3. snapshotDue(src'.tick) <=> snapshotDue(src.tick)
    BY <1>h
  <2> QED BY <2>2, <2>3 DEF snapshotMissing
(* Steps that journal one event. *)
<1>1. ASSUME NEW x \in Event, src'.log = Append(src.log, x), src' \in SourceRow,
             src'.tick \in {src.tick, src.tick + 1}, x.tick = src'.tick,
             Calling', x.type = "snapshot" => x.v = "same", ~Settled
      PROVE  SourceEffect
  <2>1. Append(src.log, x) = src.log \o <<x>> /\ <<x>> \in Seq(Event)
    BY <1>0, AppendAsConcat
  <2>2. \A k \in 1..Len(<<x>>) : <<x>>[k] = x
    OBVIOUS
  <2> QED BY <1>0, <1>1, <2>1, <2>2, SourceWrites
<1>2. ASSUME NEW c \in Command \ {"create", "foreign"}, request(c)
      PROVE  SourceEffect
  <2> DEFINE new == commandEvents(c, src.tick)
             m == src.sent + 1
  <2>1. /\ new \in Seq(Event)
        /\ \A k \in 1..Len(new) :
             new[k].tick = src.tick /\ new[k].type \in {"command", "fact"} /\ new[k].v = c
    BY <1>0, CommandEvents
  <2>2. src.log \o new \in Seq(Event) /\ m \in Nat
    BY <1>0, <2>1, ExtendsConcat
  <2>a. /\ c \in Lifecycle =>
             src' \in {[src EXCEPT !.status = s, !.log = @ \o new, !.sent = m] :
                         s \in S!transitionRunStatus(src.status, c)}
        /\ c = "advance" =>
             /\ S!assertCanAdvance(src.status)
             /\ src' = [src EXCEPT !.log = @ \o new, !.sent = m, !.lock = TRUE, !.owed = TRUE]
        /\ c = "inject" =>
             /\ src.status \in {"created", "paused"}
             /\ src' = [src EXCEPT !.log = @ \o new, !.sent = m]
        /\ c = "llm" => src' = [src EXCEPT !.log = @ \o new, !.sent = m]
        /\ ~src.lock
    BY <1>2 DEF request, Lifecycle
  <2> HIDE DEF new, m
  <2>b. src.call = "none"
    BY <1>0, <2>a DEF Calling
  <2>3. /\ src'.log = src.log \o new /\ src'.tick = src.tick /\ src'.call = src.call
        /\ src' \in SourceRow
        /\ \/ c \in Lifecycle /\ src'.status \in S!transitionRunStatus(src.status, c)
              /\ src'.lock = src.lock
           \/ c = "advance" /\ S!assertCanAdvance(src.status)
           \/ c = "inject" /\ src.status \in {"created", "paused"}
           \/ c = "llm" /\ src'.status = src.status /\ src'.lock = src.lock
    <3>1. CASE c \in Lifecycle
      <4>1. PICK s \in S!transitionRunStatus(src.status, c) :
              src' = [src EXCEPT !.status = s, !.log = @ \o new, !.sent = m]
        BY <2>a, <3>1
      <4>2. s \in S!RunStatus
        BY DEF S!transitionRunStatus, S!RunStatus
      <4> QED BY <1>0, <2>2, <3>1, <4>1, <4>2 DEF SourceRow
    <3>2. CASE c = "advance"
      <4>1. /\ src' = [src EXCEPT !.log = @ \o new, !.sent = m, !.lock = TRUE, !.owed = TRUE]
            /\ S!assertCanAdvance(src.status)
        BY <2>a, <3>2
      <4> QED BY <1>0, <2>2, <3>2, <4>1 DEF SourceRow
    <3>3. CASE c = "inject"
      <4>1. /\ src' = [src EXCEPT !.log = @ \o new, !.sent = m]
            /\ src.status \in {"created", "paused"}
        BY <2>a, <3>3
      <4> QED BY <1>0, <2>2, <3>3, <4>1 DEF SourceRow
    <3>4. CASE c = "llm"
      <4>1. src' = [src EXCEPT !.log = @ \o new, !.sent = m]
        BY <2>a, <3>4
      <4> QED BY <1>0, <2>2, <3>4, <4>1 DEF SourceRow
    <3> QED BY <3>1, <3>2, <3>3, <3>4 DEF Command
  <2>c. Calling'
    BY <2>b, <2>3 DEF Calling
  <2>4. CASE ~Settled
    BY <1>0, <2>1, <2>3, <2>c, <2>4, SourceWrites
  <2>5. CASE Settled
    <3>1. src.status \in {"completed", "failed", "stopped"}
      BY <2>5 DEF Settled, sourceTerminal, S!isTerminalRunStatus
    <3>2. c = "llm" /\ src'.status = src.status /\ src'.lock = src.lock
      BY <2>3, <3>1 DEF S!transitionRunStatus, S!assertCanAdvance
    <3>3. Settled'
      BY <2>3, <2>5, <3>2 DEF Settled, sourceTerminal, S!isTerminalRunStatus
    <3>4. job.pc \notin {"finish", "conclude"}
      BY <1>2 DEF request, Yielding, Answer
    <3> QED BY <1>0, <2>1, <2>3, <2>c, <3>2, <3>3, <3>4 DEF SourceEffect
  <2> QED BY <2>4, <2>5
<1>t. sourceTicks => ~Settled
  BY DEF sourceTicks, Settled, sourceTerminal, S!isTerminalRunStatus
<1>3. ASSUME sourceCall
      PROVE  SourceEffect
  <2>1. /\ src' = [src EXCEPT !.lock = TRUE, !.cached = TRUE,
                              !.call = IF src.cached THEN "cached" ELSE "answered"]
        /\ ~Settled /\ src.tick + 1 \in CallTicks /\ ~snapshotMissing(src)
    BY <1>3, <1>t DEF sourceCall
  <2>2. src' \in SourceRow /\ src'.lock /\ src'.log = src.log /\ src'.tick = src.tick
    BY <1>0, <2>1 DEF SourceRow
  <2>3. src'.log = src.log \o <<>>
    BY <1>e, <2>2
  <2>4. Calling'
    BY <1>e, <1>h, <2>1, <2>2, <2>3 DEF Calling
  <2>5. \A k \in 1..Len(<<>>) : FALSE
    OBVIOUS
  <2> HIDE DEF Settled
  <2>6. src'.tick \in {src.tick, src.tick + 1}
    BY <2>2
  <2> QED BY <1>0, <1>e, <2>1, <2>2, <2>3, <2>4, <2>5, <2>6, SourceWrites
<1>4. ASSUME sourceCharge
      PROVE  SourceEffect
  <2> DEFINE x == event("usage", "none", src.tick)
  <2>1. x \in Event /\ x.tick = src.tick /\ x.type = "usage"
    BY <1>0, EventTypes
  <2>2. Append(src.log, x) \in Seq(Event)
    BY <1>0, <2>1
  <2> HIDE DEF x
  <2>3. /\ src' = [src EXCEPT !.call = "charged", !.log = Append(@, x)]
        /\ src.lock /\ src.call # "none"
    BY <1>0, <1>4 DEF sourceCharge, x, Calling
  <2>4. /\ src' \in SourceRow /\ src'.lock = src.lock /\ src'.log = Append(src.log, x)
        /\ src'.tick = src.tick
    BY <1>0, <2>2, <2>3 DEF SourceRow
  <2>5. src'.log = src.log \o <<x>> /\ <<x>> \in Seq(Event)
    BY <1>0, <2>1, <2>4, AppendAsConcat
  <2>6. Calling'
    BY <1>0, <1>h, <2>3, <2>4, <2>5 DEF Calling
  <2> QED BY <1>1, <2>1, <2>3, <2>4, <2>6 DEF Settled
<1>5. ASSUME sourceCommit
      PROVE  SourceEffect
  <2>1. src.tick + 1 \in 1..EndTick /\ ~Settled
    BY <1>0, <1>5, <1>t DEF sourceCommit, sourceTicks
  <2> DEFINE x == event("tick", src.call, src.tick + 1)
             n == src.tick + 1
  <2>2. src.call \in Answer
    <3>2. src.call # "answered"
      BY <1>0, <1>5 DEF sourceCommit, Calling
    <3> QED BY <1>0, <3>2 DEF SourceRow, Answer
  <2>3. x \in Event /\ x.tick = src.tick + 1 /\ x.type = "tick"
    BY <2>1, <2>2, EventTypes
  <2>4. Append(src.log, x) \in Seq(Event) /\ n \in 0..EndTick /\ snapshotDue(src.tick + 1) \in BOOLEAN
    BY <1>0, <2>1, <2>3 DEF snapshotDue
  <2> HIDE DEF x, n
  <2>5. src' = [src EXCEPT !.tick = n, !.call = "none", !.cached = FALSE, !.owed = FALSE,
                           !.log = Append(@, x), !.lock = snapshotDue(src.tick + 1)]
    BY <1>5 DEF sourceCommit, x, n
  <2>6. src' \in SourceRow /\ src'.log = Append(src.log, x) /\ src'.tick = n /\ src'.call = "none"
    BY <1>0, <2>4, <2>5 DEF SourceRow
  <2>7. Calling'
    BY <2>6 DEF Calling
  <2> QED BY <1>1, <2>1, <2>3, <2>6, <2>7 DEF n
<1>6. ASSUME sourceSnapshot
      PROVE  SourceEffect
  <2> DEFINE x == snapshotEvent(src)
  <2>1. src.tick \in 1..EndTick /\ ~Settled
    BY <1>0, <1>6, <1>t DEF sourceSnapshot, snapshotMissing, snapshotDue, Settled
  <2>2. x \in Event /\ x.tick = src.tick /\ x.type = "snapshot" /\ x.v = "same"
    BY <1>0, <2>1, EventTypes DEF snapshotEvent
  <2>3. Append(src.log, x) \in Seq(Event)
    BY <1>0, <2>2
  <2>6. src.call = "none"
    BY <1>0, <1>6 DEF sourceSnapshot, Calling
  <2> HIDE DEF x
  <2>4. src' = [src EXCEPT !.log = Append(@, x), !.lock = FALSE]
    BY <1>6 DEF sourceSnapshot, x
  <2>5. src' \in SourceRow /\ src'.log = Append(src.log, x) /\ src'.tick = src.tick /\ src'.call = src.call
    BY <1>0, <2>3, <2>4 DEF SourceRow
  <2>7. Calling'
    BY <2>5, <2>6 DEF Calling
  <2> QED BY <1>1, <2>1, <2>2, <2>5, <2>7
<1>7. ASSUME sourceComplete
      PROVE  SourceEffect
  <2> DEFINE x == event("completed", "none", src.tick)
  <2>1. x \in Event /\ x.tick = src.tick /\ x.type = "completed"
    BY <1>0, EventTypes
  <2>2. Append(src.log, x) \in Seq(Event)
    BY <1>0, <2>1
  <2> HIDE DEF x
  <2>3. /\ src' = [src EXCEPT !.status = "completed", !.log = Append(@, x)]
        /\ ~Settled /\ src.call = "none"
    BY <1>0, <1>7 DEF sourceComplete, x, Calling, Settled, sourceTerminal, S!isTerminalRunStatus
  <2>4. /\ src' \in SourceRow /\ src'.log = Append(src.log, x)
        /\ src'.tick = src.tick /\ src'.call = src.call
    BY <1>0, <2>2, <2>3 DEF SourceRow, S!RunStatus
  <2>6. Calling'
    BY <2>3, <2>4 DEF Calling
  <2> QED BY <1>1, <2>1, <2>3, <2>4, <2>6
<1>8. ASSUME sourceCrash
      PROVE  SourceEffect
  <2>1. /\ src' = [src EXCEPT !.lock = FALSE, !.owed = FALSE, !.call = "none",
                              !.clean = @ /\ src.call # "charged" /\ ~snapshotMissing(src)]
        /\ ~Settled
    BY <1>8 DEF sourceCrash, Settled
  <2>2. snapshotMissing(src) \in BOOLEAN
    BY DEF snapshotMissing, hasSnapshot, snapshotDue
  <2>3. src' \in SourceRow /\ src'.log = src.log /\ src'.tick = src.tick /\ src'.call = "none"
    BY <1>0, <2>1, <2>2 DEF SourceRow
  <2>4. src'.log = src.log \o <<>>
    BY <1>e, <2>3
  <2>5. Calling'
    BY <2>3 DEF Calling
  <2>6. \A k \in 1..Len(<<>>) : FALSE
    OBVIOUS
  <2>7. src'.tick \in {src.tick, src.tick + 1}
    BY <2>3
  <2> QED BY <1>0, <1>e, <2>1, <2>3, <2>4, <2>5, <2>6, <2>7, SourceWrites
<1>9. ASSUME sourceFail
      PROVE  SourceEffect
  <2> DEFINE x == event("error", "none", src.tick)
             m == src.sent + 1
  <2>1. x \in Event /\ x.tick = src.tick /\ x.type = "error"
    BY <1>0, EventTypes
  <2>2. Append(src.log, x) \in Seq(Event) /\ m \in Nat
    BY <1>0, <2>1
  <2> HIDE DEF x, m
  <2>3. /\ src' = [src EXCEPT !.status = "paused", !.lock = FALSE, !.owed = FALSE, !.call = "none",
                              !.sent = m, !.clean = FALSE, !.log = Append(@, x)]
        /\ ~Settled
    BY <1>9, <1>t DEF sourceFail, x, m
  <2>4. /\ src' \in SourceRow /\ src'.log = Append(src.log, x)
        /\ src'.tick = src.tick /\ src'.call = "none"
    BY <1>0, <2>2, <2>3 DEF SourceRow, S!RunStatus
  <2>6. Calling'
    BY <2>4 DEF Calling
  <2> QED BY <1>1, <2>1, <2>3, <2>4, <2>6
<1> QED BY <1>2, <1>3, <1>4, <1>5, <1>6, <1>7, <1>8, <1>9 DEF SourceNext

(* The source's journal only grows, and its tick never goes back. *)
SourceGrows ==
  /\ Extends(src'.log, src.log) /\ src.tick <= src'.tick
  /\ rep.status # "none" => src'.tick = src.tick /\ Settled'
  /\ rep.status # "none" =>
       \A i \in 1..Len(src'.log) :
         src'.log[i].v = "stop" \/ src'.log[i].type = "completed" => i <= Len(src.log)

LEMMA SourceInvStep ==
  ASSUME SourceInv, SourceNext, UNCHANGED rep
  PROVE  SourceInv' /\ SourceGrows
<1> USE ReplayAssumption
<1>1. SourceEffect
  BY SourceStep
<1>2. /\ src \in SourceRow /\ src' \in SourceRow /\ src.log \in Seq(Event) /\ src'.log \in Seq(Event)
      /\ src.tick \in Nat /\ src'.tick \in Nat /\ src.tick <= src'.tick
      /\ \A i \in 1..Len(src.log) : src.log[i].tick \in Nat
  <2>1. /\ src.log \in Seq(Event) /\ src'.log \in Seq(Event)
        /\ src \in SourceRow /\ src' \in SourceRow /\ src.tick \in Nat /\ src'.tick \in Nat
    <3>1. src \in SourceRow /\ src' \in SourceRow
      BY <1>1 DEF SourceEffect, SourceInv
    <3>2. src.log \in Seq(Event) /\ src.tick \in 0..EndTick
      BY <3>1 DEF SourceRow
    <3>3. src'.log \in Seq(Event) /\ src'.tick \in 0..EndTick
      BY <3>1 DEF SourceRow
    <3> QED BY <3>1, <3>2, <3>3
  <2>2. \A i \in 1..Len(src.log) : src.log[i] \in Event
    BY <2>1
  <2> QED BY <1>1, <2>1, <2>2, EventTypes DEF SourceEffect
<1>3. PICK new \in Seq(Event) :
        /\ src'.log = src.log \o new
        /\ \A k \in 1..Len(new) :
             /\ new[k].tick = src'.tick
             /\ new[k].type = "snapshot" => new[k].v = "same"
             /\ Settled => new[k].type # "completed" /\ new[k].v # "stop"
  BY <1>1 DEF SourceEffect
<1>4. /\ Len(src'.log) = Len(src.log) + Len(new) /\ Extends(src'.log, src.log)
      /\ Len(src.log) \in Nat /\ Len(new) \in Nat
      /\ \A i \in 1..Len(src'.log) :
           \/ i \in 1..Len(src.log) /\ src'.log[i] = src.log[i]
           \/ \E k \in 1..Len(new) : i = Len(src.log) + k /\ src'.log[i] = new[k]
  <2>1. /\ Len(src.log \o new) = Len(src.log) + Len(new) /\ Extends(src.log \o new, src.log)
        /\ \A i \in 1..(Len(src.log) + Len(new)) :
             \/ i \in 1..Len(src.log) /\ (src.log \o new)[i] = src.log[i]
             \/ \E k \in 1..Len(new) : i = Len(src.log) + k /\ (src.log \o new)[i] = new[k]
    BY <1>2, EventConcat
  <2>2. Len(src'.log) = Len(src.log) + Len(new)
    BY <1>3, <2>1
  <2>3. \A i \in 1..(Len(src.log) + Len(new)) :
           \/ i \in 1..Len(src.log) /\ src'.log[i] = src.log[i]
           \/ \E k \in 1..Len(new) : i = Len(src.log) + k /\ src'.log[i] = new[k]
    BY <1>3, <2>1
  <2>4. Len(src.log) \in Nat /\ Len(new) \in Nat /\ Extends(src'.log, src.log)
    BY <1>2, <1>3, <2>1
  <2> QED BY <2>2, <2>3, <2>4
<1>5. /\ \A i \in 1..Len(src.log) : src.log[i].tick <= src.tick
      /\ \A i, j \in 1..Len(src.log) : i <= j => src.log[i].tick <= src.log[j].tick
      /\ \A i \in 1..Len(src.log) : src.log[i].type = "snapshot" => src.log[i].v = "same"
      /\ Len(src.log) >= Len(Genesis) /\ \A i \in 1..Len(Genesis) : src.log[i] = Genesis[i]
      /\ rep.status # "none" => Settled
  BY DEF SourceInv
<1>6. \A i \in 1..Len(src'.log) : src'.log[i].tick <= src'.tick
  <2>1. ASSUME NEW i \in 1..Len(src'.log)
        PROVE  src'.log[i].tick <= src'.tick
    <3>1. CASE i \in 1..Len(src.log) /\ src'.log[i] = src.log[i]
      <4>1. src.log[i].tick <= src.tick /\ src.log[i].tick \in Nat
        BY <1>2, <1>5, <3>1
      <4> QED BY <1>2, <3>1, <4>1
    <3>2. CASE \E k \in 1..Len(new) : i = Len(src.log) + k /\ src'.log[i] = new[k]
      BY <1>2, <1>3, <3>2
    <3> QED BY <1>4, <3>1, <3>2
  <2> QED BY <2>1
<1>7. ASSUME NEW i \in 1..Len(src'.log), NEW j \in 1..Len(src'.log), i <= j
      PROVE  src'.log[i].tick <= src'.log[j].tick
  <2>1. CASE j \in 1..Len(src.log)
    <3>1. i \in 1..Len(src.log) /\ src'.log[i] = src.log[i] /\ src'.log[j] = src.log[j]
      BY <1>4, <1>7, <2>1 DEF Extends
    <3> QED BY <1>5, <1>7, <2>1, <3>1
  <2>2. CASE j \notin 1..Len(src.log)
    <3>1. src'.log[j].tick = src'.tick
      <4>1. PICK k \in 1..Len(new) : j = Len(src.log) + k /\ src'.log[j] = new[k]
        BY <1>4, <2>2
      <4> QED BY <1>3, <4>1
    <3> QED BY <1>6, <3>1
  <2> QED BY <2>1, <2>2
<1>8. ASSUME NEW i \in 1..Len(src'.log), src'.log[i].type = "snapshot"
      PROVE  src'.log[i].v = "same"
  <2>1. CASE i \in 1..Len(src.log) /\ src'.log[i] = src.log[i]
    BY <1>5, <1>8, <2>1
  <2>2. CASE \E k \in 1..Len(new) : i = Len(src.log) + k /\ src'.log[i] = new[k]
    BY <1>3, <1>8, <2>2
  <2> QED BY <1>4, <2>1, <2>2
<1>9. Len(src'.log) >= Len(Genesis) /\ \A i \in 1..Len(Genesis) : src'.log[i] = Genesis[i]
  <2>1. Len(Genesis) \in Nat
    BY CommandEvents DEF Genesis, Command
  <2> QED BY <1>4, <1>5, <2>1 DEF Extends
<1>10. rep.status # "none" =>
         \A i \in 1..Len(src'.log) :
           src'.log[i].v = "stop" \/ src'.log[i].type = "completed" => i <= Len(src.log)
  BY <1>3, <1>4, <1>5
<1>11. rep.status # "none" => src'.tick = src.tick /\ Settled'
  BY <1>1, <1>5 DEF SourceEffect
<1>12. SourceInv'
  BY <1>1, <1>2, <1>6, <1>7, <1>8, <1>9, <1>11 DEF SourceInv, SourceEffect
<1> QED BY <1>2, <1>4, <1>10, <1>11, <1>12 DEF SourceGrows

(* Types *)

ReplayRow ==
  [status : {"none", "running", "completed", "diverged", "failed"},
   mode : {"strict", "observe"}, toTick : 0..EndTick, tick : 0..EndTick, compared : Nat,
   divs : SUBSET replay_divergences, stateHash : {rep.stateHash},
   journal : {rep.journal}, cacheOk : BOOLEAN]

PC == {"idle", "lost", "compare", "progress", "boundary", "prepare",
       "seal", "finish", "conclude"} \cup Answer

Job == [pc : PC, from : Nat, source : Seq(Event), final : BOOLEAN, compare : BOOLEAN]

TypeInv ==
  /\ tgt \in RunRow
  /\ rep \in ReplayRow
  /\ job \in Job
  /\ rep.compared <= Len(tgt.log)
  /\ rep.stateHash # NoHash => rep.status \in {"completed", "diverged"}
  /\ faults \in 0..MaxFaults

(* What every worker step below starts from. *)
Running ==
  /\ SourceInv /\ TypeInv /\ WorkerInv /\ TargetInv /\ Matched /\ Verdict
  /\ rep.status = "running" /\ UNCHANGED src /\ faults' \in 0..MaxFaults

ReplayInv == TypeInv /\ WorkerInv /\ TargetInv /\ Matched /\ Verdict

(* The transaction that moves the target: its journal grows, and its tick
   moves only when a tick is executed. *)
LEMMA TargetMoves ==
  ASSUME Running, UNCHANGED rep, tgt' \in RunRow, job' \in Job,
         Extends(tgt'.log, tgt.log),
         \/ tgt'.tick = tgt.tick
         \/ /\ tgt'.tick = tgt.tick + 1 /\ job.pc \in Ticking
            /\ \E i \in 1..Len(tgt'.log) : tgt'.log[i].type = "tick" /\ tgt'.log[i].tick = tgt'.tick,
         WorkerInv'
  PROVE  ReplayInv'
<1>1. /\ tgt \in RunRow /\ rep \in ReplayRow /\ tgt.log \in Seq(Event) /\ tgt'.log \in Seq(Event)
      /\ tgt.tick \in Nat /\ tgt'.tick \in Nat /\ rep.tick \in Nat /\ rep.toTick \in Nat
      /\ rep.compared \in Nat /\ Len(tgt.log) \in Nat /\ Len(tgt'.log) \in Nat
      /\ rep.compared <= Len(tgt.log) /\ src.tick \in Nat
  <2>1. tgt \in RunRow /\ rep \in ReplayRow /\ tgt' \in RunRow /\ src \in SourceRow
    BY DEF Running, TypeInv, SourceInv
  <2>2. tgt.log \in Seq(Event) /\ tgt.tick \in Nat
    BY <2>1, ReplayAssumption DEF RunRow
  <2>3. tgt'.log \in Seq(Event) /\ tgt'.tick \in Nat
    BY <2>1, ReplayAssumption DEF RunRow
  <2>4. rep.tick \in Nat /\ rep.toTick \in Nat /\ rep.compared \in Nat
    BY <2>1, ReplayAssumption DEF ReplayRow
  <2>5. src.tick \in Nat
    BY <2>1, ReplayAssumption DEF SourceRow
  <2> QED BY <2>1, <2>2, <2>3, <2>4, <2>5 DEF Running, TypeInv
<1>2. rep.compared <= Len(tgt'.log)
  BY <1>1 DEF Extends
<1>3. TypeInv'
  <2>1. rep' \in ReplayRow'
    BY <1>1 DEF ReplayRow
  <2> QED BY <1>2, <2>1 DEF TypeInv, Running
<1>4. TargetInv'
  <2>1. rep.status = "running" /\ rep.tick <= tgt.tick /\ tgt.tick <= rep.toTick
          /\ rep.toTick <= src.tick
          /\ (job.pc \in Ticking => tgt.tick < rep.toTick)
    BY DEF Running, TargetInv, WorkerInv
  <2>2. rep.tick <= tgt'.tick /\ tgt'.tick <= rep.toTick
    BY <1>1, <2>1
  <2>3. tgt'.tick > 0 =>
          \E i \in 1..Len(tgt'.log) : tgt'.log[i].type = "tick" /\ tgt'.log[i].tick = tgt'.tick
    <3>1. CASE tgt'.tick = tgt.tick
      <4> SUFFICES ASSUME tgt.tick > 0
                   PROVE  \E i \in 1..Len(tgt'.log) :
                            tgt'.log[i].type = "tick" /\ tgt'.log[i].tick = tgt'.tick
        BY <3>1
      <4>1. PICK i \in 1..Len(tgt.log) : tgt.log[i].type = "tick" /\ tgt.log[i].tick = tgt.tick
        BY DEF Running, TargetInv
      <4>2. i \in 1..Len(tgt'.log) /\ tgt'.log[i] = tgt.log[i]
        BY <1>1 DEF Extends
      <4> QED BY <3>1, <4>1, <4>2
    <3> QED BY <3>1
  <2> QED BY <2>1, <2>2, <2>3 DEF TargetInv, Running
<1>5. Matched'
  <2>1. \A i \in 1..rep.compared : tgt'.log[i] = tgt.log[i]
    BY <1>1 DEF Extends
  <2> QED BY <1>1, <2>1 DEF Matched, Running
<1>6. Verdict'
  BY DEF Verdict, Running
<1> QED BY <1>3, <1>4, <1>5, <1>6 DEF ReplayInv

(* The transaction that moves nothing but the worker. *)
LEMMA WorkerMoves ==
  ASSUME Running, UNCHANGED <<tgt, rep>>, job' \in Job, WorkerInv'
  PROVE  ReplayInv'
<1>1. tgt' \in RunRow /\ Extends(tgt'.log, tgt.log) /\ tgt'.tick = tgt.tick
  <2>1. tgt \in RunRow
    BY DEF Running, TypeInv
  <2>2. tgt.log \in Seq(Event)
    BY <2>1 DEF RunRow
  <2> QED BY <2>1, <2>2 DEF Extends
<1> QED BY <1>1, TargetMoves

(* A new target row. *)
LEMMA Writes ==
  ASSUME tgt \in RunRow, NEW new \in Seq(Event), NEW n \in 0..EndTick, NEW s \in S!RunStatus,
         NEW d \in BOOLEAN,
         tgt' = [tgt EXCEPT !.status = s, !.tick = n, !.drift = d, !.log = @ \o new]
  PROVE  /\ tgt' \in RunRow /\ Extends(tgt'.log, tgt.log) /\ tgt'.tick = n
         /\ tgt'.log = tgt.log \o new
<1>1. tgt.log \in Seq(Event)
  BY DEF RunRow
<1>2. tgt.log \o new \in Seq(Event) /\ Extends(tgt.log \o new, tgt.log)
  BY <1>1, EventConcat
<1> QED BY <1>2 DEF RunRow

LEMMA TargetFields ==
  ASSUME Running
  PROVE  /\ tgt \in RunRow /\ rep \in ReplayRow /\ job \in Job
         /\ tgt.log \in Seq(Event) /\ Len(tgt.log) \in Nat
         /\ tgt.tick \in 0..EndTick /\ tgt.tick \in Nat /\ tgt.drift \in BOOLEAN
         /\ tgt.status \in S!RunStatus
         /\ rep.toTick \in 0..EndTick /\ rep.toTick \in Nat /\ rep.tick \in Nat
         /\ rep.compared \in Nat /\ job.from \in Nat /\ job.source \in Seq(Event)
         /\ job.pc \in PC /\ src.tick \in Nat /\ src.log \in Seq(Event)
         /\ rep.compared <= Len(tgt.log)
<1>1. tgt \in RunRow /\ rep \in ReplayRow /\ job \in Job /\ src \in SourceRow
  BY DEF Running, TypeInv, SourceInv
<1>2. /\ tgt.log \in Seq(Event) /\ Len(tgt.log) \in Nat /\ tgt.tick \in 0..EndTick
      /\ tgt.drift \in BOOLEAN /\ tgt.status \in S!RunStatus
  BY <1>1 DEF RunRow
<1>3. rep.toTick \in 0..EndTick /\ rep.tick \in Nat /\ rep.compared \in Nat
  BY <1>1, ReplayAssumption DEF ReplayRow
<1>4. job.from \in Nat /\ job.source \in Seq(Event) /\ job.pc \in PC
  BY <1>1 DEF Job
<1>5. src.tick \in Nat /\ src.log \in Seq(Event)
  BY <1>1, ReplayAssumption DEF SourceRow
<1>6. tgt.tick \in Nat /\ rep.toTick \in Nat
  BY <1>2, <1>3, ReplayAssumption
<1> QED BY <1>1, <1>2, <1>3, <1>4, <1>5, <1>6 DEF Running, TypeInv

(* The worker's steps *)

LEMMA FailStep ==
  ASSUME Running, fail
  PROVE  ReplayInv'
<1>0. /\ tgt \in RunRow /\ rep \in ReplayRow /\ tgt.log \in Seq(Event) /\ Len(tgt.log) \in Nat
      /\ tgt.tick \in 0..EndTick /\ tgt.tick \in Nat /\ rep.compared \in Nat
      /\ rep.compared <= Len(tgt.log)
  BY TargetFields
<1>1. UNCHANGED <<src, tgt>> /\ faults' \in 0..MaxFaults
  BY DEF fail, Running
<1>2. CASE rep' = [rep EXCEPT !.status = "failed", !.tick = tgt.tick,
                              !.compared = Max({@, Len(tgt.log)})] /\ job' = Idle
  <2> DEFINE m == Max({rep.compared, Len(tgt.log)})
  <2>1. m \in Nat /\ m = Len(tgt.log)
    <3>1. \A x \in {rep.compared, Len(tgt.log)} : Len(tgt.log) >= x
      BY <1>0
    <3>2. \A x \in {rep.compared, Len(tgt.log)} :
            (\A y \in {rep.compared, Len(tgt.log)} : x >= y) => x = Len(tgt.log)
      BY <1>0
    <3> QED BY <1>0, <3>1, <3>2 DEF Max
  <2> HIDE DEF m
  <2>2. rep' = [rep EXCEPT !.status = "failed", !.tick = tgt.tick, !.compared = m]
    BY <1>2 DEF m
  <2>3. /\ rep' \in ReplayRow' /\ rep'.status = "failed" /\ rep'.tick = tgt.tick
        /\ rep'.compared = Len(tgt.log) /\ rep'.toTick = rep.toTick
        /\ rep'.stateHash = rep.stateHash
    BY <1>0, <2>1, <2>2 DEF ReplayRow
  <2>4. rep.stateHash = NoHash
    BY DEF Running, TypeInv
  <2>5. job' \in Job
    BY <1>2 DEF Idle, Job, PC
  <2>6. TypeInv'
    BY <1>0, <1>1, <2>3, <2>4, <2>5 DEF TypeInv
  <2>7. WorkerInv'
    BY <1>0, <1>2 DEF WorkerInv, Idle, Ticking, Answer, Extends
  <2>8. TargetInv'
    BY <1>0, <1>1, <2>3 DEF TargetInv, Running
  <2> QED BY <2>3, <2>6, <2>7, <2>8 DEF ReplayInv, Matched, Verdict
<1>3. CASE UNCHANGED rep /\ job' = [Idle EXCEPT !.pc = "lost"]
  <2>1. job' \in Job /\ job'.pc = "lost" /\ job'.source = <<>>
    <3>1. Idle \in Job /\ "lost" \in PC /\ Idle.source = <<>>
      BY DEF Idle, Job, PC
    <3> HIDE DEF Idle
    <3> QED BY <1>3, <3>1 DEF Job
  <2>2. WorkerInv'
    BY <2>1 DEF WorkerInv, Ticking, Answer, Extends
  <2> QED BY <1>1, <1>3, <2>1, <2>2, WorkerMoves
<1> QED BY <1>2, <1>3 DEF fail

LEMMA BeginStep ==
  ASSUME Running, beginReplay
  PROVE  ReplayInv'
<1>1. CASE fail
  BY <1>1, FailStep
<1>2. CASE ~fail
  <2>0. /\ src.log \in Seq(Event) /\ rep.compared \in Nat /\ Len(tgt.log) \in Nat
        /\ rep.compared <= Len(tgt.log)
    BY TargetFields
  <2> DEFINE p == IF rep.compared < Len(tgt.log) THEN "compare" ELSE "boundary"
  <2>1. /\ job' = [Idle EXCEPT !.source = src.log, !.from = rep.compared, !.pc = p]
        /\ UNCHANGED <<tgt, rep>>
    BY <1>2 DEF beginReplay
  <2>2. p \in {"compare", "boundary"} /\ (p = "boundary" => rep.compared = Len(tgt.log))
    BY <2>0
  <2> HIDE DEF p
  <2>3. /\ job'.pc = p /\ job'.from = rep.compared /\ job'.source = src.log /\ job' \in Job
    BY <2>0, <2>1, <2>2 DEF Idle, Job, PC
  <2>4. Extends(src.log, src.log)
    BY <2>0 DEF Extends
  <2>5. WorkerInv'
    BY <2>0, <2>1, <2>2, <2>3, <2>4 DEF WorkerInv, Ticking, Answer, Running
  <2> QED BY <2>1, <2>3, <2>5, WorkerMoves
<1> QED BY <1>1, <1>2

LEMMA CompareStep ==
  ASSUME Running, compareReplayRange
  PROVE  ReplayInv'
<1>0. /\ tgt \in RunRow /\ rep \in ReplayRow /\ job \in Job /\ rep.compared \in Nat
      /\ Len(tgt.log) \in Nat
  BY TargetFields
<1> DEFINE d == IF reproduced THEN rep.divs ELSE rep.divs \cup {"event_mismatch"}
<1>1. /\ rep' = [rep EXCEPT !.divs = d] /\ job' = [job EXCEPT !.pc = "progress"]
      /\ UNCHANGED <<src, tgt, faults>> /\ job.pc = "compare"
  BY DEF compareReplayRange, at, goto, replayQuiet
<1>2. /\ d \subseteq replay_divergences /\ (d = {} => reproduced /\ rep.divs = {})
  BY <1>0 DEF ReplayRow, replay_divergences
<1> HIDE DEF d
<1>3. /\ rep' \in ReplayRow' /\ rep'.divs = d /\ rep'.status = rep.status
      /\ rep'.compared = rep.compared /\ rep'.stateHash = rep.stateHash
      /\ rep'.tick = rep.tick /\ rep'.toTick = rep.toTick /\ rep'.mode = rep.mode
  BY <1>0, <1>1, <1>2 DEF ReplayRow
<1>4. /\ job' \in Job /\ job'.pc = "progress" /\ job'.from = job.from
      /\ job'.source = job.source
  BY <1>0, <1>1 DEF Job, PC
<1>5. TypeInv'
  BY <1>1, <1>3, <1>4 DEF TypeInv, Running
<1>6. reproduced' <=> reproduced
  BY <1>1, <1>4 DEF reproduced
<1>7. WorkerInv'
  BY <1>1, <1>2, <1>3, <1>4, <1>6 DEF WorkerInv, Ticking, Answer, Running
<1>8. TargetInv'
  BY <1>1, <1>3 DEF TargetInv, Running
<1>9. Matched'
  BY <1>1, <1>2, <1>3 DEF Matched, Running
<1>10. Verdict'
  BY <1>3 DEF Verdict, Running
<1> QED BY <1>5, <1>7, <1>8, <1>9, <1>10 DEF ReplayInv

LEMMA ProgressStep ==
  ASSUME Running, updateProgress
  PROVE  ReplayInv'
<1>1. CASE fail
  BY <1>1, FailStep
<1>2. CASE ~fail
  <2>0. /\ tgt \in RunRow /\ rep \in ReplayRow /\ job \in Job /\ rep.compared \in Nat
        /\ Len(tgt.log) \in Nat /\ tgt.tick \in 0..EndTick /\ tgt.tick \in Nat
        /\ rep.compared <= Len(tgt.log) /\ job.source \in Seq(Event) /\ src.log \in Seq(Event)
    BY TargetFields
  <2> DEFINE n == Len(tgt.log)
  <2>1. /\ rep' = [rep EXCEPT !.tick = tgt.tick, !.compared = n]
        /\ job' = [job EXCEPT !.pc = "boundary"]
        /\ UNCHANGED <<src, tgt, faults>> /\ job.pc = "progress"
    BY <1>2 DEF updateProgress, at, goto, replayQuiet
  <2>2. n \in Nat
    BY <2>0
  <2> HIDE DEF n
  <2>3. /\ rep' \in ReplayRow' /\ rep'.divs = rep.divs /\ rep'.status = rep.status
        /\ rep'.compared = n /\ rep'.stateHash = rep.stateHash
        /\ rep'.tick = tgt.tick /\ rep'.toTick = rep.toTick /\ rep'.mode = rep.mode
    BY <2>0, <2>1, <2>2 DEF ReplayRow
  <2>4. job' \in Job /\ job'.pc = "boundary" /\ job'.source = job.source
    BY <2>0, <2>1 DEF Job, PC
  <2>5. TypeInv'
    BY <2>0, <2>1, <2>3, <2>4 DEF TypeInv, Running, n
  <2>6. WorkerInv'
    BY <2>1, <2>3, <2>4 DEF WorkerInv, Ticking, Answer, Running, n
  <2>7. TargetInv'
    BY <2>0, <2>1, <2>3 DEF TargetInv, Running
  <2>8. Matched'
    <3> SUFFICES ASSUME rep.divs = {}
                 PROVE  n <= Len(src.log) /\ \A i \in 1..n : tgt.log[i] = src.log[i]
      BY <2>1, <2>3 DEF Matched
    <3>1. /\ rep.compared <= Len(src.log) /\ \A i \in 1..rep.compared : tgt.log[i] = src.log[i]
          /\ reproduced /\ job.from = rep.compared /\ Extends(src.log, job.source)
      BY <2>1 DEF Running, Matched, WorkerInv
    <3>2. \A i \in rep.compared + 1 .. n : i <= Len(job.source) /\ job.source[i] = tgt.log[i]
      BY <3>1 DEF reproduced, n
    <3>3. Len(job.source) <= Len(src.log) /\ \A i \in 1..Len(job.source) : src.log[i] = job.source[i]
      BY <3>1 DEF Extends
    <3>4. Len(job.source) \in Nat /\ Len(src.log) \in Nat
      BY <2>0
    <3>5. n <= Len(src.log)
      <4>1. CASE n = rep.compared
        BY <3>1, <4>1
      <4>2. CASE n # rep.compared
        <5>1. n \in rep.compared + 1 .. n
          BY <2>0, <4>2 DEF n
        <5> QED BY <2>2, <3>2, <3>3, <3>4, <5>1
      <4> QED BY <4>1, <4>2
    <3>6. ASSUME NEW i \in 1..n
          PROVE  tgt.log[i] = src.log[i]
      <4>1. CASE i \in 1..rep.compared
        BY <3>1, <4>1
      <4>2. CASE i \notin 1..rep.compared
        <5>1. i \in rep.compared + 1 .. n
          BY <2>0, <2>2, <4>2
        <5>2. i <= Len(job.source) /\ job.source[i] = tgt.log[i]
          BY <3>2, <5>1
        <5> QED BY <2>2, <3>3, <3>4, <5>2
      <4> QED BY <4>1, <4>2
    <3> QED BY <3>5, <3>6
  <2>9. Verdict'
    BY <2>3 DEF Verdict, Running
  <2> QED BY <2>5, <2>6, <2>7, <2>8, <2>9 DEF ReplayInv
<1> QED BY <1>1, <1>2

LEMMA HaltStep ==
  ASSUME Running, haltStrict
  PROVE  ReplayInv'
<1>0. job \in Job
  BY TargetFields
<1>1. job' = [job EXCEPT !.pc = "finish", !.compare = job.final] /\ UNCHANGED <<tgt, rep>>
  BY DEF haltStrict
<1>2. job' \in Job /\ job'.pc = "finish" /\ job'.source = job.source
  BY <1>0, <1>1 DEF Job, PC
<1>3. rep.divs # {} /\ rep.compared = Len(tgt.log)
  BY DEF haltStrict, at, strictlyDiverged, Running, WorkerInv
<1>4. WorkerInv'
  BY <1>1, <1>2, <1>3 DEF WorkerInv, Running, Ticking, Answer
<1> QED BY <1>1, <1>2, <1>4, WorkerMoves

(* A transaction of the boundary: commands or the terminal fact. *)
LEMMA AppliedStep ==
  ASSUME Running, job.pc = "boundary",
         NEW new \in Seq(Event), NEW s \in S!RunStatus,
         applied([tgt EXCEPT !.status = s, !.log = @ \o new])
  PROVE  ReplayInv'
<1>0. /\ tgt \in RunRow /\ job \in Job /\ tgt.log \in Seq(Event) /\ Len(tgt.log) \in Nat
      /\ tgt.tick \in Nat /\ rep.toTick \in Nat
  BY TargetFields
<1>1. tgt.log \o new \in Seq(Event) /\ Extends(tgt.log \o new, tgt.log)
  BY <1>0, EventConcat
<1>2. /\ tgt' = [tgt EXCEPT !.status = s, !.log = @ \o new] /\ UNCHANGED rep
  BY DEF applied
<1>3. tgt' \in RunRow /\ tgt'.log = tgt.log \o new /\ tgt'.tick = tgt.tick
  BY <1>0, <1>1, <1>2 DEF RunRow
<1> DEFINE n == Len(tgt.log)
           f == finalBoundary
<1>4. n \in Nat /\ f \in BOOLEAN
  BY <1>0 DEF finalBoundary
<1>5. job' = [job EXCEPT !.pc = "compare", !.from = n, !.final = f]
  BY DEF applied
<1> HIDE DEF f, n
<1>6. job' \in Job /\ job'.pc = "compare" /\ job'.from = n /\ job'.source = job.source
  BY <1>0, <1>4, <1>5 DEF Job, PC
<1>7. n = rep.compared
  BY DEF Running, WorkerInv, n
<1>8. WorkerInv'
  BY <1>2, <1>6, <1>7 DEF WorkerInv, Running, Ticking, Answer
<1> QED BY <1>1, <1>2, <1>3, <1>6, <1>8, TargetMoves

(* What applying the next command writes *)
LEMMA CommandWrites ==
  ASSUME Running, applyReplayCommand, ~fail
  PROVE  \E e \in expected : \E s \in S!RunStatus :
           /\ e.type = "command" /\ e.v \in Command
           /\ commandEvents(e.v, tgt.tick) \in Seq(Event)
           /\ applied([tgt EXCEPT !.status = s, !.log = @ \o commandEvents(e.v, tgt.tick)])
<1>0. /\ tgt \in RunRow /\ job.source \in Seq(Event) /\ tgt.tick \in 0..EndTick
      /\ Len(tgt.log) \in Nat /\ tgt.status \in S!RunStatus
  BY TargetFields
<1>1. expectsCommand
  BY DEF applyReplayCommand
<1>2. ASSUME NEW e \in expected, e.type = "command"
      PROVE  e.v \in Command
  <2>1. PICK i \in (1..Len(job.source)) \cap {Len(tgt.log) + 1} : e = job.source[i]
    BY DEF expected
  <2>2. e \in Event
    BY <1>0, <2>1
  <2> QED BY <1>2, <2>2 DEF Event
<1>3. \A e1, e2 \in expected : e1 = e2
  BY <1>0 DEF expected
<1>4. PICK e \in expected :
        LET logged == [tgt EXCEPT !.log = @ \o commandEvents(e.v, tgt.tick)]
            to == T!transitionRunStatus(tgt.status, e.v)
        IN  CASE e.v \in Lifecycle /\ to # {} ->
                   \E s \in to : applied([logged EXCEPT !.status = s])
              [] e.v \in {"inject", "llm"} \/ (e.v = "advance" /\ T!assertCanAdvance(tgt.status)) ->
                   applied(logged)
              [] OTHER -> fail
  BY DEF applyReplayCommand
<1>5. e.type = "command" /\ e.v \in Command
  BY <1>1, <1>2, <1>3 DEF expectsCommand
<1> DEFINE new == commandEvents(e.v, tgt.tick)
<1>6. new \in Seq(Event)
  BY <1>0, <1>5, CommandEvents
<1> HIDE DEF new
<1>8. CASE \E s \in T!transitionRunStatus(tgt.status, e.v) :
             applied([[tgt EXCEPT !.log = @ \o new] EXCEPT !.status = s])
  <2>1. PICK s \in T!transitionRunStatus(tgt.status, e.v) :
          applied([[tgt EXCEPT !.log = @ \o new] EXCEPT !.status = s])
    BY <1>8
  <2>2. s \in S!RunStatus
    BY DEF T!transitionRunStatus, S!RunStatus
  <2>3. [[tgt EXCEPT !.log = @ \o new] EXCEPT !.status = s]
          = [tgt EXCEPT !.status = s, !.log = @ \o new]
    BY <1>0 DEF RunRow
  <2>4. applied([tgt EXCEPT !.status = s, !.log = @ \o new])
    BY <2>1, <2>3
  <2> QED BY <1>5, <1>6, <2>2, <2>4 DEF new
<1>9. CASE applied([tgt EXCEPT !.log = @ \o new])
  <2>1. [tgt EXCEPT !.log = @ \o new] = [tgt EXCEPT !.status = tgt.status, !.log = @ \o new]
    BY <1>0 DEF RunRow
  <2>2. applied([tgt EXCEPT !.status = tgt.status, !.log = @ \o new])
    BY <1>9, <2>1
  <2> QED BY <1>0, <1>5, <1>6, <2>2 DEF new
<1> QED BY <1>4, <1>8, <1>9 DEF new

(* What completing the target writes *)
LEMMA CompletionWrites ==
  ASSUME Running, applyCompletion, ~fail
  PROVE  LET x == event("completed", "none", tgt.tick)
         IN  /\ x \in Event /\ <<x>> \in Seq(Event) /\ "completed" \in S!RunStatus
             /\ Append(tgt.log, x) = tgt.log \o <<x>>
             /\ applied([tgt EXCEPT !.status = "completed", !.log = @ \o <<x>>])
<1>0. tgt \in RunRow /\ tgt.tick \in 0..EndTick /\ tgt.log \in Seq(Event)
  BY TargetFields
<1> DEFINE x == event("completed", "none", tgt.tick)
<1>1. x \in Event
  BY <1>0, EventTypes
<1>2. applied([tgt EXCEPT !.status = "completed", !.log = Append(@, x)])
  BY DEF applyCompletion
<1> HIDE DEF x
<1>3. Append(tgt.log, x) = tgt.log \o <<x>> /\ <<x>> \in Seq(Event)
  BY <1>0, <1>1, AppendAsConcat
<1>4. applied([tgt EXCEPT !.status = "completed", !.log = @ \o <<x>>])
  BY <1>2, <1>3
<1>5. "completed" \in S!RunStatus
  BY DEF S!RunStatus
<1> QED BY <1>1, <1>3, <1>4, <1>5 DEF x

LEMMA CommandStep ==
  ASSUME Running, applyReplayCommand
  PROVE  ReplayInv'
<1>1. CASE fail
  BY <1>1, FailStep
<1>2. CASE ~fail
  <2>1. PICK e \in expected, s \in S!RunStatus :
          /\ commandEvents(e.v, tgt.tick) \in Seq(Event)
          /\ applied([tgt EXCEPT !.status = s, !.log = @ \o commandEvents(e.v, tgt.tick)])
    BY <1>2, CommandWrites
  <2>2. job.pc = "boundary"
    BY DEF applyReplayCommand, at
  <2> QED BY <2>1, <2>2, AppliedStep
<1> QED BY <1>1, <1>2

LEMMA CompletionStep ==
  ASSUME Running, applyCompletion
  PROVE  ReplayInv'
<1>1. CASE fail
  BY <1>1, FailStep
<1>2. CASE ~fail
  <2> DEFINE w == <<event("completed", "none", tgt.tick)>>
  <2>1. /\ w \in Seq(Event) /\ "completed" \in S!RunStatus
        /\ applied([tgt EXCEPT !.status = "completed", !.log = @ \o w])
    BY <1>2, CompletionWrites
  <2>2. job.pc = "boundary"
    BY DEF applyCompletion, at
  <2> HIDE DEF w
  <2> QED BY <2>1, <2>2, AppliedStep
<1> QED BY <1>1, <1>2

(* ensurePeriodicSnapshot adds at most its event. *)
LEMMA SnapshotWrites ==
  ASSUME Running, tgt' = snapshot(tgt)
  PROVE  tgt' \in RunRow /\ Extends(tgt'.log, tgt.log) /\ tgt'.tick = tgt.tick
<1>0. tgt \in RunRow /\ tgt.tick \in 0..EndTick /\ tgt.log \in Seq(Event) /\ tgt.drift \in BOOLEAN
  BY TargetFields
<1>1. CASE snapshotMissing(tgt)
  <2> DEFINE x == snapshotEvent(tgt)
  <2>1. x \in Event
    <3>1. tgt.tick \in 1..EndTick
      BY <1>0, <1>1, ReplayAssumption DEF snapshotMissing, snapshotDue
    <3> QED BY <1>0, <3>1, EventTypes DEF snapshotEvent
  <2>2. tgt' = [tgt EXCEPT !.log = Append(@, x)]
    BY <1>1 DEF snapshot
  <2> HIDE DEF x
  <2>3. Append(tgt.log, x) = tgt.log \o <<x>> /\ <<x>> \in Seq(Event)
    BY <1>0, <2>1, AppendAsConcat
  <2>4. Append(tgt.log, x) \in Seq(Event) /\ Extends(Append(tgt.log, x), tgt.log)
    BY <1>0, <2>3, EventConcat
  <2> QED BY <1>0, <2>2, <2>4 DEF RunRow
<1>2. CASE ~snapshotMissing(tgt)
  BY <1>0, <1>2 DEF snapshot, Extends
<1> QED BY <1>1, <1>2

LEMMA LeaveStep ==
  ASSUME Running, leaveBoundary
  PROVE  ReplayInv'
<1>0. /\ tgt \in RunRow /\ job \in Job /\ tgt.log \in Seq(Event) /\ Len(tgt.log) \in Nat
      /\ tgt.tick \in Nat /\ rep.toTick \in Nat
  BY TargetFields
<1>1. /\ UNCHANGED rep /\ job.pc = "boundary" /\ ~strictlyDiverged
      /\ rep.compared = Len(tgt.log) /\ tgt.tick <= rep.toTick
  BY DEF leaveBoundary, at, Running, WorkerInv, TargetInv
<1>2. CASE finalBoundary
  <2>1. job' = [job EXCEPT !.pc = "finish", !.compare = TRUE] /\ UNCHANGED tgt
    BY <1>2 DEF leaveBoundary
  <2>2. job' \in Job /\ job'.pc = "finish" /\ job'.source = job.source /\ job'.compare
    BY <1>0, <2>1 DEF Job, PC
  <2>3. tgt.tick = rep.toTick
    BY <1>0, <1>1, <1>2 DEF finalBoundary
  <2>4. WorkerInv'
    BY <1>1, <2>1, <2>2, <2>3 DEF WorkerInv, Running, Ticking, Answer
  <2> QED BY <1>1, <2>1, <2>2, <2>4, WorkerMoves
<1>3. CASE ~finalBoundary
  <2> DEFINE n == Len(tgt.log)
  <2>1. job' = [job EXCEPT !.pc = "prepare", !.from = n] /\ tgt' = snapshot(tgt)
    BY <1>3 DEF leaveBoundary
  <2>2. n \in Nat
    BY <1>0
  <2> HIDE DEF n
  <2>3. job' \in Job /\ job'.pc = "prepare" /\ job'.source = job.source /\ job'.from = n
    BY <1>0, <2>1, <2>2 DEF Job, PC
  <2>4. tgt' \in RunRow /\ Extends(tgt'.log, tgt.log) /\ tgt'.tick = tgt.tick
    BY <2>1, SnapshotWrites
  <2>5. tgt.tick < rep.toTick
    BY <1>0, <1>1, <1>3 DEF finalBoundary
  <2>6. WorkerInv'
    BY <1>1, <2>3, <2>4, <2>5 DEF WorkerInv, Running, Ticking, Answer, strictlyDiverged, n
  <2> QED BY <1>1, <2>3, <2>4, <2>6, TargetMoves
<1> QED BY <1>2, <1>3

LEMMA SealStep ==
  ASSUME Running, sealTick
  PROVE  ReplayInv'
<1>0. tgt \in RunRow /\ job \in Job
  BY TargetFields
<1>1. /\ job' = [job EXCEPT !.pc = "compare"] /\ tgt' = snapshot(tgt)
      /\ UNCHANGED rep /\ job.pc = "seal"
  BY DEF sealTick, goto, at
<1>2. job' \in Job /\ job'.pc = "compare" /\ job'.source = job.source /\ job'.from = job.from
  BY <1>0, <1>1 DEF Job, PC
<1>3. tgt' \in RunRow /\ Extends(tgt'.log, tgt.log) /\ tgt'.tick = tgt.tick
  BY <1>1, SnapshotWrites
<1>4. WorkerInv'
  BY <1>1, <1>2 DEF WorkerInv, Running, Ticking, Answer
<1> QED BY <1>1, <1>2, <1>3, <1>4, TargetMoves

LEMMA PrepareStep ==
  ASSUME Running, NEW a \in Answer, prepare(a)
  PROVE  ReplayInv'
<1>0. /\ tgt \in RunRow /\ job \in Job /\ tgt.log \in Seq(Event) /\ tgt.tick \in 0..EndTick
  BY TargetFields
<1>1. /\ job' = [job EXCEPT !.pc = a] /\ UNCHANGED rep /\ job.pc = "prepare"
  BY DEF prepare, at
<1>2. job' \in Job /\ job'.pc = a /\ job'.source = job.source /\ job'.from = job.from
  BY <1>0, <1>1 DEF Job, PC
<1>3. tgt' \in RunRow /\ Extends(tgt'.log, tgt.log) /\ tgt'.tick = tgt.tick
  <2>1. CASE a = "charged"
    <3> DEFINE x == event("usage", "none", tgt.tick)
    <3>1. x \in Event
      BY <1>0, EventTypes
    <3>2. tgt' = [tgt EXCEPT !.log = Append(@, x)]
      BY <2>1 DEF prepare
    <3> HIDE DEF x
    <3>3. Append(tgt.log, x) = tgt.log \o <<x>> /\ <<x>> \in Seq(Event)
      BY <1>0, <3>1, AppendAsConcat
    <3>4. Append(tgt.log, x) \in Seq(Event) /\ Extends(Append(tgt.log, x), tgt.log)
      BY <1>0, <3>3, EventConcat
    <3> QED BY <1>0, <3>2, <3>4 DEF RunRow
  <2>2. CASE a # "charged"
    BY <1>0, <2>2 DEF prepare, Extends
  <2> QED BY <2>1, <2>2
<1>4. tgt.tick < rep.toTick /\ ~strictlyDiverged /\ job.from = rep.compared
  BY <1>1 DEF Running, WorkerInv, Ticking
<1>5. WorkerInv'
  BY <1>1, <1>2, <1>3, <1>4 DEF WorkerInv, Running, Ticking, Answer, strictlyDiverged
<1> QED BY <1>1, <1>2, <1>3, <1>5, TargetMoves

LEMMA TickStep ==
  ASSUME Running, NEW o \in Outcomes, executeTick(o)
  PROVE  ReplayInv'
<1>0. /\ tgt \in RunRow /\ job \in Job /\ tgt.log \in Seq(Event) /\ tgt.tick \in 0..EndTick
      /\ tgt.drift \in BOOLEAN
  BY TargetFields
<1>1. CASE fail
  BY <1>1, FailStep
<1>2. CASE ~fail
  <2> DEFINE n == tgt.tick + 1
             d == tgt.drift \/ o # "same"
             new == outcomeEvents(o, job.pc)
             x == event("tick", job.pc, tgt.tick + 1)
             w == event("work", "none", tgt.tick)
  <2>1. /\ tgt' = [tgt EXCEPT !.tick = n, !.drift = d, !.log = @ \o new]
        /\ job' = [job EXCEPT !.pc = "seal"] /\ UNCHANGED rep
        /\ job.pc \in Answer /\ tgt.tick < EndTick
    BY <1>2 DEF executeTick, goto
  <2>2. n \in 1..EndTick /\ n \in 0..EndTick /\ d \in BOOLEAN
    BY <1>0, <2>1, ReplayAssumption
  <2>3. x \in Event /\ w \in Event /\ x.type = "tick" /\ x.tick = n
    BY <1>0, <2>1, <2>2, EventTypes
  <2>4. new = <<w>> \o <<x>> \/ new = <<>> \o <<x>>
    BY DEF outcomeEvents
  <2> HIDE DEF n, d, new, x, w
  <2>5. new \in Seq(Event) /\ \E k \in 1..Len(new) : new[k] = x
    <3>1. <<w>> \o <<x>> \in Seq(Event) /\ Len(<<w>> \o <<x>>) = 2 /\ (<<w>> \o <<x>>)[2] = x
      BY <2>3
    <3>2. <<>> \o <<x>> \in Seq(Event) /\ Len(<<>> \o <<x>>) = 1 /\ (<<>> \o <<x>>)[1] = x
      BY <2>3
    <3>3. CASE new = <<w>> \o <<x>>
      <4>1. new \in Seq(Event) /\ 2 \in 1..Len(new) /\ new[2] = x
        BY <3>1, <3>3
      <4> QED BY <4>1
    <3>4. CASE new = <<>> \o <<x>>
      <4>1. new \in Seq(Event) /\ 1 \in 1..Len(new) /\ new[1] = x
        BY <3>2, <3>4
      <4> QED BY <4>1
    <3> QED BY <2>4, <3>3, <3>4
  <2>6. /\ tgt.log \o new \in Seq(Event) /\ Extends(tgt.log \o new, tgt.log)
        /\ \E i \in 1..Len(tgt.log \o new) : (tgt.log \o new)[i] = x
    <3>1. PICK k \in 1..Len(new) : new[k] = x
      BY <2>5
    <3>2. /\ Len(tgt.log) + k \in 1..Len(tgt.log \o new)
          /\ (tgt.log \o new)[Len(tgt.log) + k] = x
      BY <1>0, <2>5, <3>1
    <3> QED BY <1>0, <2>5, <3>2, EventConcat
  <2>7. tgt' \in RunRow /\ tgt'.log = tgt.log \o new /\ tgt'.tick = n
    BY <1>0, <2>1, <2>2, <2>6 DEF RunRow
  <2>8. job' \in Job /\ job'.pc = "seal" /\ job'.source = job.source /\ job'.from = job.from
    BY <1>0, <2>1 DEF Job, PC
  <2>9. job.pc \in Ticking /\ job.from = rep.compared
    BY <2>1 DEF Ticking, Running, WorkerInv
  <2>10. WorkerInv'
    BY <2>1, <2>8, <2>9 DEF WorkerInv, Running, Ticking, Answer
  <2>11. tgt'.tick = tgt.tick + 1
    BY <2>7 DEF n
  <2>12. \E i \in 1..Len(tgt'.log) : tgt'.log[i].type = "tick" /\ tgt'.log[i].tick = tgt'.tick
    BY <2>3, <2>6, <2>7
  <2> QED BY <2>1, <2>6, <2>7, <2>8, <2>9, <2>10, <2>11, <2>12, TargetMoves
<1> QED BY <1>1, <1>2

LEMMA StateStep ==
  ASSUME Running, compareState
  PROVE  ReplayInv'
<1>0. rep \in ReplayRow /\ job \in Job
  BY TargetFields
<1> DEFINE d == IF sourceHash \in {NoHash, hashOf(tgt)} THEN rep.divs
                ELSE rep.divs \cup {"state_hash_mismatch"}
<1>1. /\ rep' = [rep EXCEPT !.divs = d] /\ job' = [job EXCEPT !.pc = "conclude"]
      /\ UNCHANGED <<src, tgt, faults>> /\ job.pc = "finish"
  BY DEF compareState, at, goto, replayQuiet
<1>2. /\ d \subseteq replay_divergences
      /\ d = {} => sourceHash \in {NoHash, hashOf(tgt)} /\ rep.divs = {}
  BY <1>0 DEF ReplayRow, replay_divergences
<1> HIDE DEF d
<1>3. /\ rep' \in ReplayRow' /\ rep'.divs = d /\ rep'.status = rep.status
      /\ rep'.compared = rep.compared /\ rep'.stateHash = rep.stateHash
      /\ rep'.tick = rep.tick /\ rep'.toTick = rep.toTick /\ rep'.mode = rep.mode
  BY <1>0, <1>1, <1>2 DEF ReplayRow
<1>4. /\ job' \in Job /\ job'.pc = "conclude" /\ job'.from = job.from
      /\ job'.source = job.source /\ job'.compare = job.compare
  BY <1>0, <1>1 DEF Job, PC
<1>5. TypeInv'
  BY <1>1, <1>3, <1>4 DEF TypeInv, Running
<1>6. sourceHash' = sourceHash /\ hashOf(tgt)' = hashOf(tgt)
  BY <1>1, <1>4 DEF sourceHash, hashOf, snapshotHash, hasSnapshot
<1>7. WorkerInv'
  BY <1>1, <1>2, <1>3, <1>4, <1>6 DEF WorkerInv, Ticking, Answer, Running
<1>8. TargetInv'
  BY <1>1, <1>3 DEF TargetInv, Running
<1>9. Matched'
  BY <1>1, <1>2, <1>3 DEF Matched, Running
<1>10. Verdict'
  BY <1>3 DEF Verdict, Running
<1> QED BY <1>5, <1>7, <1>8, <1>9, <1>10 DEF ReplayInv

(* What equal hashes say. *)
LEMMA HashesDiffer ==
  ASSUME NEW t, NEW log, NEW d, NEW t2, NEW log2, NEW d2
  PROVE  /\ logicalStateHash(t, log, d) # NoHash
         /\ logicalStateHash(t, log, d) = logicalStateHash(t2, log2, d2) =>
              Len(log) = Len(log2) /\ d = d2
<1> DEFINE F(l) == SelectSeq(l, LAMBDA e : e.type \in {"tick", "usage", "work"}
                                            \/ e.v \in {"inject", "llm"})
<1>1. /\ logicalStateHash(t, log, d) = <<t, Len(log), d, F(log)>>
      /\ logicalStateHash(t2, log2, d2) = <<t2, Len(log2), d2, F(log2)>>
  BY DEF logicalStateHash
<1> HIDE DEF F
<1> QED BY <1>1 DEF NoHash

LEMMA FinishStep ==
  ASSUME Running, finish
  PROVE  ReplayInv'
<1>0. /\ rep \in ReplayRow /\ job \in Job /\ tgt.tick \in 0..EndTick /\ Len(tgt.log) \in Nat
      /\ tgt.log \in Seq(Event) /\ tgt.tick \in Nat /\ src.tick \in Nat /\ rep.toTick \in Nat
      /\ tgt.drift \in BOOLEAN /\ src.log \in Seq(Event)
  BY TargetFields
<1> DEFINE n == Len(tgt.log)
           h == sourceHash
           v == IF rep.divs = {} THEN "completed" ELSE "diverged"
<1>1. /\ rep' = [rep EXCEPT !.status = v, !.tick = tgt.tick, !.compared = n, !.stateHash = h]
      /\ job' = Idle /\ UNCHANGED <<src, tgt, faults>> /\ job.pc = "conclude"
  BY DEF finish, at, replayQuiet
<1>2. n \in Nat /\ v \in {"completed", "diverged"} /\ (v = "completed" => rep.divs = {})
  BY <1>0
<1> HIDE DEF n, h, v
<1>3. /\ rep' \in ReplayRow' /\ rep'.divs = rep.divs /\ rep'.status = v
      /\ rep'.compared = n /\ rep'.stateHash = h
      /\ rep'.tick = tgt.tick /\ rep'.toTick = rep.toTick
  BY <1>0, <1>1, <1>2 DEF ReplayRow
<1>4. job' \in Job
  BY <1>1 DEF Idle, Job, PC
<1>5. TypeInv'
  BY <1>0, <1>1, <1>2, <1>3, <1>4 DEF TypeInv, Running, n
<1>6. WorkerInv'
  BY <1>0, <1>1 DEF WorkerInv, Idle, Ticking, Answer, Extends
<1>7. TargetInv'
  BY <1>0, <1>1, <1>2, <1>3 DEF TargetInv, Running
<1>8. n = rep.compared
  BY <1>1 DEF Running, WorkerInv, n
<1>9. Matched'
  BY <1>1, <1>3, <1>8 DEF Matched, Running
<1>10. Verdict'
  <2> SUFFICES ASSUME rep.divs = {}
               PROVE  /\ tgt.tick = rep.toTick
                      /\ rep.toTick = src.tick =>
                           \A i \in 1..Len(src.log) :
                             src.log[i].v = "stop" \/ src.log[i].type = "completed" => i <= n
                      /\ tgt.drift => h = NoHash /\ rep.toTick < src.tick
    BY <1>1, <1>2, <1>3 DEF Verdict, n
  <2>1. /\ tgt.tick = rep.toTick /\ job.compare /\ h \in {NoHash, hashOf(tgt)}
        /\ rep.toTick <= src.tick
    BY <1>1 DEF Running, WorkerInv, TargetInv, h
  <2>2. ASSUME rep.toTick = src.tick
        PROVE  Len(src.log) = n /\ ~tgt.drift
    <3>1. h = hashOf(src)
      BY <2>1, <2>2 DEF sourceHash, h
    <3>2. hashOf(src) # NoHash
      BY HashesDiffer DEF hashOf
    <3>3. logicalStateHash(src.tick, src.log, src.drift)
            = logicalStateHash(tgt.tick, tgt.log, tgt.drift)
      BY <2>1, <3>1, <3>2 DEF hashOf
    <3>4. Len(src.log) = Len(tgt.log) /\ src.drift = tgt.drift
      BY <3>3, HashesDiffer
    <3>5. src.drift = FALSE
      <4>1. src \in SourceRow
        BY DEF Running, SourceInv
      <4> QED BY <4>1 DEF SourceRow
    <3> QED BY <3>4, <3>5 DEF n
  <2>3. ASSUME tgt.drift
        PROVE  h = NoHash /\ rep.toTick < src.tick
    <3>1. rep.toTick < src.tick /\ tgt.tick # src.tick
      BY <1>0, <2>1, <2>2, <2>3
    <3>2. h = snapshotHash(tgt.tick)
      BY <2>1, <3>1 DEF sourceHash, h
    <3>3. ASSUME hasSnapshot(src.log, tgt.tick)
          PROVE  h = NoHash
      <4> DEFINE i == CHOOSE i \in 1..Len(src.log) :
                        src.log[i].type = "snapshot" /\ src.log[i].tick = tgt.tick
      <4>1. i \in 1..Len(src.log) /\ src.log[i].type = "snapshot"
        BY <3>3 DEF hasSnapshot
      <4>2. h = logicalStateHash(tgt.tick, SubSeq(src.log, 1, i), src.log[i].v = "drift")
        BY <3>2, <3>3 DEF snapshotHash
      <4> HIDE DEF i
      <4>3. (src.log[i].v = "drift") = FALSE
        BY <4>1 DEF Running, SourceInv
      <4>4. h = hashOf(tgt) => (src.log[i].v = "drift") = tgt.drift
        BY <4>2, HashesDiffer DEF hashOf
      <4> QED BY <2>1, <2>3, <4>3, <4>4
    <3>4. ASSUME ~hasSnapshot(src.log, tgt.tick)
          PROVE  h = NoHash
      BY <3>2, <3>4 DEF snapshotHash
    <3> QED BY <3>1, <3>3, <3>4
  <2>4. rep.toTick = src.tick =>
          \A i \in 1..Len(src.log) :
             src.log[i].v = "stop" \/ src.log[i].type = "completed" => i <= n
    BY <1>0, <2>2
  <2> QED BY <2>1, <2>3, <2>4
<1> QED BY <1>5, <1>6, <1>7, <1>9, <1>10 DEF ReplayInv

LEMMA WorkerStep ==
  ASSUME SourceInv, ReplayInv, WorkerNext
  PROVE  ReplayInv' /\ UNCHANGED src
<1>1. rep.status = "running" /\ UNCHANGED src /\ UNCHANGED faults
  <2>1. CASE \E a \in Answer : prepare(a)
    BY <2>1 DEF prepare, at, replayQuiet
  <2>2. CASE \E o \in Outcomes : executeTick(o)
    BY <2>2 DEF executeTick, fail, replayQuiet
  <2>3. CASE beginReplay \/ compareReplayRange \/ updateProgress \/ haltStrict
    BY <2>3 DEF beginReplay, compareReplayRange, updateProgress, haltStrict, at, fail, replayQuiet
  <2>4. CASE applyReplayCommand
    BY <2>4 DEF applyReplayCommand, applied, at, fail, replayQuiet
  <2>5. CASE applyCompletion \/ leaveBoundary \/ sealTick
    BY <2>5 DEF applyCompletion, leaveBoundary, sealTick, applied, at, fail, replayQuiet
  <2>6. CASE executionFails \/ compareState \/ finish
    BY <2>6 DEF executionFails, compareState, finish, at, fail, replayQuiet
  <2> QED BY <2>1, <2>2, <2>3, <2>4, <2>5, <2>6 DEF WorkerNext
<1>2. Running
  BY <1>1 DEF Running, ReplayInv, TypeInv
<1>3. CASE \E a \in Answer : prepare(a)
  BY <1>1, <1>2, <1>3, PrepareStep
<1>4. CASE \E o \in Outcomes : executeTick(o)
  BY <1>1, <1>2, <1>4, TickStep
<1>5. CASE executionFails
  BY <1>1, <1>2, <1>5, FailStep DEF executionFails
<1>6. ReplayInv'
  BY <1>2, <1>3, <1>4, <1>5, BeginStep, CompareStep, ProgressStep, HaltStep, CommandStep,
     CompletionStep, LeaveStep, SealStep, StateStep, FinishStep DEF WorkerNext
<1> QED BY <1>1, <1>6

LEMMA CreateStep ==
  ASSUME SourceInv, ReplayInv,
         NEW mode \in {"strict", "observe"}, NEW toTick \in 0..EndTick,
         NEW cacheOk \in BOOLEAN, NEW same \in BOOLEAN,
         replaySimulation(mode, toTick, cacheOk, same)
  PROVE  SourceInv' /\ ReplayInv'
<1> USE ReplayAssumption
<1>0. src \in SourceRow /\ src.tick \in Nat /\ src.log \in Seq(Event) /\ job \in Job /\ tgt = NoRun
      /\ rep = NoReplay /\ job = Idle
  <2>1. src \in SourceRow /\ job \in Job /\ rep.status = "none"
    BY DEF SourceInv, ReplayInv, TypeInv, replaySimulation
  <2>2. src.tick \in 0..EndTick /\ src.log \in Seq(Event)
    BY <2>1 DEF SourceRow
  <2>3. tgt = NoRun /\ rep = NoReplay /\ job = Idle
    BY <2>1 DEF ReplayInv, TargetInv
  <2> QED BY <2>1, <2>2, <2>3
<1>1. Settled
  BY DEF replaySimulation, Settled, SourceInv, Calling
<1>2. UNCHANGED <<src, job, faults>>
  BY DEF replaySimulation
<1>3. SourceInv'
  <2>1. src \in SourceRow => src' \in SourceRow
    BY <1>2
  <2>2. Calling' /\ Settled'
    BY <1>1, <1>2 DEF SourceInv, Calling, Settled, sourceTerminal, S!isTerminalRunStatus,
          snapshotMissing, hasSnapshot, snapshotDue
  <2> QED BY <1>0, <1>2, <2>2 DEF SourceInv
<1> DEFINE g == event("command", "create", 0)
           f == event("fact", "create", 0)
           w == event("work", "none", 0)
           l == IF same THEN Genesis ELSE <<Genesis[1], w>>
           d == (IF same THEN {} ELSE {"event_mismatch"})
                  \cup (IF cacheOk THEN {} ELSE {"cache_incomplete"})
           n == Len(Genesis)
           j == commands(src.log)
<1>4. g \in Event /\ f \in Event /\ w \in Event
  BY DEF event, Event, Command
<1>5. Genesis = <<g, f>>
  BY DEF Genesis, commandEvents
<1> HIDE DEF g, f, w
<1>6. Genesis \in Seq(Event) /\ n = 2 /\ Genesis[1] = g
  BY <1>4, <1>5
<1>7. l \in Seq(Event) /\ Len(l) = 2
  <2>1. <<Genesis[1], w>> \in Seq(Event) /\ Len(<<Genesis[1], w>>) = 2
    BY <1>4, <1>6
  <2> QED BY <1>6, <2>1
<1>8. d \subseteq replay_divergences /\ (d = {} => same)
  BY DEF replay_divergences
<1> DEFINE ns == ~same
<1>9. /\ tgt' = [NoRun EXCEPT !.log = l, !.drift = ns]
      /\ rep' = [NoReplay EXCEPT !.status = "running", !.mode = mode, !.toTick = toTick,
                                 !.compared = n, !.journal = j, !.cacheOk = cacheOk, !.divs = d]
      /\ toTick <= src.tick
  BY DEF replaySimulation, w
<1>10. ns \in BOOLEAN
  OBVIOUS
<1>a. d = {} => l = Genesis
  BY <1>8
<1> HIDE DEF l, d, n, j, ns
<1>11. tgt' \in RunRow /\ tgt'.tick = 0 /\ tgt'.log = l
  <2>1. NoRun \in RunRow /\ NoRun.tick = 0
    BY <1>6 DEF NoRun, RunRow, S!RunStatus
  <2> HIDE DEF NoRun
  <2> QED BY <1>7, <1>9, <1>10, <2>1 DEF RunRow
<1>12. /\ rep' \in ReplayRow' /\ rep'.status = "running" /\ rep'.toTick = toTick /\ rep'.tick = 0
       /\ rep'.compared = 2 /\ rep'.divs = d /\ rep'.stateHash = NoHash
  <2>1. /\ NoReplay = [status |-> "none", mode |-> "strict", toTick |-> 0, tick |-> 0,
                        compared |-> 0, divs |-> {}, stateHash |-> NoHash, journal |-> {},
                        cacheOk |-> TRUE]
    BY DEF NoReplay
  <2>2. rep' = [status |-> "running", mode |-> mode, toTick |-> toTick, tick |-> 0,
                compared |-> n, divs |-> d, stateHash |-> NoHash, journal |-> j,
                cacheOk |-> cacheOk]
    BY <1>9, <2>1
  <2>3. /\ rep'.status = "running" /\ rep'.toTick = toTick /\ rep'.tick = 0
        /\ rep'.compared = n /\ rep'.divs = d /\ rep'.stateHash = NoHash /\ rep'.journal = j
    BY <2>2
  <2>4. n \in Nat /\ n = 2 /\ 0 \in 0..EndTick
    BY <1>6
  <2>5. rep' \in [status : {"none", "running", "completed", "diverged", "failed"},
                  mode : {"strict", "observe"}, toTick : 0..EndTick, tick : 0..EndTick,
                  compared : Nat, divs : SUBSET replay_divergences, stateHash : {NoHash},
                  journal : {j}, cacheOk : BOOLEAN]
    BY <1>8, <2>2, <2>4
  <2> QED BY <2>3, <2>4, <2>5 DEF ReplayRow
<1>13. TypeInv'
  <2>1. rep'.compared <= Len(tgt'.log)
    <3>1. rep'.compared = 2
      BY <1>12
    <3>2. Len(tgt'.log) = 2
      BY <1>7, <1>11
    <3> QED BY <3>1, <3>2
  <2> QED BY <1>0, <1>2, <1>11, <1>12, <2>1 DEF TypeInv, ReplayInv
<1>14. WorkerInv'
  BY <1>0, <1>2 DEF WorkerInv, Idle, Ticking, Answer, Extends
<1>15. TargetInv'
  BY <1>0, <1>2, <1>9, <1>11, <1>12 DEF TargetInv
<1>16. Matched'
  <2>1. Len(src.log) >= 2 /\ \A i \in 1..2 : src.log[i] = Genesis[i]
    BY <1>6 DEF SourceInv, n
  <2>2. Len(src.log) \in Nat
    BY <1>0
  <2> QED BY <1>2, <1>a, <1>11, <1>12, <2>1, <2>2 DEF Matched
<1>17. Verdict'
  BY <1>12 DEF Verdict
<1> QED BY <1>3, <1>13, <1>14, <1>15, <1>16, <1>17 DEF ReplayInv

LEMMA ControlStep ==
  ASSUME SourceInv, ReplayInv, controlTarget
  PROVE  ReplayInv'
<1>1. Running
  <2>1. faults + 1 \in 0..MaxFaults
    BY ReplayAssumption DEF ReplayInv, TypeInv, controlTarget
  <2> QED BY <2>1 DEF Running, ReplayInv, controlTarget
<1>2. tgt \in RunRow /\ job \in Job /\ tgt.log \in Seq(Event) /\ tgt.tick \in 0..EndTick
  BY <1>1, TargetFields
<1>3. PICK c \in Lifecycle : \E s \in T!transitionRunStatus(tgt.status, c) :
        tgt' = [tgt EXCEPT !.status = s, !.log = @ \o commandEvents("foreign", tgt.tick)]
  BY DEF controlTarget
<1>4. PICK s \in T!transitionRunStatus(tgt.status, c) :
        tgt' = [tgt EXCEPT !.status = s, !.log = @ \o commandEvents("foreign", tgt.tick)]
  BY <1>3
<1>5. s \in S!RunStatus
  BY DEF T!transitionRunStatus, S!RunStatus
<1> DEFINE new == commandEvents("foreign", tgt.tick)
<1>6. new \in Seq(Event)
  BY <1>2, CommandEvents DEF Command
<1> HIDE DEF new
<1>7. tgt.log \o new \in Seq(Event) /\ Extends(tgt.log \o new, tgt.log)
  BY <1>2, <1>6, EventConcat
<1>8. tgt' \in RunRow /\ tgt'.log = tgt.log \o new /\ tgt'.tick = tgt.tick
  BY <1>2, <1>4, <1>5, <1>7 DEF RunRow, new
<1>9. UNCHANGED <<src, rep, job>> /\ job.pc \in {"idle", "lost"}
  BY DEF controlTarget
<1>10. WorkerInv'
  BY <1>1, <1>9 DEF WorkerInv, Running, Ticking, Answer
<1> QED BY <1>1, <1>2, <1>7, <1>8, <1>9, <1>10, TargetMoves

LEMMA CrashStep ==
  ASSUME SourceInv, ReplayInv, crash
  PROVE  ReplayInv'
<1>1. Running
  <2>1. faults + 1 \in 0..MaxFaults
    BY ReplayAssumption DEF ReplayInv, TypeInv, crash
  <2> QED BY <2>1 DEF Running, ReplayInv, crash
<1>2. UNCHANGED <<tgt, rep>> /\ job' = Idle
  BY DEF crash
<1>3. job' \in Job
  BY <1>2 DEF Idle, Job, PC
<1>4. Len(src.log) \in Nat
  BY <1>1, TargetFields
<1>5. WorkerInv'
  BY <1>1, <1>2, <1>4 DEF WorkerInv, Idle, Ticking, Answer, Extends, Running
<1> QED BY <1>1, <1>2, <1>3, <1>5, WorkerMoves

(* The source moves under a replay: only the emergency command reaches it,
   and only while the worker awaits. *)
LEMMA UnderReplay ==
  ASSUME SourceInv, ReplayInv, SourceNext
  PROVE  SourceInv' /\ ReplayInv'
<1>1. UNCHANGED <<tgt, rep, job, faults>>
  BY DEF SourceNext, request, sourceCall, sourceCharge, sourceCommit, sourceSnapshot,
         sourceComplete, sourceCrash, sourceFail, replayUntouched
<1>2. SourceInv' /\ SourceGrows
  BY <1>1, SourceInvStep
<1>3. /\ src \in SourceRow /\ src' \in SourceRow /\ tgt \in RunRow /\ rep \in ReplayRow /\ job \in Job
  BY <1>2 DEF SourceInv, ReplayInv, TypeInv
<1>4. /\ src.log \in Seq(Event) /\ job.source \in Seq(Event)
      /\ src.tick \in Nat
  BY <1>3, ReplayAssumption DEF SourceRow, Job
<1>5. src'.log \in Seq(Event) /\ src'.tick \in Nat
  BY <1>3, ReplayAssumption DEF SourceRow
<1>6. rep.toTick \in Nat /\ rep.compared \in Nat
  BY <1>3, ReplayAssumption DEF ReplayRow
<1>7. rep.status # "none" => src'.tick = src.tick /\ job.pc \notin {"finish", "conclude"}
  <2>1. rep.status # "none" => Settled
    BY DEF SourceInv
  <2> QED BY <2>1, SourceStep DEF SourceEffect
<1>8. job.pc \in {"finish", "conclude"} => rep.status # "none"
  BY DEF ReplayInv, TargetInv, Idle
<1>9. TypeInv'
  <2>1. rep' \in ReplayRow'
    BY <1>1, <1>3 DEF ReplayRow
  <2> QED BY <1>1, <2>1 DEF TypeInv, ReplayInv
<1>10. WorkerInv'
  <2>1. Extends(src'.log, job.source)
    BY <1>2, <1>4, <1>5, ExtendsTrans DEF SourceGrows, ReplayInv, WorkerInv
  <2>2. reproduced' <=> reproduced
    BY <1>1 DEF reproduced
  <2>3. job.pc \notin {"finish", "conclude"}
    BY <1>7, <1>8
  <2> QED BY <1>1, <2>1, <2>2, <2>3 DEF WorkerInv, ReplayInv, strictlyDiverged
<1>11. TargetInv'
  <2>1. rep.status # "none" => src'.tick = src.tick
    BY <1>7
  <2> QED BY <1>1, <2>1 DEF TargetInv, ReplayInv
<1>12. Matched'
  <2> SUFFICES ASSUME rep.status \in {"running", "completed", "diverged"}, rep.divs = {}
               PROVE  /\ rep.compared <= Len(src'.log)
                      /\ \A i \in 1..rep.compared : tgt.log[i] = src'.log[i]
    BY <1>1 DEF Matched
  <2>1. /\ rep.compared <= Len(src.log) /\ \A i \in 1..rep.compared : tgt.log[i] = src.log[i]
    BY DEF ReplayInv, Matched
  <2>2. Len(src.log) <= Len(src'.log) /\ \A i \in 1..Len(src.log) : src'.log[i] = src.log[i]
    BY <1>2 DEF SourceGrows, Extends
  <2>3. Len(src.log) \in Nat /\ Len(src'.log) \in Nat
    BY <1>4, <1>5
  <2> QED BY <1>6, <2>1, <2>2, <2>3
<1>13. Verdict'
  <2> SUFFICES ASSUME rep.status = "completed"
               PROVE  Verdict'
    BY <1>1 DEF Verdict
  <2>1. src'.tick = src.tick
    BY <1>7
  <2>2. rep.toTick = src'.tick =>
          \A i \in 1..Len(src'.log) :
            src'.log[i].v = "stop" \/ src'.log[i].type = "completed" => i <= Len(tgt.log)
    <3> SUFFICES ASSUME rep.toTick = src.tick, NEW i \in 1..Len(src'.log),
                        src'.log[i].v = "stop" \/ src'.log[i].type = "completed"
                 PROVE  i <= Len(tgt.log)
      BY <2>1
    <3>1. i <= Len(src.log)
      BY <1>2 DEF SourceGrows
    <3>2. i \in 1..Len(src.log) /\ src'.log[i] = src.log[i]
      <4>1. i \in 1..Len(src.log)
        BY <1>4, <1>5, <3>1
      <4> QED BY <1>2, <4>1 DEF SourceGrows, Extends
    <3> QED BY <3>2 DEF ReplayInv, Verdict
  <2> QED BY <1>1, <2>1, <2>2 DEF ReplayInv, Verdict
<1> QED BY <1>2, <1>9, <1>10, <1>11, <1>12, <1>13 DEF ReplayInv

-----------------------------------------------------------------------------
(* The invariant of the specification *)

IInv == SourceInv /\ ReplayInv

LEMMA IInvInit == Init => IInv
<1> SUFFICES ASSUME Init
             PROVE  IInv
  OBVIOUS
<1> USE ReplayAssumption
<1>0. src = NoSource /\ tgt = NoRun /\ rep = NoReplay /\ job = Idle /\ faults = 0
  BY DEF Init
<1> DEFINE g == event("command", "create", 0)
           f == event("fact", "create", 0)
<1>1. /\ g \in Event /\ f \in Event /\ g.tick = 0 /\ f.tick = 0 /\ g.type = "command"
      /\ f.type = "fact"
  BY DEF event, Event, Command
<1>2. Genesis = <<g, f>>
  BY DEF Genesis, commandEvents
<1> HIDE DEF g, f
<1>3. /\ Genesis \in Seq(Event) /\ Len(Genesis) = 2
      /\ \A i \in 1..Len(Genesis) : Genesis[i].tick = 0 /\ Genesis[i].type # "snapshot"
  <2>1. Genesis \in Seq(Event) /\ Len(Genesis) = 2 /\ Genesis[1] = g /\ Genesis[2] = f
    BY <1>1, <1>2
  <2> QED BY <1>1, <2>1
<1>4. SourceInv
  <2>1. src \in SourceRow /\ src.log = Genesis /\ src.tick = 0 /\ src.call = "none"
    BY <1>0, <1>3 DEF NoSource, SourceRow, S!RunStatus
  <2>2. rep.status = "none"
    BY <1>0 DEF NoReplay
  <2>3. \A i \in 1..Len(src.log) : src.log[i].tick = 0 /\ src.log[i].type # "snapshot"
    BY <1>3, <2>1
  <2>4. Len(src.log) >= Len(Genesis)
    BY <1>3, <2>1
  <2>5. /\ \A i \in 1..Len(src.log) : src.log[i].tick <= src.tick
        /\ \A i, j \in 1..Len(src.log) : i <= j => src.log[i].tick <= src.log[j].tick
    BY <2>1, <2>3
  <2> QED BY <2>1, <2>2, <2>3, <2>4, <2>5 DEF SourceInv, Calling
<1>5. TypeInv
  <2>1. tgt \in RunRow /\ tgt.log = Genesis
    BY <1>0, <1>3 DEF NoRun, RunRow, S!RunStatus
  <2>2. rep \in ReplayRow /\ rep.compared = 0 /\ rep.stateHash = NoHash
    BY <1>0 DEF NoReplay, ReplayRow, replay_divergences
  <2>3. job \in Job
    BY <1>0 DEF Idle, Job, PC
  <2> QED BY <1>0, <1>3, <2>1, <2>2, <2>3 DEF TypeInv
<1>6. WorkerInv
  <2>1. Len(src.log) \in Nat
    BY <1>0, <1>3 DEF NoSource
  <2> QED BY <1>0, <2>1 DEF WorkerInv, Idle, Ticking, Answer, Extends
<1>7. TargetInv /\ Matched /\ Verdict
  BY <1>0 DEF TargetInv, Matched, Verdict, NoReplay, NoRun
<1> QED BY <1>4, <1>5, <1>6, <1>7 DEF IInv, ReplayInv

LEMMA IInvStutter ==
  ASSUME IInv, UNCHANGED vars
  PROVE  IInv'
<1>1. UNCHANGED <<src, tgt, rep, job, faults>>
  BY DEF vars
<1>2. SourceInv'
  BY <1>1 DEF IInv, SourceInv, SourceRow, Calling, snapshotMissing, hasSnapshot, snapshotDue,
        Settled, sourceTerminal, S!isTerminalRunStatus
<1>3. TypeInv' /\ TargetInv' /\ Matched' /\ Verdict'
  BY <1>1 DEF IInv, ReplayInv, TypeInv, TargetInv, Matched, Verdict, RunRow, ReplayRow, Job, PC
<1>4. WorkerInv'
  <2>1. sourceHash' = sourceHash /\ hashOf(tgt)' = hashOf(tgt)
    BY <1>1 DEF sourceHash, hashOf, snapshotHash, hasSnapshot
  <2>2. reproduced' <=> reproduced
    BY <1>1 DEF reproduced
  <2> QED BY <1>1, <2>1, <2>2 DEF IInv, ReplayInv, WorkerInv, strictlyDiverged
<1> QED BY <1>2, <1>3, <1>4 DEF IInv, ReplayInv

LEMMA IInvNext == IInv /\ [Next]_vars => IInv'
<1> SUFFICES ASSUME IInv, [Next]_vars
             PROVE  IInv'
  OBVIOUS
<1>0. SourceInv /\ ReplayInv
  BY DEF IInv
<1>s. UNCHANGED <<src, rep>> => SourceInv'
  BY <1>0 DEF SourceInv, SourceRow, Calling, snapshotMissing, hasSnapshot, snapshotDue,
        Settled, sourceTerminal, S!isTerminalRunStatus
<1>1. CASE SourceNext
  BY <1>0, <1>1, UnderReplay DEF IInv
<1>2. CASE \E mode \in {"strict", "observe"}, toTick \in 0..EndTick, cacheOk \in BOOLEAN :
             \E sameGenesis \in BOOLEAN : replaySimulation(mode, toTick, cacheOk, sameGenesis)
  BY <1>0, <1>2, CreateStep DEF IInv
<1>3. CASE WorkerNext
  <2>1. ReplayInv' /\ UNCHANGED src
    BY <1>0, <1>3, WorkerStep
  <2>2. rep.status = "running"
    BY <1>3 DEF WorkerNext, beginReplay, compareReplayRange, updateProgress, haltStrict,
          applyReplayCommand, applyCompletion, leaveBoundary, prepare, executeTick, sealTick,
          executionFails, compareState, finish, at
  <2>3. SourceInv'
    BY <1>0, <2>1, <2>2 DEF SourceInv, SourceRow, Calling, snapshotMissing, hasSnapshot,
          snapshotDue, Settled, sourceTerminal, S!isTerminalRunStatus
  <2> QED BY <2>1, <2>3 DEF IInv
<1>4. CASE controlTarget
  <2>1. UNCHANGED <<src, rep>>
    BY <1>4 DEF controlTarget
  <2> QED BY <1>0, <1>s, <1>4, <2>1, ControlStep DEF IInv
<1>5. CASE crash
  <2>1. UNCHANGED <<src, rep>>
    BY <1>5 DEF crash
  <2> QED BY <1>0, <1>s, <1>5, <2>1, CrashStep DEF IInv
<1>6. CASE UNCHANGED vars
  BY <1>6, IInvStutter
<1> QED BY <1>1, <1>2, <1>3, <1>4, <1>5, <1>6 DEF Next

LEMMA IInvHolds == Spec => []IInv
BY IInvInit, IInvNext, PTL DEF Spec

-----------------------------------------------------------------------------
(* The record of a replay is true. *)

LEMMA TypesHold ==
  ASSUME IInv
  PROVE  TypeOK
<1>1. tgt \in RunRow /\ rep \in ReplayRow /\ job \in Job /\ rep.compared <= Len(tgt.log)
      /\ faults \in 0..MaxFaults
  BY DEF IInv, ReplayInv, TypeInv
<1>2. job.pc \in PC
  BY <1>1 DEF Job
<1>3. rep.status # "none" => rep \in replay_runs
  <2> SUFFICES ASSUME rep.status # "none"
               PROVE  rep \in replay_runs
    OBVIOUS
  <2>1. rep.tick <= rep.toTick
    <3>1. rep.tick <= tgt.tick /\ tgt.tick <= rep.toTick
      BY DEF IInv, ReplayInv, TargetInv
    <3>2. tgt.tick \in Nat
      BY <1>1, ReplayAssumption DEF RunRow
    <3>3. rep.tick \in Nat /\ rep.toTick \in Nat
      BY <1>1, ReplayAssumption DEF ReplayRow
    <3> QED BY <3>1, <3>2, <3>3
  <2>2. rep.stateHash # NoHash => rep.status \in {"completed", "diverged"}
    BY DEF IInv, ReplayInv, TypeInv
  <2>3. rep \in [status : {"running", "completed", "diverged", "failed"},
                 mode : {"strict", "observe"}, toTick : 0..EndTick, tick : 0..EndTick,
                 compared : Nat, divs : SUBSET replay_divergences, stateHash : {rep.stateHash},
                 journal : {rep.journal}, cacheOk : BOOLEAN]
    BY <1>1 DEF ReplayRow
  <2> QED BY <2>1, <2>2, <2>3 DEF replay_runs
<1> QED BY <1>1, <1>2, <1>3 DEF TypeOK, PC

(* A prefix, event by event, is a prefix. *)
LEMMA PrefixByEvents ==
  ASSUME NEW s \in Seq(Event), NEW t \in Seq(Event), NEW n \in 0..Len(s), n <= Len(t),
         \A i \in 1..n : s[i] = t[i]
  PROVE  SubSeq(s, 1, n) = SubSeq(t, 1, n)
<1>1. Len(s) \in Nat /\ Len(t) \in Nat /\ n \in Nat
  OBVIOUS
<1>2. /\ SubSeq(s, 1, n) \in Seq(Event) /\ Len(SubSeq(s, 1, n)) = n
      /\ \A i \in 1..n : SubSeq(s, 1, n)[i] = s[i]
  BY <1>1, SubSeqProperties
<1>3. /\ SubSeq(t, 1, n) \in Seq(Event) /\ Len(SubSeq(t, 1, n)) = n
      /\ \A i \in 1..n : SubSeq(t, 1, n)[i] = t[i]
  BY <1>1, SubSeqProperties
<1> QED BY <1>1, <1>2, <1>3, SeqEqual

LEMMA RecordsTrue ==
  ASSUME IInv
  PROVE  RecordIsTrue
<1>0. /\ SourceInv /\ TypeInv /\ TargetInv /\ Matched /\ Verdict
      /\ src \in SourceRow /\ tgt \in RunRow /\ rep \in ReplayRow
  BY DEF IInv, ReplayInv, SourceInv, TypeInv
<1>1. tgt.log \in Seq(Event) /\ tgt.tick \in Nat /\ Len(tgt.log) \in Nat
  BY <1>0, ReplayAssumption DEF RunRow
<1>2. src.log \in Seq(Event) /\ src.tick \in Nat /\ Len(src.log) \in Nat
  BY <1>0, ReplayAssumption DEF SourceRow
<1>3. rep.toTick \in Nat /\ rep.compared \in Nat
  BY <1>0, ReplayAssumption DEF ReplayRow
<1>4. rep.compared <= Len(tgt.log) /\ rep.compared \in 0..Len(tgt.log)
  BY <1>0, <1>1, <1>3 DEF TypeInv
<1>5. ComparedEventsMatch
  <2> SUFFICES ASSUME rep.status \in {"running", "completed", "diverged"}, rep.divs = {}
               PROVE  /\ rep.compared <= Len(src.log)
                      /\ SubSeq(tgt.log, 1, rep.compared) = SubSeq(src.log, 1, rep.compared)
    BY DEF ComparedEventsMatch
  <2>1. /\ rep.compared <= Len(src.log)
        /\ \A i \in 1..rep.compared : tgt.log[i] = src.log[i]
    BY <1>0 DEF Matched
  <2> QED BY <1>1, <1>2, <1>4, <2>1, PrefixByEvents
<1>6. CompletedMeansReproduced
  <2> SUFFICES ASSUME rep.status = "completed"
               PROVE  /\ tgt.tick = rep.toTick
                      /\ IsPrefix(tgt.log, src.log)
                      /\ \A i \in 1..Len(src.log) :
                           \/ src.log[i].tick < rep.toTick
                           \/ rep.toTick = src.tick
                                /\ (src.log[i].v = "stop" \/ src.log[i].type = "completed")
                           => i <= Len(tgt.log)
                      /\ tgt.drift => rep.stateHash = NoHash /\ rep.toTick < src.tick
    BY DEF CompletedMeansReproduced
  <2>1. /\ tgt.tick = rep.toTick /\ rep.divs = {} /\ rep.compared = Len(tgt.log)
        /\ (tgt.drift => rep.stateHash = NoHash /\ rep.toTick < src.tick)
        /\ (rep.toTick = src.tick =>
              \A i \in 1..Len(src.log) :
                src.log[i].v = "stop" \/ src.log[i].type = "completed" => i <= Len(tgt.log))
    BY <1>0 DEF Verdict
  <2>2. Len(tgt.log) <= Len(src.log) /\ \A i \in 1..Len(tgt.log) : tgt.log[i] = src.log[i]
    BY <1>0, <2>1 DEF Matched
  <2>3. IsPrefix(tgt.log, src.log)
    <3>1. SubSeq(tgt.log, 1, Len(tgt.log)) = SubSeq(src.log, 1, Len(tgt.log))
      BY <1>1, <1>2, <2>2, PrefixByEvents
    <3> QED BY <2>2, <3>1 DEF IsPrefix
  <2>4. ASSUME NEW i \in 1..Len(src.log), src.log[i].tick < rep.toTick
        PROVE  i <= Len(tgt.log)
    <3>1. src.log[i].tick \in Nat
      <4>1. src.log[i] \in Event
        BY <1>2
      <4> QED BY <4>1, EventTypes
    <3>2. PICK k \in 1..Len(tgt.log) : tgt.log[k].tick = tgt.tick
      BY <1>0, <1>1, <2>1, <2>4, <3>1 DEF TargetInv
    <3>3. k \in 1..Len(src.log) /\ src.log[k].tick = rep.toTick
      BY <1>1, <1>2, <2>1, <2>2, <3>2
    <3>4. k <= i => src.log[k].tick <= src.log[i].tick
      BY <1>0, <3>3 DEF SourceInv
    <3> QED BY <1>1, <1>2, <1>3, <2>4, <3>1, <3>2, <3>3, <3>4
  <2> QED BY <2>1, <2>3, <2>4
<1> QED BY <1>5, <1>6, TypesHold DEF RecordIsTrue

(* Whatever is on record of a replay is true, in every state: the types and
   the row its table accepts; that no event below the progress mark differs
   without a divergence on record; and that a completed replay reproduced
   its source (runReplay, firstReplayEventMismatch, finishReplay). *)
THEOREM RecordIsTrueHolds == Spec => []RecordIsTrue
<1>1. IInv => RecordIsTrue
  BY RecordsTrue
<1> QED BY <1>1, IInvHolds, PTL

-----------------------------------------------------------------------------
(* Every write is one the tables accept. *)

LEMMA AcceptedStep ==
  IInv /\ [Next]_vars =>
    [/\ StrictHalts
     /\ rep.status # "none" => /\ replay_runs_identity_immutable
                               /\ replay_runs_status_transition
                               /\ replay_divergences_no_update]_vars
<1> SUFFICES ASSUME IInv, Next
             PROVE  /\ StrictHalts
                    /\ rep.status # "none" => /\ replay_runs_identity_immutable
                                              /\ replay_runs_status_transition
                                              /\ replay_divergences_no_update
  OBVIOUS
<1>0. /\ rep \in ReplayRow
      /\ rep.status = "none" => rep.divs = {}
      /\ job.pc \in Ticking => ~strictlyDiverged
  BY DEF IInv, ReplayInv, TypeInv, TargetInv, NoReplay, WorkerInv
<1> DEFINE Accepted == /\ UNCHANGED <<rep.mode, rep.toTick, rep.journal, rep.cacheOk>>
                       /\ rep.status # "running" =>
                            UNCHANGED <<rep.status, rep.tick, rep.compared, rep.stateHash>>
                       /\ rep.divs \subseteq rep.divs'
<1>1. Accepted => /\ replay_runs_identity_immutable
                  /\ replay_runs_status_transition
                  /\ replay_divergences_no_update
  BY DEF replay_runs_identity_immutable, replay_runs_status_transition,
         replay_divergences_no_update
<1>2. UNCHANGED rep => Accepted
  OBVIOUS
<1>3. UNCHANGED tgt => StrictHalts
  BY DEF StrictHalts
<1>f. fail /\ rep.status = "running" => Accepted
  BY <1>0 DEF fail, ReplayRow
<1>4. CASE SourceNext
  <2>1. UNCHANGED <<tgt, rep>>
    BY <1>4 DEF SourceNext, request, sourceCall, sourceCharge, sourceCommit, sourceSnapshot,
           sourceComplete, sourceCrash, sourceFail, replayUntouched
  <2> QED BY <1>1, <1>2, <1>3, <2>1
<1>5. CASE \E mode \in {"strict", "observe"}, toTick \in 0..EndTick, cacheOk \in BOOLEAN :
             \E sameGenesis \in BOOLEAN : replaySimulation(mode, toTick, cacheOk, sameGenesis)
  <2>1. rep.status = "none"
    BY <1>5 DEF replaySimulation
  <2> QED BY <1>0, <2>1 DEF StrictHalts
<1>6. CASE WorkerNext
  <2>1. rep.status = "running"
    BY <1>6 DEF WorkerNext, beginReplay, compareReplayRange, updateProgress, haltStrict,
          applyReplayCommand, applyCompletion, leaveBoundary, prepare, executeTick, sealTick,
          executionFails, compareState, finish, at
  <2> HIDE DEF Accepted
  <2>2. ASSUME fail
        PROVE  StrictHalts /\ Accepted
    BY <1>3, <1>f, <2>1, <2>2 DEF fail
  <2>3. CASE compareReplayRange
    <3>1. /\ UNCHANGED tgt
          /\ rep' = [rep EXCEPT !.divs = IF reproduced THEN @ ELSE @ \cup {"event_mismatch"}]
      BY <2>3 DEF compareReplayRange
    <3>2. Accepted
      BY <1>0, <2>1, <3>1 DEF Accepted, ReplayRow
    <3> QED BY <1>1, <1>3, <3>1, <3>2
  <2>4. CASE compareState
    <3>1. /\ UNCHANGED tgt
          /\ rep' = [rep EXCEPT !.divs = IF sourceHash \in {NoHash, hashOf(tgt)} THEN @
                                         ELSE @ \cup {"state_hash_mismatch"}]
      BY <2>4 DEF compareState
    <3>2. Accepted
      BY <1>0, <2>1, <3>1 DEF Accepted, ReplayRow
    <3> QED BY <1>1, <1>3, <3>1, <3>2
  <2>5. CASE finish
    <3> DEFINE v == IF rep.divs = {} THEN "completed" ELSE "diverged"
               n == Len(tgt.log)
    <3>1. /\ UNCHANGED tgt
          /\ rep' = [rep EXCEPT !.status = v, !.tick = tgt.tick, !.compared = n,
                                !.stateHash = sourceHash]
      BY <2>5 DEF finish
    <3> HIDE DEF v, n
    <3>2. Accepted
      BY <1>0, <2>1, <3>1 DEF Accepted, ReplayRow
    <3> QED BY <1>1, <1>3, <3>1, <3>2
  <2>6. CASE updateProgress /\ ~fail
    <3> DEFINE n == Len(tgt.log)
    <3>1. UNCHANGED tgt /\ rep' = [rep EXCEPT !.tick = tgt.tick, !.compared = n]
      BY <2>6 DEF updateProgress
    <3> HIDE DEF n
    <3>2. Accepted
      BY <1>0, <2>1, <3>1 DEF Accepted, ReplayRow
    <3> QED BY <1>1, <1>3, <3>1, <3>2
  <2>7. CASE beginReplay /\ ~fail
    <3>1. UNCHANGED <<tgt, rep>>
      BY <2>7 DEF beginReplay
    <3> QED BY <1>1, <1>2, <1>3, <3>1
  <2>8. CASE haltStrict
    <3>1. UNCHANGED <<tgt, rep>>
      BY <2>8 DEF haltStrict
    <3> QED BY <1>1, <1>2, <1>3, <3>1
  <2>9. CASE (applyReplayCommand \/ applyCompletion) /\ ~fail
    <3>1. UNCHANGED rep /\ ~strictlyDiverged
      <4>1. CASE applyReplayCommand
        BY <2>9, <4>1 DEF applyReplayCommand, applied
      <4>2. CASE applyCompletion
        BY <2>9, <4>2 DEF applyCompletion, applied
      <4> QED BY <2>9, <4>1, <4>2
    <3>2. StrictHalts
      BY <3>1 DEF StrictHalts, strictlyDiverged
    <3> QED BY <1>1, <1>2, <3>1, <3>2
  <2>10. CASE leaveBoundary
    <3>1. UNCHANGED rep /\ ~strictlyDiverged
      BY <2>10 DEF leaveBoundary
    <3> QED BY <1>1, <1>2, <3>1 DEF StrictHalts, strictlyDiverged
  <2>11. CASE \E a \in Answer : prepare(a)
    <3>1. UNCHANGED rep /\ ~strictlyDiverged
      BY <1>0, <2>11 DEF prepare, at, Ticking
    <3> QED BY <1>1, <1>2, <3>1 DEF StrictHalts, strictlyDiverged
  <2>12. CASE \E o \in Outcomes : executeTick(o) /\ ~fail
    <3>1. UNCHANGED rep /\ ~strictlyDiverged
      BY <1>0, <2>12 DEF executeTick, Ticking
    <3> QED BY <1>1, <1>2, <3>1 DEF StrictHalts, strictlyDiverged
  <2>13. CASE sealTick
    <3>1. UNCHANGED rep /\ tgt' = snapshot(tgt) /\ tgt \in RunRow
      BY <2>13 DEF sealTick, IInv, ReplayInv, TypeInv
    <3>2. tgt'.tick = tgt.tick
      BY <3>1 DEF snapshot, RunRow
    <3> QED BY <1>1, <1>2, <3>1, <3>2 DEF StrictHalts
  <2>14. CASE executionFails
    BY <1>1, <2>2, <2>14 DEF executionFails
  <2> QED BY <1>1, <1>6, <2>2, <2>3, <2>4, <2>5, <2>6, <2>7, <2>8, <2>9, <2>10, <2>11, <2>12,
             <2>13, <2>14 DEF WorkerNext
<1>7. CASE controlTarget
  <2>1. UNCHANGED rep /\ tgt \in RunRow
    BY <1>7 DEF controlTarget, IInv, ReplayInv, TypeInv
  <2>2. tgt'.tick = tgt.tick
    BY <1>7, <2>1 DEF controlTarget, RunRow
  <2> QED BY <1>1, <1>2, <2>1, <2>2 DEF StrictHalts
<1>8. CASE crash
  <2>1. UNCHANGED <<tgt, rep>>
    BY <1>8 DEF crash
  <2> QED BY <1>1, <1>2, <1>3, <2>1
<1> QED BY <1>4, <1>5, <1>6, <1>7, <1>8 DEF Next

(* Every write of the worker, of recovery and of a client is one the tables'
   triggers accept (replay_runs_identity_immutable, _status_transition,
   replay_divergences_no_update), and a strict replay that has a divergence
   on record executes no further tick (executeReplay). *)
THEOREM StepsAcceptedHolds == Spec => StepsAccepted
BY IInvHolds, AcceptedStep, PTL DEF Spec, StepsAccepted


-----------------------------------------------------------------------------
(* Exact replay: the journal of a source no failure touched is a chain, in   *)
(* which each event says what the next one can be, and the target's journal  *)
(* is a prefix of it that the worker leaves only at a closed place.          *)

Opens(e) == e.type = "command" /\ e.v # "advance"
Due(e) == e.type = "tick" /\ snapshotDue(e.tick)
Closed(e) == ~Opens(e) /\ e.type # "usage" /\ ~Due(e)

(* f may come next after e: the fact of a command, the tick that a charge
   was for, the snapshot of a tick at once; nothing of a failure. *)
Succ(e, f) ==
  /\ f.tick = IF f.type = "tick" THEN e.tick + 1 ELSE e.tick
  /\ f.type \notin {"error", "work"}
  /\ IF Opens(e) THEN f.type = "fact" /\ f.v = e.v ELSE f.type # "fact"
  /\ e.type = "usage" <=> f.type = "tick" /\ f.v = "charged"
  /\ Due(e) <=> f.type = "snapshot"
  /\ f.type = "snapshot" => f.v = "same"
  /\ f.type = "tick" =>
       IF f.tick \in CallTicks THEN f.v \in {"charged", "cached"} ELSE f.v = "none"
  /\ f.type = "completed" => f.tick = EndTick
  /\ f.type # "fact" => f.v \notin {"create", "foreign"}

InStep(s) == \A i \in 1..Len(s) - 1 : Succ(s[i], s[i + 1])

(* e is where the row stands, and what it still owes the row knows. *)
End(e, r) ==
  /\ e.tick = r.tick /\ ~Opens(e)
  /\ e.type = "usage" <=> r.call = "charged"
  /\ Due(e) <=> snapshotMissing(r)
  /\ Due(e) => r.lock

lastOf(s) == s[Len(s)]

Clean == src.clean => InStep(src.log) /\ End(lastOf(src.log), src)

LEMMA Chain ==
  ASSUME NEW s \in Seq(Event), NEW new \in Seq(Event), Len(s) >= 1, Len(new) >= 1,
         InStep(s), InStep(new), Succ(lastOf(s), new[1])
  PROVE  InStep(s \o new) /\ lastOf(s \o new) = lastOf(new)
<1> DEFINE t == s \o new
<1>1. /\ Len(s) \in Nat /\ Len(new) \in Nat /\ Len(t) = Len(s) + Len(new)
      /\ \A i \in 1..Len(t) : t[i] = IF i <= Len(s) THEN s[i] ELSE new[i - Len(s)]
  OBVIOUS
<1> HIDE DEF t
<1>2. lastOf(t) = lastOf(new)
  <2>1. Len(t) \in 1..Len(t) /\ ~(Len(t) <= Len(s)) /\ Len(t) - Len(s) = Len(new)
    BY <1>1
  <2> QED BY <1>1, <2>1 DEF lastOf
<1>3. ASSUME NEW i \in 1..Len(t) - 1
      PROVE  Succ(t[i], t[i + 1])
  <2>0. i \in Nat /\ i >= 1 /\ i + 1 <= Len(t)
    BY <1>1
  <2>1. CASE i < Len(s)
    <3>1. t[i] = s[i] /\ t[i + 1] = s[i + 1] /\ i \in 1..Len(s) - 1
      BY <1>1, <2>0, <2>1
    <3> QED BY <3>1 DEF InStep
  <2>2. CASE i = Len(s)
    <3>1. t[i] = lastOf(s) /\ t[i + 1] = new[1]
      BY <1>1, <2>0, <2>2 DEF lastOf
    <3> QED BY <3>1
  <2>3. CASE i > Len(s)
    <3> DEFINE k == i - Len(s)
    <3>1. /\ k \in 1..Len(new) - 1
          /\ t[i] = new[k] /\ t[i + 1] = new[k + 1]
      <4>1. k \in 1..Len(new) - 1 /\ (i + 1) - Len(s) = k + 1
        BY <1>1, <2>0, <2>3
      <4>2. t[i] = new[i - Len(s)] /\ t[i + 1] = new[(i + 1) - Len(s)]
        BY <1>1, <2>0, <2>3
      <4> QED BY <4>1, <4>2
    <3> HIDE DEF k
    <3> QED BY <3>1 DEF InStep
  <2> QED BY <1>1, <2>0, <2>1, <2>2, <2>3
<1> QED BY <1>2, <1>3 DEF InStep, t

LEMMA ChainOne ==
  ASSUME NEW s \in Seq(Event), NEW x \in Event, Len(s) >= 1, InStep(s), Succ(lastOf(s), x)
  PROVE  InStep(Append(s, x)) /\ lastOf(Append(s, x)) = x
<1> DEFINE w == <<x>>
<1>1. Append(s, x) = s \o w /\ w \in Seq(Event) /\ Len(w) = 1 /\ w[1] = x
  BY AppendAsConcat
<1> HIDE DEF w
<1>2. InStep(w) /\ lastOf(w) = x
  BY <1>1 DEF InStep, lastOf
<1>3. Len(w) >= 1 /\ Succ(lastOf(s), w[1])
  BY <1>1
<1>4. InStep(s \o w) /\ lastOf(s \o w) = lastOf(w)
  BY <1>1, <1>2, <1>3, Chain
<1> QED BY <1>1, <1>2, <1>4

(* The events of a command follow a closed place, and leave one. *)
LEMMA ChainCommand ==
  ASSUME NEW s \in Seq(Event), Len(s) >= 1, InStep(s), Closed(lastOf(s)),
         NEW c \in Command \ {"create", "foreign"}, NEW t \in 0..EndTick, lastOf(s).tick = t
  PROVE  /\ InStep(s \o commandEvents(c, t)) /\ Closed(lastOf(s \o commandEvents(c, t)))
         /\ lastOf(s \o commandEvents(c, t)).tick = t
<1> DEFINE a == event("command", c, t)
           b == event("fact", c, t)
<1>1. /\ a \in Event /\ a.type = "command" /\ a.v = c /\ a.tick = t
      /\ b \in Event /\ b.type = "fact" /\ b.v = c /\ b.tick = t
  BY DEF event, Event
<1>2. commandEvents(c, t) = IF c = "advance" THEN <<a>> ELSE <<a, b>>
  BY DEF commandEvents
<1> HIDE DEF a, b
<1>3. t \in Nat
  BY ReplayAssumption
<1>4. Succ(lastOf(s), a)
  BY <1>1 DEF Succ, Closed
<1>5. CASE c = "advance"
  <2>1. InStep(Append(s, a)) /\ lastOf(Append(s, a)) = a
    BY <1>1, <1>4, ChainOne
  <2>2. s \o <<a>> = Append(s, a)
    BY <1>1, AppendAsConcat
  <2> QED BY <1>1, <1>2, <1>5, <2>1, <2>2 DEF Closed, Opens, Due
<1>6. CASE c # "advance"
  <2> DEFINE w == <<a, b>>
  <2>1. w \in Seq(Event) /\ Len(w) = 2 /\ w[1] = a /\ w[2] = b
    BY <1>1
  <2>2. Succ(a, b)
    BY <1>1, <1>6 DEF Succ, Opens, Due
  <2> HIDE DEF w
  <2>3. InStep(w) /\ lastOf(w) = b
    BY <2>1, <2>2 DEF InStep, lastOf
  <2>4. Len(w) >= 1 /\ Succ(lastOf(s), w[1])
    BY <1>4, <2>1
  <2>5. InStep(s \o w) /\ lastOf(s \o w) = b
    BY <2>1, <2>3, <2>4, Chain
  <2>6. commandEvents(c, t) = w
    BY <1>2, <1>6 DEF w
  <2> QED BY <1>1, <2>5, <2>6 DEF Closed, Opens, Due
<1> QED BY <1>5, <1>6

(* A clean source stays in step: each of its actions journals what may come
   next, and what it leaves owing the row remembers. *)
LEMMA CleanOne ==
  ASSUME NEW s \in Seq(Event), NEW x \in Event, Len(s) >= 1, InStep(s), src' \in SourceRow,
         src'.log = Append(s, x), Succ(lastOf(s), x), End(x, src')
  PROVE  Clean'
<1>1. InStep(src'.log) /\ lastOf(src'.log) = x
  BY ChainOne
<1> QED BY <1>1 DEF Clean

LEMMA CleanStep ==
  ASSUME SourceInv, Clean, SourceNext
  PROVE  Clean'
<1> USE ReplayAssumption
<1>0. /\ src \in SourceRow /\ src.log \in Seq(Event) /\ src.tick \in Nat /\ src.tick \in 0..EndTick
      /\ Calling /\ src.drift = FALSE
      /\ Len(src.log) \in Nat /\ Len(src.log) >= 1 /\ Len(src.log) \in 1..Len(src.log)
      /\ lastOf(src.log) \in Event
  <2>0. src \in SourceRow /\ Calling /\ Len(src.log) >= Len(Genesis)
    BY DEF SourceInv
  <2>a. src.log \in Seq(Event) /\ src.tick \in 0..EndTick /\ src.drift = FALSE
    BY <2>0 DEF SourceRow
  <2>1. src.log \in Seq(Event) /\ src.tick \in 0..EndTick /\ src.tick \in Nat /\ src.drift = FALSE
    BY <2>a
  <2>2. Len(Genesis) = 2
    BY DEF Genesis, commandEvents
  <2>3. Len(src.log) \in Nat /\ Len(src.log) >= 1 /\ Len(src.log) \in 1..Len(src.log)
    BY <2>0, <2>1, <2>2
  <2> QED BY <2>0, <2>1, <2>3 DEF lastOf
<1>r. src' \in SourceRow
  BY SourceStep DEF SourceEffect
<1>c. src'.clean => src.clean
  <2>1. ASSUME NEW c \in Command \ {"create", "foreign"}, request(c)
        PROVE  src'.clean => src.clean
    BY <1>0, <2>1 DEF request, SourceRow, Command
  <2> QED
    BY <1>0, <2>1 DEF SourceNext, sourceCall, sourceCharge, sourceCommit, sourceSnapshot,
                      sourceComplete, sourceCrash, sourceFail, SourceRow
<1> SUFFICES ASSUME src'.clean PROVE Clean'
  BY DEF Clean
<1>1. /\ InStep(src.log) /\ lastOf(src.log).tick = src.tick /\ ~Opens(lastOf(src.log))
      /\ lastOf(src.log).type = "usage" <=> src.call = "charged"
      /\ Due(lastOf(src.log)) <=> snapshotMissing(src)
      /\ Due(lastOf(src.log)) => src.lock
  BY <1>c DEF Clean, End
<1>2. src.call = "none" /\ ~snapshotMissing(src) => Closed(lastOf(src.log))
  BY <1>1 DEF Closed
<1>3. ~src.lock => src.call = "none" /\ ~snapshotMissing(src)
  BY <1>0, <1>1 DEF Calling
<1>h. ASSUME NEW new \in Seq(Event), src'.log = src.log \o new, src'.tick = src.tick
      PROVE  snapshotMissing(src)' => snapshotMissing(src)
  <2>1. Extends(src'.log, src.log)
    BY <1>0, <1>h, ExtendsConcat
  <2>2. hasSnapshot(src.log, src.tick) => hasSnapshot(src'.log, src'.tick)
    BY <1>0, <1>h, <2>1 DEF hasSnapshot, Extends
  <2>3. snapshotDue(src'.tick) <=> snapshotDue(src.tick)
    BY <1>h
  <2> QED BY <2>2, <2>3 DEF snapshotMissing
<1>a. ASSUME NEW x \in Event, src'.log = Append(src.log, x), src'.tick = src.tick
      PROVE  snapshotMissing(src)' => snapshotMissing(src)
  <2>1. Append(src.log, x) = src.log \o <<x>> /\ <<x>> \in Seq(Event)
    BY <1>0, AppendAsConcat
  <2> QED BY <1>a, <1>h, <2>1
<1>4. ASSUME NEW c \in Command \ {"create", "foreign"}, request(c)
      PROVE  Clean'
  <2> DEFINE new == commandEvents(c, src.tick)
  <2>1. ~src.lock /\ src'.log = src.log \o new /\ src'.tick = src.tick /\ src'.call = src.call
    BY <1>0, <1>4 DEF request, SourceRow, Command
  <2>2. Closed(lastOf(src.log))
    BY <1>2, <1>3, <2>1
  <2>3. new \in Seq(Event)
    BY <1>0, CommandEvents
  <2>4. /\ InStep(src.log \o new) /\ Closed(lastOf(src.log \o new))
        /\ lastOf(src.log \o new).tick = src.tick
    BY <1>0, <1>1, <2>2, ChainCommand
  <2> HIDE DEF new
  <2>5. ~snapshotMissing(src)'
    BY <1>3, <1>h, <2>1, <2>3
  <2>6. End(lastOf(src.log), src)'
    BY <1>3, <2>1, <2>4, <2>5 DEF End, Closed
  <2> QED BY <2>1, <2>4, <2>6 DEF Clean
<1>5. ASSUME sourceCall
      PROVE  Clean'
  <2>1. /\ src'.log = src.log /\ src'.tick = src.tick /\ src'.call # "charged" /\ src.call = "none"
        /\ ~snapshotMissing(src)
    BY <1>0, <1>5 DEF sourceCall, SourceRow
  <2>2. ~snapshotMissing(src)'
    BY <2>1 DEF snapshotMissing
  <2> QED BY <1>1, <2>1, <2>2 DEF Clean, End
<1>6. ASSUME sourceCharge
      PROVE  Clean'
  <2> DEFINE x == event("usage", "none", src.tick)
  <2>1. x \in Event /\ x.tick = src.tick /\ x.type = "usage" /\ x.v = "none"
    BY <1>0, EventTypes
  <2> HIDE DEF x
  <2>2. /\ src'.log = Append(src.log, x) /\ src'.tick = src.tick /\ src'.call = "charged"
        /\ src.call = "answered"
    BY <1>0, <1>6 DEF sourceCharge, SourceRow, x
  <2>3. ~snapshotMissing(src) /\ Closed(lastOf(src.log))
    BY <1>0, <1>1, <2>2 DEF Calling, Closed
  <2>4. Succ(lastOf(src.log), x)
    BY <1>1, <2>1, <2>3 DEF Succ, Closed
  <2>5. ~snapshotMissing(src)'
    BY <1>a, <2>1, <2>2, <2>3
  <2>6. End(x, src')
    BY <2>1, <2>2, <2>5 DEF End, Opens, Due
  <2> QED BY <1>0, <1>1, <1>r, <2>1, <2>2, <2>4, <2>6, CleanOne
<1>7. ASSUME sourceCommit
      PROVE  Clean'
  <2> DEFINE x == event("tick", src.call, src.tick + 1)
             n == src.tick + 1
  <2>1. n \in 1..EndTick /\ ~snapshotMissing(src)
    BY <1>0, <1>7 DEF sourceCommit, sourceTicks
  <2>2. /\ n \in CallTicks => src.call \in {"charged", "cached"}
        /\ n \notin CallTicks => src.call = "none"
    BY <1>0, <1>7 DEF sourceCommit, Calling
  <2>3. x \in Event /\ x.tick = n /\ x.type = "tick" /\ x.v = src.call
    BY <2>1, <2>2, EventTypes DEF Answer
  <2> HIDE DEF x
  <2>4. /\ src'.log = Append(src.log, x) /\ src'.tick = n /\ src'.call = "none"
        /\ src'.lock = snapshotDue(n)
    BY <1>0, <1>7 DEF sourceCommit, SourceRow, x
  <2>5. ~Due(lastOf(src.log)) /\ ~Opens(lastOf(src.log))
    BY <1>1, <2>1
  <2>6. Succ(lastOf(src.log), x)
    BY <1>1, <2>2, <2>3, <2>5 DEF Succ
  <2>7. \A i \in 1..Len(src'.log) : src'.log[i].type = "snapshot" => src'.log[i].tick # n
    <3> SUFFICES ASSUME NEW i \in 1..Len(src'.log), src'.log[i].type = "snapshot"
                 PROVE  src'.log[i].tick # n
      OBVIOUS
    <3>1. Len(src'.log) = Len(src.log) + 1 /\ src'.log[Len(src.log) + 1] = x
      BY <1>0, <2>3, <2>4
    <3>2. i \in 1..Len(src.log)
      BY <1>0, <2>3, <3>1
    <3>3. src'.log[i] = src.log[i]
      BY <1>0, <2>3, <2>4, <3>2
    <3>4. src.log[i].tick <= src.tick /\ src.log[i] \in Event
      BY <1>0, <3>2 DEF SourceInv
    <3>5. src.log[i].tick \in Nat
      BY <3>4, EventTypes
    <3> QED BY <1>0, <3>3, <3>4, <3>5
  <2>8. snapshotMissing(src)' <=> snapshotDue(n)
    BY <2>4, <2>7 DEF snapshotMissing, hasSnapshot
  <2>9. End(x, src')
    BY <2>3, <2>4, <2>8 DEF End, Opens, Due
  <2> QED BY <1>0, <1>1, <1>r, <2>3, <2>4, <2>6, <2>9, CleanOne
<1>8. ASSUME sourceSnapshot
      PROVE  Clean'
  <2> DEFINE x == snapshotEvent(src)
  <2>1. src.tick \in 1..EndTick /\ snapshotMissing(src)
    BY <1>0, <1>8 DEF sourceSnapshot, snapshotMissing, snapshotDue
  <2>2. x \in Event /\ x.tick = src.tick /\ x.type = "snapshot" /\ x.v = "same"
    BY <1>0, <2>1, EventTypes DEF snapshotEvent
  <2> HIDE DEF x
  <2>3. /\ src'.log = Append(src.log, x) /\ src'.tick = src.tick /\ src'.call = src.call
    BY <1>0, <1>8 DEF sourceSnapshot, SourceRow, x
  <2>4. src.call = "none" /\ Due(lastOf(src.log)) /\ ~Opens(lastOf(src.log))
    BY <1>0, <1>1, <2>1 DEF Calling
  <2>5. Succ(lastOf(src.log), x)
    BY <1>1, <2>2, <2>4 DEF Succ, Due
  <2>6. Len(src'.log) \in 1..Len(src'.log) /\ src'.log[Len(src'.log)] = x
    BY <1>0, <2>2, <2>3
  <2>7. ~snapshotMissing(src)'
    BY <2>2, <2>3, <2>6 DEF snapshotMissing, hasSnapshot
  <2>8. End(x, src')
    BY <2>2, <2>3, <2>4, <2>7 DEF End, Opens, Due
  <2> QED BY <1>0, <1>1, <1>r, <2>2, <2>3, <2>5, <2>8, CleanOne
<1>9. ASSUME sourceComplete
      PROVE  Clean'
  <2> DEFINE x == event("completed", "none", src.tick)
  <2>1. x \in Event /\ x.tick = src.tick /\ x.type = "completed" /\ x.v = "none"
    BY <1>0, EventTypes
  <2> HIDE DEF x
  <2>2. /\ src'.log = Append(src.log, x) /\ src'.tick = src.tick /\ src'.call = src.call
        /\ ~src.lock /\ src.tick = EndTick
    BY <1>0, <1>9 DEF sourceComplete, SourceRow, x
  <2>3. Closed(lastOf(src.log))
    BY <1>2, <1>3, <2>2
  <2>4. Succ(lastOf(src.log), x)
    BY <1>1, <2>1, <2>2, <2>3 DEF Succ, Closed
  <2>5. ~snapshotMissing(src)'
    BY <1>3, <1>a, <2>1, <2>2
  <2>6. End(x, src')
    BY <1>3, <2>1, <2>2, <2>5 DEF End, Opens, Due
  <2> QED BY <1>0, <1>1, <1>r, <2>1, <2>2, <2>4, <2>6, CleanOne
<1>10. ASSUME sourceCrash
       PROVE  Clean'
  <2>1. /\ src'.log = src.log /\ src'.tick = src.tick /\ src'.call = "none"
        /\ src.call # "charged" /\ ~snapshotMissing(src)
    <3>1. /\ src'.log = src.log /\ src'.tick = src.tick /\ src'.call = "none"
          /\ src'.clean = (src.clean /\ src.call # "charged" /\ ~snapshotMissing(src))
      BY <1>0, <1>10 DEF sourceCrash, SourceRow
    <3> QED BY <3>1
  <2>2. ~snapshotMissing(src)'
    BY <2>1 DEF snapshotMissing
  <2> QED BY <1>1, <2>1, <2>2 DEF Clean, End
<1>11. ~sourceFail
  BY <1>0 DEF sourceFail, SourceRow
<1> QED BY <1>4, <1>5, <1>6, <1>7, <1>8, <1>9, <1>10, <1>11 DEF SourceNext

-----------------------------------------------------------------------------
(* Ticks and snapshots in a clean journal *)

LEMMA SourceEvents ==
  ASSUME SourceInv
  PROVE  /\ src \in SourceRow /\ src.log \in Seq(Event) /\ Len(src.log) \in Nat /\ Len(src.log) >= 2
         /\ src.tick \in Nat /\ src.tick \in 0..EndTick /\ src.drift = FALSE
         /\ src.log[1].type = "command"
         /\ \A i \in 1..Len(src.log) :
              /\ src.log[i] \in Event /\ src.log[i].tick \in Nat
              /\ src.log[i].tick \in 0..EndTick /\ src.log[i].tick <= src.tick
         /\ \A i, j \in 1..Len(src.log) : i <= j => src.log[i].tick <= src.log[j].tick
<1> USE ReplayAssumption
<1>0. /\ src \in SourceRow /\ Len(src.log) >= Len(Genesis)
      /\ \A i \in 1..Len(Genesis) : src.log[i] = Genesis[i]
      /\ \A i \in 1..Len(src.log) : src.log[i].tick <= src.tick
      /\ \A i, j \in 1..Len(src.log) : i <= j => src.log[i].tick <= src.log[j].tick
  BY DEF SourceInv
<1>1. src.log \in Seq(Event) /\ src.tick \in 0..EndTick /\ src.drift = FALSE
  BY <1>0 DEF SourceRow
<1>2. Len(Genesis) = 2 /\ Genesis[1].type = "command"
  BY DEF Genesis, commandEvents, event
<1>3. src.log[1].type = "command"
  BY <1>0, <1>2
<1>4. \A i \in 1..Len(src.log) : src.log[i] \in Event
  BY <1>1
<1>5. \A i \in 1..Len(src.log) : src.log[i].tick \in 0..EndTick
  BY <1>4, EventTypes
<1>6. \A i \in 1..Len(src.log) : src.log[i].tick \in Nat
  BY <1>5
<1>7. src.tick \in Nat /\ Len(src.log) \in Nat /\ Len(src.log) >= 2
  BY <1>0, <1>1, <1>2
<1> QED BY <1>0, <1>1, <1>3, <1>4, <1>5, <1>6, <1>7

LEMMA TickIsFresh ==
  ASSUME SourceInv, InStep(src.log),
         NEW p \in 1..Len(src.log), NEW q \in 1..Len(src.log), p < q, src.log[q].type = "tick"
  PROVE  src.log[p].tick < src.log[q].tick
<1> DEFINE r == q - 1
<1>1. r \in 1..Len(src.log) - 1 /\ r \in 1..Len(src.log) /\ r + 1 = q /\ p <= r
  BY SourceEvents
<1> HIDE DEF r
<1>2. src.log[p].tick <= src.log[r].tick /\ src.log[p].tick \in Nat /\ src.log[r].tick \in Nat
  BY <1>1, SourceEvents
<1>3. Succ(src.log[r], src.log[q])
  BY <1>1 DEF InStep
<1>4. src.log[q].tick = src.log[r].tick + 1
  BY <1>3 DEF Succ
<1> QED BY <1>2, <1>4

LEMMA SnapshotFollows ==
  ASSUME SourceInv, InStep(src.log), NEW i \in 1..Len(src.log), src.log[i].type = "snapshot"
  PROVE  /\ i - 1 \in 1..Len(src.log) /\ src.log[i - 1].type = "tick"
         /\ src.log[i - 1].tick = src.log[i].tick /\ snapshotDue(src.log[i].tick)
<1> DEFINE r == i - 1
<1>1. i # 1
  BY SourceEvents
<1>2. r \in 1..Len(src.log) - 1 /\ r \in 1..Len(src.log) /\ r + 1 = i
  BY <1>1, SourceEvents
<1> HIDE DEF r
<1>3. Succ(src.log[r], src.log[i])
  BY <1>2 DEF InStep
<1>4. src.log[r].type = "tick" /\ snapshotDue(src.log[r].tick) /\ src.log[i].tick = src.log[r].tick
  BY <1>3 DEF Succ, Due
<1>5. r \in 1..Len(src.log) /\ src.log[r].type = "tick" /\ src.log[r].tick = src.log[i].tick
      /\ snapshotDue(src.log[i].tick)
  BY <1>2, <1>4
<1> QED BY <1>5 DEF r

LEMMA OneSnapshot ==
  ASSUME SourceInv, InStep(src.log),
         NEW i \in 1..Len(src.log), src.log[i].type = "snapshot",
         NEW j \in 1..Len(src.log), src.log[j].type = "snapshot",
         src.log[i].tick = src.log[j].tick
  PROVE  i = j
<1>0. i \in Int /\ j \in Int
  OBVIOUS
<1>1. /\ i - 1 \in 1..Len(src.log) /\ src.log[i - 1].type = "tick"
      /\ src.log[i - 1].tick = src.log[i].tick
  BY SnapshotFollows
<1>2. /\ j - 1 \in 1..Len(src.log) /\ src.log[j - 1].type = "tick"
      /\ src.log[j - 1].tick = src.log[j].tick
  BY SnapshotFollows
<1>3. src.log[i - 1].tick \in Nat /\ src.log[j - 1].tick \in Nat
  BY <1>1, <1>2, SourceEvents
<1>4. ~(i - 1 < j - 1)
  <2> SUFFICES ASSUME i - 1 < j - 1 PROVE FALSE
    OBVIOUS
  <2>1. src.log[i - 1].tick < src.log[j - 1].tick
    BY <1>1, <1>2, TickIsFresh
  <2> QED BY <1>1, <1>2, <1>3, <2>1
<1>5. ~(j - 1 < i - 1)
  <2> SUFFICES ASSUME j - 1 < i - 1 PROVE FALSE
    OBVIOUS
  <2>1. src.log[j - 1].tick < src.log[i - 1].tick
    BY <1>1, <1>2, TickIsFresh
  <2> QED BY <1>1, <1>2, <1>3, <2>1
<1> QED BY <1>0, <1>4, <1>5

(* What the journal of the target says when it is the beginning of a clean
   source's. *)
Begins ==
  /\ Len(tgt.log) >= 1 /\ Extends(src.log, tgt.log)
  /\ lastOf(tgt.log).tick = tgt.tick

LEMMA BeginsFacts ==
  ASSUME SourceInv, TypeInv, Begins
  PROVE  /\ tgt.log \in Seq(Event) /\ Len(tgt.log) \in Nat /\ Len(tgt.log) \in 1..Len(src.log)
         /\ Len(tgt.log) \in 1..Len(tgt.log) /\ tgt.tick \in Nat /\ tgt.tick \in 0..EndTick
         /\ lastOf(tgt.log) = src.log[Len(tgt.log)] /\ lastOf(tgt.log) \in Event
         /\ \A i \in 1..Len(tgt.log) : i \in 1..Len(src.log) /\ tgt.log[i] = src.log[i]
<1>1. tgt.log \in Seq(Event) /\ tgt.tick \in 0..EndTick
  BY DEF TypeInv, RunRow
<1>2. Len(tgt.log) \in Nat /\ Len(tgt.log) >= 1 /\ tgt.tick \in Nat
  BY <1>1, ReplayAssumption DEF Begins
<1>3. Len(tgt.log) <= Len(src.log) /\ Len(src.log) \in Nat
      /\ \A i \in 1..Len(tgt.log) : src.log[i] = tgt.log[i]
  BY SourceEvents DEF Begins, Extends
<1>4. Len(tgt.log) \in 1..Len(tgt.log) /\ Len(tgt.log) \in 1..Len(src.log)
  BY <1>2, <1>3
<1>5. lastOf(tgt.log) = src.log[Len(tgt.log)] /\ lastOf(tgt.log) \in Event
  BY <1>1, <1>3, <1>4 DEF lastOf
<1>6. \A i \in 1..Len(tgt.log) : i \in 1..Len(src.log) /\ tgt.log[i] = src.log[i]
  BY <1>2, <1>3
<1> QED BY <1>1, <1>2, <1>4, <1>5, <1>6

LEMMA SnapshotOwed ==
  ASSUME SourceInv, TypeInv, TargetInv, InStep(src.log), Begins
  PROVE  snapshotMissing(tgt) <=> Due(lastOf(tgt.log))
<1> DEFINE n == Len(tgt.log)
           t == tgt.tick
<1>0. /\ n \in 1..Len(src.log) /\ n \in 1..Len(tgt.log) /\ n \in Nat /\ t \in Nat
      /\ lastOf(tgt.log) = src.log[n] /\ src.log[n].tick = t
      /\ \A i \in 1..n : i \in 1..Len(src.log) /\ tgt.log[i] = src.log[i]
  BY BeginsFacts DEF Begins
<1> HIDE DEF n
<1>1. ASSUME Due(lastOf(tgt.log))
      PROVE  snapshotMissing(tgt)
  <2>1. src.log[n].type = "tick" /\ snapshotDue(t)
    BY <1>0, <1>1 DEF Due
  <2>2. ASSUME NEW i \in 1..Len(tgt.log), tgt.log[i].type = "snapshot", tgt.log[i].tick = t
        PROVE  FALSE
    <3>1. i \in 1..Len(src.log) /\ src.log[i].type = "snapshot" /\ src.log[i].tick = t
      BY <1>0, <2>2 DEF n
    <3>2. i # n /\ i <= n /\ i \in Int
      BY <1>0, <2>1, <2>2, <3>1 DEF n
    <3>3. i < n
      BY <1>0, <3>2
    <3>4. src.log[i].tick < src.log[n].tick
      BY <1>0, <2>1, <3>1, <3>3, TickIsFresh
    <3> QED BY <1>0, <3>1, <3>4
  <2> QED BY <2>1, <2>2 DEF snapshotMissing, hasSnapshot
<1>2. ASSUME snapshotMissing(tgt)
      PROVE  Due(lastOf(tgt.log))
  <2>1. snapshotDue(t) /\ t > 0
    BY <1>0, <1>2 DEF snapshotMissing, snapshotDue
  <2>2. PICK i \in 1..n : tgt.log[i].type = "tick" /\ tgt.log[i].tick = t
    BY <2>1 DEF TargetInv, n
  <2>3. i \in 1..Len(src.log) /\ src.log[i].type = "tick" /\ src.log[i].tick = t
    BY <1>0, <2>2
  <2>4. CASE i = n
    BY <1>0, <2>1, <2>3, <2>4 DEF Due
  <2>5. CASE i # n
    <3>1. i + 1 \in 1..n /\ i \in 1..Len(src.log) - 1
      BY <1>0, <2>5, SourceEvents
    <3>2. Succ(src.log[i], src.log[i + 1])
      BY <3>1 DEF InStep
    <3>3. Due(src.log[i])
      BY <2>1, <2>3 DEF Due
    <3>4. src.log[i + 1].type = "snapshot" /\ src.log[i + 1].tick = t
      BY <2>3, <3>2, <3>3 DEF Succ
    <3>5. tgt.log[i + 1].type = "snapshot" /\ tgt.log[i + 1].tick = t
      BY <1>0, <3>1, <3>4
    <3> QED BY <1>2, <3>1, <3>5 DEF snapshotMissing, hasSnapshot, n
  <2> QED BY <2>4, <2>5
<1> QED BY <1>1, <1>2

-----------------------------------------------------------------------------
(* An undisturbed replay was undisturbed before, and its source stands still. *)

OnCourse == rep.status # "none" /\ Undisturbed /\ ~harmed

(* The commands the replay was created with are still in the source. *)
JournalKept == rep.status # "none" => rep.journal \subseteq commands(src.log)

(* The target's journal only grows, and drift and harm are never undone. *)
TargetGrows ==
  /\ Extends(tgt'.log, tgt.log) /\ (tgt.drift => tgt'.drift) /\ (harmed => harmed')

LEMMA AppliedGrows ==
  ASSUME Running, UNCHANGED harmed, NEW new \in Seq(Event), NEW s \in S!RunStatus,
         applied([tgt EXCEPT !.status = s, !.log = @ \o new])
  PROVE  /\ TargetGrows /\ UNCHANGED rep
         /\ tgt' \in RunRow /\ tgt'.log = tgt.log \o new /\ tgt'.tick = tgt.tick /\ tgt'.status = s
         /\ job'.pc = "compare" /\ job'.source = job.source
<1>0. tgt \in RunRow /\ job \in Job /\ tgt.log \in Seq(Event) /\ Len(tgt.log) \in Nat
  BY TargetFields
<1>1. tgt.log \o new \in Seq(Event) /\ Extends(tgt.log \o new, tgt.log)
  BY <1>0, EventConcat
<1>2. /\ tgt' = [tgt EXCEPT !.status = s, !.log = @ \o new] /\ UNCHANGED rep
      /\ job' = [job EXCEPT !.pc = "compare", !.from = Len(tgt.log), !.final = finalBoundary]
  BY DEF applied
<1>3. tgt' \in RunRow /\ tgt'.log = tgt.log \o new /\ tgt'.tick = tgt.tick /\ tgt'.drift = tgt.drift
      /\ tgt'.status = s
  BY <1>0, <1>1, <1>2 DEF RunRow
<1>4. job'.pc = "compare" /\ job'.source = job.source
  BY <1>0, <1>2 DEF Job
<1> QED BY <1>1, <1>2, <1>3, <1>4 DEF TargetGrows

LEMMA WorkerGrows ==
  ASSUME Running, WorkerNext
  PROVE  TargetGrows
<1>0. /\ tgt \in RunRow /\ tgt.log \in Seq(Event) /\ Len(tgt.log) \in Nat
      /\ tgt.tick \in 0..EndTick /\ tgt.drift \in BOOLEAN
  BY TargetFields
<1>u. ASSUME UNCHANGED tgt, harmed => harmed'
      PROVE  TargetGrows
  BY <1>0, <1>u DEF TargetGrows, Extends
<1>1. CASE fail
  BY <1>1, <1>u DEF fail
<1>2. CASE \/ (beginReplay \/ updateProgress) /\ ~fail
           \/ compareReplayRange \/ haltStrict \/ compareState \/ finish
  BY <1>2, <1>u DEF beginReplay, compareReplayRange, updateProgress, haltStrict, compareState,
                    finish, replayQuiet
<1>3. CASE applyReplayCommand /\ ~fail
  <2>1. PICK e \in expected : \E s \in S!RunStatus :
          /\ e.type = "command" /\ e.v \in Command
          /\ commandEvents(e.v, tgt.tick) \in Seq(Event)
          /\ applied([tgt EXCEPT !.status = s, !.log = @ \o commandEvents(e.v, tgt.tick)])
    BY <1>3, CommandWrites
  <2>2. UNCHANGED harmed
    BY <2>1 DEF applied, replayQuiet
  <2> QED BY <2>1, <2>2, AppliedGrows
<1>4. CASE applyCompletion /\ ~fail
  <2> DEFINE w == <<event("completed", "none", tgt.tick)>>
  <2>1. /\ w \in Seq(Event) /\ "completed" \in S!RunStatus
        /\ applied([tgt EXCEPT !.status = "completed", !.log = @ \o w])
    BY <1>4, CompletionWrites
  <2> HIDE DEF w
  <2>2. UNCHANGED harmed
    BY <2>1 DEF applied, replayQuiet
  <2> QED BY <2>1, <2>2, AppliedGrows
<1>5. ASSUME tgt' = snapshot(tgt), UNCHANGED harmed
      PROVE  TargetGrows
  <2>1. Extends(tgt'.log, tgt.log)
    BY <1>5, SnapshotWrites
  <2>2. tgt'.drift = tgt.drift
    BY <1>0, <1>5 DEF snapshot, RunRow
  <2> QED BY <1>5, <2>1, <2>2 DEF TargetGrows
<1>6. CASE leaveBoundary \/ sealTick
  BY <1>6, <1>5, <1>u DEF leaveBoundary, sealTick, replayQuiet
<1>7. CASE \E a \in Answer : prepare(a)
  <2> DEFINE x == event("usage", "none", tgt.tick)
  <2>1. x \in Event
    BY <1>0, EventTypes
  <2>2. UNCHANGED harmed /\ (UNCHANGED tgt \/ tgt' = [tgt EXCEPT !.log = Append(@, x)])
    BY <1>7 DEF prepare, replayQuiet
  <2> HIDE DEF x
  <2>3. CASE tgt' = [tgt EXCEPT !.log = Append(@, x)]
    <3>1. Append(tgt.log, x) = tgt.log \o <<x>> /\ <<x>> \in Seq(Event)
      BY <1>0, <2>1, AppendAsConcat
    <3>2. Extends(Append(tgt.log, x), tgt.log)
      BY <1>0, <3>1, EventConcat
    <3>3. tgt'.log = Append(tgt.log, x) /\ tgt'.drift = tgt.drift
      BY <1>0, <2>3 DEF RunRow
    <3> QED BY <2>2, <3>2, <3>3 DEF TargetGrows
  <2> QED BY <1>u, <2>2, <2>3
<1>8. CASE \E o \in Outcomes : executeTick(o) /\ ~fail
  <2>1. PICK o \in Outcomes : executeTick(o) /\ ~fail
    BY <1>8
  <2> DEFINE n == tgt.tick + 1
             d == tgt.drift \/ o # "same"
             new == outcomeEvents(o, job.pc)
             x == event("tick", job.pc, tgt.tick + 1)
             w == event("work", "none", tgt.tick)
  <2>2. /\ tgt' = [tgt EXCEPT !.tick = n, !.drift = d, !.log = @ \o new]
        /\ UNCHANGED harmed /\ job.pc \in Answer /\ tgt.tick < EndTick
    BY <2>1 DEF executeTick, replayQuiet
  <2>3. n \in 1..EndTick
    BY <1>0, <2>2, ReplayAssumption
  <2>4. x \in Event /\ w \in Event
    BY <1>0, <2>2, <2>3, EventTypes
  <2>5. new = <<w>> \o <<x>> \/ new = <<>> \o <<x>>
    BY DEF outcomeEvents
  <2> HIDE DEF n, d, new, x, w
  <2>6. new \in Seq(Event)
    <3>1. <<w>> \o <<x>> \in Seq(Event) /\ <<>> \o <<x>> \in Seq(Event)
      BY <2>4
    <3> QED BY <2>5, <3>1
  <2>7. Extends(tgt.log \o new, tgt.log)
    BY <1>0, <2>6, EventConcat
  <2>8. tgt'.log = tgt.log \o new /\ tgt'.drift = d
    BY <1>0, <2>2 DEF RunRow
  <2> QED BY <2>2, <2>7, <2>8 DEF TargetGrows, d
<1>9. CASE executionFails
  BY <1>1, <1>9 DEF executionFails
<1> QED BY <1>1, <1>2, <1>3, <1>4, <1>6, <1>7, <1>8, <1>9 DEF WorkerNext

(* Under a replay a request can only be one to the provider switch, and that
   joins the journal. *)
LEMMA RequestAddsCommand ==
  ASSUME IInv, rep.status # "none", SourceNext
  PROVE  \E e : <<Len(src.log) + 1, e>> \in commands(src'.log)
<1>0. SourceInv /\ Settled
  BY DEF IInv, SourceInv
<1>1. src \in SourceRow /\ src.log \in Seq(Event) /\ Len(src.log) \in Nat /\ src.tick \in 0..EndTick
  BY <1>0, SourceEvents
<1>2. src.status \in {"completed", "failed", "stopped"} /\ ~src.lock /\ src.call = "none"
  BY <1>0 DEF Settled, sourceTerminal, S!isTerminalRunStatus
<1>3. ~sourceTicks
  BY <1>2 DEF sourceTicks
<1>4. PICK c \in Command \ {"create", "foreign"} : request(c)
  BY <1>2, <1>3 DEF SourceNext, sourceCall, sourceCharge, sourceCommit, sourceSnapshot,
                    sourceComplete, sourceCrash, sourceFail
<1>5. src'.log = src.log \o commandEvents(c, src.tick)
  BY <1>1, <1>4 DEF request, SourceRow, Command
<1> DEFINE a == event("command", c, src.tick)
           b == event("fact", c, src.tick)
           m == Len(src.log) + 1
<1>6. a \in Event /\ b \in Event /\ a.type = "command"
  BY <1>1 DEF event, Event
<1>7. src'.log = src.log \o <<a>> \/ src'.log = src.log \o <<a, b>>
  BY <1>5 DEF commandEvents
<1> HIDE DEF a, b
<1>8. m \in 1..Len(src'.log) /\ src'.log[m] = a
  <2>1. CASE src'.log = src.log \o <<a>>
    BY <1>1, <1>6, <2>1
  <2>2. CASE src'.log = src.log \o <<a, b>>
    BY <1>1, <1>6, <2>2
  <2> QED BY <1>7, <2>1, <2>2
<1> HIDE DEF m
<1>9. <<m, a>> \in commands(src'.log)
  BY <1>6, <1>8 DEF commands
<1> QED BY <1>9 DEF m

LEMMA CommandsKept ==
  ASSUME NEW s \in Seq(Event), NEW t \in Seq(Event), Extends(t, s)
  PROVE  commands(s) \subseteq commands(t)
<1>1. Len(s) \in Nat /\ Len(t) \in Nat
  OBVIOUS
<1>2. ASSUME NEW i \in 1..Len(s), s[i].type = "command"
      PROVE  <<i, s[i]>> \in commands(t)
  <2>1. i \in 1..Len(t) /\ t[i] = s[i]
    BY <1>1 DEF Extends
  <2> QED BY <1>2, <2>1 DEF commands
<1> QED BY <1>2 DEF commands

LEMMA JournalKeptStep ==
  ASSUME IInv, JournalKept, [Next]_vars
  PROVE  JournalKept'
<1>0. SourceInv /\ ReplayInv /\ src.log \in Seq(Event) /\ rep \in ReplayRow
  BY SourceEvents DEF IInv, ReplayInv, TypeInv
<1>1. CASE SourceNext
  <2>1. UNCHANGED rep
    BY <1>1 DEF SourceNext, request, sourceCall, sourceCharge, sourceCommit, sourceSnapshot,
           sourceComplete, sourceCrash, sourceFail, replayUntouched
  <2>2. SourceInv' /\ SourceGrows
    BY <1>0, <1>1, <2>1, SourceInvStep
  <2>3. src'.log \in Seq(Event)
    BY <2>2 DEF SourceInv, SourceRow
  <2>4. commands(src.log) \subseteq commands(src'.log)
    BY <1>0, <2>2, <2>3, CommandsKept DEF SourceGrows
  <2> QED BY <2>1, <2>4 DEF JournalKept
<1>2. CASE \E mode \in {"strict", "observe"}, toTick \in 0..EndTick, cacheOk \in BOOLEAN :
             \E sameGenesis \in BOOLEAN : replaySimulation(mode, toTick, cacheOk, sameGenesis)
  <2>1. rep'.journal = commands(src.log) /\ src' = src
    BY <1>2 DEF replaySimulation, NoReplay
  <2> QED BY <2>1 DEF JournalKept
<1>3. CASE ~SourceNext /\ (WorkerNext \/ controlTarget \/ crash \/ UNCHANGED vars)
  <2>1. UNCHANGED src
    <3>1. CASE WorkerNext
      BY <1>0, <3>1, WorkerStep
    <3> QED BY <1>3, <3>1 DEF controlTarget, crash, vars
  <2>2. rep'.journal = rep.journal /\ (rep'.status # "none" => rep.status # "none")
    <3>1. CASE rep.status # "none"
      <4>1. UNCHANGED rep.journal
        BY <3>1, <1>3, AcceptedStep DEF vars, replay_runs_identity_immutable
      <4> QED BY <3>1, <4>1
    <3>2. CASE rep.status = "none"
      BY <1>3, <3>2 DEF WorkerNext, beginReplay, compareReplayRange, updateProgress, haltStrict,
          applyReplayCommand, applyCompletion, leaveBoundary, prepare, executeTick, sealTick,
          executionFails, compareState, finish, at, controlTarget, crash, vars
    <3> QED BY <3>1, <3>2
  <2> QED BY <2>1, <2>2 DEF JournalKept
<1> QED BY <1>1, <1>2, <1>3 DEF Next

LEMMA Stays ==
  ASSUME IInv, JournalKept, Next, rep.status # "none", OnCourse'
  PROVE  /\ OnCourse /\ src' = src
         /\ rep.status = "running" /\ (WorkerNext \/ crash)
<1> USE DEF OnCourse, Undisturbed
<1>0. /\ SourceInv /\ ReplayInv /\ src.log \in Seq(Event) /\ Len(src.log) \in Nat
      /\ rep \in ReplayRow /\ tgt \in RunRow /\ tgt.log \in Seq(Event) /\ tgt.drift \in BOOLEAN
      /\ tgt.tick \in 0..EndTick /\ Len(tgt.log) \in Nat
  BY SourceEvents DEF IInv, ReplayInv, TypeInv, RunRow
<1>1. ~SourceNext
  <2> SUFFICES ASSUME SourceNext PROVE FALSE
    OBVIOUS
  <2>1. UNCHANGED rep
    BY DEF SourceNext, request, sourceCall, sourceCharge, sourceCommit, sourceSnapshot,
           sourceComplete, sourceCrash, sourceFail, replayUntouched
  <2>2. PICK e : <<Len(src.log) + 1, e>> \in commands(src'.log)
    BY RequestAddsCommand
  <2>3. <<Len(src.log) + 1, e>> \in commands(src.log)
    BY <2>1, <2>2 DEF JournalKept
  <2> QED BY <1>0, <2>3 DEF commands
<1>2. rep'.journal = rep.journal /\ rep'.cacheOk = rep.cacheOk
  BY AcceptedStep DEF vars, replay_runs_identity_immutable
<1>3. CASE WorkerNext
  <2>1. rep.status = "running"
    BY <1>3 DEF WorkerNext, beginReplay, compareReplayRange, updateProgress, haltStrict,
          applyReplayCommand, applyCompletion, leaveBoundary, prepare, executeTick, sealTick,
          executionFails, compareState, finish, at
  <2>2. UNCHANGED src /\ faults' \in 0..MaxFaults
    BY <1>0, <1>3, WorkerStep DEF ReplayInv, TypeInv
  <2>3. TargetGrows
    BY <1>0, <1>3, <2>1, <2>2, WorkerGrows DEF Running, ReplayInv
  <2>4. ASSUME NEW i \in 1..Len(tgt.log), tgt.log[i].v = "foreign"
        PROVE  FALSE
    <3>1. Len(tgt'.log) \in Nat
      <4>1. ReplayInv'
        BY <1>0, <1>3, WorkerStep
      <4> QED BY <4>1 DEF ReplayInv, TypeInv, RunRow
    <3>2. i \in 1..Len(tgt'.log) /\ tgt'.log[i].v = "foreign"
      BY <1>0, <2>3, <2>4, <3>1 DEF TargetGrows, Extends
    <3> QED BY <3>2
  <2> QED BY <1>2, <1>3, <2>1, <2>2, <2>3, <2>4 DEF TargetGrows
<1>4. ~controlTarget
  <2> SUFFICES ASSUME controlTarget PROVE FALSE
    OBVIOUS
  <2>1. tgt'.log = tgt.log \o commandEvents("foreign", tgt.tick)
    BY <1>0 DEF controlTarget, RunRow
  <2> DEFINE a == event("command", "foreign", tgt.tick)
             b == event("fact", "foreign", tgt.tick)
             m == Len(tgt.log) + 1
  <2>2. a \in Event /\ b \in Event /\ a.v = "foreign"
    BY <1>0 DEF event, Event, Command
  <2>3. tgt'.log = tgt.log \o <<a, b>>
    BY <2>1 DEF commandEvents
  <2> HIDE DEF a, b
  <2>4. m \in 1..Len(tgt'.log) /\ tgt'.log[m] = a
    BY <1>0, <2>2, <2>3
  <2> QED BY <2>2, <2>4
<1>5. CASE crash
  BY <1>2, <1>5 DEF crash
<1>6. ~\E mode \in {"strict", "observe"}, toTick \in 0..EndTick, cacheOk \in BOOLEAN :
         \E sameGenesis \in BOOLEAN : replaySimulation(mode, toTick, cacheOk, sameGenesis)
  BY DEF replaySimulation
<1> QED BY <1>1, <1>3, <1>4, <1>5, <1>6 DEF Next

-----------------------------------------------------------------------------
(* What comes next in a clean journal *)

LEMMA EventIs ==
  \A e \in Event : e = event(e.type, e.v, e.tick)
BY DEF Event, event

LEMMA Fields ==
  \A type, v, t : /\ event(type, v, t).type = type /\ event(type, v, t).v = v
                  /\ event(type, v, t).tick = t
BY DEF event

(* What an event owes is the next event. *)
LEMMA OwedFollows ==
  ASSUME SourceInv, InStep(src.log), Closed(lastOf(src.log)),
         NEW i \in 1..Len(src.log), ~Closed(src.log[i])
  PROVE  /\ i + 1 \in 1..Len(src.log) /\ i + 1 <= Len(src.log)
         /\ Opens(src.log[i]) =>
              src.log[i + 1] = event("fact", src.log[i].v, src.log[i].tick)
         /\ src.log[i].type = "usage" =>
              src.log[i + 1] = event("tick", "charged", src.log[i].tick + 1)
         /\ Due(src.log[i]) => src.log[i + 1] = event("snapshot", "same", src.log[i].tick)
<1>1. i # Len(src.log)
  BY DEF lastOf
<1>2. i \in 1..Len(src.log) - 1 /\ i + 1 \in 1..Len(src.log) /\ i + 1 <= Len(src.log)
  BY <1>1, SourceEvents
<1> DEFINE f == src.log[i + 1]
<1>3. Succ(src.log[i], f)
  BY <1>2 DEF InStep
<1>4. f \in Event
  BY <1>2, SourceEvents
<1> HIDE DEF f
<1>5. f = event(f.type, f.v, f.tick)
  BY <1>4, EventIs
<1>6. Opens(src.log[i]) => f.type = "fact" /\ f.v = src.log[i].v /\ f.tick = src.log[i].tick
  BY <1>3 DEF Succ
<1>7. src.log[i].type = "usage" =>
        f.type = "tick" /\ f.v = "charged" /\ f.tick = src.log[i].tick + 1
  BY <1>3 DEF Succ
<1>8. Due(src.log[i]) => f.type = "snapshot" /\ f.v = "same" /\ f.tick = src.log[i].tick
  BY <1>3 DEF Succ
<1> QED BY <1>2, <1>5, <1>6, <1>7, <1>8 DEF f

(* The k-th event of the source after the target's last one is e. *)
NextIs(k, e) == Len(tgt.log) + k <= Len(src.log) /\ src.log[Len(tgt.log) + k] = e

LEMMA NextKinds ==
  ASSUME SourceInv, TypeInv, Begins, InStep(src.log), Closed(lastOf(src.log)),
         Closed(lastOf(tgt.log)), Len(tgt.log) < Len(src.log)
  PROVE  \/ \E c \in Command \ {"create", "foreign"} : NextIs(1, event("command", c, tgt.tick))
         \/ /\ NextIs(1, event("usage", "none", tgt.tick))
            /\ NextIs(2, event("tick", "charged", tgt.tick + 1))
         \/ \E a \in {"none", "cached"} : NextIs(1, event("tick", a, tgt.tick + 1))
         \/ NextIs(1, event("completed", "none", tgt.tick)) /\ tgt.tick = EndTick
<1> DEFINE n == Len(tgt.log)
           f == src.log[n + 1]
<1>1. /\ n \in Nat /\ n \in 1..Len(src.log) - 1 /\ n + 1 \in 1..Len(src.log) /\ n + 1 <= Len(src.log)
      /\ lastOf(tgt.log) = src.log[n] /\ lastOf(tgt.log).tick = tgt.tick
  BY BeginsFacts, SourceEvents DEF Begins
<1>2. f \in Event /\ Succ(lastOf(tgt.log), f)
  BY <1>1, SourceEvents DEF InStep
<1>3. NextIs(1, f)
  BY <1>1 DEF NextIs
<1>4. f = event(f.type, f.v, f.tick)
  BY <1>2, EventIs
<1>5. f.type = "usage" => NextIs(2, event("tick", "charged", f.tick + 1))
  <2> SUFFICES ASSUME f.type = "usage"
               PROVE  NextIs(2, event("tick", "charged", f.tick + 1))
    OBVIOUS
  <2>1. ~Closed(src.log[n + 1])
    BY DEF Closed
  <2>2. /\ (n + 1) + 1 <= Len(src.log)
        /\ src.log[(n + 1) + 1] = event("tick", "charged", src.log[n + 1].tick + 1)
    BY <1>1, <2>1, OwedFollows
  <2>3. (n + 1) + 1 = n + 2
    BY <1>1
  <2> QED BY <2>2, <2>3 DEF NextIs
<1> HIDE DEF f, n
<1>6. /\ f.tick = IF f.type = "tick" THEN tgt.tick + 1 ELSE tgt.tick
      /\ f.type \in {"command", "usage", "tick", "completed"}
      /\ f.type = "tick" => f.v \in {"none", "cached"}
      /\ f.type = "command" => f.v \in Command \ {"create", "foreign"}
      /\ f.type \in {"usage", "completed"} => f.v = "none"
      /\ f.type = "completed" => f.tick = EndTick
  <2>1. /\ f.type \notin {"error", "work", "fact", "snapshot"}
        /\ f.tick = IF f.type = "tick" THEN tgt.tick + 1 ELSE tgt.tick
        /\ f.type = "tick" => f.v \in {"none", "cached"}
        /\ f.type = "completed" => f.tick = EndTick
        /\ f.type = "command" => f.v \notin {"create", "foreign"}
    BY <1>1, <1>2 DEF Succ, Closed
  <2>2. /\ f.type \in {"command", "fact", "tick", "snapshot", "usage", "error", "work", "completed"}
        /\ f.type = "command" => f.v \in Command
        /\ f.type \in {"usage", "completed"} => f.v = "none"
    BY <1>2 DEF Event
  <2> QED BY <2>1, <2>2
<1> QED BY <1>3, <1>4, <1>5, <1>6

(* A prefix and the event that follows it are a prefix. *)
LEMMA ExtendsOne ==
  ASSUME NEW u \in Seq(Event), NEW s \in Seq(Event), NEW x \in Event,
         Extends(u, s), Len(s) + 1 <= Len(u), u[Len(s) + 1] = x
  PROVE  /\ Append(s, x) \in Seq(Event) /\ Len(Append(s, x)) = Len(s) + 1
         /\ Extends(u, Append(s, x)) /\ lastOf(Append(s, x)) = x
<1>1. Len(s) \in Nat /\ Len(u) \in Nat
  OBVIOUS
<1> DEFINE t == Append(s, x)
<1>2. /\ t \in Seq(Event) /\ Len(t) = Len(s) + 1 /\ t[Len(s) + 1] = x
      /\ \A i \in 1..Len(s) : t[i] = s[i]
  OBVIOUS
<1> HIDE DEF t
<1>3. ASSUME NEW i \in 1..Len(t) PROVE u[i] = t[i]
  <2>1. i \in 1..Len(s) \/ i = Len(s) + 1
    BY <1>1, <1>2
  <2>2. CASE i \in 1..Len(s)
    BY <1>2, <2>2 DEF Extends
  <2>3. CASE i = Len(s) + 1
    BY <1>2, <2>3
  <2> QED BY <2>1, <2>2, <2>3
<1>4. lastOf(t) = x
  BY <1>2 DEF lastOf
<1> QED BY <1>2, <1>3, <1>4 DEF t, Extends

LEMMA BeginsOne ==
  ASSUME SourceInv, TypeInv, Begins, UNCHANGED src, NEW x \in Event, NextIs(1, x),
         tgt'.log = Append(tgt.log, x), tgt'.tick = x.tick
  PROVE  Begins' /\ lastOf(tgt'.log) = x /\ Len(tgt'.log) = Len(tgt.log) + 1
<1>1. /\ src.log \in Seq(Event) /\ tgt.log \in Seq(Event) /\ Len(tgt.log) \in Nat
      /\ Extends(src.log, tgt.log)
  BY BeginsFacts, SourceEvents DEF Begins
<1>2. /\ Len(tgt'.log) = Len(tgt.log) + 1 /\ Extends(src.log, tgt'.log) /\ lastOf(tgt'.log) = x
  BY <1>1, ExtendsOne DEF NextIs
<1> QED BY <1>1, <1>2 DEF Begins

-----------------------------------------------------------------------------
(* Where the worker stands at each of its transactions *)

Standing ==
  /\ job.pc = "seal" => lastOf(tgt.log).type = "tick"
  /\ job.pc \notin {"seal", "charged"} => Closed(lastOf(tgt.log))
  /\ job.pc \in Answer => NextIs(1, event("tick", job.pc, tgt.tick + 1))
  /\ job.pc = "prepare" =>
       \/ \E a \in {"none", "cached"} : NextIs(1, event("tick", a, tgt.tick + 1))
       \/ /\ NextIs(1, event("usage", "none", tgt.tick))
          /\ NextIs(2, event("tick", "charged", tgt.tick + 1))
  /\ tgt.tick = rep.toTick /\ rep.toTick # src.tick =>
       lastOf(tgt.log).type \in {"tick", "snapshot"} \/ tgt.tick = 0
  /\ job.pc = "finish" /\ rep.toTick = src.tick => Len(tgt.log) = Len(src.log)

Position ==
  /\ rep.divs = {} /\ Begins
  /\ job.pc \notin {"idle", "lost"} => job.source = src.log
  /\ rep.status = "running" => Standing

(* What every step below starts from. *)
OnTrack ==
  /\ Running /\ OnCourse /\ Position
  /\ InStep(src.log) /\ Closed(lastOf(src.log)) /\ lastOf(src.log).tick = src.tick

LEMMA TrackFacts ==
  ASSUME OnTrack
  PROVE  /\ SourceInv /\ TypeInv /\ TargetInv /\ WorkerInv /\ Begins /\ Standing
         /\ InStep(src.log) /\ Closed(lastOf(src.log)) /\ lastOf(src.log).tick = src.tick
         /\ UNCHANGED src /\ rep.status = "running" /\ rep.divs = {} /\ Settled
         /\ job.pc \notin {"idle", "lost"} => job.source = src.log
         /\ rep.journal = commands(src.log) /\ rep.cacheOk /\ ~tgt.drift /\ ~harmed
BY DEF OnTrack, Running, Position, OnCourse, Undisturbed, SourceInv

(* A step that leaves the target alone and does not start anything. *)
LEMMA TrackQuiet ==
  ASSUME OnTrack, UNCHANGED tgt, rep'.divs = {}, rep'.toTick = rep.toTick,
         job'.pc \in {"idle", "lost"} \/ job'.source = src.log,
         job'.pc \notin {"seal", "prepare", "finish"} \cup Answer,
         rep'.status = "running" => Closed(lastOf(tgt.log))
  PROVE  Position'
<1>1. Begins /\ Standing /\ UNCHANGED src
  BY TrackFacts
<1>2. Begins'
  BY <1>1 DEF Begins, Extends, lastOf
<1>3. lastOf(tgt'.log) = lastOf(tgt.log)
  OBVIOUS
<1>4. rep'.status = "running" => Standing'
  BY <1>1, <1>3 DEF Standing
<1> QED BY <1>1, <1>2, <1>4 DEF Position

(* Nothing is left half done, unless between two effects of a tick. *)
LEMMA ClosedUnlessBetween ==
  ASSUME OnTrack, ~betweenEffects
  PROVE  Closed(lastOf(tgt.log))
<1>1. Standing /\ (snapshotMissing(tgt) <=> Due(lastOf(tgt.log)))
  BY TrackFacts, SnapshotOwed
<1>2. job.pc # "charged" /\ (job.pc = "seal" => ~snapshotMissing(tgt))
  BY DEF betweenEffects
<1> QED BY <1>1, <1>2 DEF Standing, Closed, Opens

LEMMA TrackFail ==
  ASSUME OnTrack, fail, ~harmed'
  PROVE  Position'
<1>0. rep \in ReplayRow
  BY TargetFields DEF OnTrack
<1>1. Closed(lastOf(tgt.log))
  BY ClosedUnlessBetween DEF fail
<1> DEFINE m == Max({rep.compared, Len(tgt.log)})
<1>3. /\ UNCHANGED tgt
      /\ \/ rep' = [rep EXCEPT !.status = "failed", !.tick = tgt.tick, !.compared = m]
         \/ UNCHANGED rep
      /\ job' = Idle \/ job' = [Idle EXCEPT !.pc = "lost"]
  BY DEF fail
<1> HIDE DEF m
<1>4. rep'.divs = rep.divs /\ rep'.toTick = rep.toTick
  BY <1>0, <1>3 DEF ReplayRow
<1>5. job'.pc \in {"idle", "lost"}
  BY <1>3 DEF Idle
<1> QED BY <1>1, <1>3, <1>4, <1>5, TrackFacts, TrackQuiet DEF Answer

LEMMA TrackCrash ==
  ASSUME OnTrack, crash, ~harmed'
  PROVE  Position'
<1>1. Closed(lastOf(tgt.log))
  BY ClosedUnlessBetween DEF crash
<1>2. UNCHANGED <<tgt, rep>> /\ job'.pc = "idle"
  BY DEF crash, Idle
<1> QED BY <1>1, <1>2, TrackFacts, TrackQuiet DEF Answer

LEMMA TrackBegin ==
  ASSUME OnTrack, beginReplay
  PROVE  Position'
<1>1. rep.journal = commands(src.log) /\ Standing /\ job.pc = "idle"
  BY TrackFacts DEF beginReplay, at
<1> DEFINE p == IF rep.compared < Len(tgt.log) THEN "compare" ELSE "boundary"
<1>2. /\ job' = [Idle EXCEPT !.source = src.log, !.from = rep.compared, !.pc = p]
      /\ UNCHANGED <<tgt, rep>> /\ p \in {"compare", "boundary"}
  BY <1>1 DEF beginReplay
<1> HIDE DEF p
<1>3. job'.source = src.log /\ job'.pc \in {"compare", "boundary"}
  BY <1>2 DEF Idle
<1>4. Closed(lastOf(tgt.log))
  BY <1>1 DEF Standing
<1> QED BY <1>2, <1>3, <1>4, TrackFacts, TrackQuiet DEF Answer

LEMMA TrackCompare ==
  ASSUME OnTrack, compareReplayRange
  PROVE  Position'
<1>0. rep \in ReplayRow /\ job \in Job /\ job.from \in Nat /\ Len(tgt.log) \in Nat
  BY TargetFields DEF OnTrack
<1>1. job.pc = "compare" /\ Standing /\ job.source = src.log /\ rep.divs = {}
  BY TrackFacts DEF compareReplayRange, at
<1>2. \A i \in 1..Len(tgt.log) : i \in 1..Len(src.log) /\ src.log[i] = tgt.log[i]
  BY TrackFacts, BeginsFacts
<1>3. reproduced
  <2> SUFFICES ASSUME NEW i \in job.from + 1 .. Len(tgt.log)
               PROVE  i <= Len(job.source) /\ job.source[i] = tgt.log[i]
    BY DEF reproduced
  <2>1. i \in 1..Len(tgt.log)
    BY <1>0
  <2>2. i \in 1..Len(src.log) /\ src.log[i] = tgt.log[i]
    BY <1>2, <2>1
  <2> QED BY <1>1, <2>2
<1>4. /\ rep' = [rep EXCEPT !.divs = rep.divs] /\ UNCHANGED tgt
      /\ job' = [job EXCEPT !.pc = "progress"]
  BY <1>3 DEF compareReplayRange, goto
<1>5. rep' = rep
  BY <1>0, <1>4 DEF ReplayRow
<1>6. job'.pc = "progress" /\ job'.source = src.log
  BY <1>0, <1>1, <1>4 DEF Job
<1>7. Closed(lastOf(tgt.log))
  BY <1>1 DEF Standing
<1> QED BY <1>1, <1>4, <1>5, <1>6, <1>7, TrackQuiet DEF Answer

LEMMA TrackProgress ==
  ASSUME OnTrack, updateProgress, ~harmed'
  PROVE  Position'
<1>0. rep \in ReplayRow /\ job \in Job
  BY TargetFields DEF OnTrack
<1>1. job.pc = "progress" /\ Standing /\ job.source = src.log /\ rep.divs = {}
  BY TrackFacts DEF updateProgress, at
<1>2. CASE fail
  BY <1>2, TrackFail
<1>3. CASE ~fail
  <2> DEFINE n == Len(tgt.log)
  <2>1. /\ rep' = [rep EXCEPT !.tick = tgt.tick, !.compared = n] /\ UNCHANGED tgt
        /\ job' = [job EXCEPT !.pc = "boundary"]
    BY <1>3 DEF updateProgress, goto
  <2> HIDE DEF n
  <2>2. rep'.divs = {} /\ rep'.toTick = rep.toTick
    BY <1>0, <1>1, <2>1 DEF ReplayRow
  <2>3. job'.pc = "boundary" /\ job'.source = src.log
    BY <1>0, <1>1, <2>1 DEF Job
  <2>4. Closed(lastOf(tgt.log))
    BY <1>1 DEF Standing
  <2> QED BY <2>1, <2>2, <2>3, <2>4, TrackQuiet DEF Answer
<1> QED BY <1>2, <1>3

LEMMA TrackHalt ==
  ASSUME OnTrack
  PROVE  ~haltStrict /\ ~strictlyDiverged
BY TrackFacts DEF haltStrict, strictlyDiverged

-----------------------------------------------------------------------------
(* The boundary *)

(* What was applied at a boundary leads to the next comparison. *)
LEMMA TrackApplied ==
  ASSUME OnTrack, boundaryApplies, UNCHANGED rep, Begins', Closed(lastOf(tgt'.log)),
         tgt'.tick = tgt.tick, job'.pc = "compare", job'.source = src.log
  PROVE  Position'
<1>1. rep.divs = {} /\ UNCHANGED src /\ tgt.tick \in Nat /\ rep.toTick \in Nat
  BY TrackFacts, TargetFields DEF OnTrack
<1>2. tgt.tick = rep.toTick => rep.toTick = src.tick
  BY <1>1 DEF boundaryApplies
<1>3. Standing'
  BY <1>1, <1>2 DEF Standing, Answer
<1> QED BY <1>1, <1>3 DEF Position

LEMMA TrackCommand ==
  ASSUME OnTrack, applyReplayCommand, ~harmed'
  PROVE  Position'
<1>1. CASE fail
  BY <1>1, TrackFail
<1>2. CASE ~fail
  <2>0. /\ Running /\ job.pc = "boundary" /\ Closed(lastOf(tgt.log)) /\ job.source = src.log
        /\ SourceInv /\ TypeInv /\ Begins /\ InStep(src.log) /\ Closed(lastOf(src.log))
        /\ UNCHANGED src /\ boundaryApplies
        /\ tgt.log \in Seq(Event) /\ src.log \in Seq(Event) /\ Len(tgt.log) \in Nat
        /\ tgt.tick \in 0..EndTick
    BY TrackFacts, TargetFields DEF OnTrack, applyReplayCommand, at, Standing
  <2>1. PICK e \in expected : \E s \in S!RunStatus :
          /\ e.type = "command" /\ e.v \in Command
          /\ commandEvents(e.v, tgt.tick) \in Seq(Event)
          /\ applied([tgt EXCEPT !.status = s, !.log = @ \o commandEvents(e.v, tgt.tick)])
    BY <1>2, <2>0, CommandWrites
  <2> DEFINE new == commandEvents(e.v, tgt.tick)
             c == e.v
             a == event("command", c, tgt.tick)
             b == event("fact", c, tgt.tick)
  <2>2. PICK s \in S!RunStatus : applied([tgt EXCEPT !.status = s, !.log = @ \o new])
    BY <2>1
  <2>3. new \in Seq(Event) /\ c \in Command
    BY <2>1
  <2>4. NextIs(1, e) /\ Len(tgt.log) < Len(src.log)
    <3>1. PICK i \in (1..Len(job.source)) \cap {Len(tgt.log) + 1} : e = job.source[i]
      BY DEF expected
    <3> QED BY <2>0, <3>1 DEF NextIs
  <2>5. NextIs(1, a) /\ c \notin {"create", "foreign"}
    <3>1. \/ \E d \in Command \ {"create", "foreign"} : NextIs(1, event("command", d, tgt.tick))
          \/ NextIs(1, event("usage", "none", tgt.tick))
          \/ \E d \in {"none", "cached"} : NextIs(1, event("tick", d, tgt.tick + 1))
          \/ NextIs(1, event("completed", "none", tgt.tick))
      BY <2>0, <2>4, NextKinds
    <3>2. \E d \in Command \ {"create", "foreign"} : e = event("command", d, tgt.tick)
      BY <2>1, <2>4, <3>1, Fields DEF NextIs
    <3> QED BY <2>4, <3>2, Fields
  <2>6. /\ a \in Event /\ b \in Event /\ a.type = "command" /\ a.v = c /\ a.tick = tgt.tick
        /\ b.type = "fact" /\ b.tick = tgt.tick
    BY <2>0, <2>3, Fields DEF event, Event
  <2>7. new = IF c = "advance" THEN <<a>> ELSE <<a, b>>
    BY DEF commandEvents
  <2> HIDE DEF new, c, a, b
  <2>8. /\ UNCHANGED rep /\ tgt'.log = tgt.log \o new /\ tgt'.tick = tgt.tick
        /\ job'.pc = "compare" /\ job'.source = src.log
    <3>1. UNCHANGED harmed
      BY <2>2 DEF applied, replayQuiet
    <3> QED BY <2>0, <2>2, <2>3, <3>1, AppliedGrows
  <2>9. CASE c = "advance"
    <3>1. tgt'.log = Append(tgt.log, a)
      BY <2>0, <2>6, <2>7, <2>8, <2>9, AppendAsConcat
    <3>2. Begins' /\ lastOf(tgt'.log) = a
      BY <2>0, <2>5, <2>6, <2>8, <3>1, BeginsOne
    <3>3. Closed(lastOf(tgt'.log))
      BY <2>6, <2>9, <3>2 DEF Closed, Opens, Due
    <3> QED BY <2>0, <2>8, <3>2, <3>3, TrackApplied
  <2>10. CASE c # "advance"
    <3> DEFINE u == Append(tgt.log, a)
    <3>1. tgt'.log = Append(u, b)
      <4>1. tgt'.log = tgt.log \o <<a, b>>
        BY <2>7, <2>8, <2>10
      <4>2. tgt.log \o <<a, b>> = Append(Append(tgt.log, a), b)
        BY <2>0, <2>6
      <4> QED BY <4>1, <4>2
    <3>2. /\ u \in Seq(Event) /\ Len(u) = Len(tgt.log) + 1 /\ Extends(src.log, u)
      BY <2>0, <2>5, <2>6, ExtendsOne DEF NextIs, Begins
    <3> HIDE DEF u
    <3>3. Len(u) + 1 <= Len(src.log) /\ src.log[Len(u) + 1] = b
      <4> DEFINE m == Len(tgt.log) + 1
      <4>1. m \in 1..Len(src.log) /\ src.log[m] = a
        BY <2>0, <2>4, <2>5 DEF NextIs
      <4> HIDE DEF m
      <4>2. Opens(src.log[m]) /\ ~Closed(src.log[m])
        BY <2>6, <2>10, <4>1 DEF Opens, Closed
      <4>3. m + 1 <= Len(src.log) /\ src.log[m + 1] = event("fact", src.log[m].v, src.log[m].tick)
        BY <2>0, <4>1, <4>2, OwedFollows
      <4> QED BY <2>6, <3>2, <4>1, <4>3 DEF m, b
    <3>4. Extends(src.log, tgt'.log) /\ lastOf(tgt'.log) = b /\ Len(tgt'.log) = Len(u) + 1
      BY <2>0, <2>6, <3>1, <3>2, <3>3, ExtendsOne
    <3>5. Begins'
      BY <2>0, <2>6, <2>8, <3>2, <3>4 DEF Begins
    <3>6. Closed(lastOf(tgt'.log))
      BY <2>6, <3>4 DEF Closed, Opens, Due
    <3> QED BY <2>0, <2>8, <3>5, <3>6, TrackApplied
  <2> QED BY <2>9, <2>10
<1> QED BY <1>1, <1>2

LEMMA TrackCompletion ==
  ASSUME OnTrack, applyCompletion, ~harmed'
  PROVE  Position'
<1>1. CASE fail
  BY <1>1, TrackFail
<1>2. CASE ~fail
  <2>0. /\ Running /\ Closed(lastOf(tgt.log)) /\ job.source = src.log
        /\ SourceInv /\ TypeInv /\ Begins /\ InStep(src.log) /\ Closed(lastOf(src.log))
        /\ UNCHANGED src /\ boundaryApplies /\ expectsCompletion
        /\ tgt.log \in Seq(Event) /\ src.log \in Seq(Event) /\ Len(tgt.log) \in Nat
    BY TrackFacts, TargetFields DEF OnTrack, applyCompletion, at, Standing
  <2> DEFINE x == event("completed", "none", tgt.tick)
             w == <<x>>
  <2>1. /\ x \in Event /\ w \in Seq(Event) /\ "completed" \in S!RunStatus
        /\ Append(tgt.log, x) = tgt.log \o w
        /\ applied([tgt EXCEPT !.status = "completed", !.log = @ \o w])
    BY <1>2, <2>0, CompletionWrites
  <2>2. x.type = "completed" /\ x.tick = tgt.tick
    BY Fields
  <2>3. PICK e \in expected : e.type = "completed"
    BY <2>0 DEF expectsCompletion
  <2>4. NextIs(1, e) /\ Len(tgt.log) < Len(src.log)
    <3>1. PICK i \in (1..Len(job.source)) \cap {Len(tgt.log) + 1} : e = job.source[i]
      BY DEF expected
    <3> QED BY <2>0, <3>1 DEF NextIs
  <2>5. NextIs(1, x)
    <3>1. \/ \E d \in Command \ {"create", "foreign"} : NextIs(1, event("command", d, tgt.tick))
          \/ NextIs(1, event("usage", "none", tgt.tick))
          \/ \E d \in {"none", "cached"} : NextIs(1, event("tick", d, tgt.tick + 1))
          \/ NextIs(1, event("completed", "none", tgt.tick))
      BY <2>0, <2>4, NextKinds
    <3> QED BY <2>3, <2>4, <3>1, Fields DEF NextIs
  <2> HIDE DEF w, x
  <2>6. /\ UNCHANGED rep /\ tgt'.log = Append(tgt.log, x) /\ tgt'.tick = tgt.tick
        /\ job'.pc = "compare" /\ job'.source = src.log
    <3>1. UNCHANGED harmed
      BY <2>1 DEF applied, replayQuiet
    <3> QED BY <2>0, <2>1, <3>1, AppliedGrows
  <2>7. Begins' /\ lastOf(tgt'.log) = x
    BY <2>0, <2>1, <2>2, <2>5, <2>6, BeginsOne
  <2>8. Closed(lastOf(tgt'.log))
    BY <2>2, <2>7 DEF Closed, Opens, Due
  <2> QED BY <2>0, <2>6, <2>7, <2>8, TrackApplied
<1> QED BY <1>1, <1>2

LEMMA TrackLeave ==
  ASSUME OnTrack, leaveBoundary
  PROVE  Position'
<1>0. /\ Running /\ Closed(lastOf(tgt.log)) /\ job.source = src.log /\ Standing
      /\ SourceInv /\ TypeInv /\ TargetInv /\ Begins /\ InStep(src.log) /\ Closed(lastOf(src.log))
      /\ lastOf(src.log).tick = src.tick /\ lastOf(tgt.log).tick = tgt.tick
      /\ UNCHANGED <<src, rep>> /\ job.pc = "boundary" /\ rep.divs = {} /\ rep.status = "running"
      /\ ~(boundaryApplies /\ (expectsCommand \/ (finalBoundary /\ expectsCompletion)))
  BY TrackFacts DEF OnTrack, leaveBoundary, at, Standing, Begins
<1>1. /\ job \in Job /\ tgt \in RunRow /\ tgt.log \in Seq(Event) /\ src.log \in Seq(Event)
      /\ Len(tgt.log) \in Nat /\ tgt.tick \in Nat /\ tgt.tick \in 0..EndTick
      /\ rep.toTick \in Nat /\ src.tick \in Nat /\ rep.toTick \in 0..EndTick
      /\ Len(tgt.log) \in 1..Len(src.log) /\ Len(src.log) \in Nat
      /\ lastOf(tgt.log) = src.log[Len(tgt.log)]
      /\ tgt.tick <= rep.toTick /\ rep.toTick <= src.tick
  <2>1. tgt.tick <= rep.toTick /\ rep.toTick <= src.tick
    BY <1>0 DEF TargetInv
  <2>2. Len(tgt.log) \in 1..Len(src.log) /\ lastOf(tgt.log) = src.log[Len(tgt.log)]
    BY <1>0, BeginsFacts
  <2>3. Len(src.log) \in Nat
    BY <1>0, SourceEvents
  <2> QED BY <1>0, <2>1, <2>2, <2>3, TargetFields
(* The next event, where the boundary applies. *)
<1>2. ASSUME boundaryApplies, Len(tgt.log) < Len(src.log)
      PROVE  /\ \A c \in Command \ {"create", "foreign"} :
                  ~NextIs(1, event("command", c, tgt.tick))
             /\ finalBoundary => ~NextIs(1, event("completed", "none", tgt.tick))
  <2> DEFINE f == src.log[Len(tgt.log) + 1]
  <2>1. f.tick = tgt.tick => f \in expected
    BY <1>0, <1>1, <1>2 DEF expected
  <2>2. ~expectsCommand /\ ~(finalBoundary /\ expectsCompletion)
    BY <1>0, <1>2
  <2>3. \A e : NextIs(1, e) => f = e
    BY DEF NextIs
  <2> HIDE DEF f
  <2> QED BY <2>1, <2>2, <2>3, Fields DEF expectsCommand, expectsCompletion
<1>3. CASE finalBoundary
  <2>1. job' = [job EXCEPT !.pc = "finish", !.compare = TRUE] /\ UNCHANGED tgt
    BY <1>3 DEF leaveBoundary
  <2>2. job'.pc = "finish" /\ job'.source = src.log
    BY <1>0, <1>1, <2>1 DEF Job
  <2>3. rep.toTick = src.tick => Len(tgt.log) = Len(src.log)
    <3> SUFFICES ASSUME rep.toTick = src.tick, Len(tgt.log) < Len(src.log)
                 PROVE  FALSE
      BY <1>1
    <3>1. boundaryApplies /\ tgt.tick = src.tick
      BY <1>1, <1>3 DEF boundaryApplies, finalBoundary
    <3>2. ASSUME NEW k \in {1, 2}, NEW a, NextIs(k, event("tick", a, tgt.tick + 1))
          PROVE  FALSE
      <4> DEFINE i == Len(tgt.log) + k
      <4>1. i \in 1..Len(src.log) /\ src.log[i] = event("tick", a, tgt.tick + 1)
        BY <1>1, <3>2 DEF NextIs
      <4> HIDE DEF i
      <4>2. src.log[i].tick <= src.tick
        BY <1>0, <4>1, SourceEvents
      <4> QED BY <1>1, <3>1, <4>1, <4>2, Fields
    <3>3. \E a \in {"none", "cached"} : NextIs(1, event("tick", a, tgt.tick + 1))
          \/ NextIs(2, event("tick", "charged", tgt.tick + 1))
      BY <1>0, <1>2, <1>3, <3>1, NextKinds
    <3> QED BY <3>2, <3>3
  <2>4. Begins'
    BY <1>0, <2>1 DEF Begins, Extends, lastOf
  <2>5. Standing'
    <3>1. lastOf(tgt'.log) = lastOf(tgt.log)
      BY <2>1
    <3> QED BY <1>0, <2>1, <2>2, <2>3, <3>1 DEF Standing, Answer
  <2> QED BY <1>0, <2>2, <2>4, <2>5 DEF Position
<1>4. CASE ~finalBoundary
  <2>1. job' = [job EXCEPT !.pc = "prepare", !.from = Len(tgt.log)] /\ tgt' = snapshot(tgt)
    BY <1>4 DEF leaveBoundary
  <2>2. job'.pc = "prepare" /\ job'.source = src.log
    BY <1>0, <1>1, <2>1 DEF Job
  <2>3. ~snapshotMissing(tgt)
    BY <1>0, SnapshotOwed DEF Closed
  <2>4. UNCHANGED tgt
    BY <2>1, <2>3 DEF snapshot
  <2>5. tgt.tick < rep.toTick /\ boundaryApplies
    BY <1>1, <1>4 DEF finalBoundary, boundaryApplies
  <2>6. Len(tgt.log) < Len(src.log)
    <3>1. Len(tgt.log) # Len(src.log)
      BY <1>0, <1>1, <2>5 DEF lastOf
    <3> QED BY <1>1, <3>1
  <2>7. tgt.tick # EndTick
    BY <1>1, <2>5, ReplayAssumption
  <2>8. \/ \E a \in {"none", "cached"} : NextIs(1, event("tick", a, tgt.tick + 1))
        \/ /\ NextIs(1, event("usage", "none", tgt.tick))
           /\ NextIs(2, event("tick", "charged", tgt.tick + 1))
    BY <1>0, <1>2, <2>5, <2>6, <2>7, NextKinds
  <2>9. Begins'
    BY <1>0, <2>4 DEF Begins, Extends, lastOf
  <2>10. Standing'
    <3>1. tgt.tick # rep.toTick
      BY <1>1, <2>5
    <3> QED BY <1>0, <2>2, <2>4, <2>8, <3>1 DEF Standing, Answer, NextIs
  <2> QED BY <1>0, <2>2, <2>9, <2>10 DEF Position
<1> QED BY <1>3, <1>4

-----------------------------------------------------------------------------
(* A tick: the recorded answer is the one with the ordinal of the target's   *)
(* next call.                                                                *)

LEMMA CallsFinite ==
  ASSUME NEW s \in Seq(Event), NEW k \in Nat
  PROVE  IsFiniteSet(successfulCalls(s) \cap 1..k)
<1>1. IsFiniteSet(1..k)
  BY FS_Interval
<1> QED BY <1>1, FS_Subset

(* A call later in the journal has a greater ordinal. *)
LEMMA OrdinalsGrow ==
  ASSUME NEW s \in Seq(Event), NEW i \in successfulCalls(s), NEW j \in successfulCalls(s), i < j
  PROVE  Cardinality(successfulCalls(s) \cap 1..i) # Cardinality(successfulCalls(s) \cap 1..j)
<1> DEFINE A == successfulCalls(s) \cap 1..i
           B == successfulCalls(s) \cap 1..j
<1>1. i \in Nat /\ j \in Nat
  BY DEF successfulCalls
<1>2. IsFiniteSet(B)
  BY <1>1, CallsFinite
<1>3. A \in SUBSET B /\ j \in B /\ j \notin A
  BY <1>1
<1> HIDE DEF A, B
<1>4. Cardinality(A) # Cardinality(B)
  BY <1>2, <1>3, FS_Subset
<1> QED BY <1>4 DEF A, B

LEMMA NextAnswer ==
  ASSUME SourceInv, TypeInv, Begins, job.source = src.log,
         NEW k \in 1..Len(src.log), Len(tgt.log) < k,
         src.log[k].type = "tick", src.log[k].v # "none",
         \A i \in Len(tgt.log) + 1 .. k - 1 : src.log[i].type # "tick"
  PROVE  expectation = {src.log[k].v}
<1> DEFINE n == Len(tgt.log)
           C == successfulCalls(src.log)
           D == successfulCalls(tgt.log)
           m == Cardinality(D) + 1
<1>0. /\ src.log \in Seq(Event) /\ tgt.log \in Seq(Event) /\ n \in Nat /\ k \in Nat
      /\ n \in 1..Len(src.log)
      /\ \A i \in 1..n : i \in 1..Len(src.log) /\ tgt.log[i] = src.log[i]
  BY BeginsFacts, SourceEvents
<1>1. k \in C /\ k \notin D
  BY <1>0 DEF successfulCalls
<1>2. C \cap 1..k = D \cup {k}
  <2>1. ASSUME NEW i \in C \cap 1..k, i # k
        PROVE  i \in D
    <3>1. i \in 1..Len(src.log) /\ src.log[i].type = "tick" /\ src.log[i].v # "none" /\ i < k
      BY <1>0, <2>1 DEF successfulCalls
    <3>2. i \in 1..n
      BY <1>0, <3>1
    <3> QED BY <1>0, <3>1, <3>2 DEF successfulCalls
  <2>2. ASSUME NEW i \in D
        PROVE  i \in C \cap 1..k
    BY <1>0, <2>2 DEF successfulCalls
  <2>3. k \in C \cap 1..k
    BY <1>0, <1>1
  <2> HIDE DEF C, D
  <2> QED BY <2>1, <2>2, <2>3
<1>3. IsFiniteSet(D)
  <2>1. D = D \cap 1..n
    BY DEF successfulCalls
  <2>2. IsFiniteSet(D \cap 1..n)
    BY <1>0, CallsFinite
  <2> QED BY <2>1, <2>2
<1>4. Cardinality(C \cap 1..k) = m
  <2> HIDE DEF C, D
  <2> QED BY <1>1, <1>2, <1>3, FS_AddElement
<1>5. ASSUME NEW j \in C, j # k
      PROVE  Cardinality(C \cap 1..j) # m
  <2>1. j \in Nat
    BY DEF successfulCalls
  <2>2. CASE j < k
    BY <1>0, <1>1, <1>4, <2>2, OrdinalsGrow
  <2>3. CASE k < j
    BY <1>0, <1>1, <1>4, <2>3, OrdinalsGrow
  <2> QED BY <1>0, <1>5, <2>1, <2>2, <2>3
<1>6. expectation = {src.log[i].v : i \in {j \in C : Cardinality(C \cap 1..j) = m}}
  BY DEF expectation, replay_llm_expectations
<1> HIDE DEF C, D, m
<1>7. {j \in C : Cardinality(C \cap 1..j) = m} = {k}
  BY <1>1, <1>4, <1>5
<1> QED BY <1>6, <1>7

LEMMA TrackPrepare ==
  ASSUME OnTrack, NEW answer \in Answer, prepare(answer)
  PROVE  Position'
<1>0. /\ Running /\ Closed(lastOf(tgt.log)) /\ job.source = src.log /\ Standing
      /\ SourceInv /\ TypeInv /\ TargetInv /\ Begins /\ InStep(src.log)
      /\ UNCHANGED <<src, rep>> /\ job.pc = "prepare" /\ rep.divs = {} /\ rep.status = "running"
      /\ tgt.tick < rep.toTick /\ rep.cacheOk /\ ~tgt.drift /\ answer \in answers
  BY TrackFacts DEF OnTrack, prepare, at, Standing, WorkerInv, Ticking
<1>1. /\ job \in Job /\ tgt \in RunRow /\ tgt.log \in Seq(Event) /\ src.log \in Seq(Event)
      /\ Len(tgt.log) \in Nat /\ tgt.tick \in Nat /\ tgt.tick \in 0..EndTick
      /\ rep.toTick \in Nat /\ Len(src.log) \in Nat
      /\ Len(tgt.log) >= 1 /\ lastOf(tgt.log) = src.log[Len(tgt.log)]
  BY <1>0, TargetFields, BeginsFacts, SourceEvents
<1> DEFINE n == Len(tgt.log)
           t == tgt.tick + 1
           u == event("usage", "none", tgt.tick)
(* The tick is k events ahead and was answered with a. *)
<1>2. PICK k \in {1, 2}, a \in {"none", "cached", "charged"} :
        /\ NextIs(k, event("tick", a, t))
        /\ a = "charged" => k = 2 /\ NextIs(1, u)
        /\ a # "charged" => k = 1
  BY <1>0 DEF Standing
<1>3. /\ n + k \in 1..Len(src.log) /\ n + k - 1 \in 1..Len(src.log) - 1
      /\ src.log[n + k].type = "tick" /\ src.log[n + k].v = a /\ src.log[n + k].tick = t
      /\ \A i \in n + 1 .. (n + k) - 1 : src.log[i].type # "tick"
  <2>1. n + k <= Len(src.log) /\ src.log[n + k] = event("tick", a, t)
    BY <1>2 DEF NextIs
  <2>2. \A i \in n + 1 .. (n + k) - 1 : src.log[i].type # "tick"
    <3> SUFFICES ASSUME NEW i \in n + 1 .. (n + k) - 1
                 PROVE  src.log[i].type # "tick"
      OBVIOUS
    <3>1. k = 2 /\ i = n + 1 /\ NextIs(1, u)
      BY <1>1, <1>2
    <3>2. src.log[i].type = "usage"
      BY <3>1, Fields DEF NextIs
    <3> QED BY <3>2
  <2> QED BY <1>1, <2>1, <2>2, Fields
<1>4. IF t \in CallTicks THEN a \in {"charged", "cached"} ELSE a = "none"
  <2> DEFINE p == n + k - 1
  <2>1. p \in 1..Len(src.log) - 1 /\ p + 1 = n + k
    BY <1>1, <1>3
  <2> HIDE DEF p
  <2>2. Succ(src.log[p], src.log[p + 1])
    BY <1>0, <2>1 DEF InStep
  <2> QED BY <1>3, <2>1, <2>2 DEF Succ
<1>5. answer = a
  <2>1. CASE t \notin CallTicks
    BY <1>0, <1>4, <2>1 DEF answers
  <2>2. CASE t \in CallTicks
    <3>1. a # "none"
      BY <1>4, <2>2
    <3>2. expectation = {a}
      <4> DEFINE m == n + k
      <4>1. /\ m \in 1..Len(src.log) /\ n < m /\ src.log[m].type = "tick" /\ src.log[m].v = a
            /\ \A i \in n + 1 .. m - 1 : src.log[i].type # "tick"
        BY <1>1, <1>3
      <4> HIDE DEF m
      <4> QED BY <1>0, <3>1, <4>1, NextAnswer
    <3> QED BY <1>0, <2>2, <3>2 DEF answers
  <2> QED BY <2>1, <2>2
<1>6. job'.pc = a /\ job'.source = src.log
  BY <1>0, <1>1, <1>5 DEF prepare, Job
<1>7. CASE a # "charged"
  <2>1. UNCHANGED tgt
    BY <1>5, <1>7 DEF prepare
  <2>2. Begins'
    BY <1>0, <2>1 DEF Begins, Extends, lastOf
  <2>3. NextIs(1, event("tick", a, t)) /\ a \in {"none", "cached"}
    BY <1>2, <1>7
  <2>4. Standing'
    <3>1. tgt.tick # rep.toTick
      BY <1>0, <1>1
    <3> QED BY <1>0, <1>6, <2>1, <2>3, <3>1 DEF Standing, NextIs
  <2> QED BY <1>0, <1>6, <2>2, <2>4 DEF Position
<1>8. CASE a = "charged"
  <2>1. NextIs(1, u) /\ NextIs(2, event("tick", a, t)) /\ a = "charged"
    BY <1>2, <1>8
  <2>2. u \in Event /\ u.tick = tgt.tick
    BY <1>1, EventTypes
  <2>3. tgt' = [tgt EXCEPT !.log = Append(@, u)]
    BY <1>5, <1>8 DEF prepare
  <2> HIDE DEF u
  <2>4. tgt'.log = Append(tgt.log, u) /\ tgt'.tick = tgt.tick
    BY <1>1, <2>3 DEF RunRow
  <2>5. Begins' /\ Len(tgt'.log) = n + 1
    BY <1>0, <2>1, <2>2, <2>4, BeginsOne
  <2>6. NextIs(1, event("tick", a, tgt.tick + 1))'
    <3>1. n + 2 <= Len(src.log) /\ src.log[n + 2] = event("tick", a, t)
      BY <2>1 DEF NextIs
    <3>2. Len(tgt'.log) + 1 = n + 2
      BY <1>1, <2>5
    <3> QED BY <1>0, <2>4, <3>1, <3>2 DEF NextIs
  <2>7. Standing'
    <3>1. tgt'.tick # rep'.toTick
      BY <1>0, <1>1, <2>4
    <3> QED BY <1>0, <1>6, <2>1, <2>6, <3>1 DEF Standing
  <2> QED BY <1>0, <1>6, <2>5, <2>7 DEF Position
<1> QED BY <1>7, <1>8

LEMMA TrackTick ==
  ASSUME OnTrack, NEW o \in Outcomes, executeTick(o), ~harmed', ~tgt'.drift
  PROVE  Position'
<1>1. CASE fail
  BY <1>1, TrackFail
<1>2. CASE ~fail
  <2>0. /\ job.source = src.log /\ Standing /\ SourceInv /\ TypeInv /\ Begins
        /\ UNCHANGED src /\ rep.divs = {} /\ rep.status = "running" /\ job.pc \in Answer
        /\ tgt.tick < EndTick
        /\ job \in Job /\ tgt \in RunRow /\ tgt.log \in Seq(Event) /\ tgt.tick \in 0..EndTick
        /\ tgt.tick \in Nat
    BY <1>2, TrackFacts, TargetFields DEF OnTrack, executeTick, Answer
  <2> DEFINE n == tgt.tick + 1
             d == tgt.drift \/ o # "same"
             new == outcomeEvents(o, job.pc)
             x == event("tick", job.pc, tgt.tick + 1)
  <2>1. /\ tgt' = [tgt EXCEPT !.tick = n, !.drift = d, !.log = @ \o new]
        /\ job' = [job EXCEPT !.pc = "seal"] /\ UNCHANGED rep
    BY <1>2 DEF executeTick, goto
  <2>2. n \in 1..EndTick
    BY <2>0, ReplayAssumption
  <2>3. x \in Event /\ x.tick = n /\ x.type = "tick"
    BY <2>0, <2>2, EventTypes
  <2>4. NextIs(1, x)
    BY <2>0 DEF Standing
  <2>5. o # "visible" => new = <<>> \o <<x>>
    BY DEF outcomeEvents
  <2> HIDE DEF n, d, new, x
  <2>6. tgt'.tick = n /\ tgt'.drift = d /\ tgt'.log = tgt.log \o new
    BY <2>0, <2>1 DEF RunRow
  <2>7. o = "same"
    BY <2>6 DEF d
  <2>8. tgt'.log = Append(tgt.log, x)
    <3>1. <<>> \o <<x>> = <<x>>
      BY <2>3
    <3>2. Append(tgt.log, x) = tgt.log \o <<x>>
      BY <2>0, <2>3, AppendAsConcat
    <3> QED BY <2>5, <2>6, <2>7, <3>1, <3>2
  <2>9. Begins' /\ lastOf(tgt'.log) = x
    BY <2>0, <2>3, <2>4, <2>6, <2>8, BeginsOne
  <2>10. job'.pc = "seal" /\ job'.source = src.log
    BY <2>0, <2>1 DEF Job
  <2>11. Standing'
    BY <2>3, <2>9, <2>10 DEF Standing, Answer
  <2> QED BY <2>0, <2>1, <2>9, <2>10, <2>11 DEF Position
<1> QED BY <1>1, <1>2

LEMMA TrackSeal ==
  ASSUME OnTrack, sealTick
  PROVE  Position'
<1>0. /\ job.source = src.log /\ Standing /\ SourceInv /\ TypeInv /\ TargetInv /\ Begins
      /\ InStep(src.log) /\ Closed(lastOf(src.log))
      /\ UNCHANGED src /\ rep.divs = {} /\ rep.status = "running" /\ job.pc = "seal"
      /\ ~tgt.drift /\ job \in Job /\ tgt \in RunRow /\ tgt.log \in Seq(Event)
      /\ tgt.tick \in 0..EndTick /\ tgt.tick \in Nat
  BY TrackFacts, TargetFields DEF OnTrack, sealTick, at
<1>1. /\ tgt' = snapshot(tgt) /\ job' = [job EXCEPT !.pc = "compare"] /\ UNCHANGED rep
  BY DEF sealTick, goto
<1>2. job'.pc = "compare" /\ job'.source = src.log
  BY <1>0, <1>1 DEF Job
<1>3. lastOf(tgt.log).type = "tick" /\ (snapshotMissing(tgt) <=> Due(lastOf(tgt.log)))
  BY <1>0, SnapshotOwed DEF Standing
<1>4. CASE ~snapshotMissing(tgt)
  <2>1. UNCHANGED tgt
    BY <1>1, <1>4 DEF snapshot
  <2>2. Closed(lastOf(tgt.log))
    BY <1>3, <1>4 DEF Closed, Opens
  <2> QED BY <1>0, <1>1, <1>2, <2>1, <2>2, TrackQuiet DEF Answer
<1>5. CASE snapshotMissing(tgt)
  <2> DEFINE x == event("snapshot", "same", tgt.tick)
             n == Len(tgt.log)
  <2>1. tgt' = [tgt EXCEPT !.log = Append(@, x)]
    BY <1>0, <1>1, <1>5 DEF snapshot, snapshotEvent
  <2>2. x \in Event /\ x.type = "snapshot" /\ x.v = "same" /\ x.tick = tgt.tick
    <3>1. tgt.tick \in 1..EndTick
      BY <1>0, <1>5, ReplayAssumption DEF snapshotMissing, snapshotDue
    <3> QED BY <3>1, EventTypes
  <2>3. NextIs(1, x)
    <3>1. n \in 1..Len(src.log) /\ lastOf(tgt.log) = src.log[n] /\ src.log[n].tick = tgt.tick
      BY <1>0, BeginsFacts DEF Begins
    <3> HIDE DEF n
    <3>2. Due(src.log[n]) /\ ~Closed(src.log[n])
      BY <1>3, <1>5, <3>1 DEF Closed
    <3>3. n + 1 <= Len(src.log) /\ src.log[n + 1] = x
      BY <1>0, <3>1, <3>2, OwedFollows
    <3> QED BY <3>3 DEF NextIs, n
  <2> HIDE DEF x
  <2>4. tgt'.log = Append(tgt.log, x) /\ tgt'.tick = tgt.tick
    BY <1>0, <2>1 DEF RunRow
  <2>5. Begins' /\ lastOf(tgt'.log) = x
    BY <1>0, <2>2, <2>3, <2>4, BeginsOne
  <2>6. Standing'
    BY <1>2, <2>2, <2>5 DEF Standing, Closed, Opens, Due, Answer
  <2> QED BY <1>0, <1>1, <1>2, <2>5, <2>6 DEF Position
<1> QED BY <1>4, <1>5

-----------------------------------------------------------------------------
(* The end of the replay *)

(* The target's journal is the source's up to the source's snapshot of the
   tick at which the replay ends. *)
LEMMA SnapshotAtEnd ==
  ASSUME OnTrack, job.pc = "finish", tgt.tick = rep.toTick, tgt.tick # src.tick,
         NEW i \in 1..Len(src.log), src.log[i].type = "snapshot", src.log[i].tick = tgt.tick
  PROVE  i = Len(tgt.log)
<1> DEFINE n == Len(tgt.log)
           e == src.log[n]
<1>0. /\ Standing /\ SourceInv /\ TypeInv /\ Begins /\ InStep(src.log)
      /\ n \in 1..Len(src.log) /\ lastOf(tgt.log) = e /\ e.tick = tgt.tick
  BY TrackFacts, BeginsFacts DEF Begins
<1> HIDE DEF n, e
<1>1. /\ Closed(e)
      /\ e.type \in {"tick", "snapshot"} \/ tgt.tick = 0
  BY <1>0 DEF Standing
<1>2. snapshotDue(tgt.tick)
  BY <1>0, SnapshotFollows
<1>3. tgt.tick # 0 /\ e.type # "tick"
  BY <1>0, <1>1, <1>2 DEF snapshotDue, Closed, Due
<1>4. e.type = "snapshot"
  BY <1>1, <1>3
<1>5. src.log[n].type = "snapshot" /\ src.log[n].tick = src.log[i].tick
  BY <1>0, <1>4 DEF e
<1>6. i = n
  BY <1>0, <1>5, OneSnapshot
<1> QED BY <1>6 DEF n

LEMMA TrackState ==
  ASSUME OnTrack, compareState
  PROVE  Position'
<1>0. /\ job.source = src.log /\ Standing /\ SourceInv /\ TypeInv /\ Begins /\ WorkerInv
      /\ UNCHANGED src /\ rep.divs = {} /\ rep.status = "running" /\ job.pc = "finish"
      /\ ~tgt.drift /\ tgt.drift \in BOOLEAN /\ rep \in ReplayRow /\ job \in Job
      /\ tgt.log \in Seq(Event)
      /\ src.log \in Seq(Event) /\ src.drift = FALSE /\ Len(src.log) \in Nat
      /\ Len(tgt.log) \in Nat /\ Len(tgt.log) \in 1..Len(src.log)
      /\ \A i \in 1..Len(tgt.log) : i \in 1..Len(src.log) /\ tgt.log[i] = src.log[i]
  BY TrackFacts, TargetFields, BeginsFacts, SourceEvents DEF OnTrack, compareState, at
<1>1. tgt.tick = rep.toTick /\ job.compare
  BY <1>0 DEF WorkerInv
<1>2. tgt.drift = FALSE
  BY <1>0
<1>3. sourceHash \in {NoHash, hashOf(tgt)}
  <2>1. CASE tgt.tick = src.tick
    <3>1. Len(tgt.log) = Len(src.log)
      BY <1>0, <1>1, <2>1 DEF Standing
    <3>2. tgt.log = src.log
      BY <1>0, <3>1, SeqEqual
    <3>3. sourceHash = hashOf(src)
      BY <1>1, <2>1 DEF sourceHash
    <3> QED BY <1>0, <1>2, <2>1, <3>2, <3>3 DEF hashOf
  <2>2. CASE tgt.tick # src.tick /\ hasSnapshot(src.log, tgt.tick)
    <3> DEFINE i == CHOOSE i \in 1..Len(src.log) :
                      src.log[i].type = "snapshot" /\ src.log[i].tick = tgt.tick
    <3>1. /\ i \in 1..Len(src.log) /\ src.log[i].type = "snapshot"
          /\ src.log[i].tick = tgt.tick
      BY <2>2 DEF hasSnapshot
    <3>2. sourceHash = logicalStateHash(tgt.tick, SubSeq(src.log, 1, i), src.log[i].v = "drift")
      BY <1>1, <2>2 DEF sourceHash, snapshotHash
    <3> HIDE DEF i
    <3>3. i = Len(tgt.log)
      BY <1>0, <1>1, <2>2, <3>1, SnapshotAtEnd
    <3>4. (src.log[i].v = "drift") = FALSE
      BY <1>0, <3>1 DEF SourceInv
    <3>5. SubSeq(src.log, 1, i) = tgt.log
      <4>1. /\ SubSeq(src.log, 1, i) \in Seq(Event) /\ Len(SubSeq(src.log, 1, i)) = i
            /\ \A j \in 1..i : SubSeq(src.log, 1, i)[j] = src.log[j]
        BY <1>0, <3>1, SubSeqProperties
      <4> QED BY <1>0, <3>3, <4>1, SeqEqual
    <3> QED BY <1>2, <3>2, <3>4, <3>5 DEF hashOf
  <2>3. CASE tgt.tick # src.tick /\ ~hasSnapshot(src.log, tgt.tick)
    BY <1>1, <2>3 DEF sourceHash, snapshotHash
  <2> QED BY <2>1, <2>2, <2>3
<1>4. rep' = [rep EXCEPT !.divs = rep.divs] /\ UNCHANGED tgt /\ job' = [job EXCEPT !.pc = "conclude"]
  BY <1>3 DEF compareState, goto
<1>5. rep' = rep
  BY <1>0, <1>4 DEF ReplayRow
<1>6. job'.pc = "conclude" /\ job'.source = src.log
  BY <1>0, <1>4 DEF Job
<1>7. Closed(lastOf(tgt.log))
  BY <1>0 DEF Standing
<1> QED BY <1>0, <1>4, <1>5, <1>6, <1>7, TrackQuiet DEF Answer

LEMMA TrackFinish ==
  ASSUME OnTrack, finish
  PROVE  Position'
<1>0. rep \in ReplayRow /\ rep.divs = {} /\ UNCHANGED src
  BY TrackFacts, TargetFields DEF OnTrack
<1> DEFINE v == IF rep.divs = {} THEN "completed" ELSE "diverged"
           n == Len(tgt.log)
<1>1. /\ rep' = [rep EXCEPT !.status = v, !.tick = tgt.tick, !.compared = n,
                            !.stateHash = sourceHash]
      /\ job' = Idle /\ UNCHANGED tgt /\ v = "completed"
  BY <1>0 DEF finish
<1> HIDE DEF v, n
<1>2. rep'.divs = {} /\ rep'.toTick = rep.toTick /\ rep'.status = "completed"
  BY <1>0, <1>1 DEF ReplayRow
<1>3. job'.pc = "idle"
  BY <1>1 DEF Idle
<1> QED BY <1>1, <1>2, <1>3, TrackQuiet DEF Answer

LEMMA TrackCreate ==
  ASSUME IInv, NEW mode \in {"strict", "observe"}, NEW toTick \in 0..EndTick,
         NEW cacheOk \in BOOLEAN, NEW same \in BOOLEAN,
         replaySimulation(mode, toTick, cacheOk, same), OnCourse'
  PROVE  Position'
<1>0. /\ rep.status = "none" /\ job = Idle /\ UNCHANGED <<src, job>>
      /\ src.log \in Seq(Event) /\ Len(src.log) \in Nat /\ SourceInv
  BY SourceEvents DEF replaySimulation, IInv, ReplayInv, TargetInv
<1> DEFINE ns == ~same
           l == IF same THEN Genesis ELSE <<Genesis[1], event("work", "none", 0)>>
           d == (IF same THEN {} ELSE {"event_mismatch"})
                  \cup (IF cacheOk THEN {} ELSE {"cache_incomplete"})
           n == Len(Genesis)
           j == commands(src.log)
<1>1. /\ tgt' = [NoRun EXCEPT !.log = l, !.drift = ns]
      /\ rep' = [NoReplay EXCEPT !.status = "running", !.mode = mode, !.toTick = toTick,
                                 !.compared = n, !.journal = j, !.cacheOk = cacheOk, !.divs = d]
  BY DEF replaySimulation
<1>2. same /\ cacheOk => d = {} /\ l = Genesis
  OBVIOUS
<1> HIDE DEF ns, l, d, n, j
<1>3. tgt'.drift = ns /\ tgt'.log = l /\ tgt'.tick = 0
  BY <1>1 DEF NoRun
<1>4. rep'.cacheOk = cacheOk /\ rep'.divs = d
  BY <1>1 DEF NoReplay
<1>5. same /\ cacheOk
  BY <1>3, <1>4 DEF OnCourse, Undisturbed, ns
<1> DEFINE g == event("command", "create", 0)
           f == event("fact", "create", 0)
<1>6. Genesis = <<g, f>> /\ f.tick = 0 /\ f.type = "fact"
  BY Fields DEF Genesis, commandEvents
<1> HIDE DEF g, f
<1>7. Len(Genesis) = 2 /\ lastOf(Genesis) = f
  BY <1>6 DEF lastOf
<1>8. Extends(src.log, Genesis)
  BY <1>0 DEF SourceInv, Extends
<1>9. Begins'
  <2>1. tgt'.log = Genesis
    BY <1>2, <1>3, <1>5
  <2>2. Len(Genesis) >= 1 /\ lastOf(Genesis).tick = 0
    BY <1>6, <1>7
  <2> QED BY <1>0, <1>3, <1>8, <2>1, <2>2 DEF Begins
<1>10. Closed(lastOf(tgt'.log))
  BY <1>2, <1>3, <1>5, <1>6, <1>7 DEF Closed, Opens, Due
<1>11. job'.pc = "idle"
  BY <1>0 DEF Idle
<1>12. Standing'
  BY <1>3, <1>10, <1>11 DEF Standing, Answer
<1> QED BY <1>2, <1>4, <1>5, <1>9, <1>11, <1>12 DEF Position

-----------------------------------------------------------------------------
(* Exact replay *)

(* The inductive invariant *)
ExactInv ==
  /\ IInv /\ Clean /\ JournalKept
  /\ OnCourse => Position

LEMMA ExactInit == Init => ExactInv
<1> SUFFICES ASSUME Init
             PROVE  ExactInv
  OBVIOUS
<1>0. IInv /\ src = NoSource /\ rep = NoReplay
  BY IInvInit DEF Init
<1> DEFINE g == event("command", "create", 0)
           f == event("fact", "create", 0)
<1>1. src.log = <<g, f>> /\ src.tick = 0 /\ src.call = "none"
  BY <1>0 DEF NoSource, Genesis, commandEvents
<1>2. /\ g.type = "command" /\ g.v = "create" /\ g.tick = 0
      /\ f.type = "fact" /\ f.v = "create" /\ f.tick = 0
  BY Fields
<1> HIDE DEF g, f
<1>3. Succ(g, f)
  BY <1>2 DEF Succ, Opens, Due
<1>4. Len(src.log) = 2 /\ src.log[1] = g /\ src.log[2] = f
  BY <1>1
<1>5. InStep(src.log) /\ lastOf(src.log) = f
  BY <1>3, <1>4 DEF InStep, lastOf
<1>6. ~snapshotMissing(src)
  BY <1>1 DEF snapshotMissing, snapshotDue
<1>7. End(f, src)
  BY <1>1, <1>2, <1>6 DEF End, Opens, Due
<1> QED BY <1>0, <1>5, <1>7 DEF ExactInv, Clean, JournalKept, OnCourse, NoReplay

LEMMA ExactStutter ==
  ASSUME ExactInv, UNCHANGED vars
  PROVE  ExactInv'
<1>1. IInv' /\ UNCHANGED <<src, tgt, rep, job, harmed>>
  BY IInvNext DEF ExactInv, vars
<1>2. Clean'
  BY <1>1 DEF ExactInv, Clean, End, snapshotMissing, hasSnapshot, snapshotDue
<1>3. JournalKept'
  BY <1>1 DEF ExactInv, JournalKept
<1>4. OnCourse' <=> OnCourse
  BY <1>1 DEF OnCourse, Undisturbed
<1>5. Position' <=> Position
  BY <1>1 DEF Position, Begins, Standing, NextIs, Closed, Opens, Due, snapshotDue, lastOf, Extends
<1> QED BY <1>1, <1>2, <1>3, <1>4, <1>5 DEF ExactInv

LEMMA ExactNext == ExactInv /\ [Next]_vars => ExactInv'
<1> SUFFICES ASSUME ExactInv, [Next]_vars
             PROVE  ExactInv'
  OBVIOUS
<1>1. CASE UNCHANGED vars
  BY <1>1, ExactStutter
<1>2. CASE Next
  <2>1. IInv /\ IInv' /\ SourceInv /\ ReplayInv /\ Clean /\ JournalKept
    BY IInvNext DEF ExactInv, IInv
  <2>2. JournalKept'
    BY <2>1, JournalKeptStep
  <2>3. Clean'
    <3>1. CASE SourceNext
      BY <2>1, <3>1, CleanStep
    <3>2. CASE ~SourceNext
      <4>1. UNCHANGED src
        BY <1>2, <2>1, <3>2, WorkerStep DEF Next, replaySimulation, controlTarget, crash
      <4> QED BY <2>1, <4>1 DEF Clean, End, snapshotMissing, hasSnapshot, snapshotDue
    <3> QED BY <3>1, <3>2
  <2>4. ASSUME OnCourse'
        PROVE  Position'
    <3>1. CASE rep.status = "none"
      <4>1. PICK mode \in {"strict", "observe"}, toTick \in 0..EndTick, cacheOk \in BOOLEAN,
                 sameGenesis \in BOOLEAN : replaySimulation(mode, toTick, cacheOk, sameGenesis)
        <5>1. ~SourceNext
          BY <2>4, <3>1 DEF OnCourse, SourceNext, request, sourceCall, sourceCharge, sourceCommit,
             sourceSnapshot, sourceComplete, sourceCrash, sourceFail, replayUntouched
        <5>2. ~WorkerNext /\ ~controlTarget /\ ~crash
          BY <3>1 DEF WorkerNext, beginReplay, compareReplayRange, updateProgress, haltStrict,
             applyReplayCommand, applyCompletion, leaveBoundary, prepare, executeTick, sealTick,
             executionFails, compareState, finish, at, controlTarget, crash
        <5> QED BY <1>2, <5>1, <5>2 DEF Next
      <4> QED BY <2>1, <2>4, <4>1, TrackCreate
    <3>2. CASE rep.status # "none"
      <4>1. /\ OnCourse /\ src' = src /\ rep.status = "running" /\ (WorkerNext \/ crash)
        BY <1>2, <2>1, <2>4, <3>2, Stays
      <4>2. Position
        BY <4>1 DEF ExactInv
      <4>3. Running
        <5>1. faults' \in 0..MaxFaults
          BY <2>1 DEF IInv, ReplayInv, TypeInv
        <5> QED BY <2>1, <4>1, <5>1 DEF Running, ReplayInv
      <4>4. InStep(src.log) /\ Closed(lastOf(src.log)) /\ lastOf(src.log).tick = src.tick
        <5>1. src.clean /\ Settled
          BY <2>1, <3>2, <4>1 DEF OnCourse, Undisturbed, SourceInv
        <5> QED BY <2>1, <5>1 DEF Clean, End, Settled, Closed
      <4>5. OnTrack
        BY <4>1, <4>2, <4>3, <4>4 DEF OnTrack
      <4>6. ~harmed' /\ ~tgt'.drift
        BY <2>4 DEF OnCourse, Undisturbed
      <4>7. CASE crash
        BY <4>5, <4>6, <4>7, TrackCrash
      <4>8. CASE WorkerNext
        <5>1. CASE \E a \in Answer : prepare(a)
          BY <4>5, <5>1, TrackPrepare
        <5>2. CASE \E o \in Outcomes : executeTick(o)
          BY <4>5, <4>6, <5>2, TrackTick
        <5>3. CASE executionFails
          BY <4>5, <4>6, <5>3, TrackFail DEF executionFails
        <5> QED BY <4>5, <4>6, <4>8, <5>1, <5>2, <5>3, TrackBegin, TrackCompare, TrackProgress,
                   TrackHalt, TrackCommand, TrackCompletion, TrackLeave, TrackSeal, TrackState,
                   TrackFinish DEF WorkerNext
      <4> QED BY <4>1, <4>7, <4>8
    <3> QED BY <3>1, <3>2
  <2> QED BY <2>1, <2>2, <2>3, <2>4 DEF ExactInv
<1> QED BY <1>1, <1>2

(* A source that no failure touched is reproduced exactly, for every history
   of commands, ticks, calls and snapshots it may have had, every tick the
   replay may stop at and every place but the two inside a tick at which the
   worker may have been interrupted (executeReplay, replayJournalDigest,
   ReplayEvidenceLlmProvider, ensurePeriodicSnapshot). *)
THEOREM ExactReplayHolds == Spec => []ExactReplay
<1>1. ExactInv => ExactReplay
  <2> SUFFICES ASSUME ExactInv, Undisturbed, ~harmed
               PROVE  rep.divs = {}
    BY DEF ExactReplay
  <2>1. CASE rep.status = "none"
    BY <2>1 DEF ExactInv, IInv, ReplayInv, TargetInv, NoReplay
  <2>2. CASE rep.status # "none"
    BY <2>2 DEF ExactInv, OnCourse, Position
  <2> QED BY <2>1, <2>2
<1> QED BY <1>1, ExactInit, ExactNext, PTL DEF Spec

-----------------------------------------------------------------------------
(* Snapshots: the inductive invariant of the store.                        *)

CreatePc == {"backup", "inspect", "flush", "rename", "flushDir", "commit"}
RestorePc == {"copy", "verify", "flushCopy", "renameCopy", "flushDest", "restored"}

record == work.plan.record
whole(r, f) == matches(r, f) /\ r \in f.db.rows

(* The ticks the medium damaged have a row, so that no later attempt will
   write their file again. *)
DecayedTorn ==
  \A t \in decayed : getAtTick(t) # {} /\ files[final(t)] = Torn /\ dir[final(t)] = Torn

(* While create() works, its tick has no row, and the hash it will record is
   that of the planned state with the two events of the snapshot. *)
PlanFresh ==
  work.pc \in CreatePc =>
    /\ getAtTick(planned) = {}
    /\ work.plan.initial.tick = planned
    /\ record.hash = [work.plan.initial EXCEPT !.seq = @ + 2]

(* How far the file of the planned snapshot has come at each step. *)
Staged ==
  /\ work.pc \in {"backup", "inspect", "flush", "rename"} => files[final(planned)].kind = "absent"
  /\ work.pc \in {"flush", "rename"} => whole(record, files[temporary(planned)])
  /\ work.pc = "rename" => files[temporary(planned)].synced
  /\ work.pc \in {"flushDir", "commit"} =>
       whole(record, files[final(planned)]) /\ files[final(planned)].synced
  /\ work.pc = "commit" => dir[final(planned)] = files[final(planned)]

(* A restore copies the file of a row; a copy that passes the comparison of
   the hash is whole. *)
RestoreKept ==
  /\ work.pc \in RestorePc => record \in live.rows
  /\ work.pc = "verify" => (matches(record, files[copy]) => record \in files[copy].db.rows)
  /\ work.pc \in {"flushCopy", "renameCopy"} => whole(record, files[copy])
  /\ work.pc = "renameCopy" => files[copy].synced

(* What the destination is, and what a power failure would make of it. *)
DestinationWhole ==
  \A f \in {files[destination], dir[destination]} :
    f.synced /\ (f.kind # "absent" => \E r \in live.rows : whole(r, f))

StoreInv ==
  /\ StoreTypeOK /\ RowsBacked /\ DecayedTorn /\ PlanFresh /\ Staged /\ RestoreKept
  /\ DestinationWhole

-----------------------------------------------------------------------------
(* Paths and files *)

Tick == 0..MaxTick

(* The paths of a tick differ from those of another and from a restore's. *)
LEMMA PathFacts ==
  /\ \A t \in Tick : final(t) \in SnapshotDir /\ temporary(t) \in SnapshotDir
  /\ \A t, u : final(t) = final(u) => t = u
  /\ \A t, u : final(t) # temporary(u)
  /\ \A t : final(t) \notin RestoreDir /\ temporary(t) \notin RestoreDir
  /\ destination # copy /\ RestoreDir = {destination, copy}
  /\ destination \notin SnapshotDir /\ copy \notin SnapshotDir
  /\ SnapshotDir \subseteq Path /\ RestoreDir \subseteq Path
BY DEF Tick, final, temporary, destination, copy, SnapshotDir, RestoreDir, Path

LEMMA FileFacts ==
  /\ Absent \in File /\ Torn \in File /\ \A d \in Db : Holds(d) \in File
  /\ Absent.kind = "absent" /\ Torn.kind = "torn" /\ Absent.synced /\ Torn.synced
  /\ \A d : Holds(d).kind = "db" /\ Holds(d).db = d
BY SnapshotAssumption DEF Absent, Torn, Holds, NoDb, File, Db

Plan == [record : Row, initial : Hash]

LEMMA AtRestType == AtRest \in [pc : Pc, plan : Plan] /\ AtRest.pc = "idle"
BY SnapshotAssumption DEF AtRest, Pc, Plan, NoPlan, NoRow, NoDb, computeLogicalStateHash, Row, Hash

-----------------------------------------------------------------------------
(* Types *)

LEMMA StoreInitType == StoreInit => StoreTypeOK
BY FileFacts, AtRestType, SnapshotAssumption DEF StoreInit, StoreTypeOK, NoDb, Db, Plan

LEMMA PlannedType == StoreTypeOK => planned \in Tick /\ record \in Row /\ work.plan \in Plan
BY DEF StoreTypeOK, planned, record, Row, Tick, Plan

LEMMA AppliedType ==
  ASSUME StoreTypeOK, NEW d \in Db
  PROVE  applySnapshotPlan(d) \in Db
<1>1. d.seq + 2 \in Nat
  BY DEF Db
<1>2. d.rows \cup {record} \in SUBSET Row
  BY PlannedType DEF Db
<1> QED BY <1>1, <1>2 DEF applySnapshotPlan, record, Db

LEMMA StoreStepType == StoreTypeOK /\ [StoreNext]_storeVars => StoreTypeOK'
<1> SUFFICES ASSUME StoreTypeOK, [StoreNext]_storeVars PROVE StoreTypeOK'
  OBVIOUS
<1> USE SnapshotAssumption
<1>1. CASE commitTick
  <2>1. live.tick + 1 \in 0..MaxTick /\ live.seq + 1 \in Nat
    BY <1>1 DEF StoreTypeOK, commitTick, Db
  <2>2. live' \in Db
    BY <1>1, <2>1 DEF StoreTypeOK, commitTick, Db
  <2> QED BY <1>1, <2>2 DEF StoreTypeOK, commitTick
<1>2. CASE appendEvent
  BY <1>2 DEF StoreTypeOK, appendEvent, Db
<1>3. CASE create
  <2>1. live.tick \in Tick /\ live.seq \in Nat
    BY DEF StoreTypeOK, Db, Tick
  <2>2. buildSnapshotPlan \in Plan
    BY <2>1 DEF buildSnapshotPlan, computeLogicalStateHash, Plan, Row, Hash, Tick
  <2>3. files' \in [Path -> File]
    BY <1>3, FileFacts DEF StoreTypeOK, create, removeDatabaseFiles
  <2>4. work' \in [pc : Pc, plan : Plan]
    BY <1>3, <2>2 DEF create, Pc
  <2> QED BY <1>3, <2>3, <2>4 DEF StoreTypeOK, create, Plan
<1>4. CASE backup
  <2>1. Holds(live) \in File
    BY FileFacts DEF StoreTypeOK
  <2> QED BY <1>4, <2>1 DEF StoreTypeOK, backup, proceedTo, Pc
<1>5. CASE finalizeSnapshotDatabase
  <2>1. files[temporary(planned)] \in File
    BY PlannedType, PathFacts DEF StoreTypeOK
  <2>2. Holds(applySnapshotPlan(files[temporary(planned)].db)) \in File
    BY <2>1, AppliedType, FileFacts DEF File
  <2> QED BY <1>5, <2>2 DEF StoreTypeOK, finalizeSnapshotDatabase, proceedTo, Pc
<1>6. ASSUME NEW from \in Pc, NEW to \in Pc, NEW path \in Path, flushFile(from, to, path)
      PROVE  StoreTypeOK'
  <2>1. files[path] \in File
    BY DEF StoreTypeOK
  <2>2. [files[path] EXCEPT !.synced = TRUE] \in File
    BY <2>1 DEF File
  <2> QED BY <1>6, <2>2 DEF StoreTypeOK, flushFile, proceedTo
<1>7. ASSUME NEW from \in Pc, NEW to \in Pc, NEW old \in Path, NEW new \in Path,
             rename(from, to, old, new)
      PROVE  StoreTypeOK'
  BY <1>7, FileFacts DEF StoreTypeOK, rename, proceedTo
<1>8. ASSUME NEW from \in Pc, NEW to \in Pc, NEW paths, flushDirectory(from, to, paths)
      PROVE  StoreTypeOK'
  BY <1>8 DEF StoreTypeOK, flushDirectory, proceedTo
<1>9. CASE commitMetadata
  BY <1>9, AppliedType, AtRestType DEF StoreTypeOK, commitMetadata, Plan
<1>10. ASSUME NEW kept \in SUBSET {temporary(planned), final(planned)}, failCreate(kept)
       PROVE  StoreTypeOK'
  <2>1. files' \in [Path -> File]
    BY <1>10, FileFacts DEF StoreTypeOK, failCreate
  <2>2. dir' \in [Path -> File]
    BY <1>10, <2>1 DEF StoreTypeOK, failCreate
  <2> QED BY <1>10, <2>1, <2>2, AtRestType DEF StoreTypeOK, failCreate, Plan
<1>11. ASSUME NEW r \in live.rows, restoreTo(r) PROVE StoreTypeOK'
  <2>1. [NoPlan EXCEPT !.record = r] \in Plan
    BY DEF StoreTypeOK, Db, Plan, NoPlan, Row, Hash, computeLogicalStateHash, NoDb, NoRow
  <2> QED BY <1>11, <2>1, FileFacts DEF StoreTypeOK, restoreTo, Pc, Plan
<1>12. CASE copyFile
  <2>1. files[final(planned)] \in File
    BY PlannedType, PathFacts DEF StoreTypeOK
  <2>2. [files[final(planned)] EXCEPT !.synced = FALSE] \in File
    BY <2>1 DEF File
  <2> QED BY <1>12, <2>2 DEF StoreTypeOK, copyFile, proceedTo, Pc
<1>13. CASE verifyCopy
  BY <1>13 DEF StoreTypeOK, verifyCopy, proceedTo, Pc
<1>14. CASE finishRestore
  BY <1>14, AtRestType DEF StoreTypeOK, finishRestore, Plan
<1>15. CASE failRestore
  BY <1>15, FileFacts, AtRestType DEF StoreTypeOK, failRestore, Plan
<1>16. CASE processExit
  BY <1>16, AtRestType DEF StoreTypeOK, processExit, Plan
<1>17. ASSUME NEW old, NEW torn, powerFailure(old, torn) PROVE StoreTypeOK'
  <2> DEFINE before(p) == IF p \in old THEN dir[p] ELSE files[p]
  <2>1. \A p \in Path : before(p) \in File
    BY DEF StoreTypeOK
  <2>2. \A f \in File : [f EXCEPT !.synced = TRUE] \in File
    BY DEF File
  <2>3. files' = [p \in Path |-> IF p \in torn /\ ~before(p).synced THEN Torn
                                 ELSE [before(p) EXCEPT !.synced = TRUE]]
    BY <1>17 DEF powerFailure
  <2>4. files' \in [Path -> File]
    BY <2>1, <2>2, <2>3, FileFacts
  <2> QED BY <1>17, <2>4, AtRestType DEF StoreTypeOK, powerFailure, Plan
<1>18. ASSUME NEW t \in 0..MaxTick, decay(t) PROVE StoreTypeOK'
  BY <1>18, FileFacts DEF StoreTypeOK, decay
<1>19. CASE UNCHANGED storeVars
  BY <1>19 DEF StoreTypeOK, storeVars
<1>20. {destination, copy, temporary(planned), final(planned)} \subseteq Path
  BY PathFacts, PlannedType
<1>21. CASE createStep
  BY <1>3, <1>4, <1>5, <1>6, <1>7, <1>8, <1>9, <1>20, <1>21 DEF createStep, Pc
<1>22. CASE restoreStep
  BY <1>6, <1>7, <1>8, <1>11, <1>12, <1>13, <1>14, <1>20, <1>22 DEF restoreStep, Pc
<1>23. CASE fault
  BY <1>10, <1>15, <1>16, <1>17, <1>18, <1>23 DEF fault
<1> QED BY <1>1, <1>2, <1>19, <1>21, <1>22, <1>23 DEF StoreNext

(* Every reachable state of the store is well typed, for any number of ticks
   and any amount of other work. *)
THEOREM StoreTypeCorrect == StoreSpec => []StoreTypeOK
BY StoreInitType, StoreStepType, PTL DEF StoreSpec

-----------------------------------------------------------------------------
(* What does not move a conjunct of Inv *)

LEMMA RowType == StoreTypeOK => live.rows \subseteq Row /\ \A r \in live.rows : r.tick \in Tick
BY DEF StoreTypeOK, Db, Row, Tick

LEMMA BackedKept ==
  ASSUME StoreTypeOK, RowsBacked, DecayedTorn, live'.rows = live.rows, decayed' = decayed,
         \A r \in live.rows : /\ files'[final(r.tick)] = files[final(r.tick)]
                              /\ dir'[final(r.tick)] = dir[final(r.tick)]
  PROVE  RowsBacked' /\ DecayedTorn'
<1>1. RowsBacked'
  BY DEF RowsBacked, restorable, matches
<1>2. ASSUME NEW t \in decayed
      PROVE  getAtTick(t)' # {} /\ files'[final(t)] = Torn /\ dir'[final(t)] = Torn
  <2>1. PICK r \in live.rows : r.tick = t
    BY DEF DecayedTorn, getAtTick
  <2> QED BY <2>1 DEF DecayedTorn, getAtTick
<1> QED BY <1>1, <1>2 DEF DecayedTorn

LEMMA DestinationKept ==
  ASSUME DestinationWhole, live.rows \subseteq live'.rows,
         files'[destination] = files[destination], dir'[destination] = dir[destination]
  PROVE  DestinationWhole'
BY DEF DestinationWhole, whole, matches

LEMMA IdleKept ==
  ASSUME work' = AtRest
  PROVE  PlanFresh' /\ Staged' /\ RestoreKept'
BY AtRestType DEF PlanFresh, Staged, RestoreKept, CreatePc, RestorePc

(* The rows of other ticks lie elsewhere than the file of the plan. *)
LEMMA PlannedApart ==
  ASSUME StoreTypeOK, getAtTick(planned) = {}, NEW r \in live.rows
  PROVE  final(r.tick) \notin {final(planned), temporary(planned), destination, copy}
<1>1. r.tick # planned
  BY DEF getAtTick
<1> QED BY <1>1, PathFacts DEF RestoreDir

LEMMA RowApart ==
  ASSUME NEW t
  PROVE  final(t) \notin {destination, copy}
BY PathFacts

-----------------------------------------------------------------------------
(* The inductive invariant *)

LEMMA StoreInitInv == StoreInit => StoreInv
<1> SUFFICES ASSUME StoreInit PROVE StoreInv
  OBVIOUS
<1>1. StoreTypeOK
  BY StoreInitType
<1>2. RowsBacked /\ DecayedTorn
  BY DEF StoreInit, NoDb, RowsBacked, DecayedTorn
<1>3. PlanFresh /\ Staged /\ RestoreKept
  BY AtRestType DEF StoreInit, PlanFresh, Staged, RestoreKept, CreatePc, RestorePc
<1>4. DestinationWhole
  BY PathFacts, FileFacts DEF StoreInit, DestinationWhole
<1> QED BY <1>1, <1>2, <1>3, <1>4 DEF StoreInv

(* Ticks and events of other handlers, which come between two synchronous
   sections only. *)
LEMMA OtherWork == ASSUME StoreInv, commitTick \/ appendEvent PROVE StoreInv'
<1>1. StoreTypeOK'
  BY StoreStepType DEF StoreInv, StoreNext
<1>2. /\ UNCHANGED <<files, dir, work, decayed>> /\ live'.rows = live.rows
      /\ work.pc \in {"idle", "backup"}
  BY DEF StoreInv, StoreTypeOK, Db, commitTick, appendEvent, Quiet
<1>3. RowsBacked' /\ DecayedTorn'
  BY <1>2, BackedKept DEF StoreInv
<1>4. PlanFresh' /\ Staged' /\ RestoreKept'
  BY <1>2 DEF StoreInv, PlanFresh, Staged, RestoreKept, planned, record, getAtTick, CreatePc, RestorePc
<1>5. DestinationWhole'
  BY <1>2, DestinationKept DEF StoreInv
<1> QED BY <1>1, <1>3, <1>4, <1>5 DEF StoreInv

LEMMA CreateInv == ASSUME StoreInv, create PROVE StoreInv'
<1>1. StoreTypeOK'
  BY StoreStepType DEF StoreInv, StoreNext, createStep
<1>2. live.tick \in Tick /\ live.seq \in Nat
  BY DEF StoreInv, StoreTypeOK, Db, Tick
<1>3. /\ work'.pc = "backup" /\ planned' = live.tick
      /\ work'.plan.initial.tick = live.tick
      /\ record'.hash = [work'.plan.initial EXCEPT !.seq = @ + 2]
      /\ UNCHANGED <<live, dir, decayed>>
  BY DEF create, buildSnapshotPlan, planned, record, computeLogicalStateHash
<1>4. getAtTick(live.tick) = {} /\ getAtTick(planned)' = {}
  BY <1>3 DEF create, getAtTick
<1>5. ASSUME NEW p \in Path, p \notin {final(live.tick), temporary(live.tick)}
      PROVE  files'[p] = files[p]
  BY <1>5 DEF create, removeDatabaseFiles, StoreInv, StoreTypeOK
<1>6. \A r \in live.rows : files'[final(r.tick)] = files[final(r.tick)]
  <2> SUFFICES ASSUME NEW r \in live.rows PROVE files'[final(r.tick)] = files[final(r.tick)]
    OBVIOUS
  <2>1. r.tick # live.tick /\ r.tick \in Tick
    BY <1>4, RowType DEF getAtTick, StoreInv
  <2> QED BY <2>1, <1>5, PathFacts
<1>7. RowsBacked' /\ DecayedTorn'
  BY <1>3, <1>6, BackedKept DEF StoreInv
<1>8. PlanFresh'
  BY <1>3, <1>4 DEF PlanFresh
<1>9. Staged'
  <2>1. files'[final(live.tick)] = Absent
    BY <1>2, PathFacts DEF create, removeDatabaseFiles, StoreInv, StoreTypeOK
  <2> QED BY <1>3, <2>1, FileFacts DEF Staged
<1>10. RestoreKept'
  BY <1>3 DEF RestoreKept, RestorePc
<1>11. DestinationWhole'
  BY <1>3, <1>5, PathFacts, DestinationKept DEF StoreInv, RestoreDir
<1> QED BY <1>1, <1>7, <1>8, <1>9, <1>10, <1>11 DEF StoreInv

(* A step of create() that writes no file but those of its tick, and none that
   a row names. *)
LEMMA CreateStepKept ==
  ASSUME StoreInv, work.pc \in CreatePc, live' = live, decayed' = decayed,
         work' = [work EXCEPT !.pc = work'.pc], work'.pc \notin RestorePc,
         \A p \in Path \ {final(planned), temporary(planned)} : files'[p] = files[p],
         \A p \in Path \ SnapshotDir : dir'[p] = dir[p],
         \A r \in live.rows : dir'[final(r.tick)] = dir[final(r.tick)]
  PROVE  /\ RowsBacked' /\ DecayedTorn' /\ PlanFresh' /\ RestoreKept' /\ DestinationWhole'
         /\ planned' = planned /\ record' = record
<1>1. planned' = planned /\ record' = record /\ work'.plan = work.plan
  BY DEF StoreInv, StoreTypeOK, planned, record
<1>2. getAtTick(planned) = {}
  BY DEF StoreInv, PlanFresh
<1>3. \A r \in live.rows : files'[final(r.tick)] = files[final(r.tick)]
  BY <1>2, PlannedApart, RowType, PathFacts DEF StoreInv
<1>4. RowsBacked' /\ DecayedTorn'
  BY <1>3, BackedKept DEF StoreInv
<1>5. PlanFresh'
  BY <1>1 DEF StoreInv, PlanFresh, getAtTick
<1>6. RestoreKept'
  BY DEF RestoreKept, RestorePc
<1>7. DestinationWhole'
  BY PathFacts, DestinationKept DEF StoreInv, RestoreDir
<1> QED BY <1>1, <1>4, <1>5, <1>6, <1>7

LEMMA BackupInv == ASSUME StoreInv, backup PROVE StoreInv'
<1>1. StoreTypeOK'
  BY StoreStepType DEF StoreInv, StoreNext, createStep
<1>2. planned \in Tick /\ work.pc = "backup" /\ work'.pc = "inspect"
  BY PlannedType DEF StoreInv, StoreTypeOK, backup, proceedTo
<1>3. /\ RowsBacked' /\ DecayedTorn' /\ PlanFresh' /\ RestoreKept' /\ DestinationWhole'
      /\ planned' = planned /\ record' = record
  BY <1>2, CreateStepKept DEF StoreInv, StoreTypeOK, backup, proceedTo, CreatePc, RestorePc
<1>4. files'[final(planned)] = files[final(planned)]
  BY <1>2, PathFacts DEF StoreInv, StoreTypeOK, backup
<1>5. Staged'
  BY <1>2, <1>3, <1>4 DEF StoreInv, Staged
<1> QED BY <1>1, <1>3, <1>5 DEF StoreInv

LEMMA FinalizeInv == ASSUME StoreInv, finalizeSnapshotDatabase PROVE StoreInv'
<1> DEFINE d == files[temporary(planned)].db
           e == applySnapshotPlan(d)
<1>1. StoreTypeOK'
  BY StoreStepType DEF StoreInv, StoreNext, createStep
<1>2. planned \in Tick /\ work.pc = "inspect" /\ work'.pc = "flush"
  BY PlannedType DEF StoreInv, StoreTypeOK, finalizeSnapshotDatabase, proceedTo
<1>3. /\ RowsBacked' /\ DecayedTorn' /\ PlanFresh' /\ RestoreKept' /\ DestinationWhole'
      /\ planned' = planned /\ record' = record
  BY <1>2, CreateStepKept
     DEF StoreInv, StoreTypeOK, finalizeSnapshotDatabase, proceedTo, CreatePc, RestorePc
<1>4. /\ files'[final(planned)] = files[final(planned)]
      /\ files'[temporary(planned)] = Holds(e)
  BY <1>2, PathFacts DEF StoreInv, StoreTypeOK, finalizeSnapshotDatabase
<1>5. d \in Db
  BY <1>2, PathFacts DEF StoreInv, StoreTypeOK, File
<1>6. computeLogicalStateHash(d) = work.plan.initial
  BY DEF finalizeSnapshotDatabase, appliesTo
<1>7. record \in e.rows /\ e.tick = d.tick /\ e.seq = d.seq + 2
  <2>1. e = [d EXCEPT !.seq = d.seq + 2, !.rows = d.rows \cup {record}]
    BY DEF applySnapshotPlan, record
  <2> HIDE DEF d, e
  <2> QED BY <1>5, <2>1 DEF Db
<1>8. record.hash = computeLogicalStateHash(e) /\ record.tick = e.tick
  <2>1. /\ work.plan.initial.tick = record.tick
        /\ record.hash = [work.plan.initial EXCEPT !.seq = @ + 2]
    BY <1>2 DEF StoreInv, PlanFresh, CreatePc, planned, record
  <2>2. work.plan.initial = [tick |-> d.tick, seq |-> d.seq]
    BY <1>6 DEF computeLogicalStateHash
  <2> HIDE DEF d, e
  <2>3. record.hash = [tick |-> d.tick, seq |-> d.seq + 2] /\ record.tick = d.tick
    BY <2>1, <2>2
  <2> QED BY <1>7, <2>3 DEF computeLogicalStateHash
<1>9. whole(record, Holds(e))
  BY <1>7, <1>8, FileFacts DEF whole, matches
<1>10. Staged'
  BY <1>2, <1>3, <1>4, <1>9 DEF StoreInv, Staged
<1> QED BY <1>1, <1>3, <1>10 DEF StoreInv

LEMMA FlushInv ==
  ASSUME StoreInv, flushFile("flush", "rename", temporary(planned))
  PROVE  StoreInv'
<1>1. StoreTypeOK'
  BY StoreStepType DEF StoreInv, StoreNext, createStep
<1>2. planned \in Tick /\ work.pc = "flush" /\ work'.pc = "rename"
  BY PlannedType DEF StoreInv, StoreTypeOK, flushFile, proceedTo
<1>3. /\ RowsBacked' /\ DecayedTorn' /\ PlanFresh' /\ RestoreKept' /\ DestinationWhole'
      /\ planned' = planned /\ record' = record
  BY <1>2, CreateStepKept DEF StoreInv, StoreTypeOK, flushFile, proceedTo, CreatePc, RestorePc
<1>4. /\ files'[final(planned)] = files[final(planned)]
      /\ files'[temporary(planned)] = [files[temporary(planned)] EXCEPT !.synced = TRUE]
      /\ files[temporary(planned)] \in File
  BY <1>2, PathFacts DEF StoreInv, StoreTypeOK, flushFile
<1>5. whole(record, files'[temporary(planned)]) /\ files'[temporary(planned)].synced
  <2> DEFINE f == files[temporary(planned)]
             g == files'[temporary(planned)]
  <2>1. g.kind = f.kind /\ g.db = f.db /\ g.synced
    BY <1>4 DEF File
  <2>2. whole(record, f)
    BY <1>2 DEF StoreInv, Staged
  <2> QED BY <2>1, <2>2 DEF whole, matches
<1>6. Staged'
  BY <1>2, <1>3, <1>4, <1>5 DEF StoreInv, Staged
<1> QED BY <1>1, <1>3, <1>6 DEF StoreInv

LEMMA RenameInv ==
  ASSUME StoreInv, rename("rename", "flushDir", temporary(planned), final(planned))
  PROVE  StoreInv'
<1>1. StoreTypeOK'
  BY StoreStepType DEF StoreInv, StoreNext, createStep
<1>2. planned \in Tick /\ work.pc = "rename" /\ work'.pc = "flushDir"
  BY PlannedType DEF StoreInv, StoreTypeOK, rename, proceedTo
<1>3. /\ RowsBacked' /\ DecayedTorn' /\ PlanFresh' /\ RestoreKept' /\ DestinationWhole'
      /\ planned' = planned /\ record' = record
  BY <1>2, CreateStepKept DEF StoreInv, StoreTypeOK, rename, proceedTo, CreatePc, RestorePc
<1>4. files'[final(planned)] = files[temporary(planned)]
  BY <1>2, PathFacts DEF StoreInv, StoreTypeOK, rename
<1>5. Staged'
  BY <1>2, <1>3, <1>4 DEF StoreInv, Staged
<1> QED BY <1>1, <1>3, <1>5 DEF StoreInv

LEMMA FlushDirectoryInv ==
  ASSUME StoreInv, flushDirectory("flushDir", "commit", SnapshotDir)
  PROVE  StoreInv'
<1>1. StoreTypeOK'
  BY StoreStepType DEF StoreInv, StoreNext, createStep
<1>2. planned \in Tick /\ work.pc = "flushDir" /\ work'.pc = "commit"
  BY PlannedType DEF StoreInv, StoreTypeOK, flushDirectory, proceedTo
<1>3. /\ \A p \in Path \ SnapshotDir : dir'[p] = dir[p]
      /\ \A p \in SnapshotDir : dir'[p] = files[p]
      /\ UNCHANGED <<live, files, decayed>>
  BY PathFacts DEF flushDirectory
<1>4. getAtTick(planned) = {} /\ getAtTick(planned)' = {} /\ planned' = planned
  BY <1>2, <1>3 DEF StoreInv, PlanFresh, CreatePc, StoreTypeOK, flushDirectory, proceedTo, planned, getAtTick
<1>5. \A r \in live.rows : dir'[final(r.tick)] = dir[final(r.tick)]
  <2> SUFFICES ASSUME NEW r \in live.rows PROVE dir'[final(r.tick)] = dir[final(r.tick)]
    OBVIOUS
  <2>1. dir[final(r.tick)] = files[final(r.tick)]
    BY DEF StoreInv, RowsBacked, DecayedTorn
  <2> QED BY <1>3, <2>1, RowType, PathFacts DEF StoreInv
<1>6. /\ RowsBacked' /\ DecayedTorn' /\ PlanFresh' /\ RestoreKept' /\ DestinationWhole'
      /\ planned' = planned /\ record' = record
  BY <1>2, <1>3, <1>5, CreateStepKept
     DEF StoreInv, StoreTypeOK, flushDirectory, proceedTo, CreatePc, RestorePc
<1>7. Staged'
  BY <1>2, <1>3, <1>6, PathFacts DEF StoreInv, Staged
<1> QED BY <1>1, <1>6, <1>7 DEF StoreInv

LEMMA CommitInv == ASSUME StoreInv, commitMetadata PROVE StoreInv'
<1>1. StoreTypeOK'
  BY StoreStepType DEF StoreInv, StoreNext, createStep
<1>2. planned \in Tick /\ work.pc = "commit" /\ work' = AtRest
  BY PlannedType DEF StoreInv, commitMetadata
<1>3. live'.rows = live.rows \cup {record} /\ UNCHANGED <<files, dir, decayed>>
  BY DEF StoreInv, StoreTypeOK, Db, commitMetadata, applySnapshotPlan, record
<1>4. /\ whole(record, files[final(planned)]) /\ files[final(planned)].synced
      /\ dir[final(planned)] = files[final(planned)]
  BY <1>2 DEF StoreInv, Staged
<1>5. RowsBacked'
  <2> SUFFICES ASSUME NEW r \in live'.rows, r.tick \notin decayed
               PROVE  /\ restorable(r)' /\ files'[final(r.tick)].synced
                      /\ dir'[final(r.tick)] = files'[final(r.tick)]
    BY <1>3 DEF RowsBacked
  <2>1. CASE r \in live.rows
    BY <1>3, <2>1 DEF StoreInv, RowsBacked, restorable, matches
  <2>2. CASE r = record
    BY <1>3, <1>4, <2>2 DEF restorable, matches, whole, planned, record
  <2> QED BY <1>3, <2>1, <2>2
<1>6. DecayedTorn'
  BY <1>3 DEF StoreInv, DecayedTorn, getAtTick
<1>7. PlanFresh' /\ Staged' /\ RestoreKept'
  BY <1>2, IdleKept
<1>8. DestinationWhole'
  BY <1>3, DestinationKept DEF StoreInv
<1> QED BY <1>1, <1>5, <1>6, <1>7, <1>8 DEF StoreInv

(* A failed attempt may leave any of its files behind, and has touched none of
   another tick. *)
LEMMA FailCreateInv ==
  ASSUME StoreInv, NEW kept \in SUBSET {temporary(planned), final(planned)}, failCreate(kept)
  PROVE  StoreInv'
<1>1. StoreTypeOK'
  BY StoreStepType DEF StoreInv, StoreNext, fault
<1>2. planned \in Tick /\ work.pc \in CreatePc /\ work' = AtRest /\ UNCHANGED <<live, decayed>>
  BY PlannedType DEF StoreInv, failCreate, CreatePc
<1>3. \A p \in Path \ {final(planned), temporary(planned)} : files'[p] = files[p]
  BY DEF failCreate
<1>4. \A p \in Path : dir'[p] = dir[p] \/ (p \in SnapshotDir /\ dir'[p] = files'[p])
  BY DEF failCreate, StoreInv, StoreTypeOK
<1>5. \A r \in live.rows : files'[final(r.tick)] = files[final(r.tick)]
  BY <1>2, <1>3, PlannedApart, RowType, PathFacts DEF StoreInv, PlanFresh
<1>6. \A r \in live.rows : dir'[final(r.tick)] = dir[final(r.tick)]
  <2> SUFFICES ASSUME NEW r \in live.rows PROVE dir'[final(r.tick)] = dir[final(r.tick)]
    OBVIOUS
  <2>1. dir[final(r.tick)] = files[final(r.tick)]
    BY DEF StoreInv, RowsBacked, DecayedTorn
  <2> QED BY <1>4, <1>5, <2>1, RowType, PathFacts DEF StoreInv
<1>7. RowsBacked' /\ DecayedTorn'
  BY <1>2, <1>5, <1>6, BackedKept DEF StoreInv
<1>8. PlanFresh' /\ Staged' /\ RestoreKept'
  BY <1>2, IdleKept
<1>9. files'[destination] = files[destination] /\ dir'[destination] = dir[destination]
  BY <1>3, <1>4, PathFacts DEF RestoreDir
<1>10. DestinationWhole'
  BY <1>2, <1>9, DestinationKept DEF StoreInv
<1> QED BY <1>1, <1>7, <1>8, <1>10 DEF StoreInv

-----------------------------------------------------------------------------
(* Restores *)

(* A step of restoreTo() that writes no file but the copy and the destination. *)
LEMMA RestoreStepKept ==
  ASSUME StoreInv, work.pc \in RestorePc \cup {"idle"}, UNCHANGED <<live, decayed>>,
         work'.pc \notin CreatePc, \A p \in SnapshotDir : files'[p] = files[p] /\ dir'[p] = dir[p]
  PROVE  RowsBacked' /\ DecayedTorn' /\ PlanFresh' /\ Staged'
<1>1. RowsBacked' /\ DecayedTorn'
  BY RowType, PathFacts, BackedKept DEF StoreInv
<1> QED BY <1>1 DEF PlanFresh, Staged, CreatePc

LEMMA RestoreToInv == ASSUME StoreInv, NEW r \in live.rows, restoreTo(r) PROVE StoreInv'
<1>1. StoreTypeOK'
  BY StoreStepType DEF StoreInv, StoreNext, restoreStep
<1>2. /\ work.pc = "idle" /\ work'.pc = "copy" /\ UNCHANGED <<live, dir, decayed>>
      /\ record' = r
  BY DEF restoreTo, record, NoPlan
<1>3. \A p \in Path \ {copy} : files'[p] = files[p]
  BY DEF StoreInv, StoreTypeOK, restoreTo
<1>4. RowsBacked' /\ DecayedTorn' /\ PlanFresh' /\ Staged'
  BY <1>2, <1>3, PathFacts, RestoreStepKept DEF CreatePc
<1>5. RestoreKept'
  BY <1>2 DEF RestoreKept
<1>6. DestinationWhole'
  BY <1>2, <1>3, PathFacts, DestinationKept DEF StoreInv, RestoreDir
<1> QED BY <1>1, <1>4, <1>5, <1>6 DEF StoreInv

LEMMA CopyInv == ASSUME StoreInv, copyFile PROVE StoreInv'
<1> DEFINE source == files[final(planned)]
<1>1. StoreTypeOK'
  BY StoreStepType DEF StoreInv, StoreNext, restoreStep
<1>2. /\ work.pc = "copy" /\ work'.pc = "verify" /\ UNCHANGED <<live, dir, decayed>>
      /\ record' = record /\ planned \in Tick /\ record \in live.rows /\ record.tick = planned
  BY PlannedType DEF StoreInv, StoreTypeOK, copyFile, proceedTo, record, planned, RestoreKept, RestorePc
<1>3. /\ \A p \in Path \ {copy} : files'[p] = files[p]
      /\ files'[copy] = [source EXCEPT !.synced = FALSE]
  BY PathFacts DEF StoreInv, StoreTypeOK, copyFile, RestoreDir
<1>4. RowsBacked' /\ DecayedTorn' /\ PlanFresh' /\ Staged'
  BY <1>2, <1>3, PathFacts, RestoreStepKept DEF CreatePc, RestorePc
<1>5. matches(record, source) => record \in source.db.rows
  <2>1. CASE record.tick \in decayed
    BY <1>2, <2>1, FileFacts DEF StoreInv, DecayedTorn, matches
  <2>2. CASE record.tick \notin decayed
    BY <1>2, <2>2 DEF StoreInv, RowsBacked, restorable
  <2> QED BY <2>1, <2>2
<1>6. source \in File
  BY <1>2, PathFacts DEF StoreInv, StoreTypeOK
<1>7. matches(record, files'[copy]) => record \in files'[copy].db.rows
  <2>1. files'[copy].kind = source.kind /\ files'[copy].db = source.db
    BY <1>3, <1>6 DEF File
  <2> QED BY <1>5, <2>1 DEF matches
<1>8. RestoreKept'
  BY <1>2, <1>7 DEF RestoreKept, matches
<1>9. DestinationWhole'
  BY <1>2, <1>3, PathFacts, DestinationKept DEF StoreInv, RestoreDir
<1> QED BY <1>1, <1>4, <1>8, <1>9 DEF StoreInv

LEMMA VerifyInv == ASSUME StoreInv, verifyCopy PROVE StoreInv'
<1>1. StoreTypeOK'
  BY StoreStepType DEF StoreInv, StoreNext, restoreStep
<1>2. /\ work.pc = "verify" /\ work'.pc = "flushCopy" /\ UNCHANGED <<live, files, dir, decayed>>
      /\ record' = record /\ matches(record, files[copy])
  BY DEF StoreInv, StoreTypeOK, verifyCopy, proceedTo, record
<1>3. RowsBacked' /\ DecayedTorn' /\ PlanFresh' /\ Staged'
  BY <1>2, RestoreStepKept DEF CreatePc, RestorePc
<1>4. RestoreKept'
  BY <1>2 DEF StoreInv, RestoreKept, RestorePc, whole, matches
<1>5. DestinationWhole'
  BY <1>2, DestinationKept DEF StoreInv
<1> QED BY <1>1, <1>3, <1>4, <1>5 DEF StoreInv

LEMMA FlushCopyInv == ASSUME StoreInv, flushFile("flushCopy", "renameCopy", copy) PROVE StoreInv'
<1>1. StoreTypeOK'
  BY StoreStepType DEF StoreInv, StoreNext, restoreStep
<1>2. /\ work.pc = "flushCopy" /\ work'.pc = "renameCopy" /\ UNCHANGED <<live, dir, decayed>>
      /\ record' = record
  BY DEF StoreInv, StoreTypeOK, flushFile, proceedTo, record
<1>3. /\ \A p \in Path \ {copy} : files'[p] = files[p]
      /\ files'[copy] = [files[copy] EXCEPT !.synced = TRUE] /\ files[copy] \in File
  BY PathFacts DEF StoreInv, StoreTypeOK, flushFile, RestoreDir
<1>4. RowsBacked' /\ DecayedTorn' /\ PlanFresh' /\ Staged'
  BY <1>2, <1>3, PathFacts, RestoreStepKept DEF CreatePc, RestorePc
<1>5. whole(record, files'[copy]) /\ files'[copy].synced
  <2>1. /\ files'[copy].kind = files[copy].kind /\ files'[copy].db = files[copy].db
        /\ files'[copy].synced
    BY <1>3 DEF File
  <2>2. whole(record, files[copy])
    BY <1>2 DEF StoreInv, RestoreKept
  <2> QED BY <2>1, <2>2 DEF whole, matches
<1>6. RestoreKept'
  BY <1>2, <1>5 DEF StoreInv, RestoreKept, RestorePc
<1>7. DestinationWhole'
  BY <1>2, <1>3, PathFacts, DestinationKept DEF StoreInv, RestoreDir
<1> QED BY <1>1, <1>4, <1>6, <1>7 DEF StoreInv

LEMMA RenameCopyInv == ASSUME StoreInv, rename("renameCopy", "flushDest", copy, destination) PROVE StoreInv'
<1>1. StoreTypeOK'
  BY StoreStepType DEF StoreInv, StoreNext, restoreStep
<1>2. /\ work.pc = "renameCopy" /\ work'.pc = "flushDest" /\ UNCHANGED <<live, dir, decayed>>
      /\ record' = record
  BY DEF StoreInv, StoreTypeOK, rename, proceedTo, record
<1>3. /\ \A p \in SnapshotDir : files'[p] = files[p]
      /\ files'[destination] = files[copy]
  BY PathFacts DEF StoreInv, StoreTypeOK, rename, RestoreDir
<1>4. RowsBacked' /\ DecayedTorn' /\ PlanFresh' /\ Staged'
  BY <1>2, <1>3, RestoreStepKept DEF CreatePc, RestorePc
<1>5. RestoreKept'
  BY <1>2 DEF StoreInv, RestoreKept, RestorePc
<1>6. whole(record, files[copy]) /\ files[copy].synced /\ record \in live.rows
  BY <1>2 DEF StoreInv, RestoreKept, RestorePc
<1>7. DestinationWhole'
  BY <1>2, <1>3, <1>6 DEF StoreInv, DestinationWhole, whole, matches
<1> QED BY <1>1, <1>4, <1>5, <1>7 DEF StoreInv

LEMMA FlushDestinationInv ==
  ASSUME StoreInv, flushDirectory("flushDest", "restored", RestoreDir)
  PROVE  StoreInv'
<1>1. StoreTypeOK'
  BY StoreStepType DEF StoreInv, StoreNext, restoreStep
<1>2. /\ work.pc = "flushDest" /\ work'.pc = "restored" /\ UNCHANGED <<live, files, decayed>>
      /\ record' = record
  BY DEF StoreInv, StoreTypeOK, flushDirectory, proceedTo, record
<1>3. /\ \A p \in SnapshotDir : dir'[p] = dir[p]
      /\ dir'[destination] = files[destination]
  BY PathFacts DEF flushDirectory, RestoreDir
<1>4. RowsBacked' /\ DecayedTorn' /\ PlanFresh' /\ Staged'
  BY <1>2, <1>3, RestoreStepKept DEF CreatePc, RestorePc
<1>5. RestoreKept'
  BY <1>2 DEF StoreInv, RestoreKept, RestorePc
<1>6. DestinationWhole'
  BY <1>2, <1>3 DEF StoreInv, DestinationWhole, whole, matches
<1> QED BY <1>1, <1>4, <1>5, <1>6 DEF StoreInv

LEMMA EndRestoreInv == ASSUME StoreInv, finishRestore \/ failRestore PROVE StoreInv'
<1>1. StoreTypeOK'
  BY StoreStepType DEF StoreInv, StoreNext, restoreStep, fault
<1>2. work.pc \in RestorePc /\ work' = AtRest /\ UNCHANGED <<live, dir, decayed>>
  BY DEF finishRestore, failRestore, RestorePc
<1>3. /\ \A p \in SnapshotDir : files'[p] = files[p]
      /\ files'[destination] \in {files[destination], Absent}
  BY PathFacts DEF StoreInv, StoreTypeOK, finishRestore, failRestore, RestoreDir
<1>4. RowsBacked' /\ DecayedTorn'
  BY <1>2, <1>3, PathFacts, RowType, BackedKept DEF StoreInv
<1>5. PlanFresh' /\ Staged' /\ RestoreKept'
  BY <1>2, IdleKept
<1>6. DestinationWhole'
  BY <1>2, <1>3, FileFacts DEF StoreInv, DestinationWhole, whole, matches
<1> QED BY <1>1, <1>4, <1>5, <1>6 DEF StoreInv

-----------------------------------------------------------------------------
(* The world outside *)

LEMMA CrashInv == ASSUME StoreInv, processExit PROVE StoreInv'
<1>1. StoreTypeOK'
  BY StoreStepType DEF StoreInv, StoreNext, fault
<1>2. work' = AtRest /\ UNCHANGED <<live, files, dir, decayed>>
  BY DEF processExit
<1>3. RowsBacked' /\ DecayedTorn'
  BY <1>2, BackedKept DEF StoreInv
<1>4. DestinationWhole'
  BY <1>2, DestinationKept DEF StoreInv
<1> QED BY <1>1, <1>2, <1>3, <1>4, IdleKept DEF StoreInv

(* A path whose entry and contents are flushed is as it was. *)
LEMMA SettledKept ==
  ASSUME StoreInv, NEW old \in SUBSET unsettled, NEW torn \in SUBSET unsettled, powerFailure(old, torn),
         NEW p \in Path, files[p].synced, dir[p] = files[p]
  PROVE  files'[p] = files[p]
<1>1. files[p] \in File
  BY DEF StoreInv, StoreTypeOK
<1>2. p \notin old
  BY DEF unsettled
<1>3. files'[p] = [files[p] EXCEPT !.synced = TRUE]
  BY <1>2 DEF powerFailure
<1> DEFINE f == files[p]
<1>4. f \in File /\ f.synced = TRUE
  BY <1>1 DEF File
<1> HIDE DEF f
<1>5. [f EXCEPT !.synced = TRUE] = f
  BY <1>4 DEF File
<1> QED BY <1>3, <1>5 DEF f

LEMMA PowerFailureInv ==
  ASSUME StoreInv, NEW old \in SUBSET unsettled, NEW torn \in SUBSET unsettled, powerFailure(old, torn)
  PROVE  StoreInv'
<1>1. StoreTypeOK'
  BY StoreStepType DEF StoreInv, StoreNext, fault
<1>2. work' = AtRest /\ dir' = files' /\ UNCHANGED <<live, decayed>>
  BY DEF powerFailure
<1>3. \A r \in live.rows : /\ files[final(r.tick)].synced
                           /\ dir[final(r.tick)] = files[final(r.tick)]
  BY FileFacts DEF StoreInv, RowsBacked, DecayedTorn
<1>4. \A r \in live.rows : files'[final(r.tick)] = files[final(r.tick)]
  BY <1>3, SettledKept, RowType, PathFacts DEF StoreInv
<1>5. RowsBacked' /\ DecayedTorn'
  BY <1>2, <1>3, <1>4, BackedKept DEF StoreInv
<1>6. PlanFresh' /\ Staged' /\ RestoreKept'
  BY <1>2, IdleKept
<1>7. DestinationWhole'
  <2>1. PICK f \in {files[destination], dir[destination]} :
          files'[destination] = IF destination \in torn /\ ~f.synced THEN Torn
                                ELSE [f EXCEPT !.synced = TRUE]
    BY PathFacts DEF powerFailure, RestoreDir
  <2>2. f \in File /\ f.synced
    BY PathFacts DEF StoreInv, StoreTypeOK, DestinationWhole, RestoreDir
  <2>3. files'[destination] = f
    BY <2>1, <2>2 DEF File
  <2> QED BY <1>2, <2>3 DEF StoreInv, DestinationWhole, whole, matches
<1> QED BY <1>1, <1>5, <1>6, <1>7 DEF StoreInv

LEMMA DecayInv == ASSUME StoreInv, NEW t \in 0..MaxTick, decay(t) PROVE StoreInv'
<1>1. StoreTypeOK'
  BY StoreStepType DEF StoreInv, StoreNext, fault
<1>2. UNCHANGED <<live, work>> /\ decayed' = decayed \cup {t} /\ getAtTick(t) # {}
  BY DEF decay
<1>3. t \in Tick /\ final(t) \in Path
  BY PathFacts DEF Tick
<1>4. /\ files' = [files EXCEPT ![final(t)] = Torn] /\ dir' = [dir EXCEPT ![final(t)] = Torn]
      /\ files'[final(t)] = Torn /\ dir'[final(t)] = Torn
  BY <1>3 DEF StoreInv, StoreTypeOK, decay
<1>5. \A p \in Path \ {final(t)} : files'[p] = files[p] /\ dir'[p] = dir[p]
  BY <1>4 DEF StoreInv, StoreTypeOK
<1>6. ASSUME NEW r \in live.rows, r.tick # t
      PROVE  files'[final(r.tick)] = files[final(r.tick)] /\ dir'[final(r.tick)] = dir[final(r.tick)]
  BY <1>5, <1>6, RowType, PathFacts DEF StoreInv
<1>7. RowsBacked'
  BY <1>2, <1>6 DEF StoreInv, RowsBacked, restorable, matches
<1>8. DecayedTorn'
  <2>1. ASSUME NEW u \in decayed, u # t
        PROVE  files'[final(u)] = Torn /\ dir'[final(u)] = Torn
    BY <1>5, <2>1, PathFacts DEF StoreInv, StoreTypeOK, DecayedTorn, Tick
  <2> QED BY <1>2, <1>4, <2>1 DEF StoreInv, DecayedTorn, getAtTick
<1>9. PlanFresh'
  BY <1>2 DEF StoreInv, PlanFresh, planned, record, getAtTick
<1>10. /\ work.pc \in CreatePc => files'[final(planned)] = files[final(planned)]
                                /\ dir'[final(planned)] = dir[final(planned)]
       /\ files'[temporary(planned)] = files[temporary(planned)]
       /\ files'[copy] = files[copy] /\ files'[destination] = files[destination]
       /\ dir'[destination] = dir[destination]
  <2>1. planned \in Tick /\ (work.pc \in CreatePc => planned # t)
    BY <1>2, PlannedType DEF StoreInv, PlanFresh
  <2> QED BY <1>5, <2>1, PathFacts DEF RestoreDir
<1>11. Staged'
  <2>1. planned' = planned /\ record' = record /\ work' = work
    BY <1>2 DEF planned, record
  <2> QED BY <1>10, <2>1 DEF StoreInv, Staged, CreatePc
<1>12. RestoreKept'
  BY <1>2, <1>10 DEF StoreInv, RestoreKept, record, whole, matches
<1>13. DestinationWhole'
  BY <1>2, <1>10, DestinationKept DEF StoreInv
<1> QED BY <1>1, <1>7, <1>8, <1>9, <1>11, <1>12, <1>13 DEF StoreInv

LEMMA StutterInv == ASSUME StoreInv, UNCHANGED storeVars PROVE StoreInv'
<1> USE DEF StoreInv
<1>1. UNCHANGED <<live, files, dir, work, decayed>>
  BY DEF storeVars
<1>2. StoreTypeOK' /\ DecayedTorn' /\ DestinationWhole'
  BY <1>1 DEF StoreTypeOK, DecayedTorn, DestinationWhole, getAtTick
<1>3. RowsBacked'
  BY <1>1 DEF RowsBacked, restorable, whole
<1>4. PlanFresh' /\ RestoreKept'
  BY <1>1 DEF PlanFresh, RestoreKept, planned, record, getAtTick
<1>5. Staged'
  BY <1>1 DEF Staged, planned, record
<1> QED BY <1>2, <1>3, <1>4, <1>5

LEMMA StoreStepInv == StoreInv /\ [StoreNext]_storeVars => StoreInv'
<1> SUFFICES ASSUME StoreInv, [StoreNext]_storeVars PROVE StoreInv'
  OBVIOUS
<1>1. CASE createStep
  BY <1>1, CreateInv, BackupInv, FinalizeInv, FlushInv, RenameInv, FlushDirectoryInv, CommitInv
     DEF createStep
<1>2. CASE restoreStep
  BY <1>2, RestoreToInv, CopyInv, VerifyInv, FlushCopyInv, RenameCopyInv, FlushDestinationInv,
     EndRestoreInv DEF restoreStep
<1>3. CASE fault
  BY <1>3, FailCreateInv, EndRestoreInv, CrashInv, PowerFailureInv, DecayInv DEF fault
<1> QED BY <1>1, <1>2, <1>3, OtherWork, StutterInv DEF StoreNext

LEMMA InvImplies == StoreInv => SnapshotsSound
<1> SUFFICES ASSUME StoreInv PROVE SnapshotsSound
  OBVIOUS
<1>1. ResidueNeverBlocks
  BY DEF StoreInv, Staged, ResidueNeverBlocks
<1>2. RestoredWhole
  BY DEF StoreInv, DestinationWhole, RestoredWhole, whole
<1> QED BY <1>1, <1>2 DEF StoreInv, SnapshotsSound

LEMMA InvHolds == StoreSpec => []StoreInv
BY StoreInitInv, StoreStepInv, PTL DEF StoreSpec

(* Whatever other handlers commit during the backup, whichever step fails, is
   cut off by a crash or by a power failure: every row names a whole and
   flushed file unless the medium damaged it, residue never blocks the next
   attempt, and a restore destination is whole or absent (create, restoreTo). *)
THEOREM SnapshotsSoundHolds == StoreSpec => []SnapshotsSound
BY InvHolds, InvImplies, PTL

-----------------------------------------------------------------------------
(* The catalogue *)

(* Under the invariant all that the table names is available. *)
known == {[tick |-> r.tick, seq |-> r.hash.seq] : r \in live.rows}

LEMMA RowsKept ==
  ASSUME StoreInv, StoreNext, ~commitMetadata
  PROVE  live'.rows = live.rows /\ (commitTick \/ appendEvent \/ UNCHANGED live)
BY DEF StoreInv, StoreTypeOK, Db, StoreNext, createStep, restoreStep, fault, commitTick, appendEvent, create,
       backup, finalizeSnapshotDatabase, flushFile, rename, flushDirectory, restoreTo, copyFile,
       verifyCopy, finishRestore, failCreate, failRestore, processExit, powerFailure, decay

(* create() with its steps, failures and retries is one atomic action to the
   rest of the server, and nothing that was available is ever lost. *)
THEOREM ImplementsCatalogHolds == StoreSpec => ImplementsCatalog
<1>1. StoreInit => Catalog!CatalogInit
  BY DEF StoreInit, NoDb, Catalog!CatalogInit
<1>2. ASSUME StoreInv, StoreInv', [StoreNext]_storeVars
      PROVE  [Catalog!Proceed \/ Catalog!Take]_(Catalog!catalogVars)
  <2> DEFINE available == {[tick |-> r.tick, seq |-> r.hash.seq] :
                r \in {r \in live.rows : restorable(r) \/ r.tick \in decayed}}
  <2>1. available = known /\ available' = known'
    BY <1>2 DEF StoreInv, RowsBacked, known
  <2>2. CASE commitMetadata
    <3>1. /\ live.tick = planned /\ live.seq \in Nat /\ getAtTick(planned) = {}
          /\ record.tick = planned /\ record.hash.seq = live.seq + 2
      BY <1>2, <2>2 DEF commitMetadata, appliesTo, computeLogicalStateHash, StoreInv, PlanFresh, CreatePc,
                        StoreTypeOK, Db, planned, record
    <3>2. live'.tick = live.tick /\ live'.seq = live.seq + 2 /\ live'.rows = live.rows \cup {record}
      BY <1>2, <2>2 DEF commitMetadata, applySnapshotPlan, StoreInv, StoreTypeOK, Db, record
    <3>3. known' = known \cup {[tick |-> live.tick, seq |-> live'.seq]}
      BY <3>1, <3>2 DEF known
    <3>4. \A s \in known : s.tick # live.tick
      BY <3>1 DEF known, getAtTick
    <3> QED BY <2>1, <3>2, <3>3, <3>4 DEF Catalog!Take
  <2>3. CASE StoreNext /\ ~commitMetadata
    <3>1. live'.rows = live.rows /\ (commitTick \/ appendEvent \/ UNCHANGED live)
      BY <1>2, <2>3, RowsKept
    <3>2. available' = available
      BY <2>1, <3>1 DEF known
    <3>3. live.seq \in Nat /\ live.tick \in Nat
      BY <1>2, SnapshotAssumption DEF StoreInv, StoreTypeOK, Db
    <3>4. CASE commitTick \/ appendEvent
      <4>1. live'.tick \in {live.tick, live.tick + 1} /\ live'.seq = live.seq + 1
        BY <1>2, <3>4 DEF commitTick, appendEvent, StoreInv, StoreTypeOK, Db
      <4> QED BY <3>2, <3>3, <4>1 DEF Catalog!Proceed
    <3>5. CASE UNCHANGED live
      BY <3>2, <3>5 DEF Catalog!catalogVars
    <3> QED BY <3>1, <3>4, <3>5
  <2>4. CASE UNCHANGED storeVars
    <3>1. UNCHANGED live
      BY <2>4 DEF storeVars
    <3>2. available' = available
      BY <2>1, <3>1 DEF known
    <3> QED BY <3>1, <3>2 DEF Catalog!catalogVars
  <2> QED BY <1>2, <2>2, <2>3, <2>4
<1> QED BY <1>1, <1>2, InvHolds, PTL DEF StoreSpec, ImplementsCatalog, Catalog!CatalogSpec
=============================================================================
