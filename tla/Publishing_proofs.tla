-------------------------- MODULE Publishing_proofs -------------------------
(***************************************************************************)
(* Proofs about what a run publishes: the event stream to its clients      *)
(* (EventStream, StreamSound) and the newspaper of its town (NewsRoom,     *)
(* NewsSound and AgentsKept).  The two specifications share no state, and  *)
(* here the lemmas on induction and recursion.                             *)
(*                                                                         *)
(* The event stream.  The inductive invariant IInv says of the connection, *)
(* relative to the client's sequence q (ConnSound): the frames on the wire *)
(* tell of committed events, each begins behind the one before it, no      *)
(* subscribed event lies between two of them or between q and the first,   *)
(* and what an open connection has put behind it is among them.  A         *)
(* connection whose response fills up in the middle of a page stands where *)
(* the last frame it took ends (DeliverEachSound, an induction over the    *)
(* page), which is why the next page starts in the right place.            *)
(*                                                                         *)
(* The newspaper.  The inductive invariant NewsInv joins what is true of   *)
(* the engine's memory (a count it lets decide is of failures in a row,    *)
(* and a phase knows every quarantine that stands: QuarantineInv), of the  *)
(* edition in hand (it is of the source tick, one story a topic, and its   *)
(* authors' actions are set aside: PaperInv) and of the index (the row of  *)
(* the last story, decayed up to the last tick, is the index of every day: *)
(* MoodInv).  An edition is well formed because the ranking of the events  *)
(* is a strict order (Outranking), so that no two share a place            *)
(* (PlacesDiffer); the sparse index is exact because decay over n + 1      *)
(* ticks is the decay of the decay over n (DecayGoesOn).                   *)
(***************************************************************************)
EXTENDS EventStream, NewsRoom, FiniteSetTheorems, SequenceTheorems, WellFoundedInduction, TLAPS

-----------------------------------------------------------------------------
(* Induction over the naturals, stated with a set instead of an operator,   *)
(* and what it gives: a function defined by recursion up to a bound exists. *)

(* A set of numbers with 0 and every successor has them all: else its
   complement would have a least element. *)
LEMMA NatSetInduction ==
  ASSUME NEW S, 0 \in S, \A n \in Nat : n \in S => n + 1 \in S
  PROVE  Nat \subseteq S
<1> DEFINE R == OpToRel(<, Nat)
           T == Nat \ S
<1> SUFFICES ASSUME T # {}
             PROVE  FALSE
  OBVIOUS
<1>1. IsWellFoundedOn(R, Nat)
  BY Zenon, NatLessThanWellFounded
<1>2. PICK x \in T : \A y \in T : ~(<<y, x>> \in R)
  <2> HIDE DEF R
  <2> QED BY <1>1, WFMin
<1>3. x \in Nat /\ x # 0 /\ x - 1 \in Nat
  OBVIOUS
<1>4. <<x - 1, x>> \in R
  BY <1>3 DEF OpToRel
<1>5. x - 1 \in T
  <2>1. x - 1 \in S => (x - 1) + 1 \in S
    BY <1>3
  <2>2. (x - 1) + 1 = x
    BY <1>3
  <2> QED BY <1>3, <2>1, <2>2
<1> HIDE DEF R, T
<1> QED BY <1>2, <1>4, <1>5

(* Functions that take a value of V to a value of V, one for each step, ... *)
Steps(N, V) == [1..N -> [V -> V]]
(* ... and a function that starts at base and follows them. *)
Follows(f, N, V, base, step) ==
  f \in [0..N -> V] /\ f[0] = base /\ \A k \in 1..N : f[k] = step[k][f[k - 1]]

(* By induction on n there is such a function up to n. *)
LEMMA BoundedRecursion ==
  ASSUME NEW N \in Nat, NEW V, NEW base \in V, NEW step \in Steps(N, V)
  PROVE  \E f : Follows(f, N, V, base, step)
<1> DEFINE Upto(n, f) == f[0] = base /\ \A k \in 1..n : f[k] = step[k][f[k - 1]]
           S == {n \in Nat : n <= N => \E f \in [0..n -> V] : Upto(n, f)}
<1>1. 0 \in S
  <2> DEFINE f == [k \in 0..0 |-> base]
  <2>1. f \in [0..0 -> V] /\ f[0] = base
    OBVIOUS
  <2>2. Upto(0, f)
    BY <2>1
  <2> QED BY <2>1, <2>2
<1>2. ASSUME NEW n \in Nat, n \in S
      PROVE  n + 1 \in S
  <2> HIDE DEF Upto
  <2> SUFFICES ASSUME n + 1 <= N
               PROVE  \E g \in [0..(n + 1) -> V] : Upto(n + 1, g)
    OBVIOUS
  <2> USE DEF Upto
  <2>1. PICK f \in [0..n -> V] : Upto(n, f)
    BY <1>2
  <2>2. step[n + 1] \in [V -> V] /\ f[n] \in V
    BY DEF Steps
  <2> DEFINE g == [k \in 0..(n + 1) |-> IF k <= n THEN f[k] ELSE step[n + 1][f[n]]]
  <2>3. g \in [0..(n + 1) -> V] /\ g[0] = base
    BY <2>1, <2>2
  <2>4. ASSUME NEW k \in 1..(n + 1)
        PROVE  g[k] = step[k][g[k - 1]]
    <3>1. CASE k <= n
      BY <2>1, <3>1
    <3>2. CASE k = n + 1
      BY <3>2
    <3> QED BY <3>1, <3>2
  <2> QED BY <2>3, <2>4
<1> HIDE DEF S
<1>3. Nat \subseteq S
  BY <1>1, <1>2, NatSetInduction
<1> QED BY <1>3 DEF S, Follows

-----------------------------------------------------------------------------
(* The invariant *)

Frame == [id : Nat, event : EventTypes \cup {"comment", "gap"}, from : Nat]
Connection == [state : {"none", "open", "ended"}, afterSeq : Nat, blocked : BOOLEAN,
               wire : Seq(Frame), buffered : Nat]
Client == [state : {"idle", "connecting", "live", "waiting", "offline"},
           sequence : Nat, boot : Nat, attempt : 0..MaxReconnects, seen : SUBSET Nat]

Told(c) == {i \in 1..Len(c.wire) : c.wire[i].event # "comment"}

(* A frame that tells of events speaks of committed ones, and a gap of more
   than a poll may read. *)
FrameSound(f) ==
  /\ 1 <= f.from /\ f.from <= f.id /\ f.id <= Latest
  /\ f.event = "gap" => f.id - f.from >= MaxBacklog

(* Each frame begins behind the one before it and behind q, ... *)
InOrder(c, q) ==
  \A i \in Told(c) : /\ c.wire[i].from > q
                     /\ \A j \in Told(c) : j < i => c.wire[i].from > c.wire[j].id
(* ... and no subscribed event lies between them. *)
NoHoles(c, q) ==
  \A i \in Told(c) : \A s \in (q + 1)..(c.wire[i].from - 1) :
    subscribed(s) => \E j \in Told(c) : j < i /\ s \in c.wire[j].from..c.wire[j].id
(* What an open connection has put behind it is on the wire. *)
PutBehind(c, q) ==
  /\ q <= c.afterSeq /\ c.afterSeq <= Latest
  /\ \A i \in Told(c) : c.wire[i].id <= c.afterSeq
  /\ \A s \in (q + 1)..c.afterSeq :
       subscribed(s) => \E j \in Told(c) : s \in c.wire[j].from..c.wire[j].id

Buffer(c) ==
  /\ c.buffered <= Len(c.wire) /\ c.buffered <= HighWater
  /\ c.state = "open" /\ c.buffered = HighWater => c.blocked

(* A connection whose client has everything up to q. *)
ConnSound(c, q) ==
  /\ c \in Connection
  /\ \A i \in Told(c) : FrameSound(c.wire[i])
  /\ InOrder(c, q)
  /\ NoHoles(c, q)
  /\ c.state = "open" => PutBehind(c, q)
  /\ Buffer(c)

LogInv == events \in Seq(EventTypes) /\ Latest <= LastSeq /\ server \in {"up", "down"}
ClientInv ==
  /\ client \in Client /\ client.sequence <= Latest
  /\ client.state # "live" => conn = Closed
  /\ client.state = "waiting" => client.attempt < MaxReconnects
IInv == LogInv /\ ClientInv /\ BehindIsSeen /\ ConnSound(conn, client.sequence)

-----------------------------------------------------------------------------
(* The server's writes *)

LEMMA Constants ==
  /\ LastSeq \in Nat /\ LastSeq >= 1 /\ MaxBacklog \in Nat /\ MaxBacklog >= 1
  /\ HighWater \in Nat /\ HighWater >= 1 /\ MaxReconnects \in Nat
  /\ \A b \in Batches : b \in Seq(EventTypes)
BY StreamAssumption

LEMMA WriteShape ==
  ASSUME NEW c \in Connection, NEW frame \in Frame
  PROVE  /\ write(c, frame) \in Connection
         /\ write(c, frame).state = c.state
         /\ write(c, frame).afterSeq = c.afterSeq
         /\ c.buffered + 1 >= HighWater => write(c, frame).blocked
         /\ write(c, frame).buffered = c.buffered + 1
         /\ Len(write(c, frame).wire) = Len(c.wire) + 1
         /\ \A i \in 1..Len(c.wire) : write(c, frame).wire[i] = c.wire[i]
         /\ write(c, frame).wire[Len(c.wire) + 1] = frame
<1>1. c.wire \in Seq(Frame) /\ Len(c.wire) \in Nat
  BY DEF Connection
<1> DEFINE w == Append(c.wire, frame)
           n == c.buffered + 1
           b == c.buffered + 1 >= HighWater
<1>2. /\ w \in Seq(Frame) /\ Len(w) = Len(c.wire) + 1
      /\ \A i \in 1..Len(c.wire) : w[i] = c.wire[i]
      /\ w[Len(c.wire) + 1] = frame
  BY <1>1
<1>3. n \in Nat /\ b \in BOOLEAN
  BY DEF Connection
<1>4. write(c, frame) = [c EXCEPT !.wire = w, !.buffered = n, !.blocked = b]
  BY DEF write, Connection
<1> HIDE DEF w, n, b
<1>5. [c EXCEPT !.wire = w, !.buffered = n, !.blocked = b] \in Connection
  BY <1>2, <1>3 DEF Connection
<1>6. /\ write(c, frame).state = c.state /\ write(c, frame).afterSeq = c.afterSeq
      /\ write(c, frame).blocked = b /\ write(c, frame).buffered = n
      /\ write(c, frame).wire = w
  BY <1>4 DEF Connection
<1>7. b => write(c, frame).blocked
  BY <1>6
<1> QED BY <1>2, <1>4, <1>5, <1>6, <1>7 DEF b, n

(* A comment tells of nothing. *)
LEMMA CommentSound ==
  ASSUME LogInv, NEW q \in Nat, NEW c, ConnSound(c, q), c.state = "open", ~c.blocked
  PROVE  ConnSound(write(c, comment), q) /\ write(c, comment).state = "open"
<1> DEFINE w == write(c, comment)
<1>1. c \in Connection /\ comment \in Frame /\ comment.event = "comment"
  BY DEF ConnSound, comment, Frame
<1>2. /\ w \in Connection /\ w.state = "open" /\ w.afterSeq = c.afterSeq
      /\ (c.buffered + 1 >= HighWater => w.blocked) /\ w.buffered = c.buffered + 1
      /\ Len(w.wire) = Len(c.wire) + 1
      /\ \A i \in 1..Len(c.wire) : w.wire[i] = c.wire[i]
      /\ w.wire[Len(c.wire) + 1] = comment
  BY <1>1, WriteShape
<1>3. Len(c.wire) \in Nat /\ c.buffered \in Nat
  BY <1>1 DEF Connection
<1> HIDE DEF w
<1>4. Told(w) = Told(c) /\ \A i \in Told(c) : w.wire[i] = c.wire[i]
  BY <1>1, <1>2, <1>3 DEF Told
<1>5. Buffer(w)
  <2>1. c.buffered <= Len(c.wire) /\ c.buffered < HighWater
    BY <1>3, Constants DEF ConnSound, Buffer
  <2>2. c.buffered + 1 = HighWater => w.blocked
    BY <1>2, <1>3, Constants
  <2> QED BY <1>2, <1>3, <2>1, <2>2, Constants DEF Buffer
<1>6. InOrder(w, q)
  BY <1>4 DEF ConnSound, InOrder
<1>7. NoHoles(w, q)
  BY <1>4 DEF ConnSound, NoHoles
<1>8. PutBehind(w, q)
  BY <1>2, <1>4 DEF ConnSound, PutBehind
<1>9. \A i \in Told(w) : FrameSound(w.wire[i])
  BY <1>4 DEF ConnSound
<1>10. ConnSound(w, q)
  BY <1>2, <1>5, <1>6, <1>7, <1>8, <1>9 DEF ConnSound
<1> QED BY <1>2, <1>10 DEF w

(* A delivery that takes a connection from `a' to d.through: a frame for the
   events between, or none when none of them is subscribed. *)
Delivery(a, d) ==
  /\ d.through \in Nat /\ a < d.through /\ d.through <= Latest
  /\ \/ d.frames = <<>> /\ \A s \in (a + 1)..d.through : ~subscribed(s)
     \/ /\ d.frames # <<>> /\ d.frames[1] \in Frame /\ d.frames[1].event # "comment"
        /\ d.frames[1].from = a + 1 /\ d.frames[1].id = d.through
        /\ FrameSound(d.frames[1])

LEMMA DeliverySound ==
  ASSUME LogInv, NEW q \in Nat, NEW c, ConnSound(c, q), c.state = "open", ~c.blocked,
         NEW d, Delivery(c.afterSeq, d)
  PROVE  /\ ConnSound(sendDelivery(c, d), q) /\ sendDelivery(c, d).state = "open"
         /\ sendDelivery(c, d).afterSeq = d.through
<1> DEFINE r == sendDelivery(c, d)
           a == c.afterSeq
<1>1. /\ c \in Connection /\ a \in Nat /\ Len(c.wire) \in Nat /\ c.buffered \in Nat
      /\ d.through \in Nat /\ Latest \in Nat /\ a < d.through
  BY DEF ConnSound, Connection, Delivery, LogInv, Latest
<1>2. \A i \in Told(c) : c.wire[i].from \in Nat /\ c.wire[i].id \in Nat /\ i \in 1..Len(c.wire)
  <2>1. c.wire \in Seq(Frame)
    BY <1>1 DEF Connection
  <2>2. \A i \in 1..Len(c.wire) : c.wire[i] \in Frame
    BY <2>1
  <2> QED BY <2>2 DEF Frame, Told
<1>3. CASE d.frames = <<>>
  <2>1. r = [c EXCEPT !.afterSeq = d.through]
    BY <1>3 DEF sendDelivery
  <2>2. /\ r \in Connection /\ r.state = "open" /\ r.afterSeq = d.through
        /\ r.wire = c.wire /\ r.buffered = c.buffered /\ r.blocked = c.blocked
    BY <1>1, <2>1 DEF Connection
  <2> HIDE DEF r
  <2>3. Told(r) = Told(c)
    BY <2>2 DEF Told
  <2>4. \A s \in (a + 1)..d.through : ~subscribed(s)
    BY <1>3 DEF Delivery
  <2>5. PutBehind(r, q)
    <3>1. PutBehind(c, q)
      BY DEF ConnSound
    <3>2. q <= d.through /\ d.through <= Latest
      BY <1>1, <3>1 DEF PutBehind, Delivery
    <3>3. \A i \in Told(r) : r.wire[i].id <= d.through
      BY <1>1, <1>2, <2>2, <2>3, <3>1 DEF PutBehind
    <3>4. \A s \in (q + 1)..d.through :
            subscribed(s) => \E j \in Told(r) : s \in r.wire[j].from..r.wire[j].id
      BY <1>1, <2>2, <2>3, <2>4, <3>1 DEF PutBehind
    <3> QED BY <2>2, <3>2, <3>3, <3>4 DEF PutBehind
  <2>6. InOrder(r, q) /\ NoHoles(r, q) /\ Buffer(r)
    BY <2>2, <2>3 DEF ConnSound, InOrder, NoHoles, Buffer
  <2>7. ConnSound(r, q)
    BY <2>2, <2>3, <2>5, <2>6 DEF ConnSound
  <2> QED BY <2>2, <2>7 DEF r
<1>4. CASE d.frames # <<>>
  <2> DEFINE f == d.frames[1]
             w == write(c, f)
             n == Len(c.wire) + 1
  <2>1. /\ f \in Frame /\ f.event # "comment" /\ f.from = a + 1 /\ f.id = d.through
        /\ FrameSound(f) /\ d.through <= Latest
    BY <1>4 DEF Delivery
  <2> HIDE DEF f
  <2>2. /\ w \in Connection /\ w.state = "open" /\ w.buffered = c.buffered + 1
        /\ (c.buffered + 1 >= HighWater => w.blocked) /\ Len(w.wire) = n
        /\ \A i \in 1..Len(c.wire) : w.wire[i] = c.wire[i]
        /\ w.wire[n] = f
    BY <1>1, <2>1, WriteShape
  <2>3. r = [w EXCEPT !.afterSeq = d.through]
    BY <1>4 DEF sendDelivery, f
  <2> HIDE DEF w
  <2>4. /\ r \in Connection /\ r.state = "open" /\ r.afterSeq = d.through
        /\ r.wire = w.wire /\ r.buffered = w.buffered /\ r.blocked = w.blocked
    BY <1>1, <2>2, <2>3 DEF Connection
  <2> HIDE DEF r
  <2>5. /\ Told(r) = Told(c) \cup {n} /\ r.wire[n] = f
        /\ \A i \in Told(c) : i < n /\ r.wire[i] = c.wire[i]
    <3>1. n \in 1..n /\ 1..n = 1..Len(c.wire) \cup {n} /\ r.wire[n] = f
      BY <1>1, <2>2, <2>4
    <3>2. \A i \in 1..Len(c.wire) : i < n /\ r.wire[i] = c.wire[i]
      BY <1>1, <2>2, <2>4
    <3>3. Told(r) = {i \in 1..n : r.wire[i].event # "comment"}
      BY <2>2, <2>4 DEF Told
    <3> HIDE DEF n
    <3> QED BY <2>1, <3>1, <3>2, <3>3 DEF Told
  <2>6. /\ PutBehind(c, q) /\ InOrder(c, q) /\ NoHoles(c, q) /\ Buffer(c)
        /\ \A i \in Told(c) : FrameSound(c.wire[i])
    BY DEF ConnSound
  <2> HIDE DEF a, n
  <2>7. q <= a /\ a <= Latest /\ \A i \in Told(c) : c.wire[i].id <= a
    BY <2>6 DEF PutBehind, a
  <2>8. \A s \in (q + 1)..a :
          subscribed(s) => \E j \in Told(c) : s \in c.wire[j].from..c.wire[j].id
    BY <2>6 DEF PutBehind, a
  <2>9. InOrder(r, q)
    <3>1. ASSUME NEW i \in Told(c)
          PROVE  /\ r.wire[i].from > q
                 /\ \A j \in Told(r) : j < i => r.wire[i].from > r.wire[j].id
      BY <1>2, <2>5, <2>6 DEF InOrder, n
    <3>2. r.wire[n].from > q /\ \A j \in Told(r) : j < n => r.wire[n].from > r.wire[j].id
      BY <1>1, <1>2, <2>1, <2>5, <2>7, <1>1 DEF n
    <3> QED BY <2>5, <3>1, <3>2 DEF InOrder
  <2>10. NoHoles(r, q)
    <3>1. ASSUME NEW i \in Told(c), NEW s \in (q + 1)..(r.wire[i].from - 1), subscribed(s)
          PROVE  \E j \in Told(r) : j < i /\ s \in r.wire[j].from..r.wire[j].id
      <4>1. PICK j \in Told(c) : j < i /\ s \in c.wire[j].from..c.wire[j].id
        BY <2>5, <2>6, <3>1 DEF NoHoles
      <4> QED BY <2>5, <4>1
    <3>2. ASSUME NEW s \in (q + 1)..(r.wire[n].from - 1), subscribed(s)
          PROVE  \E j \in Told(r) : j < n /\ s \in r.wire[j].from..r.wire[j].id
      <4>1. s \in (q + 1)..a
        BY <1>1, <2>1, <2>5
      <4>2. PICK j \in Told(c) : s \in c.wire[j].from..c.wire[j].id
        BY <2>8, <3>2, <4>1
      <4> QED BY <2>5, <4>2
    <3> QED BY <2>5, <3>1, <3>2 DEF NoHoles
  <2>11. PutBehind(r, q)
    <3>1. q <= d.through
      BY <1>1, <2>7 DEF a
    <3>2. \A i \in Told(r) : r.wire[i].id <= d.through
      BY <1>1, <1>2, <2>1, <2>5, <2>7 DEF a
    <3>3. ASSUME NEW s \in (q + 1)..d.through, subscribed(s)
          PROVE  \E j \in Told(r) : s \in r.wire[j].from..r.wire[j].id
      <4>1. CASE s <= a
        <5>1. PICK j \in Told(c) : s \in c.wire[j].from..c.wire[j].id
          BY <1>1, <2>8, <3>3, <4>1 DEF a
        <5> QED BY <2>5, <5>1
      <4>2. CASE s > a
        <5>1. s \in r.wire[n].from..r.wire[n].id
          BY <1>1, <2>1, <2>5, <4>2 DEF a
        <5> QED BY <2>5, <5>1
      <4> QED BY <1>1, <4>1, <4>2 DEF a
    <3> QED BY <2>1, <2>4, <3>1, <3>2, <3>3 DEF PutBehind
  <2>12. Buffer(r)
    <3>1. c.buffered <= Len(c.wire) /\ c.buffered < HighWater
      BY <1>1, <2>6, Constants DEF Buffer
    <3>2. c.buffered + 1 = HighWater => w.blocked
      BY <1>1, <2>2, Constants
    <3> QED BY <1>1, <2>2, <2>4, <3>1, <3>2, Constants DEF Buffer, n
  <2>13. \A i \in Told(r) : FrameSound(r.wire[i])
    BY <2>1, <2>5, <2>6
  <2>14. ConnSound(r, q)
    BY <2>4, <2>9, <2>10, <2>11, <2>12, <2>13 DEF ConnSound
  <2> QED BY <2>4, <2>14 DEF r
<1> QED BY <1>3, <1>4

LEMMA SendShape ==
  ASSUME NEW c \in Connection, NEW d, d.through \in Nat, d.frames = <<>> \/ d.frames[1] \in Frame
  PROVE  sendDelivery(c, d) \in Connection
<1> DEFINE sent == IF d.frames = <<>> THEN c ELSE write(c, d.frames[1])
<1>1. sent \in Connection
  BY WriteShape
<1>2. sendDelivery(c, d) = IF c.blocked THEN c ELSE [sent EXCEPT !.afterSeq = d.through]
  BY DEF sendDelivery
<1> HIDE DEF sent
<1>3. [sent EXCEPT !.afterSeq = d.through] \in Connection
  BY <1>1 DEF Connection
<1> QED BY <1>2, <1>3

(* Where the k-th delivery of a batch starts *)
From(c, batch, k) == IF k = 1 THEN c.afterSeq ELSE batch[k - 1].through

(* A connection that fills up in the middle of a batch keeps what it was sent
   and stands where the last frame it took ends. *)
LEMMA DeliverEachSound ==
  ASSUME LogInv, NEW q \in Nat, NEW c, ConnSound(c, q), c.state = "open", ~c.blocked,
         NEW batch, Len(batch) \in Nat,
         \A k \in 1..Len(batch) : Delivery(From(c, batch, k), batch[k])
  PROVE  ConnSound(deliverEach(c, batch), q) /\ deliverEach(c, batch).state = "open"
<1> DEFINE N == Len(batch)
           step == [k \in 1..N |-> [v \in Connection |-> sendDelivery(v, batch[k])]]
           recursion(f) == f = [k \in 0..N |-> IF k = 0 THEN c
                                              ELSE sendDelivery(f[k - 1], batch[k])]
           sent == CHOOSE f : recursion(f)
<1>1. c \in Connection
  BY DEF ConnSound
<1>2. ASSUME NEW k \in 1..N
      PROVE  step[k] \in [Connection -> Connection]
  <2>1. batch[k].through \in Nat /\ (batch[k].frames = <<>> \/ batch[k].frames[1] \in Frame)
    BY DEF Delivery
  <2>2. \A v \in Connection : sendDelivery(v, batch[k]) \in Connection
    BY <2>1, SendShape
  <2> QED BY <2>2
<1>3. \E f : recursion(f)
  <2>1. N \in Nat /\ step \in Steps(N, Connection)
    BY <1>2 DEF Steps
  <2> HIDE DEF step, N
  <2>2. PICK f : Follows(f, N, Connection, c, step)
    BY <1>1, <2>1, BoundedRecursion
  <2>3. \A k \in 1..N : f[k - 1] \in Connection
    BY <2>1, <2>2 DEF Follows
  <2>4. \A k \in 1..N : f[k] = sendDelivery(f[k - 1], batch[k])
    BY <2>1, <2>2, <2>3 DEF step, Follows
  <2>5. recursion(f)
    BY <2>1, <2>2, <2>4 DEF Follows
  <2> QED BY <2>5
<1>4. recursion(sent)
  BY <1>3
<1> HIDE DEF sent
<1>5. sent[0] = c /\ \A k \in 1..N : sent[k] = sendDelivery(sent[k - 1], batch[k])
  BY <1>4
<1> DEFINE stands(k) ==
             /\ ConnSound(sent[k], q) /\ sent[k].state = "open"
             /\ ~sent[k].blocked /\ k < N => sent[k].afterSeq = From(c, batch, k + 1)
           S == {k \in Nat : k <= N => stands(k)}
<1>6. 0 \in S
  BY <1>5 DEF From
<1>7. ASSUME NEW k \in Nat, k \in S
      PROVE  k + 1 \in S
  <2> SUFFICES ASSUME k + 1 <= N
               PROVE  stands(k + 1)
    OBVIOUS
  <2>1. stands(k) /\ k < N /\ k + 1 \in 1..N
    BY <1>7
  <2>2. sent[k + 1] = sendDelivery(sent[k], batch[k + 1])
    BY <1>5, <2>1
  <2>3. CASE sent[k].blocked
    <3>1. sent[k + 1] = sent[k]
      BY <2>2, <2>3 DEF sendDelivery
    <3> QED BY <2>1, <2>3, <3>1
  <2>4. CASE ~sent[k].blocked
    <3>1. Delivery(sent[k].afterSeq, batch[k + 1])
      BY <2>1, <2>4
    <3>2. /\ ConnSound(sent[k + 1], q) /\ sent[k + 1].state = "open"
          /\ sent[k + 1].afterSeq = batch[k + 1].through
      BY <2>1, <2>2, <2>4, <3>1, DeliverySound
    <3>3. From(c, batch, (k + 1) + 1) = batch[k + 1].through
      BY DEF From
    <3> QED BY <3>2, <3>3
  <2> QED BY <2>3, <2>4
<1> HIDE DEF S
<1>8. Nat \subseteq S
  BY <1>6, <1>7, NatSetInduction
<1>9. ConnSound(sent[N], q) /\ sent[N].state = "open"
  BY <1>8 DEF S
<1>10. deliverEach(c, batch) = sent[N]
  BY DEF deliverEach, sent
<1> QED BY <1>9, <1>10

(* A page that may hold one event more than the backlog holds it only when
   the log goes beyond the backlog. *)
LEMMA GapIsEarned ==
  ASSUME LogInv, NEW a \in Nat, hasMore(a)
  PROVE  Latest - (a + 1) >= MaxBacklog
<1> DEFINE hi == IF Latest <= a + MaxBacklog + 1 THEN Latest ELSE a + MaxBacklog + 1
<1>1. Latest \in Nat /\ hi \in Nat
  BY Constants DEF LogInv, Latest
<1>2. query(a) = (a + 1)..hi
  BY <1>1, Constants DEF query
<1>3. Cardinality((a + 1)..hi) = IF a + 1 > hi THEN 0 ELSE hi - (a + 1) + 1
  <2> HIDE DEF hi
  <2>1. a + 1 \in Int /\ hi \in Int
    BY <1>1
  <2> QED BY <2>1, FS_Interval
<1>4. Cardinality((a + 1)..hi) > MaxBacklog
  BY <1>2 DEF hasMore
<1> QED BY <1>1, <1>3, <1>4, Constants

LEMMA BatchIsDeliveries ==
  ASSUME LogInv, NEW c \in Connection, c.afterSeq <= Latest
  PROVE  LET batch == readCommittedEventBatch(c.afterSeq)
         IN  /\ Len(batch) \in Nat
             /\ \A k \in 1..Len(batch) : Delivery(From(c, batch, k), batch[k])
<1> DEFINE a == c.afterSeq
           batch == readCommittedEventBatch(a)
<1>1. a \in Nat /\ Latest \in Nat /\ events \in Seq(EventTypes)
  BY DEF Connection, LogInv, Latest
<1>2. CASE hasMore(a)
  <2> DEFINE d == [through |-> Latest, frames |-> <<gapFrame(a)>>]
  <2>1. batch = <<d>> /\ Len(batch) = 1 /\ batch[1] = d
    BY <1>2 DEF readCommittedEventBatch
  <2>2. Latest - (a + 1) >= MaxBacklog
    BY <1>1, <1>2, GapIsEarned
  <2>3. /\ gapFrame(a) \in Frame /\ gapFrame(a).event # "comment"
        /\ gapFrame(a).from = a + 1 /\ gapFrame(a).id = Latest
    BY <1>1 DEF gapFrame, Frame
  <2>4. FrameSound(gapFrame(a))
    BY <1>1, <2>2, <2>3, Constants DEF FrameSound
  <2>5. Delivery(a, d)
    BY <1>1, <2>2, <2>3, <2>4, Constants DEF Delivery
  <2>6. From(c, batch, 1) = a
    BY DEF From
  <2> HIDE DEF batch, a, d
  <2>7. \A k \in 1..Len(batch) : k = 1
    BY <2>1
  <2>8. \A k \in 1..Len(batch) : Delivery(From(c, batch, k), batch[k])
    BY <2>1, <2>5, <2>6, <2>7
  <2> QED BY <2>1, <2>8 DEF batch, a
<1>3. CASE ~hasMore(a)
  <2> DEFINE n == Latest - a
             d(k) == [through |-> a + k,
                      frames |-> IF subscribed(a + k)
                                   THEN <<frameForCommittedEvent(a + k)>> ELSE <<>>]
  <2>1. batch = [k \in 1..n |-> d(k)]
    BY <1>3 DEF readCommittedEventBatch
  <2>2. n \in Nat
    BY <1>1
  <2> HIDE DEF batch, n
  <2>3. Len(batch) = n /\ \A k \in 1..n : batch[k] = d(k)
    BY <2>1, <2>2
  <2>4. ASSUME NEW k \in 1..n
        PROVE  Delivery(From(c, batch, k), batch[k])
    <3>1. From(c, batch, k) = a + (k - 1)
      <4>1. CASE k = 1
        BY <1>1, <4>1 DEF From
      <4>2. CASE k # 1
        <5>1. k - 1 \in 1..n
          BY <2>2, <4>2
        <5>2. batch[k - 1].through = a + (k - 1)
          BY <2>3, <5>1
        <5> QED BY <4>2, <5>2 DEF From
      <4> QED BY <4>1, <4>2
    <3> DEFINE s == a + k
               f == frameForCommittedEvent(s)
    <3>2. s \in 1..Latest /\ k \in Nat /\ a + (k - 1) < s /\ (a + (k - 1)) + 1 = s /\ s \in Nat
      <4>1. n = Latest - a
        BY DEF n
      <4> HIDE DEF a
      <4> QED BY <1>1, <2>2, <4>1
    <3>3. events[s] \in EventTypes
      BY <1>1, <3>2 DEF Latest
    <3>4. f \in Frame /\ f.event \in EventTypes /\ f.from = s /\ f.id = s
      BY <3>2, <3>3 DEF frameForCommittedEvent, Frame
    <3>5. FrameSound(f) /\ f.event # "comment"
      BY <3>2, <3>4 DEF FrameSound, EventTypes
    <3>6. /\ batch[k].through = s
          /\ batch[k].frames = IF subscribed(s) THEN <<f>> ELSE <<>>
      BY <2>3
    <3> HIDE DEF s, f
    <3>7. CASE subscribed(s)
      <4>1. batch[k].frames # <<>> /\ batch[k].frames[1] = f
        BY <3>6, <3>7
      <4> QED BY <3>1, <3>2, <3>4, <3>5, <3>6, <4>1 DEF Delivery
    <3>8. CASE ~subscribed(s)
      <4>1. batch[k].frames = <<>>
        BY <3>6, <3>8
      <4>2. \A t \in ((a + (k - 1)) + 1)..s : t = s
        BY <3>2
      <4> QED BY <3>1, <3>2, <3>6, <3>8, <4>1, <4>2 DEF Delivery
    <3> QED BY <3>7, <3>8
  <2> QED BY <2>2, <2>3, <2>4 DEF batch
<1> QED BY <1>2, <1>3

LEMMA PollSound ==
  ASSUME LogInv, NEW q \in Nat, NEW c, ConnSound(c, q)
  PROVE  ConnSound(poll(c), q)
<1>1. CASE c.state # "open" \/ c.blocked
  BY <1>1 DEF poll
<1>2. CASE c.state = "open" /\ ~c.blocked
  <2> DEFINE batch == readCommittedEventBatch(c.afterSeq)
  <2>1. c \in Connection /\ c.afterSeq <= Latest
    BY <1>2 DEF ConnSound, PutBehind
  <2>2. Len(batch) \in Nat /\ \A k \in 1..Len(batch) : Delivery(From(c, batch, k), batch[k])
    BY <2>1, BatchIsDeliveries
  <2>3. poll(c) = deliverEach(c, batch)
    BY <1>2 DEF poll
  <2> HIDE DEF batch
  <2>4. ConnSound(deliverEach(c, batch), q)
    BY <1>2, <2>2, DeliverEachSound
  <2> QED BY <2>3, <2>4
<1> QED BY <1>1, <1>2

(* Nothing is open: no claim beyond the frames' order. *)
LEMMA ClosedSound ==
  ASSUME LogInv, NEW q \in Nat
  PROVE  ConnSound(Closed, q)
<1>1. /\ Closed.wire = <<>> /\ Closed.state = "none" /\ Closed.buffered = 0
      /\ Closed.afterSeq = 0 /\ Closed.blocked = FALSE
  BY DEF Closed
<1>2. Closed \in Connection
  BY DEF Closed, Connection
<1>3. Told(Closed) = {}
  BY <1>1 DEF Told
<1>4. Buffer(Closed)
  BY <1>1, Constants DEF Buffer
<1> QED BY <1>1, <1>2, <1>3, <1>4 DEF ConnSound, InOrder, NoHoles

LEMMA StartSound ==
  ASSUME LogInv, NEW q \in Nat, q <= Latest
  PROVE  ConnSound(start(q), q)
<1> DEFINE c == [Closed EXCEPT !.state = "open", !.afterSeq = q]
<1>1. /\ c.wire = <<>> /\ c.state = "open" /\ c.buffered = 0
      /\ c.afterSeq = q /\ c.blocked = FALSE
  BY DEF Closed
<1>2. c \in Connection
  <2> DEFINE after == q
  <2>1. Closed \in Connection /\ after \in Nat
    BY DEF Closed, Connection
  <2> HIDE DEF after
  <2>2. [Closed EXCEPT !.state = "open", !.afterSeq = after] \in Connection
    BY <2>1 DEF Connection
  <2> QED BY <2>2 DEF after
<1> HIDE DEF c
<1>3. Told(c) = {}
  BY <1>1 DEF Told
<1>4. Buffer(c)
  BY <1>1, Constants DEF Buffer
<1>5. PutBehind(c, q)
  BY <1>1, <1>3 DEF PutBehind
<1>6. ConnSound(c, q)
  BY <1>1, <1>2, <1>3, <1>4, <1>5 DEF ConnSound, InOrder, NoHoles
<1>7. ConnSound(write(c, comment), q)
  BY <1>1, <1>6, CommentSound
<1>8. start(q) = poll(write(c, comment))
  BY DEF start, c
<1> QED BY <1>7, <1>8, PollSound

LEMMA BeatSound ==
  ASSUME LogInv, NEW q \in Nat, NEW c, ConnSound(c, q)
  PROVE  ConnSound(beat(c), q)
BY CommentSound DEF beat

(* The response has emptied its buffer: it takes frames again. *)
LEMMA DrainedSound ==
  ASSUME LogInv, NEW q \in Nat, NEW c, ConnSound(c, q), c.buffered = 0
  PROVE  ConnSound(drained(c), q)
<1> DEFINE r == [c EXCEPT !.blocked = FALSE]
<1>1. c \in Connection
  BY DEF ConnSound
<1>2. /\ r \in Connection /\ r.state = c.state /\ r.afterSeq = c.afterSeq
      /\ r.wire = c.wire /\ r.buffered = c.buffered
  BY <1>1 DEF Connection
<1>3. drained(c) = poll(r)
  BY DEF drained
<1> HIDE DEF r
<1>4. Told(r) = Told(c)
  BY <1>2 DEF Told
<1>5. Buffer(r)
  BY <1>2, Constants DEF ConnSound, Buffer
<1>6. InOrder(r, q) /\ NoHoles(r, q) /\ (r.state = "open" => PutBehind(r, q))
  BY <1>2, <1>4 DEF ConnSound, InOrder, NoHoles, PutBehind
<1>7. ConnSound(r, q)
  BY <1>2, <1>4, <1>5, <1>6 DEF ConnSound
<1> QED BY <1>3, <1>7, PollSound

LEMMA CloseSound ==
  ASSUME LogInv, NEW q \in Nat, NEW c, ConnSound(c, q)
  PROVE  ConnSound(close(c), q)
<1>1. CASE c.state # "open"
  BY <1>1 DEF close
<1>2. CASE c.state = "open"
  <2> DEFINE r == [c EXCEPT !.state = "ended", !.blocked = FALSE]
  <2>1. c \in Connection
    BY DEF ConnSound
  <2>2. /\ r \in Connection /\ r.state = "ended" /\ r.wire = c.wire /\ r.buffered = c.buffered
    BY <2>1 DEF Connection
  <2>3. close(c) = r
    BY <1>2 DEF close
  <2> HIDE DEF r
  <2>4. Told(r) = Told(c)
    BY <2>2 DEF Told
  <2>5. Buffer(r) /\ InOrder(r, q) /\ NoHoles(r, q)
    BY <2>2, <2>4 DEF ConnSound, InOrder, NoHoles, Buffer
  <2> QED BY <2>2, <2>3, <2>4, <2>5 DEF ConnSound
<1> QED BY <1>1, <1>2

(* The socket takes a frame of the buffer. *)
LEMMA FlushSound ==
  ASSUME LogInv, NEW q \in Nat, NEW c, ConnSound(c, q), c.buffered > 0
  PROVE  ConnSound([c EXCEPT !.buffered = @ - 1], q)
<1> DEFINE n == c.buffered - 1
           r == [c EXCEPT !.buffered = n]
<1>1. c \in Connection /\ c.buffered \in Nat /\ n \in Nat
  BY DEF ConnSound, Connection
<1>2. n < c.buffered /\ Len(c.wire) \in Nat
  BY <1>1 DEF Connection
<1> HIDE DEF n
<1>3. /\ r \in Connection /\ r.state = c.state /\ r.afterSeq = c.afterSeq
      /\ r.wire = c.wire /\ r.buffered = n /\ r.blocked = c.blocked
  BY <1>1 DEF Connection
<1> HIDE DEF r
<1>4. Told(r) = Told(c)
  BY <1>3 DEF Told
<1>5. Buffer(r)
  BY <1>1, <1>2, <1>3, Constants DEF ConnSound, Buffer
<1>6. InOrder(r, q) /\ NoHoles(r, q) /\ (r.state = "open" => PutBehind(r, q))
  BY <1>3, <1>4 DEF ConnSound, InOrder, NoHoles, PutBehind
<1>7. ConnSound(r, q)
  BY <1>3, <1>4, <1>5, <1>6 DEF ConnSound
<1> QED BY <1>7 DEF r, n

(* A crash keeps the frames the socket already holds. *)
LEMMA CrashSound ==
  ASSUME LogInv, NEW q \in Nat, NEW c, ConnSound(c, q)
  PROVE  ConnSound([close(c) EXCEPT !.buffered = 0,
                      !.wire = SubSeq(c.wire, 1, Len(c.wire) - c.buffered)], q)
<1> DEFINE n == Len(c.wire) - c.buffered
           w == SubSeq(c.wire, 1, n)
           zero == 0
           r == [close(c) EXCEPT !.buffered = zero, !.wire = w]
<1>1. /\ close(c) \in Connection /\ close(c).state # "open"
      /\ c \in Connection /\ Len(c.wire) \in Nat /\ n \in Nat /\ n <= Len(c.wire)
  <2>1. ConnSound(close(c), q) /\ c \in Connection /\ Buffer(c)
    BY CloseSound DEF ConnSound
  <2>2. close(c).state # "open"
    BY <2>1 DEF close, Connection
  <2> QED BY <2>1, <2>2 DEF ConnSound, Buffer, Connection
<1>2. w \in Seq(Frame) /\ Len(w) = n /\ \A i \in 1..n : w[i] = c.wire[i]
  BY <1>1 DEF Connection
<1>3. zero \in Nat
  OBVIOUS
<1> HIDE DEF w, n, zero
<1>4. /\ r \in Connection /\ r.state # "open" /\ r.wire = w /\ r.buffered = zero
  BY <1>1, <1>2, <1>3 DEF Connection
<1> HIDE DEF r
<1>5. /\ Told(r) = {i \in Told(c) : i <= n}
      /\ \A i \in Told(r) : r.wire[i] = c.wire[i]
  BY <1>1, <1>2, <1>4 DEF Told
<1>6. Buffer(r)
  BY <1>1, <1>2, <1>4, Constants DEF Buffer, zero
<1>7. InOrder(r, q)
  BY <1>5 DEF ConnSound, InOrder
<1>8. NoHoles(r, q)
  <2> SUFFICES ASSUME NEW i \in Told(r), NEW s \in (q + 1)..(r.wire[i].from - 1), subscribed(s)
               PROVE  \E j \in Told(r) : j < i /\ s \in r.wire[j].from..r.wire[j].id
    BY DEF NoHoles
  <2>1. PICK j \in Told(c) : j < i /\ s \in c.wire[j].from..c.wire[j].id
    BY <1>5 DEF ConnSound, NoHoles
  <2>2. i \in Told(c) /\ i <= n
    BY <1>5
  <2>3. i \in Nat /\ j \in Nat
    BY <2>1, <2>2 DEF Told
  <2>4. j <= n
    BY <1>1, <2>1, <2>2, <2>3
  <2>5. j \in Told(r)
    BY <1>5, <2>1, <2>4
  <2> QED BY <1>5, <2>1, <2>5
<1>9. ConnSound(r, q)
  BY <1>4, <1>5, <1>6, <1>7, <1>8 DEF ConnSound
<1> QED BY <1>9 DEF r, w, n, zero

(* The client's sequence after a frame *)
Past(q, frame) == IF frame.event = "comment" THEN q ELSE frame.id

(* A frame received: what the client skips by moving to it is not subscribed,
   and the rest of the wire is sound from there. *)
LEMMA ConsumeSound ==
  ASSUME LogInv, NEW q \in Nat, NEW c, ConnSound(c, q), Len(c.wire) > c.buffered,
         NEW frame, frame = Head(c.wire)
  PROVE  /\ frame \in Frame
         /\ ConnSound([c EXCEPT !.wire = Tail(@)], Past(q, frame))
         /\ frame.event # "comment" =>
              /\ q < frame.id /\ frame.id <= Latest
              /\ \A s \in (q + 1)..frame.id : subscribed(s) => s \in frame.from..frame.id
<1> DEFINE w == Tail(c.wire)
           r == [c EXCEPT !.wire = w]
           p == Past(q, frame)
<1>1. c \in Connection /\ c.buffered \in Nat /\ c.wire \in Seq(Frame) /\ Len(c.wire) \in Nat
  BY DEF ConnSound, Connection
<1>2. /\ w \in Seq(Frame) /\ Len(w) = Len(c.wire) - 1 /\ \A i \in 1..Len(w) : w[i] = c.wire[i + 1]
      /\ frame = c.wire[1] /\ 1 \in 1..Len(c.wire) /\ frame \in Frame
  BY <1>1
<1> HIDE DEF w
<1>3. /\ r \in Connection /\ r.state = c.state /\ r.afterSeq = c.afterSeq
      /\ r.wire = w /\ r.buffered = c.buffered /\ r.blocked = c.blocked
  BY <1>1, <1>2 DEF Connection
<1> HIDE DEF r
<1>4. \A i \in Told(r) : i + 1 \in Told(c) /\ r.wire[i] = c.wire[i + 1] /\ i \in 1..Len(w)
  BY <1>1, <1>2, <1>3 DEF Told
<1>5. \A j \in Told(c) : j # 1 => j - 1 \in Told(r) /\ r.wire[j - 1] = c.wire[j]
  <2> SUFFICES ASSUME NEW j \in Told(c), j # 1
               PROVE  j - 1 \in Told(r) /\ r.wire[j - 1] = c.wire[j]
    OBVIOUS
  <2>1. j - 1 \in 1..Len(w) /\ (j - 1) + 1 = j
    BY <1>1, <1>2 DEF Told
  <2>2. w[j - 1] = c.wire[j]
    BY <1>2, <2>1
  <2> QED BY <1>3, <2>1, <2>2 DEF Told
<1>6. /\ InOrder(c, q) /\ NoHoles(c, q) /\ Buffer(c) /\ (c.state = "open" => PutBehind(c, q))
      /\ \A i \in Told(c) : FrameSound(c.wire[i])
  BY DEF ConnSound
<1>7. \A i \in Told(c) : /\ c.wire[i].from \in Nat /\ c.wire[i].id \in Nat
                         /\ i \in 1..Len(c.wire) /\ c.wire[i].from <= c.wire[i].id
  <2>1. \A i \in 1..Len(c.wire) : c.wire[i] \in Frame
    BY <1>1
  <2> QED BY <1>6, <2>1 DEF Frame, Told, FrameSound
<1>8. frame.event # "comment" => 1 \in Told(c)
  BY <1>2 DEF Told
<1>9. /\ p \in Nat /\ q <= p
      /\ \A i \in Told(c) : i # 1 => c.wire[i].from > p
      /\ \A s : s > p => ~(1 \in Told(c) /\ s \in c.wire[1].from..c.wire[1].id)
      /\ c.state = "open" => p <= c.afterSeq
  <2>1. CASE frame.event = "comment"
    <3>1. p = q /\ 1 \notin Told(c)
      BY <1>2, <2>1 DEF Past, Told
    <3> QED BY <1>6, <1>7, <3>1 DEF InOrder, PutBehind
  <2>2. CASE frame.event # "comment"
    <3>1. p = c.wire[1].id /\ 1 \in Told(c)
      BY <1>2, <1>8, <2>2 DEF Past
    <3>2. c.wire[1].from > q
      BY <1>6, <3>1 DEF InOrder
    <3>3. \A i \in Told(c) : i # 1 => c.wire[i].from > p
      <4> SUFFICES ASSUME NEW i \in Told(c), i # 1
                   PROVE  c.wire[i].from > p
        OBVIOUS
      <4>1. 1 < i
        BY <1>7
      <4> QED BY <1>6, <3>1, <4>1 DEF InOrder
    <3>4. c.state = "open" => p <= c.afterSeq
      BY <1>6, <3>1 DEF PutBehind
    <3> HIDE DEF p
    <3> QED BY <1>7, <3>1, <3>2, <3>3, <3>4
  <2> QED BY <2>1, <2>2
<1> HIDE DEF p
<1>10. InOrder(r, p)
  <2>1. ASSUME NEW i \in Told(r)
        PROVE  r.wire[i].from > p /\ \A j \in Told(r) : j < i => r.wire[i].from > r.wire[j].id
    <3>1. i + 1 \in Told(c) /\ i + 1 # 1 /\ i \in Nat
      BY <1>2, <1>4
    <3>2. r.wire[i].from > p
      BY <1>4, <1>9, <3>1
    <3>3. ASSUME NEW j \in Told(r), j < i
          PROVE  r.wire[i].from > r.wire[j].id
      <4>1. j + 1 \in Told(c) /\ j \in Nat /\ j + 1 < i + 1
        BY <1>2, <1>4, <3>1, <3>3
      <4> QED BY <1>4, <1>6, <3>1, <4>1 DEF InOrder
    <3> QED BY <3>2, <3>3
  <2> QED BY <2>1 DEF InOrder
<1>11. NoHoles(r, p)
  <2> SUFFICES ASSUME NEW i \in Told(r), NEW s \in (p + 1)..(r.wire[i].from - 1), subscribed(s)
               PROVE  \E j \in Told(r) : j < i /\ s \in r.wire[j].from..r.wire[j].id
    BY DEF NoHoles
  <2>1. i + 1 \in Told(c) /\ i \in Nat /\ r.wire[i] = c.wire[i + 1] /\ c.wire[i + 1].from \in Nat
    BY <1>2, <1>4, <1>7
  <2>2. s \in (q + 1)..(c.wire[i + 1].from - 1) /\ s > p
    BY <1>9, <2>1
  <2>3. PICK j \in Told(c) : j < i + 1 /\ s \in c.wire[j].from..c.wire[j].id
    BY <1>6, <2>1, <2>2 DEF NoHoles
  <2>4. j # 1 /\ j \in Nat
    BY <1>7, <1>9, <2>2, <2>3
  <2>5. j - 1 \in Told(r) /\ r.wire[j - 1] = c.wire[j] /\ j - 1 < i
    BY <1>5, <2>1, <2>3, <2>4
  <2> QED BY <2>3, <2>5
<1>12. ASSUME r.state = "open"
       PROVE  PutBehind(r, p)
  <2>1. p <= c.afterSeq /\ c.afterSeq <= Latest
    BY <1>3, <1>6, <1>9, <1>12 DEF PutBehind
  <2>2. \A i \in Told(r) : r.wire[i].id <= c.afterSeq
    BY <1>3, <1>4, <1>6, <1>12 DEF PutBehind
  <2>3. ASSUME NEW s \in (p + 1)..c.afterSeq, subscribed(s)
        PROVE  \E j \in Told(r) : s \in r.wire[j].from..r.wire[j].id
    <3>1. c.afterSeq \in Nat
      BY <1>1 DEF Connection
    <3>2. s \in (q + 1)..c.afterSeq /\ s > p
      BY <1>9, <3>1
    <3>3. PICK j \in Told(c) : s \in c.wire[j].from..c.wire[j].id
      BY <1>3, <1>6, <1>12, <2>3, <3>2 DEF PutBehind
    <3>4. j # 1
      BY <1>9, <3>2, <3>3
    <3> QED BY <1>5, <3>3, <3>4
  <2> QED BY <1>3, <2>1, <2>2, <2>3 DEF PutBehind
<1>13. Buffer(r)
  BY <1>1, <1>2, <1>3, <1>6 DEF Buffer
<1>14. \A i \in Told(r) : FrameSound(r.wire[i])
  BY <1>4, <1>6
<1>15. ConnSound(r, p)
  BY <1>3, <1>10, <1>11, <1>12, <1>13, <1>14 DEF ConnSound
<1>16. ASSUME frame.event # "comment"
       PROVE  /\ q < frame.id /\ frame.id <= Latest
              /\ \A s \in (q + 1)..frame.id : subscribed(s) => s \in frame.from..frame.id
  <2>1. 1 \in Told(c) /\ frame = c.wire[1] /\ FrameSound(frame) /\ frame.from \in Nat /\ frame.id \in Nat
    BY <1>2, <1>6, <1>7, <1>8, <1>16
  <2>2. q < frame.from
    BY <1>6, <2>1 DEF InOrder
  <2>3. \A s \in (q + 1)..(frame.from - 1) : ~subscribed(s)
    <3> SUFFICES ASSUME NEW s \in (q + 1)..(frame.from - 1), subscribed(s)
                 PROVE  FALSE
      OBVIOUS
    <3>1. PICK j \in Told(c) : j < 1
      BY <1>6, <2>1 DEF NoHoles
    <3> QED BY <1>7, <3>1
  <2> QED BY <2>1, <2>2, <2>3 DEF FrameSound
<1> QED BY <1>2, <1>15, <1>16 DEF r, w, p

-----------------------------------------------------------------------------
(* The steps *)

(* What is said of a connection speaks of the log up to its end: it stays
   true when the log grows. *)
LEMMA LogGrows ==
  ASSUME LogInv, NEW CONSTANT q \in Nat, NEW CONSTANT c, ConnSound(c, q),
         Latest' \in Nat, Latest <= Latest', \A s \in 1..Latest : subscribed(s)' <=> subscribed(s)
  PROVE  ConnSound(c, q)'
<1>1. /\ c \in Connection /\ InOrder(c, q) /\ NoHoles(c, q) /\ Buffer(c)
      /\ \A i \in Told(c) : FrameSound(c.wire[i])
      /\ c.state = "open" => PutBehind(c, q)
  BY DEF ConnSound
<1>2. c.afterSeq \in Nat /\ Latest \in Nat
  BY <1>1 DEF Connection, LogInv, Latest
<1>3. \A i \in Told(c) : c.wire[i].from \in Nat /\ c.wire[i].id \in Nat
  <2>1. \A i \in 1..Len(c.wire) : c.wire[i] \in Frame
    BY <1>1 DEF Connection
  <2> QED BY <2>1 DEF Frame, Told
<1>4. \A i \in Told(c) : FrameSound(c.wire[i])'
  BY <1>1, <1>2, <1>3 DEF FrameSound
<1>5. NoHoles(c, q)'
  <2> SUFFICES ASSUME NEW CONSTANT i \in Told(c), NEW CONSTANT s \in (q + 1)..(c.wire[i].from - 1),
                      subscribed(s)'
               PROVE  \E j \in Told(c) : j < i /\ s \in c.wire[j].from..c.wire[j].id
    BY DEF NoHoles, Told
  <2>1. s \in 1..Latest
    BY <1>1, <1>2, <1>3 DEF FrameSound
  <2> QED BY <1>1, <2>1 DEF NoHoles
<1>6. ASSUME c.state = "open"
      PROVE  PutBehind(c, q)'
  <2>1. PutBehind(c, q)
    BY <1>1, <1>6
  <2>2. ASSUME NEW CONSTANT s \in (q + 1)..c.afterSeq, subscribed(s)'
        PROVE  \E j \in Told(c) : s \in c.wire[j].from..c.wire[j].id
    <3>1. s \in 1..Latest
      BY <1>2, <2>1 DEF PutBehind
    <3> QED BY <2>1, <2>2, <3>1 DEF PutBehind
  <2> QED BY <1>2, <2>1, <2>2 DEF PutBehind, Told
<1> QED BY <1>1, <1>4, <1>5, <1>6 DEF ConnSound, InOrder, Buffer, Told, Connection, Frame

LEMMA LogUnchanged ==
  ASSUME LogInv, events' = events, NEW CONSTANT q \in Nat, NEW CONSTANT c, ConnSound(c, q)
  PROVE  ConnSound(c, q)'
<1>1. Latest' = Latest /\ Latest \in Nat /\ \A s \in 1..Latest : subscribed(s)' <=> subscribed(s)
  BY DEF Latest, subscribed, LogInv
<1> QED BY <1>1, LogGrows

LEMMA InitInv ==
  Init => IInv
<1> SUFFICES ASSUME Init
             PROVE  IInv
  OBVIOUS
<1>1. events \in Seq(EventTypes) /\ Latest = 1
  BY DEF Init, EventTypes, Latest
<1>2. LogInv
  BY <1>1, Constants DEF LogInv, Init
<1>3. ClientInv /\ client.sequence = 0 /\ client.boot = 0
  BY <1>1, Constants DEF ClientInv, Client, Init
<1>4. BehindIsSeen
  BY <1>3 DEF BehindIsSeen, subscribedIn
<1>5. ConnSound(conn, client.sequence)
  BY <1>2, <1>3, ClosedSound DEF Init
<1> QED BY <1>2, <1>3, <1>4, <1>5 DEF IInv

(* A step of the server's side or of the sockets: the log and the client stay. *)
LEMMA ConnStep ==
  ASSUME IInv, events' = events, client' = client, server' \in {"up", "down"},
         client.state # "live" => conn' = Closed,
         ConnSound(conn', client.sequence)
  PROVE  IInv'
<1>1. client.sequence \in Nat /\ LogInv
  BY DEF IInv, ClientInv, Client
<1>2. LogInv' /\ Latest' = Latest /\ BehindIsSeen'
  BY DEF IInv, LogInv, Latest, BehindIsSeen, subscribedIn, subscribed
<1>3. ConnSound(conn, client.sequence)'
  BY <1>1, LogUnchanged
<1>4. ClientInv'
  BY <1>2 DEF IInv, ClientInv, Client
<1> QED BY <1>2, <1>3, <1>4 DEF IInv

LEMMA ConnSteps ==
  ASSUME IInv,
         pollTimer \/ pollFails \/ heartbeat \/ flush \/ handleDrain \/ preClose \/ crash \/ restart
  PROVE  IInv'
<1> DEFINE q == client.sequence
<1>1. LogInv /\ q \in Nat /\ ConnSound(conn, q) /\ (client.state # "live" => conn = Closed)
  BY DEF IInv, ClientInv, Client
<1>2. Closed.state = "none" /\ Closed.buffered = 0 /\ server \in {"up", "down"}
  BY <1>1 DEF Closed, LogInv
<1>3. CASE pollTimer
  <2>1. ConnSound(conn', q)
    BY <1>1, <1>3, PollSound DEF pollTimer
  <2>2. client.state # "live" => conn' = Closed
    BY <1>1, <1>2, <1>3 DEF pollTimer, poll
  <2> QED BY <1>2, <1>3, <2>1, <2>2, ConnStep DEF pollTimer
<1>4. CASE pollFails
  <2>1. ConnSound(conn', q) /\ client.state = "live"
    BY <1>1, <1>2, <1>4, CloseSound DEF pollFails
  <2> QED BY <1>2, <1>4, <2>1, ConnStep DEF pollFails
<1>5. CASE heartbeat
  <2>1. ConnSound(conn', q) /\ client.state = "live"
    BY <1>1, <1>2, <1>5, BeatSound DEF heartbeat
  <2> QED BY <1>2, <1>5, <2>1, ConnStep DEF heartbeat
<1>6. CASE flush
  <2>1. ConnSound(conn', q) /\ client.state = "live"
    BY <1>1, <1>2, <1>6, FlushSound DEF flush
  <2> QED BY <1>2, <1>6, <2>1, ConnStep DEF flush
<1>7. CASE handleDrain
  <2>1. ConnSound(conn', q) /\ client.state = "live"
    BY <1>1, <1>2, <1>7, DrainedSound DEF handleDrain
  <2> QED BY <1>2, <1>7, <2>1, ConnStep DEF handleDrain
<1>8. CASE preClose
  <2>1. ConnSound(conn', q)
    BY <1>1, <1>8, CloseSound DEF preClose
  <2>2. client.state # "live" => conn' = Closed
    BY <1>1, <1>2, <1>8 DEF preClose, close
  <2> QED BY <1>8, <2>1, <2>2, ConnStep DEF preClose
<1>9. CASE crash
  <2>1. ConnSound(conn', q)
    BY <1>1, <1>9, CrashSound DEF crash
  <2>2. client.state # "live" => conn' = Closed
    <3>1. SubSeq(<<>>, 1, 0) = <<>> /\ Len(<<>>) - 0 = 0
      OBVIOUS
    <3>2. Closed.wire = <<>> /\ close(Closed) = Closed
      BY <1>2 DEF Closed, close
    <3>3. [Closed EXCEPT !.buffered = 0, !.wire = <<>>] = Closed
      <4> DEFINE fields == {"state", "afterSeq", "blocked", "wire", "buffered"}
                 emptied == [Closed EXCEPT !.buffered = 0, !.wire = <<>>]
      <4>1. DOMAIN Closed = fields
        BY DEF Closed
      <4>2. Closed.wire = <<>> /\ Closed.buffered = 0 /\ Closed = [x \in fields |-> Closed[x]]
        BY DEF Closed
      <4>3. emptied = [x \in fields |-> emptied[x]] /\ \A x \in fields : emptied[x] = Closed[x]
        BY <4>1, <4>2
      <4> QED BY <4>2, <4>3
    <3>4. ASSUME conn = Closed
          PROVE  conn' = [Closed EXCEPT !.buffered = 0, !.wire = <<>>]
      <4>1. conn' = [close(Closed) EXCEPT !.buffered = 0,
                       !.wire = SubSeq(Closed.wire, 1, Len(Closed.wire) - Closed.buffered)]
        BY <1>9, <3>4 DEF crash
      <4>2. SubSeq(Closed.wire, 1, Len(Closed.wire) - Closed.buffered) = <<>>
        BY <1>2, <3>1, <3>2
      <4> QED BY <3>2, <4>1, <4>2
    <3> QED BY <1>1, <3>3, <3>4
  <2> QED BY <1>9, <2>1, <2>2, ConnStep DEF crash
<1>10. CASE restart
  BY <1>1, <1>10, ConnStep DEF restart
<1> QED BY <1>3, <1>4, <1>5, <1>6, <1>7, <1>8, <1>9, <1>10

LEMMA AppendStep ==
  ASSUME IInv, appendBatch
  PROVE  IInv'
<1>1. PICK batch \in Batches : Latest + Len(batch) <= LastSeq /\ events' = events \o batch
  BY DEF appendBatch
<1>2. /\ events \in Seq(EventTypes) /\ batch \in Seq(EventTypes) /\ Latest \in Nat
      /\ client.sequence \in Nat /\ LogInv /\ client.boot \in Nat /\ client.sequence <= Latest
  BY Constants DEF IInv, LogInv, Latest, ClientInv, Client
<1>3. /\ events' \in Seq(EventTypes) /\ Latest' = Latest + Len(batch) /\ Len(batch) \in Nat
      /\ \A s \in 1..Latest : events'[s] = events[s]
  BY <1>1, <1>2 DEF Latest
<1>4. LogInv'
  BY <1>1, <1>3 DEF appendBatch, IInv, LogInv
<1>5. ClientInv'
  BY <1>2, <1>3 DEF appendBatch, IInv, ClientInv, Client
<1>6. \A s \in 1..Latest : subscribed(s)' <=> subscribed(s)
  BY <1>3 DEF subscribed
<1>7. BehindIsSeen'
  BY <1>2, <1>6 DEF appendBatch, IInv, BehindIsSeen, subscribedIn
<1>8. ConnSound(conn, client.sequence) /\ conn' = conn /\ client' = client
  BY DEF IInv, appendBatch
<1>9. ConnSound(conn, client.sequence)'
  BY <1>2, <1>3, <1>6, <1>8, LogGrows
<1> QED BY <1>4, <1>5, <1>7, <1>9 DEF IInv

(* A step of the client without a frame: its sequence stays, or it asks for
   the status. *)
LEMMA ClientStep ==
  ASSUME IInv, events' = events, server' = server, conn' = Closed,
         client' \in Client, client'.sequence <= Latest,
         client'.state = "waiting" => client'.attempt < MaxReconnects,
         \/ client'.seen = client.seen /\ client'.sequence = client.sequence /\ client'.boot = client.boot
         \/ client'.sequence = client'.boot
  PROVE  IInv'
<1>1. LogInv' /\ Latest' = Latest
  BY DEF IInv, LogInv, Latest
<1>2. ClientInv'
  BY <1>1 DEF ClientInv, Client
<1>3. BehindIsSeen'
  BY DEF IInv, Client, BehindIsSeen, subscribedIn, subscribed
<1>4. ConnSound(conn, client.sequence)'
  <2>1. LogInv /\ client'.sequence \in Nat
    BY DEF IInv, Client
  <2>2. ConnSound(Closed, client'.sequence)
    BY <2>1, ClosedSound
  <2> QED BY <2>1, <2>2, LogUnchanged
<1> QED BY <1>1, <1>2, <1>3, <1>4 DEF IInv

LEMMA RetryShape ==
  ASSUME NEW c \in Client, c.state = "waiting" => c.attempt < MaxReconnects
  PROVE  /\ retry(c).state = "waiting" => retry(c).attempt < MaxReconnects
         /\ retry(c) \in Client /\ retry(c).sequence = c.sequence
         /\ retry(c).boot = c.boot /\ retry(c).seen = c.seen
BY Constants DEF retry, Client

LEMMA ClientSteps ==
  ASSUME IInv, getStatus \/ connectFails \/ waitForRetry \/ endReceived \/ cut
  PROVE  IInv'
<1>1. /\ client \in Client /\ client.sequence <= Latest /\ Latest \in Nat
      /\ client.state # "live" => conn = Closed
      /\ client.state = "waiting" => client.attempt < MaxReconnects
  BY DEF IInv, ClientInv, LogInv, Latest
<1>2. CASE getStatus
  <2>1. PICK s \in {0, Latest} :
          client' = [client EXCEPT !.state = "connecting", !.sequence = s, !.boot = s]
    BY <1>2 DEF getStatus
  <2>2. s \in Nat /\ s <= Latest
    BY <1>1
  <2>3. client' \in Client /\ client'.sequence = s /\ client'.boot = s /\ client'.state = "connecting"
    BY <1>1, <2>1, <2>2 DEF Client
  <2> QED BY <1>1, <1>2, <2>2, <2>3, ClientStep DEF getStatus
<1>3. CASE connectFails \/ endReceived \/ cut
  <2>1. client' = retry(client) /\ conn' = Closed /\ events' = events /\ server' = server
    BY <1>1, <1>3 DEF connectFails, endReceived, cut
  <2> QED BY <1>1, <2>1, RetryShape, ClientStep
<1>4. CASE waitForRetry
  <2> DEFINE n == client.attempt + 1
  <2>1. /\ client' = [client EXCEPT !.state = "connecting", !.attempt = n]
        /\ conn' = Closed /\ events' = events /\ server' = server
    BY <1>1, <1>4 DEF waitForRetry
  <2>2. n \in 0..MaxReconnects
    BY <1>1, <1>4, Constants DEF waitForRetry, Client
  <2> HIDE DEF n
  <2>3. /\ client' \in Client /\ client'.state = "connecting" /\ client'.seen = client.seen
        /\ client'.sequence = client.sequence /\ client'.boot = client.boot
    BY <1>1, <2>1, <2>2 DEF Client
  <2> QED BY <1>1, <2>1, <2>3, ClientStep
<1> QED BY <1>2, <1>3, <1>4

LEMMA ConnectStep ==
  ASSUME IInv, connect
  PROVE  IInv'
<1>1. /\ client \in Client /\ client.sequence <= Latest /\ client.sequence \in Nat /\ LogInv
      /\ conn' = start(client.sequence) /\ client' = [client EXCEPT !.state = "live"] /\ events' = events
  BY DEF IInv, ClientInv, Client, connect, parseLastEventId
<1>2. /\ client' \in Client /\ client'.state = "live" /\ client'.sequence = client.sequence
      /\ client'.boot = client.boot /\ client'.seen = client.seen
  BY <1>1 DEF Client
<1>3. ConnSound(conn', client'.sequence)
  BY <1>1, <1>2, StartSound
<1>4. ConnSound(conn, client.sequence)'
  BY <1>1, <1>2, <1>3, LogUnchanged
<1>5. LogInv' /\ Latest' = Latest
  BY <1>1 DEF connect, LogInv, Latest
<1>6. ClientInv'
  BY <1>1, <1>2, <1>5 DEF ClientInv
<1>7. BehindIsSeen'
  BY <1>1, <1>2 DEF IInv, BehindIsSeen, subscribedIn, subscribed
<1> QED BY <1>4, <1>5, <1>6, <1>7 DEF IInv

LEMMA ConsumeStep ==
  ASSUME IInv, consumeEventStream
  PROVE  IInv'
<1> DEFINE q == client.sequence
           frame == Head(conn.wire)
<1>1. /\ client \in Client /\ q \in Nat /\ q <= Latest /\ LogInv /\ ConnSound(conn, q)
      /\ events' = events /\ server' = server /\ client.state = "live" /\ Len(conn.wire) > conn.buffered
      /\ conn' = [conn EXCEPT !.wire = Tail(@)] /\ client' = deliver(client, frame)
  BY DEF IInv, ClientInv, Client, consumeEventStream
<1>2. LogInv' /\ Latest' = Latest /\ Latest \in Nat
  BY <1>1 DEF LogInv, Latest
<1> HIDE DEF frame
<1>3. /\ frame \in Frame
      /\ ConnSound(conn', Past(q, frame))
      /\ frame.event # "comment" =>
           /\ q < frame.id /\ frame.id <= Latest
           /\ \A s \in (q + 1)..frame.id : subscribed(s) => s \in frame.from..frame.id
  BY <1>1, ConsumeSound DEF frame
<1>4. /\ client' \in Client /\ client'.state = "live" /\ client'.sequence = Past(q, frame)
      /\ client'.boot = client.boot
      /\ client'.seen = IF frame.event = "comment" THEN client.seen
                        ELSE client.seen \cup (frame.from..frame.id)
  <2>1. CASE frame.event = "comment"
    BY <1>1, <2>1 DEF deliver, Past
  <2>2. CASE frame.event # "comment"
    <3> DEFINE id == frame.id
               told == frame.from..frame.id
    <3>1. id \in Nat /\ told \subseteq Nat
      BY <1>3 DEF Frame
    <3>2. client' = [client EXCEPT !.sequence = id, !.seen = @ \cup told]
      BY <1>1, <2>2 DEF deliver
    <3> HIDE DEF id, told
    <3>3. /\ client' \in Client /\ client'.state = "live" /\ client'.sequence = id
          /\ client'.boot = client.boot /\ client'.seen = client.seen \cup told
      BY <1>1, <3>1, <3>2 DEF Client
    <3> QED BY <2>2, <3>3 DEF Past, id, told
  <2> QED BY <2>1, <2>2
<1>5. ConnSound(conn, client.sequence)'
  <2>1. client'.sequence \in Nat
    BY <1>4 DEF Client
  <2> QED BY <1>1, <1>3, <1>4, <2>1, LogUnchanged
<1>6. ClientInv'
  BY <1>1, <1>2, <1>3, <1>4 DEF ClientInv, Past
<1>7. BehindIsSeen'
  <2>1. subscribedIn(client.boot, q) \subseteq client.seen /\ client.boot \in Nat
    BY <1>1 DEF IInv, BehindIsSeen, Client
  <2>2. CASE frame.event = "comment"
    BY <1>1, <1>4, <2>1, <2>2 DEF Past, BehindIsSeen, subscribedIn, subscribed
  <2>3. CASE frame.event # "comment"
    <3>1. frame.id \in Nat /\ frame.from \in Nat
      BY <1>3 DEF Frame
    <3>2. ASSUME NEW s \in (client.boot + 1)..frame.id, subscribed(s)
          PROVE  s \in client.seen \cup (frame.from..frame.id)
      <4>1. CASE s <= q
        BY <1>1, <2>1, <3>1, <3>2, <4>1 DEF subscribedIn
      <4>2. CASE s > q
        <5>1. s \in (q + 1)..frame.id
          BY <1>1, <2>1, <3>1, <4>2
        <5> QED BY <1>3, <2>3, <3>2, <5>1
      <4> QED BY <1>1, <2>1, <3>1, <4>1, <4>2
    <3>3. \A s : subscribed(s)' <=> subscribed(s)
      BY <1>1 DEF subscribed
    <3> HIDE DEF q
    <3>4. client'.sequence = frame.id /\ client'.boot = client.boot /\ client'.seen = client.seen \cup (frame.from..frame.id)
      BY <1>4, <2>3 DEF Past
    <3> QED BY <3>2, <3>3, <3>4 DEF BehindIsSeen, subscribedIn
  <2> QED BY <2>2, <2>3
<1> QED BY <1>2, <1>5, <1>6, <1>7 DEF IInv

LEMMA StepInv ==
  IInv /\ [Next]_vars => IInv'
<1> SUFFICES ASSUME IInv, [Next]_vars
             PROVE  IInv'
  OBVIOUS
<1>1. CASE appendBatch
  BY <1>1, AppendStep
<1>2. CASE getStatus \/ connectFails \/ waitForRetry \/ endReceived \/ cut
  BY <1>2, ClientSteps
<1>3. CASE connect
  BY <1>3, ConnectStep
<1>4. CASE pollTimer \/ pollFails \/ heartbeat \/ flush \/ handleDrain \/ preClose \/ crash \/ restart
  BY <1>4, ConnSteps
<1>5. CASE consumeEventStream
  BY <1>5, ConsumeStep
<1>6. CASE UNCHANGED vars
  <2>1. /\ events' = events /\ client' = client /\ server' = server /\ conn' = conn
        /\ server \in {"up", "down"} /\ ConnSound(conn, client.sequence)
        /\ client.state # "live" => conn = Closed
    BY <1>6 DEF vars, IInv, LogInv, ClientInv
  <2> QED BY <2>1, ConnStep
<1> QED BY <1>1, <1>2, <1>3, <1>4, <1>5, <1>6 DEF Next, Reconnecting

LEMMA InvSound ==
  IInv => StreamSound
<1> SUFFICES ASSUME IInv
             PROVE  StreamSound
  OBVIOUS
<1>1. /\ LogInv /\ client \in Client /\ client.sequence <= Latest /\ BehindIsSeen
      /\ ConnSound(conn, client.sequence)
  BY DEF IInv, ClientInv
<1>2. /\ conn \in Connection /\ Buffer(conn) /\ InOrder(conn, client.sequence)
      /\ conn.state = "open" => PutBehind(conn, client.sequence)
      /\ \A i \in Told(conn) : FrameSound(conn.wire[i])
  BY <1>1 DEF ConnSound
<1>3. DOMAIN conn.wire = 1..Len(conn.wire) /\ Len(conn.wire) \in Nat
  BY <1>2 DEF Connection
<1>4. Frames = Told(conn)
  BY <1>3 DEF Frames, Told
<1>5. TypeOK
  BY <1>1, <1>2, <1>3 DEF TypeOK, LogInv, Client, Connection, Buffer, Latest
<1>6. GapsAreEarned
  BY <1>2, <1>4 DEF GapsAreEarned, FrameSound
<1>7. AheadIsOnItsWay
  <2> SUFFICES ASSUME conn.state = "open"
               PROVE  /\ subscribedIn(client.sequence, conn.afterSeq) \subseteq onItsWay
                      /\ InOrder(conn, client.sequence)
    BY <1>4 DEF AheadIsOnItsWay, InOrder
  <2> QED BY <1>2, <1>4 DEF subscribedIn, onItsWay, PutBehind
<1>8. BackpressureHeld
  BY <1>2 DEF BackpressureHeld, Buffer
<1> QED BY <1>1, <1>5, <1>6, <1>7, <1>8 DEF StreamSound, NothingLost

(* Across reconnections, restarts of the server, crashes and slow sockets,
   for every backlog limit, high-water mark and length of the log: no
   committed event of a subscribed topic escapes the client unnoticed, none
   is sent twice on a connection, a gap is reported only for a backlog beyond
   the limit, and the response's buffer never passes its mark. *)
THEOREM StreamSoundHolds == Spec => []StreamSound
<1>1. Init => IInv
  BY InitInv
<1>2. IInv /\ [Next]_vars => IInv'
  BY StepInv
<1>3. IInv => StreamSound
  BY InvSound
<1> QED BY <1>1, <1>2, <1>3, PTL DEF Spec

-----------------------------------------------------------------------------
(* The newspaper: arithmetic *)

(* The greater and the smaller of two integers *)
LEMMA MaxOfTwo ==
  ASSUME NEW x \in Int, NEW y \in Int
  PROVE  Max({x, y}) = IF x >= y THEN x ELSE y
<1> DEFINE m == IF x >= y THEN x ELSE y
<1>1. m \in {x, y} /\ \A z \in {x, y} : m >= z
  OBVIOUS
<1>2. \A z \in {x, y} : (\A w \in {x, y} : z >= w) => z = m
  OBVIOUS
<1> HIDE DEF m
<1>3. Max({x, y}) \in {x, y} /\ \A z \in {x, y} : Max({x, y}) >= z
  BY <1>1 DEF Max
<1>4. Max({x, y}) = m
  BY <1>2, <1>3
<1> QED BY <1>4 DEF m

LEMMA MinOfTwo ==
  ASSUME NEW x \in Int, NEW y \in Int
  PROVE  Min({x, y}) = IF x <= y THEN x ELSE y
<1> DEFINE m == IF x <= y THEN x ELSE y
<1>1. m \in {x, y} /\ \A z \in {x, y} : m <= z
  OBVIOUS
<1>2. \A z \in {x, y} : (\A w \in {x, y} : z <= w) => z = m
  OBVIOUS
<1> HIDE DEF m
<1>3. Min({x, y}) \in {x, y} /\ \A z \in {x, y} : Min({x, y}) <= z
  BY <1>1 DEF Min
<1>4. Min({x, y}) = m
  BY <1>2, <1>3
<1> QED BY <1>4 DEF m

LEMMA Clamped ==
  ASSUME NEW x \in Int, NEW limit \in Nat
  PROVE  clampTo(x, limit) = IF x > limit THEN limit ELSE IF x < -limit THEN -limit ELSE x
<1>1. Min({limit, x}) = IF limit <= x THEN limit ELSE x
  BY MinOfTwo
<1>2. Max({-limit, Min({limit, x})}) = IF -limit >= Min({limit, x}) THEN -limit ELSE Min({limit, x})
  BY <1>1, MaxOfTwo
<1> QED BY <1>1, <1>2 DEF clampTo

(* Numbers up to a limit, either side of zero *)
Within(x, limit) == x \in Int /\ -limit <= x /\ x <= limit

LEMMA ClampedWithin ==
  ASSUME NEW x \in Int, NEW limit \in Nat
  PROVE  /\ Within(clampTo(x, limit), limit)
         /\ Within(x, limit) => clampTo(x, limit) = x
BY Clamped DEF Within

(* A decayed value is an integer no larger than it was. *)
LEMMA Decays ==
  ASSUME NEW v, NEW limit \in Nat, Within(v, limit)
  PROVE  Within(decaySentiment(v), limit) /\ (v = 0 => decaySentiment(v) = 0)
<1> USE DEF Within
<1>1. CASE v < 0
  <2>1. -((-(v * 9950)) \div 10000) \in Int /\ (-(v * 9950)) \div 10000 >= 0 /\ (-(v * 9950)) \div 10000 <= -v
    BY <1>1
  <2> QED BY <1>1, <2>1 DEF decaySentiment, towardZero
<1>2. CASE v >= 0
  <2>1. (v * 9950) \div 10000 \in Int /\ (v * 9950) \div 10000 >= 0 /\ (v * 9950) \div 10000 <= v
    BY <1>2
  <2> QED BY <1>2, <2>1 DEF decaySentiment, towardZero
<1> QED BY <1>1, <1>2

-----------------------------------------------------------------------------
(* The decay of several ticks is that of one after the other, ... *)

DecayOf(u, v, n) == u = [i \in 0..n |-> IF i = 0 THEN v ELSE decaySentiment(u[i - 1])]

(* The decayed values, from the first on *)
Decaying(s, N, v, limit) ==
  /\ s \in [0..N -> {x \in Int : Within(x, limit)}]
  /\ s[0] = v
  /\ \A n \in 1..N : s[n] = decaySentiment(s[n - 1])
  /\ \A n \in 0..N : decaySentimentAcrossTicks(v, n) = s[n]

LEMMA DecayTable ==
  ASSUME NEW N \in Nat, NEW limit \in Nat, NEW v, Within(v, limit)
  PROVE  \E s : Decaying(s, N, v, limit)
<1> DEFINE V == {x \in Int : Within(x, limit)}
           step == [k \in 1..N |-> [x \in V |-> decaySentiment(x)]]
<1>1. \A x \in V : decaySentiment(x) \in V
  BY Decays DEF Within
<1>2. step \in Steps(N, V)
  BY <1>1 DEF Steps
<1>3. v \in V
  BY DEF Within
<1> HIDE DEF step, V
<1>4. PICK s : Follows(s, N, V, v, step)
  BY <1>2, <1>3, BoundedRecursion
<1>5. s \in [0..N -> V] /\ s[0] = v /\ \A k \in 1..N : s[k] = step[k][s[k - 1]]
  BY <1>4 DEF Follows
<1>6. ASSUME NEW k \in 1..N
      PROVE  s[k] = decaySentiment(s[k - 1])
  <2>1. k - 1 \in 0..N
    OBVIOUS
  <2>2. s[k - 1] \in V
    BY <1>5, <2>1
  <2>3. step[k][s[k - 1]] = decaySentiment(s[k - 1])
    BY <2>2 DEF step
  <2> QED BY <1>5, <2>3
<1>7. ASSUME NEW n \in 0..N
      PROVE  decaySentimentAcrossTicks(v, n) = s[n]
  <2> DEFINE g == CHOOSE u : DecayOf(u, v, n)
  <2>1. DecayOf([i \in 0..n |-> s[i]], v, n)
    <3>1. ASSUME NEW i \in 0..n
          PROVE  s[i] = IF i = 0 THEN v ELSE decaySentiment([j \in 0..n |-> s[j]][i - 1])
      <4>1. CASE i = 0
        BY <1>5, <4>1
      <4>2. CASE i # 0
        <5>1. i \in 1..N /\ i - 1 \in 0..n
          BY <4>2
        <5> QED BY <1>6, <4>2, <5>1
      <4> QED BY <4>1, <4>2
    <3> QED BY <3>1 DEF DecayOf
  <2>2. DecayOf(g, v, n)
    BY <2>1
  <2>3. decaySentimentAcrossTicks(v, n) = g[n]
    BY DEF decaySentimentAcrossTicks, DecayOf
  <2> HIDE DEF g
  <2> DEFINE S == {i \in Nat : i <= n => g[i] = s[i]}
  <2>4. 0 \in S
    BY <1>5, <2>2 DEF DecayOf
  <2>5. ASSUME NEW i \in Nat, i \in S
        PROVE  i + 1 \in S
    <3> SUFFICES ASSUME i + 1 <= n
                 PROVE  g[i + 1] = s[i + 1]
      OBVIOUS
    <3>1. i + 1 \in 1..N /\ i + 1 \in 0..n /\ i + 1 # 0 /\ (i + 1) - 1 = i /\ i <= n
      OBVIOUS
    <3>2. g[i + 1] = decaySentiment(g[i])
      BY <2>2, <3>1 DEF DecayOf
    <3>3. s[i + 1] = decaySentiment(s[i])
      BY <1>6, <3>1
    <3> QED BY <2>5, <3>1, <3>2, <3>3
  <2> HIDE DEF S
  <2>6. Nat \subseteq S
    BY <2>4, <2>5, NatSetInduction
  <2>7. n \in S
    BY <2>6
  <2> QED BY <2>3, <2>7 DEF S
<1> QED BY <1>5, <1>6, <1>7 DEF V, Decaying

LEMMA DecayGoesOn ==
  ASSUME NEW n \in Nat, NEW limit \in Nat, NEW v, Within(v, limit)
  PROVE  /\ decaySentimentAcrossTicks(v, 0) = v
         /\ Within(decaySentimentAcrossTicks(v, n), limit)
         /\ decaySentimentAcrossTicks(v, n + 1) = decaySentiment(decaySentimentAcrossTicks(v, n))
<1>1. n + 1 \in Nat
  OBVIOUS
<1> DEFINE N == n + 1
<1> HIDE DEF N
<1>p. PICK s : Decaying(s, N, v, limit)
  BY <1>1, DecayTable DEF N
<1>2. /\ 0 \in 0..(n + 1) /\ n \in 0..(n + 1) /\ n + 1 \in 0..(n + 1) /\ n + 1 \in 1..(n + 1)
      /\ (n + 1) - 1 = n
  OBVIOUS
<1>3. s[n] \in {x \in Int : Within(x, limit)}
  BY <1>p, <1>2 DEF Decaying, N
<1> QED BY <1>p, <1>2, <1>3 DEF Decaying, N

(* ... and what the stories add up to is a number, and nothing if each adds
   nothing. *)
Points == [1..StoryCap -> Int]
SumOf(u, points) == u = [n \in 0..StoryCap |-> IF n = 0 THEN 0 ELSE u[n - 1] + points[n]]

LEMMA StoryCapType == StoryCap \in Nat /\ StoryCap > 0
BY NewsAssumption

LEMMA Totals ==
  ASSUME NEW points \in Points
  PROVE  /\ total(points) \in Int
         /\ (\A i \in 1..StoryCap : points[i] = 0) => total(points) = 0
<1> DEFINE N == StoryCap
<1>n. N \in Nat
  BY StoryCapType
<1> DEFINE step == [k \in 1..N |-> [x \in Int |-> x + points[k]]]
<1>1. \A k \in 1..N : points[k] \in Int
  BY DEF Points
<1>2. step \in Steps(N, Int)
  BY <1>1 DEF Steps
<1> HIDE DEF step
<1> HIDE DEF N
<1>z. 0 \in Int
  OBVIOUS
<1>3. PICK s : Follows(s, N, Int, 0, step)
  BY <1>n, <1>z, <1>2, BoundedRecursion
<1>4. s \in [0..N -> Int] /\ s[0] = 0 /\ \A k \in 1..N : s[k] = step[k][s[k - 1]]
  BY <1>3 DEF Follows
<1> USE DEF N
<1>5. ASSUME NEW k \in 1..N
      PROVE  s[k] = s[k - 1] + points[k]
  <2>1. k - 1 \in 0..N
    BY <1>n
  <2>2. s[k - 1] \in Int
    BY <1>4, <2>1
  <2>3. step[k][s[k - 1]] = s[k - 1] + points[k]
    BY <2>2 DEF step
  <2> QED BY <1>4, <2>3
<1>6. SumOf(s, points)
  <2>1. s = [n \in 0..N |-> IF n = 0 THEN 0 ELSE s[n - 1] + points[n]]
    BY <1>n, <1>4, <1>5
  <2> QED BY <2>1 DEF SumOf
<1> DEFINE g == CHOOSE u : SumOf(u, points)
<1>7. SumOf(g, points)
  BY <1>6
<1>8. total(points) = g[N]
  BY DEF total, SumOf
<1> HIDE DEF g
<1>9. g[0] = 0 /\ \A k \in 1..N : g[k] = g[k - 1] + points[k]
  BY <1>n, <1>7 DEF SumOf
<1> HIDE DEF N
<1>10. g[N] \in Int
  <2> DEFINE S == {i \in Nat : i <= N => g[i] \in Int}
  <2>1. 0 \in S
    BY <1>9
  <2>2. ASSUME NEW i \in Nat, i \in S
        PROVE  i + 1 \in S
    <3> SUFFICES ASSUME i + 1 <= N
                 PROVE  g[i + 1] \in Int
      OBVIOUS
    <3>1. i + 1 \in 1..N /\ (i + 1) - 1 = i /\ i <= N
      BY <1>n
    <3> QED BY <1>1, <1>9, <2>2, <3>1
  <2> HIDE DEF S
  <2>3. N \in S
    BY <1>n, <2>1, <2>2, NatSetInduction
  <2> QED BY <1>n, <2>3 DEF S
<1>11. ASSUME \A i \in 1..N : points[i] = 0
       PROVE  g[N] = 0
  <2> DEFINE S == {i \in Nat : i <= N => g[i] = 0}
  <2>1. 0 \in S
    BY <1>9
  <2>2. ASSUME NEW i \in Nat, i \in S
        PROVE  i + 1 \in S
    <3> SUFFICES ASSUME i + 1 <= N
                 PROVE  g[i + 1] = 0
      OBVIOUS
    <3>1. i + 1 \in 1..N /\ (i + 1) - 1 = i /\ i <= N
      BY <1>n
    <3> QED BY <1>9, <1>11, <2>2, <3>1
  <2> HIDE DEF S
  <2>3. N \in S
    BY <1>n, <2>1, <2>2, NatSetInduction
  <2> QED BY <1>n, <2>3 DEF S
<1> QED BY <1>8, <1>10, <1>11 DEF N

-----------------------------------------------------------------------------
(* The decision phase and the quarantines *)

QuarantineRows == [count : Nat, until : -1..(MaxTick + Cooldown)]

QuarantineTypes ==
  /\ keepsEngine \in BOOLEAN /\ tick \in 0..MaxTick /\ deciding \in BOOLEAN
  /\ failures \in [Agent -> QuarantineRows] /\ row \in [Agent -> QuarantineRows]
  /\ decided \in [Agent -> 0..DecisionCap] /\ started \in [Agent -> 0..ActionCap]
  /\ streak \in [Agent -> Nat]
  /\ imposed \subseteq [agent : Agent, quarantine : QuarantineRows]

(* The engine's count of an agent it lets decide is of failures without a
   success between them. *)
CountEarned == \A a \in Agent : failures[a].until = -1 => failures[a].count <= streak[a]

(* The phase has taken over every quarantine that stands, and imposes none on
   such an agent. *)
StandingKnown ==
  deciding => \A a \in Agent : row[a].until >= tick => failures[a].until >= tick /\ imposedOn(a) = {}

QuarantineInv == QuarantineTypes /\ CountEarned /\ StandingKnown

LEMMA NoneType == none \in QuarantineRows /\ none.count = 0 /\ none.until = -1
BY QuarantineAssumption DEF none, QuarantineRows

LEMMA CapTypes ==
  /\ ActionCap \in Nat /\ DecisionCap \in Nat /\ Threshold \in Nat /\ Cooldown \in Nat /\ MaxTick \in Nat
  /\ ActionCap > 0 /\ Threshold > 0 /\ DecisionCap > 0
BY QuarantineAssumption

LEMMA LargerType ==
  ASSUME NEW x \in QuarantineRows, NEW y \in QuarantineRows
  PROVE  larger(x, y) \in QuarantineRows /\ larger(x, y).until >= y.until /\ larger(x, y).until \in Int
<1>1. x.count \in Nat /\ y.count \in Nat /\ x.until \in -1..(MaxTick + Cooldown)
      /\ y.until \in -1..(MaxTick + Cooldown)
  BY DEF QuarantineRows
<1>2. x.until \in Int /\ y.until \in Int
  BY <1>1, CapTypes
<1>3. Max({x.count, y.count}) \in Nat
  BY <1>1, MaxOfTwo
<1>4. /\ Max({x.until, y.until}) \in -1..(MaxTick + Cooldown)
      /\ Max({x.until, y.until}) >= y.until
  BY <1>1, <1>2, MaxOfTwo, CapTypes
<1>5. larger(x, y) = [count |-> Max({x.count, y.count}), until |-> Max({x.until, y.until})]
  BY DEF larger
<1> QED BY <1>2, <1>3, <1>4, <1>5, CapTypes DEF QuarantineRows

(* What the phase makes of an agent's row *)
TakenOver(m, r, f) ==
  /\ f \in QuarantineRows
  /\ r.until = -1 => f = m
  /\ r.until # -1 => f.until >= r.until

LEMMA Loads ==
  ASSUME NEW m \in QuarantineRows, NEW a \in Agent, row[a] \in QuarantineRows
  PROVE  TakenOver(m, row[a], loaded(m, a))
<1>1. CASE row[a].until = -1
  BY <1>1 DEF loaded, TakenOver
<1>2. CASE row[a].until # -1
  BY <1>2, LargerType DEF loaded, TakenOver
<1> QED BY <1>1, <1>2

LEMMA PhaseBegins ==
  ASSUME QuarantineInv, NEW taken \in [Agent -> 0..ActionCap], beginPhase(taken)
  PROVE  QuarantineInv' /\ (imposed' \ imposed = {}) /\ started' = taken
<1> USE DEF beginPhase
<1>1. QuarantineTypes
  BY DEF QuarantineInv
<1>2. tick \in Int /\ tick >= 0 /\ tick' = tick + 1 /\ tick' \in 0..MaxTick
  BY <1>1, CapTypes DEF QuarantineTypes
<1> DEFINE memory(a) == IF keepsEngine THEN failures[a] ELSE none
<1>3. ASSUME NEW a \in Agent
      PROVE  memory(a) \in QuarantineRows /\ row[a] \in QuarantineRows
  BY <1>1, NoneType DEF QuarantineTypes
<1>4. ASSUME NEW a \in Agent
      PROVE  TakenOver(memory(a), row[a], failures'[a]) /\ row'[a] = row[a]
  <2>1. failures'[a] = loaded(memory(a), a)
    OBVIOUS
  <2> HIDE DEF memory
  <2> QED BY <1>3, <2>1, Loads
<1>5. QuarantineTypes'
  <2>1. failures' \in [Agent -> QuarantineRows]
    BY <1>4 DEF TakenOver
  <2>2. streak' \in [Agent -> Nat]
    BY <1>1 DEF QuarantineTypes
  <2>3. decided' \in [Agent -> 0..DecisionCap]
    BY CapTypes
  <2>4. deciding' \in BOOLEAN
    OBVIOUS
  <2>5. /\ keepsEngine' \in BOOLEAN /\ row' \in [Agent -> QuarantineRows] /\ started' \in [Agent -> 0..ActionCap]
        /\ imposed' \subseteq [agent : Agent, quarantine : QuarantineRows]
    BY <1>1 DEF QuarantineTypes
  <2> QED BY <1>2, <2>1, <2>2, <2>3, <2>4, <2>5 DEF QuarantineTypes
<1>6. ASSUME NEW a \in Agent, failures'[a].until = -1
      PROVE  failures'[a].count <= streak'[a]
  <2>1. row[a].until \in -1..(MaxTick + Cooldown) /\ streak[a] \in Nat
    BY <1>1 DEF QuarantineTypes, QuarantineRows
  <2>2. row[a].until = -1 /\ failures'[a] = memory(a)
    BY <1>4, <1>6, <2>1, CapTypes DEF TakenOver
  <2>3. CASE keepsEngine
    <3>1. failures[a].until = -1 /\ failures'[a] = failures[a]
      BY <1>6, <2>2, <2>3
    <3>2. ~standing(a)
      BY <1>2, <2>2, <3>1 DEF standing
    <3>3. streak'[a] = streak[a]
      BY <3>2
    <3> QED BY <3>1, <3>3 DEF QuarantineInv, CountEarned
  <2>4. CASE ~keepsEngine
    <3>1. failures'[a] = none
      BY <2>2, <2>4
    <3>2. streak'[a] \in Nat
      BY <2>1
    <3> QED BY <3>1, <3>2, NoneType
  <2> QED BY <2>3, <2>4
<1>7. ASSUME NEW a \in Agent, row'[a].until >= tick'
      PROVE  failures'[a].until >= tick' /\ imposedOn(a)' = {}
  <2>1. failures'[a].until \in Int /\ row[a].until \in Int
    BY <1>1, <1>4, CapTypes DEF QuarantineTypes, QuarantineRows, TakenOver
  <2>2. row[a].until # -1 /\ row[a].until >= tick'
    BY <1>2, <1>4, <1>7
  <2>3. failures'[a].until >= row[a].until
    BY <1>4, <2>2 DEF TakenOver
  <2>4. imposedOn(a)' = {}
    BY DEF imposedOn
  <2> QED BY <1>2, <2>1, <2>2, <2>3, <2>4
<1> QED BY <1>5, <1>6, <1>7 DEF QuarantineInv, CountEarned, StandingKnown

(* Every quarantine the phase imposes was earned. *)
EarnedNow == \A q \in imposed' \ imposed : streak'[q.agent] >= Threshold

LEMMA FailureKeeps ==
  ASSUME QuarantineInv, NEW a \in Agent, recordAgentFailure(a), row' = row, tick' = tick, deciding' = deciding
  PROVE  /\ failures' \in [Agent -> QuarantineRows] /\ streak' \in [Agent -> Nat]
         /\ imposed' \subseteq [agent : Agent, quarantine : QuarantineRows]
         /\ CountEarned' /\ StandingKnown' /\ EarnedNow
<1> DEFINE f == expired(failures[a])
           count == f.count + 1
           trips == f.until = -1 /\ count >= Threshold
           until == IF trips THEN tick + Cooldown ELSE f.until
           next == [count |-> count, until |-> until]
<1>1. /\ failures' = [failures EXCEPT ![a] = next]
      /\ imposed' = IF trips THEN imposed \cup {[agent |-> a, quarantine |-> next]} ELSE imposed
      /\ streak' = [streak EXCEPT ![a] = IF f.until # -1 THEN 0 ELSE @ + 1]
  BY DEF recordAgentFailure
<1>2. QuarantineTypes
  BY DEF QuarantineInv
<1>3. /\ failures[a] \in QuarantineRows /\ streak[a] \in Nat
      /\ tick \in Nat /\ tick <= MaxTick
  BY <1>2, CapTypes DEF QuarantineTypes
<1>4. f \in QuarantineRows
  BY <1>3, NoneType DEF expired
<1>5. f.count \in Nat /\ f.until \in Int /\ f.until >= -1 /\ f.until <= MaxTick + Cooldown
  BY <1>4, CapTypes DEF QuarantineRows
<1>6. f.until = -1 => f.count <= streak[a]
  <2>1. CASE f = failures[a]
    BY <2>1 DEF QuarantineInv, CountEarned
  <2>2. CASE f = none
    BY <1>3, <2>2, NoneType
  <2> QED BY <2>1, <2>2 DEF expired
<1>7. /\ failures[a].until \in Int
      /\ failures[a].until >= tick => f = failures[a]
  <2>1. failures[a].until \in Int
    BY <1>3, CapTypes DEF QuarantineRows
  <2> QED BY <1>3, <2>1 DEF expired
<1> HIDE DEF f
<1>8. count \in Nat /\ until \in -1..(MaxTick + Cooldown)
  BY <1>3, <1>5, CapTypes
<1>9. next.count = count /\ next.until = until /\ next \in QuarantineRows
  BY <1>8 DEF QuarantineRows
<1>10. streak'[a] = IF f.until # -1 THEN 0 ELSE streak[a] + 1
  BY <1>1, <1>2 DEF QuarantineTypes
<1>11. trips => streak'[a] >= Threshold
  BY <1>3, <1>5, <1>6, <1>10, CapTypes
<1>12. until = -1 => count <= streak'[a]
  <2>1. until = -1 => ~trips /\ f.until = -1
    BY <1>3, <1>5, CapTypes
  <2> QED BY <1>3, <1>5, <1>6, <1>10, <2>1
<1>13. failures[a].until >= tick => until = failures[a].until /\ ~trips
  BY <1>3, <1>5, <1>7
<1> HIDE DEF next, until, count, trips
<1>14. /\ failures' \in [Agent -> QuarantineRows] /\ streak' \in [Agent -> Nat]
       /\ \A b \in Agent : b # a => failures'[b] = failures[b] /\ streak'[b] = streak[b]
       /\ failures'[a] = next
  <2>1. streak'[a] \in Nat
    BY <1>3, <1>10
  <2>2. failures \in [Agent -> QuarantineRows] /\ streak \in [Agent -> Nat]
    BY <1>2 DEF QuarantineTypes
  <2> QED BY <1>1, <1>9, <2>1, <2>2
<1>15. imposed' \subseteq [agent : Agent, quarantine : QuarantineRows]
  <2>1. [agent |-> a, quarantine |-> next] \in [agent : Agent, quarantine : QuarantineRows]
    BY <1>9
  <2>2. imposed \subseteq [agent : Agent, quarantine : QuarantineRows]
    BY <1>2 DEF QuarantineTypes
  <2> QED BY <1>1, <2>1, <2>2
<1>16. CountEarned'
  <2> SUFFICES ASSUME NEW b \in Agent, failures'[b].until = -1
               PROVE  failures'[b].count <= streak'[b]
    BY DEF CountEarned
  <2>1. CASE b = a
    <3>1. next.until = -1 /\ failures'[b].count = next.count
      BY <1>14, <2>1
    <3> QED BY <1>9, <1>12, <2>1, <3>1
  <2>2. CASE b # a
    BY <1>14, <2>2 DEF QuarantineInv, CountEarned
  <2> QED BY <2>1, <2>2
<1>17. StandingKnown'
  <2> SUFFICES ASSUME deciding, NEW b \in Agent, row[b].until >= tick
               PROVE  failures'[b].until >= tick /\ imposedOn(b)' = {}
    BY DEF StandingKnown
  <2>1. failures[b].until >= tick /\ imposedOn(b) = {}
    BY DEF QuarantineInv, StandingKnown
  <2>2. CASE b = a
    <3>1. ~trips /\ failures'[b].until = failures[b].until
      BY <1>9, <1>13, <1>14, <2>1, <2>2
    <3>2. imposed' = imposed
      BY <1>1, <3>1
    <3> QED BY <2>1, <3>1, <3>2 DEF imposedOn
  <2>3. CASE b # a
    <3>1. \A q \in imposed' : q.agent = b => q \in imposed
      BY <1>1, <2>3
    <3>2. imposedOn(b)' = {}
      BY <2>1, <3>1 DEF imposedOn
    <3> QED BY <1>14, <2>1, <2>3, <3>2
  <2> QED BY <2>2, <2>3
<1>18. EarnedNow
  <2> SUFFICES ASSUME NEW q \in imposed' \ imposed
               PROVE  streak'[q.agent] >= Threshold
    BY DEF EarnedNow
  <2>1. trips /\ q = [agent |-> a, quarantine |-> next]
    BY <1>1
  <2>2. q.agent = a
    BY <2>1
  <2> QED BY <1>11, <2>1, <2>2
<1> QED BY <1>14, <1>15, <1>16, <1>17, <1>18

LEMMA SuccessKeeps ==
  ASSUME QuarantineInv, NEW a \in Agent, recordAgentSuccess(a), row' = row, tick' = tick, deciding' = deciding
  PROVE  /\ failures' \in [Agent -> QuarantineRows] /\ streak' \in [Agent -> Nat]
         /\ imposed' \subseteq [agent : Agent, quarantine : QuarantineRows]
         /\ CountEarned' /\ StandingKnown' /\ EarnedNow
<1> USE DEF recordAgentSuccess
<1>1. QuarantineTypes
  BY DEF QuarantineInv
<1>2. failures \in [Agent -> QuarantineRows] /\ streak \in [Agent -> Nat]
  BY <1>1 DEF QuarantineTypes
<1> DEFINE next == [count |-> 0, until |-> failures[a].until]
<1>3. failures[a] = [count |-> failures[a].count, until |-> failures[a].until]
      /\ failures[a].until \in -1..(MaxTick + Cooldown)
  BY <1>2 DEF QuarantineRows
<1>4. next \in QuarantineRows /\ next.count = 0 /\ next.until = failures[a].until
  BY <1>3 DEF QuarantineRows
<1>5. [failures[a] EXCEPT !.count = 0] = next
  BY <1>3
<1>6. failures' = [failures EXCEPT ![a] = next]
  BY <1>5
<1> HIDE DEF next
<1>7. /\ failures' \in [Agent -> QuarantineRows] /\ streak' \in [Agent -> Nat]
      /\ \A b \in Agent : b # a => failures'[b] = failures[b] /\ streak'[b] = streak[b]
      /\ failures'[a] = next /\ streak'[a] = 0
  BY <1>2, <1>4, <1>6
<1>8. CountEarned'
  BY <1>4, <1>7 DEF QuarantineInv, CountEarned
<1>9. StandingKnown'
  BY <1>4, <1>7 DEF QuarantineInv, StandingKnown, imposedOn
<1>10. imposed' \subseteq [agent : Agent, quarantine : QuarantineRows]
  BY <1>1 DEF QuarantineTypes
<1> QED BY <1>7, <1>8, <1>9, <1>10 DEF EarnedNow

LEMMA DecisionKeeps ==
  ASSUME QuarantineInv, NEW a \in Agent, applied(a) \/ startedAndFailed(a) \/ rejected(a)
  PROVE  /\ QuarantineInv' /\ EarnedNow /\ row' = row /\ tick' = tick /\ deciding /\ deciding'
         /\ \A b \in Agent : started'[b] >= started[b]
<1>1. QuarantineTypes
  BY DEF QuarantineInv
<1>2. decides(a) /\ UNCHANGED <<keepsEngine, tick, deciding, row>>
  BY DEF applied, startedAndFailed, rejected
<1>3. decided' \in [Agent -> 0..DecisionCap] /\ deciding
  BY <1>1, <1>2, CapTypes DEF QuarantineTypes, decides
<1>4. started' \in [Agent -> 0..ActionCap] /\ \A b \in Agent : started'[b] >= started[b]
  <2>0. started \in [Agent -> 0..ActionCap]
    BY <1>1 DEF QuarantineTypes
  <2>1. CASE rejected(a)
    BY <2>0, <2>1, CapTypes DEF rejected
  <2>2. CASE ~capReached(a) /\ started' = [started EXCEPT ![a] = @ + 1]
    <3>1. started[a] + 1 \in 0..ActionCap /\ started[a] + 1 >= started[a]
      BY <2>0, <2>2, CapTypes DEF capReached
    <3> QED BY <2>0, <2>2, <3>1, CapTypes
  <2> QED BY <2>1, <2>2 DEF applied, startedAndFailed
<1>5. /\ failures' \in [Agent -> QuarantineRows] /\ streak' \in [Agent -> Nat]
      /\ imposed' \subseteq [agent : Agent, quarantine : QuarantineRows]
      /\ CountEarned' /\ StandingKnown' /\ EarnedNow
  <2>1. CASE recordAgentSuccess(a)
    BY <1>2, <2>1, SuccessKeeps
  <2>2. CASE recordAgentFailure(a)
    BY <1>2, <2>2, FailureKeeps
  <2> QED BY <2>1, <2>2 DEF applied, startedAndFailed, rejected
<1>6. QuarantineTypes'
  BY <1>1, <1>2, <1>3, <1>4, <1>5 DEF QuarantineTypes
<1> QED BY <1>2, <1>3, <1>4, <1>5, <1>6 DEF QuarantineInv

(* The end of a phase writes the rows: no standing quarantine is shortened. *)
NotShortened ==
  \A a \in Agent : row[a].until >= tick => row'[a].until >= row[a].until

LEMMA PhaseEnds ==
  ASSUME QuarantineInv, endPhase
  PROVE  QuarantineInv' /\ NotShortened /\ (imposed' \ imposed = {})
<1> USE DEF endPhase
<1>1. QuarantineTypes
  BY DEF QuarantineInv
<1>2. ASSUME NEW a \in Agent
      PROVE  row'[a] \in QuarantineRows
  <2>1. imposedOn(a) \subseteq QuarantineRows
    BY <1>1 DEF imposedOn, QuarantineTypes
  <2>2. row[a] \in QuarantineRows
    BY <1>1 DEF QuarantineTypes
  <2>3. row'[a] = IF imposedOn(a) = {} THEN row[a] ELSE CHOOSE q \in imposedOn(a) : TRUE
    OBVIOUS
  <2> QED BY <2>1, <2>2, <2>3
<1>3. NotShortened
  <2> SUFFICES ASSUME NEW a \in Agent, row[a].until >= tick
               PROVE  row'[a].until >= row[a].until
    BY DEF NotShortened
  <2>1. imposedOn(a) = {}
    BY DEF QuarantineInv, StandingKnown
  <2>2. row'[a] = row[a] /\ row[a].until \in Int
    BY <1>1, <2>1, CapTypes DEF QuarantineTypes, QuarantineRows
  <2> QED BY <2>2
<1>4. QuarantineTypes'
  <2>1. row' \in [Agent -> QuarantineRows]
    BY <1>2
  <2>2. decided' \in [Agent -> 0..DecisionCap]
    BY CapTypes
  <2>3. deciding' \in BOOLEAN /\ imposed' \subseteq [agent : Agent, quarantine : QuarantineRows]
    OBVIOUS
  <2> QED BY <1>1, <2>1, <2>2, <2>3 DEF QuarantineTypes
<1>5. CountEarned'
  BY DEF QuarantineInv, CountEarned
<1>6. StandingKnown'
  BY DEF StandingKnown
<1> QED BY <1>3, <1>4, <1>5, <1>6 DEF QuarantineInv

LEMMA OperatorKeeps ==
  ASSUME QuarantineInv, NEW a \in Agent, setAgentQuarantine(a)
  PROVE  QuarantineInv' /\ (imposed' \ imposed = {}) /\ ~deciding'
<1> USE DEF setAgentQuarantine
<1>1. QuarantineTypes
  BY DEF QuarantineInv
<1>2. PICK until \in {-1} \cup (tick..MaxTick) :
        row' = [row EXCEPT ![a] = IF until = -1 THEN none ELSE [count |-> 1, until |-> until]]
  OBVIOUS
<1> DEFINE next == IF until = -1 THEN none ELSE [count |-> 1, until |-> until]
<1>3. next \in QuarantineRows
  <2>1. until # -1 => until \in -1..(MaxTick + Cooldown)
    BY <1>1, CapTypes DEF QuarantineTypes
  <2> QED BY <2>1, NoneType DEF QuarantineRows
<1> HIDE DEF next
<1>4. row' \in [Agent -> QuarantineRows]
  BY <1>1, <1>2, <1>3 DEF QuarantineTypes, next
<1>5. QuarantineTypes'
  BY <1>1, <1>4 DEF QuarantineTypes
<1>6. CountEarned' /\ StandingKnown'
  BY DEF QuarantineInv, CountEarned, StandingKnown
<1> QED BY <1>5, <1>6 DEF QuarantineInv

-----------------------------------------------------------------------------
(* The ranking of the events of a tick *)

RecentTypes == recent \in Seq(SUBSET Kinds) /\ recent # <<>>

LEMMA KindTypes ==
  ASSUME NEW k \in Kinds
  PROVE  /\ k.id \in Nat /\ k.topic \in NewsTopics /\ k.polarity \in Polarities /\ k.points \in Nat
         /\ \A l \in Kinds : k.id = l.id => k = l
<1>1. k.points \in PayloadPoints
  BY NewsAssumption
<1>2. PICK m \in 0..8, n \in 0..10 : k.points = 500 * m + 250 * n
  BY <1>1 DEF PayloadPoints
<1>3. k.points \in Nat
  BY <1>2
<1> QED BY <1>3, NewsAssumption

LEMMA NewsCaps ==
  /\ StoryCap \in Nat /\ StoryCap > 0 /\ Cadence \in Nat /\ Cadence > 0 /\ Lookback \in Nat /\ Lookback > 0
  /\ IsFiniteSet(Kinds)
<1>1. Cadence \in Nat \ {0} /\ Lookback \in Nat \ {0}
  BY NewsAssumption
<1> QED BY <1>1, NewsAssumption

(* An event of the last tick has occurred: its rarity is a number. *)
LEMMA RankedPoints ==
  ASSUME RecentTypes, NEW k \in Last(recent)
  PROVE  k \in Kinds /\ totalPoints(k) \in Nat
<1>1. Last(recent) = recent[Len(recent)] /\ Len(recent) \in DOMAIN recent /\ DOMAIN recent = 1..Len(recent)
      /\ Len(recent) \in Nat
  BY DEF RecentTypes, Last
<1>2. k \in Kinds
  BY <1>1 DEF RecentTypes
<1> DEFINE times == {i \in DOMAIN recent : k \in recent[i]}
<1>3. times \subseteq 1..Len(recent) /\ times # {}
  BY <1>1
<1>4. IsFiniteSet(1..Len(recent))
  BY <1>1, FS_Interval
<1> HIDE DEF times
<1>5. IsFiniteSet(times) /\ Cardinality(times) \in Nat
  BY <1>3, <1>4, FS_Subset, FS_CardinalityType
<1>6. Cardinality(times) # 0
  BY <1>3, <1>5, FS_EmptySet
<1>7. 3500 \div Cardinality(times) \in Nat
  BY <1>5, <1>6
<1>8. totalPoints(k) = k.points + 3500 \div Cardinality(times)
  BY DEF totalPoints, occurrences, times
<1> QED BY <1>2, <1>7, <1>8, KindTypes

(* outranks orders them. *)
LEMMA Outranking ==
  ASSUME RecentTypes, NEW k \in Last(recent), NEW l \in Last(recent)
  PROVE  /\ k # l => outranks(k, l) \/ outranks(l, k)
         /\ ~outranks(k, k)
         /\ \A m \in Last(recent) : outranks(m, k) /\ outranks(k, l) => outranks(m, l)
<1>1. ASSUME NEW x \in Last(recent)
      PROVE  x \in Kinds /\ totalPoints(x) \in Nat /\ x.id \in Nat
  BY RankedPoints, KindTypes
<1>2. k # l => k.id # l.id
  BY <1>1, KindTypes
<1> QED BY <1>1, <1>2 DEF outranks

LEMMA RecentFinite ==
  ASSUME RecentTypes, NEW S, S \subseteq Last(recent)
  PROVE  IsFiniteSet(S)
<1>1. S \subseteq Kinds
  BY RankedPoints
<1> QED BY <1>1, NewsCaps, FS_Subset

(* Two events do not share a place. *)
LEMMA PlacesDiffer ==
  ASSUME RecentTypes, NEW chosen, chosen \subseteq Last(recent),
         NEW k \in chosen, NEW l \in chosen, outranks(k, l)
  PROVE  place(chosen, k) # place(chosen, l)
<1> DEFINE above(x) == {m \in chosen : outranks(m, x)}
<1>1. above(k) \subseteq above(l) /\ k \in above(l) /\ k \notin above(k)
  BY Outranking
<1>2. above(l) \subseteq Last(recent)
  OBVIOUS
<1>3. place(chosen, k) = Cardinality(above(k)) + 1 /\ place(chosen, l) = Cardinality(above(l)) + 1
  BY DEF place
<1> HIDE DEF above
<1>4. IsFiniteSet(above(l))
  BY <1>2, RecentFinite
<1>5. /\ Cardinality(above(k)) <= Cardinality(above(l))
      /\ Cardinality(above(k)) = Cardinality(above(l)) => above(k) = above(l)
  BY <1>1, <1>4, FS_Subset
<1>6. Cardinality(above(k)) \in Nat /\ Cardinality(above(l)) \in Nat
  BY <1>1, <1>4, FS_Subset, FS_CardinalityType
<1> QED BY <1>1, <1>3, <1>5, <1>6

LEMMA PlaceOf ==
  ASSUME RecentTypes, NEW chosen, chosen \subseteq Last(recent),
         NEW k \in chosen, NEW l \in chosen, place(chosen, k) = place(chosen, l)
  PROVE  k = l
<1>1. k # l => outranks(k, l) \/ outranks(l, k)
  BY Outranking
<1> QED BY <1>1, PlacesDiffer

(* The n best of a set have the first n places, among themselves too. *)
LEMMA BestPlaces ==
  ASSUME RecentTypes, NEW S, S \subseteq Last(recent), NEW n \in Nat, NEW k \in best(S, n)
  PROVE  k \in S /\ place(best(S, n), k) \in 1..n
<1> DEFINE above == {l \in S : outranks(l, k)}
           first == {l \in best(S, n) : outranks(l, k)}
<1>1. k \in S /\ Cardinality(above) < n
  BY DEF best
<1>2. first \subseteq above /\ above \subseteq Last(recent)
  BY DEF best
<1>3. place(best(S, n), k) = Cardinality(first) + 1
  BY DEF place
<1> HIDE DEF above, first
<1>4. IsFiniteSet(above)
  BY <1>2, RecentFinite
<1>5. /\ Cardinality(first) <= Cardinality(above)
      /\ Cardinality(first) \in Nat /\ Cardinality(above) \in Nat
  BY <1>2, <1>4, FS_Subset, FS_CardinalityType
<1> QED BY <1>1, <1>3, <1>5

LEMMA LeadersDiffer ==
  ASSUME RecentTypes
  PROVE  /\ leaders \subseteq Last(recent)
         /\ \A k, l \in leaders : k.topic = l.topic => k = l
<1>1. digest \subseteq Last(recent)
  BY DEF digest, best
<1>2. leaders = {k \in digest : \A l \in digest : l.topic = k.topic => ~outranks(l, k)}
  BY DEF leaders
<1>3. ASSUME NEW k \in leaders, NEW l \in leaders, k.topic = l.topic
      PROVE  k = l
  <2>1. k \in Last(recent) /\ l \in Last(recent) /\ ~outranks(k, l) /\ ~outranks(l, k)
    BY <1>1, <1>2, <1>3
  <2> QED BY <2>1, Outranking
<1> QED BY <1>1, <1>2, <1>3

(* The events an edition has a story for *)
LEMMA SelectedPlaces ==
  ASSUME RecentTypes
  PROVE  /\ selected \subseteq Last(recent)
         /\ \A k \in selected : place(selected, k) \in 1..StoryCap
         /\ \A k, l \in selected : k.topic = l.topic => k = l
         /\ tick % Cadence # 0 => selected = {}
<1>1. CASE isNewsStoryPublicationSourceTick
  <2>1. selected = best(leaders, StoryCap)
    BY <1>1 DEF selected
  <2>2. selected \subseteq leaders
    BY <2>1 DEF best
  <2>3. \A k \in selected : place(selected, k) \in 1..StoryCap
    BY <2>1, LeadersDiffer, BestPlaces, NewsCaps
  <2> QED BY <1>1, <2>2, <2>3, LeadersDiffer DEF isNewsStoryPublicationSourceTick
<1>2. CASE ~isNewsStoryPublicationSourceTick
  BY <1>2 DEF selected
<1> QED BY <1>1, <1>2

-----------------------------------------------------------------------------
(* The edition, from the choice to the stories *)

EditionRows == [kind : Kinds, author : ToSet(Journalists), answer : {"template", "offered", "refused"}]

(* The stories to write of the source tick, one of a topic at most *)
EditionOf(e, source) ==
  /\ DOMAIN e \subseteq 1..StoryCap
  /\ \A i \in DOMAIN e : /\ e[i] \in EditionRows /\ e[i].kind \in Last(recent)
                         /\ e[i].author = authorOf(source, i)
  /\ \A i, j \in DOMAIN e : i # j => e[i].kind.topic # e[j].kind.topic

LEMMA AuthorType ==
  ASSUME NEW source \in Nat, NEW i \in 1..StoryCap
  PROVE  authorOf(source, i) \in ToSet(Journalists) /\ ToSet(Journalists) \subseteq Agent
<1>0. Journalists \in Seq(Agent) /\ Len(Journalists) \in 1..3
  BY NewsAssumption
<1>1. Journalists \in Seq(Agent) /\ Len(Journalists) \in Nat /\ Len(Journalists) > 0
  BY <1>0
<1>2. ToSet(Journalists) = {Journalists[j] : j \in 1..Len(Journalists)}
  BY <1>1 DEF ToSet
<1>3. source + i - 1 \in Int
  BY NewsCaps
<1>4. ((source + i - 1) % Len(Journalists)) + 1 \in 1..Len(Journalists)
  BY <1>1, <1>3
<1> QED BY <1>1, <1>2, <1>4 DEF authorOf

LEMMA EditionChosen ==
  ASSUME RecentTypes, tick \in Nat, prepareNewsStoryBatch
  PROVE  EditionOf(edition', tick) /\ (tick % Cadence # 0 => DOMAIN edition' = {})
<1> DEFINE chosen == selected
           entry(answer, i) ==
             LET leader == CHOOSE k \in chosen : place(chosen, k) = i
             IN  [kind |-> leader, author |-> authorOf(tick, i), answer |-> answer[leader]]
<1>1. PICK answer \in [chosen -> answers] :
        edition' = [i \in {place(chosen, k) : k \in chosen} |-> entry(answer, i)]
  BY DEF prepareNewsStoryBatch
<1> DEFINE leader(i) == CHOOSE k \in chosen : place(chosen, k) = i
<1>2. /\ chosen \subseteq Last(recent)
      /\ \A k \in chosen : place(chosen, k) \in 1..StoryCap
      /\ \A k, l \in chosen : k.topic = l.topic => k = l
      /\ tick % Cadence # 0 => chosen = {}
  BY SelectedPlaces
<1> HIDE DEF chosen
<1>3. DOMAIN edition' = {place(chosen, k) : k \in chosen}
  BY <1>1
<1>4. ASSUME NEW i \in DOMAIN edition'
      PROVE  leader(i) \in chosen /\ place(chosen, leader(i)) = i
  BY <1>3
<1>5. ASSUME NEW i \in DOMAIN edition'
      PROVE  edition'[i] = [kind |-> leader(i), author |-> authorOf(tick, i), answer |-> answer[leader(i)]]
  BY <1>1, <1>3
<1> HIDE DEF leader, entry
<1>6. ASSUME NEW i \in DOMAIN edition'
      PROVE  /\ i \in 1..StoryCap /\ edition'[i] \in EditionRows /\ edition'[i].kind \in Last(recent)
             /\ edition'[i].kind = leader(i) /\ edition'[i].author = authorOf(tick, i)
  <2>1. i \in 1..StoryCap
    BY <1>2, <1>4
  <2>2. leader(i) \in Last(recent) /\ leader(i) \in Kinds
    BY <1>2, <1>4, RankedPoints
  <2>3. authorOf(tick, i) \in ToSet(Journalists)
    BY <2>1, AuthorType
  <2>4. answer[leader(i)] \in {"template", "offered", "refused"}
    BY <1>4 DEF answers
  <2> QED BY <1>5, <2>1, <2>2, <2>3, <2>4 DEF EditionRows
<1>7. ASSUME NEW i \in DOMAIN edition', NEW j \in DOMAIN edition', i # j
      PROVE  edition'[i].kind.topic # edition'[j].kind.topic
  <2>1. leader(i) # leader(j)
    BY <1>4, <1>7
  <2> QED BY <1>2, <1>4, <1>6, <2>1
<1>8. tick % Cadence # 0 => DOMAIN edition' = {}
  BY <1>2, <1>3
<1> QED BY <1>6, <1>7, <1>8 DEF EditionOf

(* Nothing is reserved for an agent beyond what its cap leaves it. *)
LEMMA Reservations ==
  ASSUME tick \in 0..MaxTick, EditionOf(edition, tick), NEW a \in Agent
  PROVE  reserved(a) \in Nat /\ reserved(a) + 1 <= ActionCap
<1> DEFINE mine == {i \in DOMAIN edition : edition[i].author = a}
           all == {i \in 1..StoryCap : authorOf(tick, i) = a}
<1>1. mine \subseteq all /\ all \subseteq 1..StoryCap
  BY DEF EditionOf
<1>2. Cardinality(all) < ActionCap
  BY AuthorsAssumption
<1>3. reserved(a) = Cardinality(mine)
  BY DEF reserved
<1> HIDE DEF mine, all
<1>4. IsFiniteSet(1..StoryCap)
  BY NewsCaps, FS_Interval
<1>5. IsFiniteSet(all)
  BY <1>1, <1>4, FS_Subset
<1>6. Cardinality(mine) \in Nat /\ Cardinality(all) \in Nat /\ Cardinality(mine) <= Cardinality(all)
  BY <1>1, <1>5, FS_Subset, FS_CardinalityType
<1> QED BY <1>2, <1>3, <1>6, CapTypes

(* What an agent has started covers what it is to write. *)
Reserved == \A a \in Agent : reserved(a) > 0 => started[a] >= reserved(a)

LEMMA NothingReserved ==
  ASSUME DOMAIN edition = {}, NEW a
  PROVE  reserved(a) = 0
<1>1. {i \in DOMAIN edition : edition[i].author = a} = {}
  OBVIOUS
<1> QED BY <1>1, FS_EmptySet DEF reserved

(* The row of a story *)
RowSound(s, source) ==
  /\ s \in NewsStoryRows /\ (s.status = "published" <=> s.reach > 0)
  /\ s.tick = source + 1 /\ s.kind \in Last(recent)

LEMMA RowWritten ==
  ASSUME RecentTypes, NEW e \in EditionRows, e.kind \in Last(recent), tick \in 1..MaxTick
  PROVE  RowSound(storyRow(e), tick - 1) /\ storyRow(e).author = e.author /\ storyRow(e).kind = e.kind
<1> DEFINE ok == resolved(e.answer)
           reach == IF ok THEN newsStoryReach(totalPoints(e.kind)) ELSE 0
           status == IF ok THEN "published" ELSE "spiked"
<1>1. storyRow(e) = [kind |-> e.kind, author |-> e.author, tick |-> tick, status |-> status, reach |-> reach]
  BY DEF storyRow
<1>2. e.kind \in Kinds /\ e.author \in ToSet(Journalists)
  BY DEF EditionRows
<1>3. totalPoints(e.kind) \in Nat
  BY RankedPoints
<1>4. newsStoryReach(totalPoints(e.kind)) \in 1..SENTIMENT_EXPOSURE_BUCKETS
  <2> DEFINE points == 1000 + totalPoints(e.kind) * 5
  <2>1. points \in Nat /\ points > 0
    BY <1>3
  <2>2. SENTIMENT_EXPOSURE_BUCKETS \in Nat /\ SENTIMENT_EXPOSURE_BUCKETS > 0
    BY DEF SENTIMENT_EXPOSURE_BUCKETS
  <2>3. newsStoryReach(totalPoints(e.kind)) = Min({SENTIMENT_EXPOSURE_BUCKETS, points})
    BY DEF newsStoryReach
  <2> HIDE DEF points
  <2> QED BY <2>1, <2>2, <2>3, MinOfTwo
<1>5. SENTIMENT_EXPOSURE_BUCKETS \in Nat
  BY DEF SENTIMENT_EXPOSURE_BUCKETS
<1>6. reach \in 0..SENTIMENT_EXPOSURE_BUCKETS /\ (status = "published" <=> reach > 0)
      /\ status \in {"published", "spiked"}
  BY <1>4, <1>5
<1> HIDE DEF ok, reach, status
<1>7. storyRow(e) \in NewsStoryRows
  BY <1>1, <1>2, <1>6 DEF NewsStoryRows
<1>8. tick = (tick - 1) + 1
  BY CapTypes
<1> QED BY <1>1, <1>6, <1>7, <1>8 DEF RowSound

-----------------------------------------------------------------------------
(* What the stories move *)

(* The stories of the table, when there are any: those of the source tick *)
StoriesOf(source) ==
  /\ DOMAIN stories \subseteq 1..StoryCap
  /\ \A i \in DOMAIN stories : RowSound(stories[i], source)

LEMMA DeltaOfStory ==
  ASSUME NEW s \in NewsStoryRows
  PROVE  storyDelta(s) \in Int /\ (s.kind.polarity = 0 => storyDelta(s) = 0)
<1>1. s.kind \in Kinds /\ s.reach \in 0..SENTIMENT_EXPOSURE_BUCKETS
  BY DEF NewsStoryRows
<1>2. s.kind.polarity \in {-1, 0, 1} /\ s.reach \in Int
  <2>1. SENTIMENT_EXPOSURE_BUCKETS \in Nat
    BY DEF SENTIMENT_EXPOSURE_BUCKETS
  <2> QED BY <1>1, <2>1, KindTypes DEF Polarities
<1> DEFINE stance == clampTo(towardZero(stanceBias * s.reach * 900, 100000), 1800)
           outcome == clampTo(towardZero(s.kind.polarity * 1000 * 200, 1000), 200)
<1>3. stanceBias * s.reach * 900 = 0
  BY <1>2 DEF stanceBias
<1>4. towardZero(stanceBias * s.reach * 900, 100000) = 0
  BY <1>3 DEF towardZero
<1>5. stance = 0
  BY <1>4, Clamped
<1>6. towardZero(s.kind.polarity * 1000 * 200, 1000) \in Int
      /\ (s.kind.polarity = 0 => towardZero(s.kind.polarity * 1000 * 200, 1000) = 0)
  BY <1>2 DEF towardZero
<1>7. outcome \in Int /\ (s.kind.polarity = 0 => outcome = 0)
  BY <1>6, Clamped
<1>8. storyDelta(s) = clampTo(stance + outcome, 2000)
  BY DEF storyDelta
<1> HIDE DEF stance, outcome
<1>9. stance + outcome \in Int /\ (s.kind.polarity = 0 => stance + outcome = 0)
  BY <1>5, <1>7
<1> QED BY <1>8, <1>9, Clamped

LEMMA DeltaOfTopic ==
  ASSUME NEW source, StoriesOf(source), NEW topic
  PROVE  topicDelta(topic) \in Int /\ (storiesOn(topic) = {} => topicDelta(topic) = 0)
<1> DEFINE points == topicDeltas(topic)
<1>1. points = [i \in 1..StoryCap |-> IF i \in storiesOn(topic) THEN storyDelta(stories[i]) ELSE 0]
  BY DEF topicDeltas
<1>2. ASSUME NEW i \in storiesOn(topic)
      PROVE  storyDelta(stories[i]) \in Int
  <2>1. stories[i] \in NewsStoryRows
    BY DEF storiesOn, published, StoriesOf, RowSound
  <2> QED BY <2>1, DeltaOfStory
<1> HIDE DEF points
<1>3. points \in Points
  BY <1>1, <1>2 DEF Points
<1>4. storiesOn(topic) = {} => \A i \in 1..StoryCap : points[i] = 0
  BY <1>1
<1>5. total(points) \in Int /\ (storiesOn(topic) = {} => total(points) = 0)
  BY <1>3, <1>4, Totals
<1>6. topicDelta(topic) = clampTo(total(points), 2500)
  BY DEF topicDelta, points
<1> QED BY <1>5, <1>6, Clamped

LEMMA ImpulseType ==
  ASSUME NEW delta \in Int
  PROVE  opinionImpulse(delta) \in Int /\ (delta = 0 => opinionImpulse(delta) = 0)
<1> DEFINE d == Max({delta, -delta})
           size == Min({5, Max({1, d \div 400})})
<1>1. d \in Int
  BY MaxOfTwo
<1> HIDE DEF d
<1>2. d \div 400 \in Int
  BY <1>1
<1>3. Max({1, d \div 400}) \in Int
  BY <1>2, MaxOfTwo
<1>4. size \in Int
  BY <1>3, MinOfTwo
<1>5. opinionImpulse(delta) = IF delta = 0 THEN 0 ELSE IF delta < 0 THEN -size ELSE size
  BY DEF opinionImpulse, d
<1> HIDE DEF size
<1> QED BY <1>4, <1>5

LEMMA DirectionType ==
  ASSUME NEW topic, NEW axis
  PROVE  opinionDirection(topic, axis) \in {-1, 0, 1}
BY DEF opinionDirection

(* A story with a good or bad outcome that has a bearing on the axis *)
Bearing(i, axis) == stories[i].kind.polarity * opinionDirection(stories[i].kind.topic, axis) # 0

LEMMA Drifts ==
  ASSUME NEW source, StoriesOf(source), NEW axis, NEW reached \in SUBSET published
  PROVE  /\ Within(opinionDrift(axis, reached), 5)
         /\ (\A i \in published : ~Bearing(i, axis)) => opinionDrift(axis, reached) = 0
<1> DEFINE points == opinionMoves(axis, reached)
           move(i) == opinionImpulse(storyDelta(stories[i])) * opinionDirection(stories[i].kind.topic, axis)
<1>1. points = [i \in 1..StoryCap |-> IF i \in reached THEN move(i) ELSE 0]
  BY DEF opinionMoves
<1>2. ASSUME NEW i \in reached
      PROVE  move(i) \in Int /\ (~Bearing(i, axis) => move(i) = 0)
  <2>1. stories[i] \in NewsStoryRows
    BY DEF published, StoriesOf, RowSound
  <2>2. stories[i].kind.polarity \in {-1, 0, 1}
    BY <2>1, KindTypes DEF NewsStoryRows, Polarities
  <2> DEFINE impulse == opinionImpulse(storyDelta(stories[i]))
             direction == opinionDirection(stories[i].kind.topic, axis)
  <2>3. impulse \in Int /\ (stories[i].kind.polarity = 0 => impulse = 0)
    BY <2>1, DeltaOfStory, ImpulseType
  <2>4. direction \in {-1, 0, 1}
    BY DirectionType
  <2>5. Bearing(i, axis) <=> stories[i].kind.polarity * direction # 0
    BY DEF Bearing
  <2> HIDE DEF impulse, direction
  <2>6. impulse * direction \in Int /\ (~Bearing(i, axis) => impulse * direction = 0)
    BY <2>2, <2>3, <2>4, <2>5
  <2> QED BY <2>6 DEF impulse, direction
<1> HIDE DEF points, move
<1>3. points \in Points
  BY <1>1, <1>2 DEF Points
<1>4. (\A i \in published : ~Bearing(i, axis)) => \A i \in 1..StoryCap : points[i] = 0
  BY <1>1, <1>2
<1>5. /\ total(points) \in Int
      /\ (\A i \in published : ~Bearing(i, axis)) => total(points) = 0
  BY <1>3, <1>4, Totals
<1>6. opinionDrift(axis, reached) = clampTo(total(points), 5)
  BY DEF opinionDrift, points
<1>7. Within(opinionDrift(axis, reached), 5)
  BY <1>5, <1>6, ClampedWithin
<1>8. total(points) = 0 => opinionDrift(axis, reached) = 0
  BY <1>6, Clamped
<1> QED BY <1>5, <1>7, <1>8

(* The opinion an agent has after the tick *)
LEMMA OpinionMoves ==
  ASSUME NEW source, StoriesOf(source), NEW axis, NEW reached \in SUBSET published,
         NEW a, opinion[a][axis] \in -opinionLimit..opinionLimit
  PROVE  /\ drifted(a, axis, reached) \in -opinionLimit..opinionLimit
         /\ drifted(a, axis, reached) - opinion[a][axis] \in -5..5
         /\ drifted(a, axis, reached) # opinion[a][axis] => \E i \in published : Bearing(i, axis)
<1> DEFINE x == opinion[a][axis]
           drift == opinionDrift(axis, reached)
<1>1. opinionLimit \in Nat
  BY DEF opinionLimit
<1>2. x \in Int /\ -opinionLimit <= x /\ x <= opinionLimit
  BY <1>1
<1>3. drift \in Int /\ -5 <= drift /\ drift <= 5
  BY Drifts DEF Within
<1>4. (\A i \in published : ~Bearing(i, axis)) => drift = 0
  BY Drifts
<1>5. drifted(a, axis, reached) = clampTo(x + drift, opinionLimit)
  BY DEF drifted, clampOpinion
<1> HIDE DEF x, drift
<1>6. clampTo(x + drift, opinionLimit) = IF x + drift > opinionLimit THEN opinionLimit
        ELSE IF x + drift < -opinionLimit THEN -opinionLimit ELSE x + drift
  BY <1>1, <1>2, <1>3, Clamped
<1>7. /\ clampTo(x + drift, opinionLimit) \in -opinionLimit..opinionLimit
      /\ clampTo(x + drift, opinionLimit) - x \in -5..5
      /\ drift = 0 => clampTo(x + drift, opinionLimit) = x
  BY <1>1, <1>2, <1>3, <1>6
<1> QED BY <1>4, <1>5, <1>7 DEF x

-----------------------------------------------------------------------------
(* The invariant *)

Stages == {"night", "prepared", "deciding", "news", "sentiment"}
AfterDecisions == {"deciding", "news", "sentiment"}

StageInv ==
  /\ llmOff \in BOOLEAN /\ stage \in Stages
  /\ deciding <=> stage = "deciding"
  /\ stage = "prepared" => tick < MaxTick
  /\ stage \in AfterDecisions => tick > 0
  /\ digested \in -1..(MaxTick - 1)

(* The last tick that is over: the source of the edition in hand *)
Through == IF stage \in {"night", "prepared"} THEN tick ELSE tick - 1

Printed ==
  /\ digested = tick - 1 /\ DOMAIN stories = DOMAIN edition
  /\ \A i \in DOMAIN edition : /\ RowSound(stories[i], tick - 1)
                               /\ stories[i].author = edition[i].author
                               /\ stories[i].kind = edition[i].kind

PaperInv ==
  /\ RecentTypes
  /\ EditionOf(edition, Through)
  /\ stage = "prepared" /\ tick % Cadence # 0 => DOMAIN edition = {}
  /\ stage \in AfterDecisions => Reserved
  /\ stage # "sentiment" => DOMAIN stories = {}
  /\ stage = "sentiment" => Printed

Moods == -SENTIMENT_VALUE_LIMIT..SENTIMENT_VALUE_LIMIT

MoodTypes ==
  /\ latest \in [SentimentTopics -> SentimentRows]
  /\ index \in [SentimentTopics -> Moods]
  /\ opinion \in [Agent -> OpinionRows]

(* The row of the last story and the index of every day agree. *)
UpToDate(t) ==
  /\ latest[t].tick <= Through
  /\ latest[t].tick = 0 => latest[t].value = 0 /\ index[t] = 0
  /\ getEffectiveSentiment(t, Through) = index[t]

MoodInv == MoodTypes /\ \A t \in SentimentTopics : UpToDate(t)

NewsInv == QuarantineInv /\ StageInv /\ PaperInv /\ MoodInv

LEMMA LimitTypes ==
  /\ SENTIMENT_VALUE_LIMIT \in Nat /\ opinionLimit \in Nat /\ 0 \in Moods
  /\ \A x : x \in Moods <=> Within(x, SENTIMENT_VALUE_LIMIT)
<1>1. SENTIMENT_VALUE_LIMIT \in Nat
  BY DEF SENTIMENT_VALUE_LIMIT
<1>2. opinionLimit \in Nat
  BY DEF opinionLimit
<1> QED BY <1>1, <1>2 DEF Moods, Within

LEMMA LatestTypes ==
  ASSUME MoodTypes, NEW t \in SentimentTopics
  PROVE  latest[t].tick \in Nat /\ latest[t].tick <= MaxTick /\ Within(latest[t].value, SENTIMENT_VALUE_LIMIT)
<1>1. latest[t] \in SentimentRows
  BY DEF MoodTypes
<1>2. latest[t].tick \in 0..MaxTick /\ latest[t].value \in Moods
  BY <1>1 DEF SentimentRows, Moods
<1> QED BY <1>2, LimitTypes, CapTypes

LEMMA NewsInitially ==
  NewsInit => NewsInv
<1> SUFFICES ASSUME NewsInit PROVE NewsInv
  OBVIOUS
<1> USE DEF NewsInit, QuarantineInit
<1>1. QuarantineInv
  <2>1. QuarantineTypes
    <3>1. failures \in [Agent -> QuarantineRows] /\ row \in [Agent -> QuarantineRows]
      BY NoneType
    <3>2. decided \in [Agent -> 0..DecisionCap] /\ started \in [Agent -> 0..ActionCap] /\ streak \in [Agent -> Nat]
      BY CapTypes
    <3>3. keepsEngine \in BOOLEAN /\ deciding \in BOOLEAN
      OBVIOUS
    <3>4. tick \in 0..MaxTick
      BY CapTypes
    <3>5. imposed \subseteq [agent : Agent, quarantine : QuarantineRows]
      OBVIOUS
    <3> QED BY <3>1, <3>2, <3>3, <3>4, <3>5 DEF QuarantineTypes
  <2>2. CountEarned
    BY NoneType DEF CountEarned
  <2>3. StandingKnown
    BY DEF StandingKnown
  <2> QED BY <2>1, <2>2, <2>3 DEF QuarantineInv
<1>2. StageInv
  BY CapTypes DEF StageInv, Stages, AfterDecisions
<1>3. PaperInv
  <2>1. PICK happened \in EventSets : recent = <<happened>>
    OBVIOUS
  <2>2. happened \subseteq Kinds
    BY NewsAssumption
  <2>3. RecentTypes
    BY <2>1, <2>2 DEF RecentTypes
  <2>4. DOMAIN edition = {} /\ DOMAIN stories = {}
    OBVIOUS
  <2>5. EditionOf(edition, Through)
    BY <2>4 DEF EditionOf
  <2> QED BY <2>3, <2>4, <2>5 DEF PaperInv, AfterDecisions
<1>4. MoodInv
  <2>1. [tick |-> 0, value |-> 0] \in SentimentRows
    BY LimitTypes, CapTypes DEF SentimentRows, Moods
  <2>2. Seed \in OpinionRows
    BY NewsAssumption DEF OpinionRows
  <2>3. MoodTypes
    BY <2>1, <2>2, LimitTypes DEF MoodTypes
  <2>4. ASSUME NEW t \in SentimentTopics
        PROVE  UpToDate(t)
    <3>1. latest[t].tick = 0 /\ latest[t].value = 0 /\ index[t] = 0 /\ Through = 0
      BY DEF Through
    <3>2. getEffectiveSentiment(t, Through) = decaySentimentAcrossTicks(0, 0)
      BY <3>1 DEF getEffectiveSentiment
    <3>3. Within(0, SENTIMENT_VALUE_LIMIT)
      BY LimitTypes
    <3>4. decaySentimentAcrossTicks(0, 0) = 0
      BY <3>3, LimitTypes, DecayGoesOn
    <3> QED BY <3>1, <3>2, <3>4 DEF UpToDate
  <2> QED BY <2>3, <2>4 DEF MoodInv
<1> QED BY <1>1, <1>2, <1>3, <1>4 DEF NewsInv

(* The steps that leave the mood alone *)
LEMMA MoodFrame ==
  ASSUME MoodInv, UNCHANGED <<latest, opinion, index>>, Through' = Through
  PROVE  MoodInv'
<1>1. MoodTypes'
  BY DEF MoodInv, MoodTypes
<1>2. ASSUME NEW t \in SentimentTopics
      PROVE  UpToDate(t)'
  <2>1. getEffectiveSentiment(t, Through)' = getEffectiveSentiment(t, Through)
    BY DEF getEffectiveSentiment
  <2>2. UpToDate(t)
    BY DEF MoodInv
  <2> QED BY <2>1, <2>2 DEF UpToDate
<1> QED BY <1>1, <1>2 DEF MoodInv

LEMMA QuarantineFrame ==
  ASSUME QuarantineInv, UNCHANGED quarantineVars
  PROVE  QuarantineInv'
BY DEF QuarantineInv, quarantineVars, QuarantineTypes, QuarantineRows, CountEarned, StandingKnown, imposedOn

LEMMA InvTypes ==
  ASSUME NewsInv
  PROVE  tick \in Nat /\ tick <= MaxTick /\ tick \in 0..MaxTick /\ stage \in Stages /\ RecentTypes
<1>1. tick \in 0..MaxTick
  BY DEF NewsInv, QuarantineInv, QuarantineTypes
<1> QED BY <1>1, CapTypes DEF NewsInv, StageInv, PaperInv

LEMMA PrepareStep ==
  ASSUME NewsInv, prepareNewsStoryBatch
  PROVE  NewsInv'
<1>1. /\ stage = "night" /\ stage' = "prepared" /\ tick' = tick /\ recent' = recent /\ stories' = stories
      /\ tick < MaxTick /\ UNCHANGED quarantineVars /\ UNCHANGED <<llmOff, digested>>
      /\ UNCHANGED <<latest, opinion, index>>
  BY DEF prepareNewsStoryBatch, quarantineVars
<1>2. EditionOf(edition', tick) /\ (tick % Cadence # 0 => DOMAIN edition' = {})
  BY InvTypes, EditionChosen
<1> USE DEF NewsInv
<1>3. QuarantineInv'
  BY <1>1, QuarantineFrame
<1>4. Through' = tick /\ Through = tick
  BY <1>1 DEF Through
<1>5. MoodInv'
  BY <1>1, <1>4, MoodFrame
<1>6. deciding' = deciding
  BY <1>1 DEF quarantineVars
<1>7. StageInv'
  BY <1>1, <1>6 DEF StageInv, Stages, AfterDecisions
<1>8. EditionOf(edition, Through)'
  BY <1>1, <1>2, <1>4 DEF EditionOf
<1>9. PaperInv'
  BY <1>1, <1>2, <1>8 DEF PaperInv, RecentTypes, AfterDecisions
<1> QED BY <1>3, <1>5, <1>7, <1>9

LEMMA StartStep ==
  ASSUME NewsInv, startDecisions
  PROVE  NewsInv' /\ imposed' \ imposed = {}
<1> USE DEF startDecisions
<1>1. /\ stage = "prepared" /\ stage' = "deciding"
      /\ UNCHANGED <<llmOff, recent, edition, stories, digested, latest, opinion, index>>
  OBVIOUS
<1>2. PICK activated \in [Agent -> IF llmOff THEN {0} ELSE {0, 1}] :
        beginPhase([a \in Agent |-> activated[a] + reserved(a)])
  OBVIOUS
<1> DEFINE taken == [a \in Agent |-> activated[a] + reserved(a)]
<1> USE DEF NewsInv
<1>3. tick \in 0..MaxTick /\ Through = tick
  BY <1>1, InvTypes DEF Through
<1>4. ASSUME NEW a \in Agent
      PROVE  activated[a] + reserved(a) \in 0..ActionCap /\ activated[a] + reserved(a) >= reserved(a)
  <2>1. activated[a] \in {0, 1}
    OBVIOUS
  <2>2. EditionOf(edition, tick)
    BY <1>3 DEF PaperInv
  <2>3. reserved(a) \in Nat /\ reserved(a) + 1 <= ActionCap
    BY <1>3, <2>2, Reservations
  <2> QED BY <2>1, <2>3, CapTypes
<1>5. taken \in [Agent -> 0..ActionCap]
  BY <1>4
<1>6. beginPhase(taken)
  BY <1>2
<1>7. \A a \in Agent : taken[a] >= reserved(a)
  BY <1>4
<1> HIDE DEF taken
<1>8. QuarantineInv' /\ imposed' \ imposed = {} /\ started' = taken
  BY <1>5, <1>6, PhaseBegins
<1>9. tick' = tick + 1 /\ tick < MaxTick /\ deciding'
  BY <1>6 DEF beginPhase
<1>10. Through' = Through
  BY <1>1, <1>3, <1>9, CapTypes DEF Through
<1>11. MoodInv'
  BY <1>1, <1>10, MoodFrame
<1>12. tick' > 0 /\ tick \in Nat
  BY <1>3, <1>9, CapTypes
<1>13. StageInv'
  BY <1>1, <1>9, <1>12 DEF StageInv, Stages, AfterDecisions
<1>14. EditionOf(edition, Through)'
  BY <1>1, <1>10 DEF EditionOf, PaperInv
<1>15. Reserved'
  BY <1>1, <1>7, <1>8 DEF Reserved, reserved
<1>16. PaperInv'
  BY <1>1, <1>14, <1>15 DEF PaperInv, RecentTypes, AfterDecisions
<1> QED BY <1>8, <1>11, <1>13, <1>16

LEMMA SkipStep ==
  ASSUME NewsInv, skipDecisions
  PROVE  NewsInv' /\ imposed' = imposed
<1> USE DEF skipDecisions
<1>1. /\ stage = "prepared" /\ stage' = "news" /\ tick' = tick + 1 /\ tick % Cadence # 0
      /\ UNCHANGED <<keepsEngine, deciding, failures, row, imposed, decided, started, streak>>
      /\ UNCHANGED <<llmOff, recent, edition, stories, digested, latest, opinion, index>>
  BY DEF goalDecisionDue
<1> USE DEF NewsInv
<1>2. tick \in Nat /\ tick < MaxTick /\ ~deciding
  BY <1>1, InvTypes DEF StageInv
<1>3. tick' \in 0..MaxTick /\ tick' > 0
  BY <1>1, <1>2, CapTypes
<1>4. QuarantineInv'
  <2>1. QuarantineTypes'
    BY <1>1, <1>3 DEF QuarantineInv, QuarantineTypes, QuarantineRows
  <2>2. CountEarned'
    BY <1>1 DEF QuarantineInv, CountEarned
  <2>3. StandingKnown'
    BY <1>1, <1>2 DEF StandingKnown
  <2> QED BY <2>1, <2>2, <2>3 DEF QuarantineInv
<1>5. Through' = Through /\ Through = tick
  BY <1>1, <1>2 DEF Through
<1>6. MoodInv'
  BY <1>1, <1>5, MoodFrame
<1>7. StageInv'
  BY <1>1, <1>2, <1>3 DEF StageInv, Stages, AfterDecisions
<1>8. EditionOf(edition, Through)'
  BY <1>1, <1>5 DEF EditionOf, PaperInv
<1>9. DOMAIN edition' = {}
  BY <1>1 DEF PaperInv
<1>10. Reserved'
  <2> SUFFICES ASSUME NEW a \in Agent
               PROVE  reserved(a)' = 0
    BY DEF Reserved
  <2>1. reserved(a) = 0
    BY <1>1, <1>9, NothingReserved
  <2> QED BY <1>1, <2>1 DEF reserved
<1>11. PaperInv'
  BY <1>1, <1>8, <1>10 DEF PaperInv, RecentTypes, AfterDecisions
<1> QED BY <1>1, <1>4, <1>6, <1>7, <1>11

LEMMA DecideStep ==
  ASSUME NewsInv, decide
  PROVE  NewsInv' /\ EarnedNow
<1>1. PICK a \in Agent : applied(a) \/ startedAndFailed(a) \/ rejected(a)
  BY DEF decide
<1>2. UNCHANGED <<llmOff, stage, recent, edition, stories, digested, latest, opinion, index>>
  BY DEF decide, newsOnly
<1> USE DEF NewsInv
<1>3. /\ QuarantineInv' /\ EarnedNow /\ tick' = tick /\ deciding /\ deciding'
      /\ \A b \in Agent : started'[b] >= started[b]
  BY <1>1, DecisionKeeps
<1>4. Through' = Through
  BY <1>2, <1>3 DEF Through
<1>5. MoodInv'
  BY <1>2, <1>4, MoodFrame
<1>6. StageInv'
  BY <1>2, <1>3 DEF StageInv
<1>7. EditionOf(edition, Through)'
  BY <1>2, <1>4 DEF EditionOf, PaperInv
<1>8. stage = "deciding"
  BY <1>3 DEF StageInv
<1>9. Reserved'
  <2> SUFFICES ASSUME NEW b \in Agent, reserved(b)' > 0
               PROVE  started'[b] >= reserved(b)'
    BY DEF Reserved
  <2>1. reserved(b)' = reserved(b)
    BY <1>2 DEF reserved
  <2>2. reserved(b) \in Nat
    <3>1. {i \in DOMAIN edition : edition[i].author = b} \subseteq 1..StoryCap
      BY DEF PaperInv, EditionOf
    <3>2. IsFiniteSet(1..StoryCap)
      BY NewsCaps, FS_Interval
    <3>3. IsFiniteSet({i \in DOMAIN edition : edition[i].author = b})
      BY <3>1, <3>2, FS_Subset
    <3> QED BY <3>3, FS_CardinalityType DEF reserved
  <2>3. started[b] >= reserved(b)
    BY <1>8, <2>1 DEF PaperInv, Reserved, AfterDecisions
  <2>4. started[b] \in Int /\ started'[b] \in Int
    BY <1>3, CapTypes DEF QuarantineInv, QuarantineTypes
  <2> QED BY <1>3, <2>1, <2>2, <2>3, <2>4
<1>10. PaperInv'
  BY <1>2, <1>7, <1>8, <1>9 DEF PaperInv, RecentTypes, AfterDecisions
<1> QED BY <1>3, <1>5, <1>6, <1>10

LEMMA FinishStep ==
  ASSUME NewsInv, finishDecisions
  PROVE  NewsInv' /\ imposed' \ imposed = {}
<1>1. /\ endPhase /\ stage' = "news"
      /\ UNCHANGED <<llmOff, recent, edition, stories, digested, latest, opinion, index>>
  BY DEF finishDecisions
<1> USE DEF NewsInv
<1>2. QuarantineInv' /\ imposed' \ imposed = {}
  BY <1>1, PhaseEnds
<1>3. stage = "deciding" /\ tick' = tick /\ ~deciding' /\ started' = started
  BY <1>1 DEF StageInv, endPhase
<1>4. Through' = Through
  BY <1>1, <1>3 DEF Through
<1>5. MoodInv'
  BY <1>1, <1>4, MoodFrame
<1>6. StageInv'
  BY <1>1, <1>3 DEF StageInv, Stages, AfterDecisions
<1>7. EditionOf(edition, Through)'
  BY <1>1, <1>4 DEF EditionOf, PaperInv
<1>8. Reserved'
  BY <1>1, <1>3 DEF Reserved, reserved, PaperInv, AfterDecisions
<1>9. PaperInv'
  BY <1>1, <1>3, <1>7, <1>8 DEF PaperInv, RecentTypes, AfterDecisions
<1> QED BY <1>2, <1>5, <1>6, <1>9

LEMMA ApplyStep ==
  ASSUME NewsInv, applyWork
  PROVE  NewsInv'
<1>1. /\ stage = "news" /\ stage' = "sentiment" /\ UNCHANGED quarantineVars
      /\ UNCHANGED <<llmOff, recent, edition, latest, opinion, index>>
      /\ digested' = tick - 1 /\ stories' = [i \in DOMAIN edition |-> storyRow(edition[i])]
      /\ tick' = tick /\ deciding' = deciding /\ started' = started
  BY DEF applyWork, insertDigest, insertStories, quarantineVars
<1> USE DEF NewsInv
<1>2. QuarantineInv'
  BY <1>1, QuarantineFrame
<1>3. Through' = Through /\ Through = tick - 1
  BY <1>1 DEF Through
<1>4. MoodInv'
  BY <1>1, <1>3, MoodFrame
<1>5. tick \in Nat /\ tick <= MaxTick /\ tick > 0
  BY <1>1, InvTypes DEF StageInv, AfterDecisions
<1>6. StageInv'
  <2>1. tick - 1 \in -1..(MaxTick - 1)
    BY <1>5, CapTypes
  <2> QED BY <1>1, <2>1 DEF StageInv, Stages, AfterDecisions
<1>7. EditionOf(edition, Through)'
  BY <1>1, <1>3 DEF EditionOf, PaperInv
<1>8. Reserved'
  BY <1>1 DEF Reserved, reserved, PaperInv, AfterDecisions
<1>9. ASSUME NEW i \in DOMAIN edition
      PROVE  /\ RowSound(stories'[i], tick - 1)
             /\ stories'[i].author = edition[i].author /\ stories'[i].kind = edition[i].kind
  <2>1. edition[i] \in EditionRows /\ edition[i].kind \in Last(recent) /\ RecentTypes
    BY DEF PaperInv, EditionOf
  <2>2. tick \in 1..MaxTick
    BY <1>5, CapTypes
  <2>3. stories'[i] = storyRow(edition[i])
    BY <1>1
  <2> QED BY <2>1, <2>2, <2>3, RowWritten
<1>10. Printed'
  <2>1. DOMAIN stories' = DOMAIN edition'
    BY <1>1
  <2>2. ASSUME NEW i \in DOMAIN edition'
        PROVE  RowSound(stories[i], tick - 1)'
    BY <1>1, <1>9 DEF RowSound
  <2> QED BY <1>1, <1>9, <2>1, <2>2 DEF Printed
<1>11. PaperInv'
  BY <1>1, <1>7, <1>8, <1>10 DEF PaperInv, RecentTypes, AfterDecisions
<1> QED BY <1>2, <1>4, <1>6, <1>11

LEMMA OperatorStep ==
  ASSUME NewsInv, operatorControls
  PROVE  NewsInv' /\ imposed' \ imposed = {}
<1>1. PICK a \in Agent : setAgentQuarantine(a)
  BY DEF operatorControls
<1>2. stage = "night" /\ UNCHANGED <<llmOff, stage, recent, edition, stories, digested, latest, opinion, index>>
  BY DEF operatorControls, newsOnly
<1>3. tick' = tick /\ deciding' = deciding
  BY <1>1 DEF setAgentQuarantine
<1> USE DEF NewsInv
<1>4. QuarantineInv' /\ imposed' \ imposed = {}
  BY <1>1, OperatorKeeps
<1>5. Through' = Through
  BY <1>2, <1>3 DEF Through
<1>6. MoodInv'
  BY <1>2, <1>5, MoodFrame
<1>7. StageInv'
  BY <1>2, <1>3 DEF StageInv
<1>8. EditionOf(edition, Through)'
  BY <1>2, <1>5 DEF EditionOf, PaperInv
<1>9. PaperInv'
  BY <1>2, <1>8 DEF PaperInv, RecentTypes, AfterDecisions
<1> QED BY <1>4, <1>6, <1>7, <1>9

LEMMA NewsStutters ==
  ASSUME NewsInv, UNCHANGED newsVars
  PROVE  NewsInv'
<1>1. /\ UNCHANGED quarantineVars /\ UNCHANGED <<latest, opinion, index>>
      /\ UNCHANGED <<llmOff, stage, recent, edition, stories, digested>> /\ tick' = tick /\ deciding' = deciding
      /\ started' = started
  BY DEF newsVars, newsOnly, quarantineVars
<1> USE DEF NewsInv
<1>2. Through' = Through
  BY <1>1 DEF Through
<1>3. QuarantineInv' /\ MoodInv'
  BY <1>1, <1>2, QuarantineFrame, MoodFrame
<1>4. StageInv'
  BY <1>1 DEF StageInv
<1>5. EditionOf(edition, Through)'
  BY <1>1, <1>2 DEF EditionOf, PaperInv
<1>6. (stage \in AfterDecisions => Reserved)'
  BY <1>1 DEF Reserved, reserved, PaperInv
<1>7. (stage = "sentiment" => Printed)'
  BY <1>1 DEF Printed, RowSound, PaperInv
<1>8. PaperInv'
  BY <1>1, <1>5, <1>6, <1>7 DEF PaperInv, RecentTypes
<1> QED BY <1>3, <1>4, <1>8

-----------------------------------------------------------------------------
(* The end of the tick: the mood *)

LEMMA StoriesPrinted ==
  ASSUME NewsInv, stage = "sentiment"
  PROVE  StoriesOf(tick - 1)
<1>1. Printed /\ EditionOf(edition, Through)
  BY DEF NewsInv, PaperInv
<1> QED BY <1>1 DEF Printed, EditionOf, StoriesOf

LEMMA RecentKept ==
  ASSUME RecentTypes, NEW happened \in EventSets,
         recent' = LET all == Append(recent, happened)
                   IN  IF Len(all) > Lookback THEN Tail(all) ELSE all
  PROVE  RecentTypes'
<1> DEFINE all == Append(recent, happened)
<1>1. happened \in SUBSET Kinds
  BY NewsAssumption
<1>2. recent \in Seq(SUBSET Kinds) /\ Len(recent) \in Nat /\ Len(recent) > 0
  BY DEF RecentTypes
<1>3. all \in Seq(SUBSET Kinds) /\ Len(all) = Len(recent) + 1
  BY <1>1, <1>2
<1> HIDE DEF all
<1>4. all # <<>> /\ Tail(all) \in Seq(SUBSET Kinds) /\ Len(Tail(all)) = Len(recent)
  BY <1>2, <1>3
<1>5. all # <<>> /\ Tail(all) # <<>>
  BY <1>2, <1>4
<1>6. recent' = IF Len(all) > Lookback THEN Tail(all) ELSE all
  BY DEF all
<1> QED BY <1>3, <1>4, <1>5, <1>6 DEF RecentTypes

(* What the phase makes of a topic's row and index, which agree before it *)
TopicMoved(t, old, ix) ==
  /\ old \in SentimentRows /\ ix \in Moods
  /\ old.tick <= tick
  /\ old.tick = 0 => old.value = 0 /\ ix = 0
  /\ decaySentimentAcrossTicks(old.value, tick - old.tick) = ix

UpdatedRow(t) == IF storiesOn(t) = {} THEN latest[t] ELSE calculateSentimentUpdate(t)
UpdatedIndex(t) == clampTo(decaySentiment(index[t]) + topicDelta(t), SENTIMENT_VALUE_LIMIT)

LEMMA TopicKept ==
  ASSUME NewsInv, stage = "sentiment", NEW t \in SentimentTopics
  PROVE  TopicMoved(t, UpdatedRow(t), UpdatedIndex(t))
<1> DEFINE L == SENTIMENT_VALUE_LIMIT
           at == latest[t].tick
           v == latest[t].value
           ix == index[t]
           d == topicDelta(t)
           old == decaySentiment(ix)
<1>1. tick \in Nat /\ tick <= MaxTick /\ tick > 0
  BY InvTypes DEF NewsInv, StageInv, AfterDecisions
<1>2. MoodTypes /\ UpToDate(t)
  BY DEF NewsInv, MoodInv
<1>3. at \in Nat /\ at <= MaxTick /\ Within(v, L) /\ Within(ix, L) /\ L \in Nat
  BY <1>2, LatestTypes, LimitTypes DEF MoodTypes
<1>4. Through = tick - 1
  BY DEF Through
<1>5. at <= tick - 1 /\ (at = 0 => v = 0 /\ ix = 0)
      /\ decaySentimentAcrossTicks(v, (tick - 1) - at) = ix
  BY <1>2, <1>4 DEF UpToDate, getEffectiveSentiment
<1>6. d \in Int /\ (storiesOn(t) = {} => d = 0)
  BY StoriesPrinted, DeltaOfTopic
<1>7. latest[t] \in SentimentRows
  BY <1>2 DEF MoodTypes
<1> HIDE DEF at, v, ix, d, L
<1>8. decaySentimentAcrossTicks(v, tick - at) = old /\ Within(old, L) /\ (ix = 0 => old = 0)
  <2> DEFINE n == (tick - 1) - at
  <2>1. n \in Nat /\ n + 1 = tick - at
    BY <1>1, <1>3, <1>5
  <2> HIDE DEF n
  <2>2. decaySentimentAcrossTicks(v, n + 1) = decaySentiment(decaySentimentAcrossTicks(v, n))
    BY <1>3, <2>1, DecayGoesOn
  <2>3. decaySentimentAcrossTicks(v, n) = ix
    BY <1>5 DEF n
  <2>4. Within(old, L) /\ (ix = 0 => old = 0)
    BY <1>3, Decays
  <2> QED BY <2>1, <2>2, <2>3, <2>4
<1> HIDE DEF old
<1>9. UpdatedIndex(t) = clampTo(old + d, L)
  BY DEF UpdatedIndex, old, ix, d, L
<1>10. old \in Int /\ old + d \in Int
  BY <1>6, <1>8 DEF Within
<1>11. Within(clampTo(old + d, L), L) /\ (d = 0 => clampTo(old + d, L) = old)
  <2>1. Within(clampTo(old + d, L), L)
    BY <1>3, <1>10, ClampedWithin
  <2>2. d = 0 => old + d = old
    BY <1>10
  <2>3. clampTo(old, L) = old
    BY <1>3, <1>8, <1>10, ClampedWithin
  <2> QED BY <2>1, <2>2, <2>3
<1>12. UpdatedIndex(t) \in Moods
  BY <1>9, <1>11, LimitTypes DEF L
<1>13. CASE storiesOn(t) = {}
  <2>1. UpdatedRow(t) = latest[t]
    BY <1>13 DEF UpdatedRow
  <2>2. UpdatedIndex(t) = old
    BY <1>6, <1>9, <1>11, <1>13
  <2>3. UpdatedRow(t).tick = at /\ UpdatedRow(t).value = v
    BY <2>1 DEF at, v
  <2>4. at <= tick /\ (at = 0 => v = 0 /\ old = 0)
    BY <1>1, <1>3, <1>5, <1>8
  <2> QED BY <1>7, <1>8, <1>12, <2>1, <2>2, <2>3, <2>4 DEF TopicMoved
<1>14. CASE storiesOn(t) # {}
  <2> DEFINE elapsed == IF at = 0 THEN 1 ELSE tick - at
             value == clampTo(decaySentimentAcrossTicks(v, elapsed) + d, L)
  <2>1. UpdatedRow(t) = [tick |-> tick, value |-> value]
    BY <1>14 DEF UpdatedRow, calculateSentimentUpdate, at, v, d, L
  <2>2. decaySentimentAcrossTicks(v, elapsed) = old
    <3>1. CASE at # 0
      BY <1>8, <3>1
    <3>2. CASE at = 0
      <4>1. v = 0 /\ ix = 0 /\ old = 0
        BY <1>5, <1>8, <3>2
      <4>2. Within(0, L)
        BY <1>3 DEF Within
      <4>3. 0 \in Nat /\ 0 + 1 = 1
        OBVIOUS
      <4>4. decaySentimentAcrossTicks(0, 0) = 0
        BY <1>3, <4>2, <4>3, DecayGoesOn
      <4>5. decaySentimentAcrossTicks(0, 0 + 1) = decaySentiment(decaySentimentAcrossTicks(0, 0))
        BY <1>3, <4>2, <4>3, DecayGoesOn
      <4>6. decaySentiment(0) = 0
        BY <1>3, <4>2, Decays
      <4> QED BY <3>2, <4>1, <4>3, <4>4, <4>5, <4>6
    <3> QED BY <3>1, <3>2
  <2> HIDE DEF elapsed
  <2>3. value = UpdatedIndex(t)
    BY <1>9, <2>2
  <2> HIDE DEF value
  <2>4. UpdatedRow(t).tick = tick /\ UpdatedRow(t).value = value
    BY <2>1
  <2>5. value \in Moods /\ tick \in 0..MaxTick
    BY <1>1, <1>12, <2>3, CapTypes
  <2>6. UpdatedRow(t) \in SentimentRows
    BY <2>1, <2>5 DEF SentimentRows, Moods
  <2>7. tick <= tick /\ tick # 0 /\ tick - tick = 0
    BY <1>1
  <2>8. decaySentimentAcrossTicks(value, 0) = value
    <3>1. Within(value, L)
      BY <1>9, <1>11, <2>3
    <3>2. 0 \in Nat
      OBVIOUS
    <3> QED BY <1>3, <3>1, <3>2, DecayGoesOn
  <2> QED BY <1>12, <2>3, <2>4, <2>6, <2>7, <2>8 DEF TopicMoved
<1> QED BY <1>13, <1>14

LEMMA OpinionsKept ==
  ASSUME NewsInv, stage = "sentiment", NEW reached \in exposures, recordOpinionUpdates(reached),
         NEW a \in Agent, NEW x \in OpinionAxes
  PROVE  /\ opinion'[a][x] \in -opinionLimit..opinionLimit
         /\ opinion'[a][x] - opinion[a][x] \in -5..5
         /\ opinion'[a][x] # opinion[a][x] => \E i \in published : Bearing(i, x)
<1>1. opinion[a] \in OpinionRows
  BY DEF NewsInv, MoodInv, MoodTypes
<1>2. opinion[a][x] \in -opinionLimit..opinionLimit
  BY <1>1 DEF OpinionRows
<1>3. reached[a] \in SUBSET published
  BY DEF exposures
<1>4. opinion'[a][x] = drifted(a, x, reached[a])
  BY DEF recordOpinionUpdates
<1>5. StoriesOf(tick - 1)
  BY StoriesPrinted
<1> QED BY <1>2, <1>3, <1>4, <1>5, OpinionMoves

LEMMA SentimentStep ==
  ASSUME NewsInv, updateSentiment
  PROVE  NewsInv'
<1>1. /\ stage = "sentiment" /\ stage' = "night" /\ recordSentimentUpdates
      /\ index' = [t \in SentimentTopics |-> UpdatedIndex(t)]
      /\ edition' = <<>> /\ stories' = <<>> /\ started' = [a \in Agent |-> 0]
      /\ UNCHANGED <<keepsEngine, tick, deciding, failures, row, imposed, decided, streak>>
      /\ UNCHANGED <<llmOff, digested>>
  BY DEF updateSentiment, UpdatedIndex
<1>2. PICK reached \in exposures : recordOpinionUpdates(reached)
  BY DEF updateSentiment
<1>3. PICK happened \in EventSets :
        recent' = LET all == Append(recent, happened)
                  IN  IF Len(all) > Lookback THEN Tail(all) ELSE all
  BY DEF updateSentiment
<1>4. QuarantineInv'
  <2>1. QuarantineInv /\ QuarantineTypes
    BY DEF NewsInv, QuarantineInv
  <2>2. started' \in [Agent -> 0..ActionCap]
    BY <1>1, CapTypes
  <2>3. QuarantineTypes'
    BY <1>1, <2>1, <2>2 DEF QuarantineTypes, QuarantineRows
  <2>4. CountEarned'
    BY <1>1, <2>1 DEF QuarantineInv, CountEarned
  <2>5. StandingKnown'
    BY <1>1, <2>1 DEF QuarantineInv, StandingKnown, imposedOn
  <2> QED BY <2>3, <2>4, <2>5 DEF QuarantineInv
<1>5. StageInv'
  BY <1>1 DEF NewsInv, StageInv, Stages, AfterDecisions
<1>6. RecentTypes'
  BY <1>3, InvTypes, RecentKept
<1>7. PaperInv'
  <2>1. DOMAIN edition' = {} /\ DOMAIN stories' = {}
    BY <1>1
  <2>2. EditionOf(edition, Through)'
    BY <2>1 DEF EditionOf
  <2> QED BY <1>1, <1>6, <2>1, <2>2 DEF PaperInv, AfterDecisions
<1>8. latest' = [t \in SentimentTopics |-> UpdatedRow(t)]
  BY <1>1 DEF recordSentimentUpdates, UpdatedRow
<1>9. \A t \in SentimentTopics : TopicMoved(t, UpdatedRow(t), UpdatedIndex(t))
  BY <1>1, TopicKept
<1>10. \A t \in SentimentTopics : TopicMoved(t, latest'[t], index'[t])
  BY <1>1, <1>8, <1>9
<1>11. MoodTypes'
  <2>1. latest' \in [SentimentTopics -> SentimentRows]
    BY <1>8, <1>9 DEF TopicMoved
  <2>2. index' \in [SentimentTopics -> Moods]
    BY <1>1, <1>9 DEF TopicMoved
  <2>3. opinion' \in [Agent -> OpinionRows]
    <3>1. opinion' = [a \in Agent |-> [x \in OpinionAxes |-> drifted(a, x, reached[a])]]
      BY <1>2 DEF recordOpinionUpdates
    <3>2. ASSUME NEW a \in Agent
          PROVE  opinion'[a] \in OpinionRows
      <4>1. opinion'[a] = [x \in OpinionAxes |-> drifted(a, x, reached[a])]
        BY <3>1
      <4>2. \A x \in OpinionAxes : opinion'[a][x] \in -opinionLimit..opinionLimit
        BY <1>1, <1>2, OpinionsKept
      <4> QED BY <4>1, <4>2 DEF OpinionRows
    <3> QED BY <3>1, <3>2
  <2> QED BY <2>1, <2>2, <2>3 DEF MoodTypes, SentimentRows, Moods, OpinionRows
<1>12. ASSUME NEW t \in SentimentTopics
       PROVE  UpToDate(t)'
  <2>1. Through' = tick
    BY <1>1 DEF Through
  <2>2. TopicMoved(t, latest'[t], index'[t])
    BY <1>10
  <2>3. getEffectiveSentiment(t, Through)' = decaySentimentAcrossTicks(latest'[t].value, tick - latest'[t].tick)
    BY <2>1 DEF getEffectiveSentiment
  <2> QED BY <2>1, <2>2, <2>3 DEF TopicMoved, UpToDate
<1>13. MoodInv'
  BY <1>11, <1>12 DEF MoodInv
<1> QED BY <1>4, <1>5, <1>7, <1>13 DEF NewsInv

LEMMA NewsStep ==
  NewsInv /\ [NewsNext]_newsVars => NewsInv'
<1> SUFFICES ASSUME NewsInv, [NewsNext]_newsVars
             PROVE  NewsInv'
  OBVIOUS
<1> QED BY PrepareStep, StartStep, SkipStep, DecideStep, FinishStep, ApplyStep, SentimentStep,
           OperatorStep, NewsStutters DEF NewsNext

LEMMA NewsInvariant == NewsSpec => []NewsInv
BY NewsInitially, NewsStep, PTL DEF NewsSpec

LEMMA StoredSoundly ==
  ASSUME NewsInv
  PROVE  QuarantineTypeOK /\ NewsTypeOK
<1>1. QuarantineTypes /\ StageInv /\ PaperInv /\ MoodTypes
  BY DEF NewsInv, QuarantineInv, MoodInv
<1>2. QuarantineTypeOK
  <2>1. QuarantineRows \subseteq [count : Nat, until : Int]
    BY CapTypes DEF QuarantineRows
  <2>2. imposed \subseteq [agent : Agent, quarantine : [count : Nat, until : Int]]
    BY <1>1, <2>1 DEF QuarantineTypes
  <2>3. ASSUME NEW a \in Agent
        PROVE  /\ failures[a] \in QuarantineRows /\ row[a] \in QuarantineRows
               /\ decided[a] \in 0..DecisionCap /\ started[a] \in 0..ActionCap /\ streak[a] \in Nat
    BY <1>1 DEF QuarantineTypes
  <2> QED BY <1>1, <2>2, <2>3 DEF QuarantineTypes, QuarantineTypeOK, QuarantineRows
<1>3. NewsTypeOK
  <2>1. ASSUME NEW i \in DOMAIN stories
        PROVE  stories[i] \in NewsStoryRows /\ (stories[i].status = "published" <=> stories[i].reach > 0)
    <3>1. stage = "sentiment" /\ Printed
      BY <1>1 DEF PaperInv
    <3> QED BY <3>1 DEF Printed, RowSound
  <2>2. \A a \in Agent : opinion[a] \in OpinionRows
    BY <1>1 DEF MoodTypes
  <2>3. \A t \in SentimentTopics : latest[t] \in SentimentRows
    BY <1>1 DEF MoodTypes
  <2> QED BY <1>1, <2>1, <2>2, <2>3 DEF NewsTypeOK, StageInv, Stages
<1> QED BY <1>2, <1>3

LEMMA PrintedSoundly ==
  ASSUME NewsInv
  PROVE  EditionSound
<1>1. PaperInv /\ EditionOf(edition, Through)
  BY DEF NewsInv, PaperInv
<1>2. CASE stage # "sentiment"
  <2>1. DOMAIN stories = {}
    BY <1>1, <1>2 DEF PaperInv
  <2>2. Cardinality(DOMAIN stories) <= StoryCap
    BY <2>1, FS_EmptySet, NewsCaps
  <2> QED BY <1>2, <2>1, <2>2 DEF EditionSound
<1>3. CASE stage = "sentiment"
  <2>1. Printed /\ Reserved
    BY <1>1, <1>3 DEF PaperInv, AfterDecisions
  <2>2. Cardinality(DOMAIN stories) <= StoryCap
    <3>1. DOMAIN stories \subseteq 1..StoryCap
      BY <1>1, <2>1 DEF Printed, EditionOf
    <3>2. IsFiniteSet(1..StoryCap) /\ Cardinality(1..StoryCap) = StoryCap
      BY NewsCaps, FS_Interval
    <3> QED BY <3>1, <3>2, FS_Subset
  <2>3. \A i, j \in DOMAIN stories : i # j => stories[i].kind.topic # stories[j].kind.topic
    BY <1>1, <2>1 DEF Printed, EditionOf
  <2>4. ASSUME NEW i \in DOMAIN stories
        PROVE  stories[i].tick = tick /\ stories[i].kind \in Last(recent)
    <3>1. tick \in Nat
      BY InvTypes
    <3>2. RowSound(stories[i], tick - 1)
      BY <2>1 DEF Printed
    <3> QED BY <3>1, <3>2 DEF RowSound
  <2>5. ASSUME NEW a \in Agent
        PROVE  LET written == Cardinality({i \in DOMAIN stories : stories[i].author = a})
               IN  written = reserved(a) /\ (written > 0 => started[a] >= written)
    <3>1. {i \in DOMAIN stories : stories[i].author = a} = {i \in DOMAIN edition : edition[i].author = a}
      BY <2>1 DEF Printed
    <3>2. Cardinality({i \in DOMAIN stories : stories[i].author = a}) = reserved(a)
      BY <3>1 DEF reserved
    <3> QED BY <2>1, <3>2 DEF Reserved
  <2>6. digested = tick - 1
    BY <2>1 DEF Printed
  <2> QED BY <2>2, <2>3, <2>4, <2>5, <2>6 DEF EditionSound
<1> QED BY <1>2, <1>3

LEMMA IndexExact ==
  ASSUME NewsInv
  PROVE  SparseIndexExact
BY DEF NewsInv, MoodInv, UpToDate, SparseIndexExact, Through

(* In every state the tables of the newspaper hold what they may, an edition
   has one story a topic that its authors were given the actions for, and the
   sparse index is the one a daily reckoning would show: what decide and the
   phases of news-phase.ts and sentiment-phase.ts leave behind. *)
THEOREM NewsSoundHolds == NewsSpec => []NewsSound
<1>1. NewsInv => NewsSound
  BY StoredSoundly, PrintedSoundly, IndexExact DEF NewsSound
<1> QED BY <1>1, NewsInvariant, PTL

-----------------------------------------------------------------------------
(* What a tick does to an agent *)

LEMMA StutterParts ==
  ASSUME UNCHANGED newsVars
  PROVE  UNCHANGED quarantineVars
BY DEF newsVars, quarantineVars

LEMMA StepEarns ==
  ASSUME NewsInv, NewsNext
  PROVE  EarnedNow
<1>1. CASE decide
  BY <1>1, DecideStep
<1>2. CASE imposed' \ imposed = {}
  BY <1>2 DEF EarnedNow
<1>3. CASE prepareNewsStoryBatch \/ skipDecisions \/ applyWork \/ updateSentiment
  <2>1. imposed' = imposed
    BY <1>3 DEF prepareNewsStoryBatch, skipDecisions, applyWork, updateSentiment, quarantineVars
  <2> QED BY <2>1 DEF EarnedNow
<1> QED BY <1>1, <1>2, <1>3, StartStep, FinishStep, OperatorStep DEF NewsNext

(* The opinions of a step, as OpinionsFollowStories states them *)
FollowsStories ==
  /\ \A a \in Agent, x \in OpinionAxes :
       opinion'[a][x] # opinion[a][x] =>
         /\ \E i \in published : stories[i].kind.polarity * opinionDirection(stories[i].kind.topic, x) # 0
         /\ opinion'[a][x] - opinion[a][x] \in -5..5
  /\ latest' # latest => published # {}

LEMMA StepFollows ==
  ASSUME NewsInv, NewsNext
  PROVE  FollowsStories
<1>1. CASE updateSentiment
  <2>1. stage = "sentiment" /\ recordSentimentUpdates
    BY <1>1 DEF updateSentiment
  <2>2. PICK reached \in exposures : recordOpinionUpdates(reached)
    BY <1>1 DEF updateSentiment
  <2>3. ASSUME NEW a \in Agent, NEW x \in OpinionAxes, opinion'[a][x] # opinion[a][x]
        PROVE  /\ \E i \in published : stories[i].kind.polarity * opinionDirection(stories[i].kind.topic, x) # 0
               /\ opinion'[a][x] - opinion[a][x] \in -5..5
    <3>1. opinion'[a][x] - opinion[a][x] \in -5..5 /\ \E i \in published : Bearing(i, x)
      BY <2>1, <2>2, <2>3, OpinionsKept
    <3> QED BY <3>1 DEF Bearing
  <2>4. ASSUME published = {}
        PROVE  latest' = latest
    <3>1. \A t \in SentimentTopics : storiesOn(t) = {}
      BY <2>4 DEF storiesOn
    <3>2. latest' = [t \in SentimentTopics |-> latest[t]]
      BY <2>1, <3>1 DEF recordSentimentUpdates
    <3>3. latest \in [SentimentTopics -> SentimentRows]
      BY DEF NewsInv, MoodInv, MoodTypes
    <3> QED BY <3>2, <3>3
  <2> QED BY <2>3, <2>4 DEF FollowsStories
<1>2. CASE opinion' = opinion /\ latest' = latest
  BY <1>2 DEF FollowsStories
<1>3. ASSUME NewsNext, ~updateSentiment
      PROVE  opinion' = opinion /\ latest' = latest
  BY <1>3 DEF NewsNext, prepareNewsStoryBatch, startDecisions, skipDecisions, decide, finishDecisions,
              applyWork, operatorControls, newsOnly
<1> QED BY <1>1, <1>2, <1>3

LEMMA EarnedHolds == NewsSpec => QuarantineEarned
<1>1. NewsInv /\ [NewsNext]_newsVars => [\A q \in imposed' \ imposed : streak'[q.agent] >= Threshold]_quarantineVars
  BY StepEarns, StutterParts DEF EarnedNow
<1> QED BY <1>1, NewsInvariant, PTL DEF NewsSpec, QuarantineEarned

LEMMA StandingHolds == NewsSpec => StandingNotShortened
<1>1. NewsInv /\ [NewsNext]_newsVars =>
        [endPhase => \A a \in Agent : row[a].until >= tick => row'[a].until >= row[a].until]_quarantineVars
  BY PhaseEnds DEF NewsInv, NotShortened
<1> QED BY <1>1, NewsInvariant, PTL DEF NewsSpec, StandingNotShortened

LEMMA OpinionsHold == NewsSpec => OpinionsFollowStories
<1>1. NewsInv /\ [NewsNext]_newsVars =>
        [/\ \A a \in Agent, x \in OpinionAxes :
              opinion'[a][x] # opinion[a][x] =>
                /\ \E i \in published : stories[i].kind.polarity * opinionDirection(stories[i].kind.topic, x) # 0
                /\ opinion'[a][x] - opinion[a][x] \in -5..5
         /\ latest' # latest => published # {}]_newsVars
  BY StepFollows DEF FollowsStories
<1> QED BY <1>1, NewsInvariant, PTL DEF NewsSpec, OpinionsFollowStories

(* The engine quarantines an agent only after Threshold failures in a row, the
   phase never shortens a quarantine that stands, the operator's included, and
   an agent's opinions move with the published stories of the tick alone. *)
THEOREM AgentsKeptHolds == NewsSpec => AgentsKept
BY EarnedHolds, StandingHolds, OpinionsHold DEF AgentsKept
=============================================================================
