---------------------------- MODULE ChatQueueProofs ----------------------------
(***************************************************************************)
(* Theorems about ChatQueue, for any messages, sessions and faults: what   *)
(* is queued is kept, sent once and in order, but for what a restore from  *)
(* session storage or a reload does, and the composer does not snap back.  *)
(***************************************************************************)
EXTENDS ChatQueue, PickingProofs

-------------------------------------------------------------------------------
(* The inductive invariant.  Its first part is about the record of the     *)
(* host, a parameter: within a step it is true of every record on the way. *)

Host == [queue : [Sessions -> Seq(Entries)], flights : SUBSET Flights,
         attempts : [Items -> Nat], sending : BOOLEAN, run : Runs \cup {NoRun}]

UiType(u) ==
  /\ u \in Host
  /\ \A s \in Sessions : Unique(u.queue[s])

(* A message is in the queue, and on its way from the queue, of the session*)
(* it was submitted in.                                                    *)
AtHome(q, s, h) == \A k \in DOMAIN q : q[k].id \in DOMAIN h /\ h[q[k].id] = s

Homes(u, h) == /\ \A s \in Sessions : AtHome(u.queue[s], s, h)
               /\ \A f \in u.flights : f.id \in DOMAIN h /\ h[f.id] = f.session

(* What may stand before a message that is being sent, by who sent it.     *)
Before(q, l, origin) ==
  \A k \in DOMAIN q : k < l => /\ origin = "flush" => ~Flushable(q[k])
                               /\ origin = "reconnect" => q[k].state # "waiting"

SendingOK(u) ==
  \A s \in Sessions : \A l \in DOMAIN u.queue[s] :
    u.queue[s][l].state = "sending"
      => \E f \in u.flights : /\ f.id = u.queue[s][l].id /\ f.session = s
                              /\ Before(u.queue[s], l, f.origin)

(* A message that no restore has touched has one flight, while it is being *)
(* sent, or none; and once acknowledged it is in no queue.                 *)
Once(u, st) ==
  \A i \in Items \ st.restored :
    /\ \A f, g \in u.flights : f.id = i /\ g.id = i => f = g
    /\ i \in st.acked => \A f \in u.flights : f.id # i
    /\ \A s \in Sessions : \A k \in DOMAIN u.queue[s] :
         u.queue[s][k].id = i
           => /\ i \notin st.acked
              /\ u.queue[s][k].state # "sending" => \A f \in u.flights : f.id # i

(* The sends of a message are numbered; one the gateway has accepted goes  *)
(* on as a run, or was overtaken by the end of it.                         *)
Numbered(u, st, acc, rn) ==
  /\ \A r \in acc : r[2] <= u.attempts[r[1]]
  /\ \A f \in u.flights :
       /\ f.att <= u.attempts[f.id]
       /\ <<f.id, f.att>> \in acc => <<f.id, f.att>> \in rn \/ f.id \in st.overtaken

UiOK(u, h, st, acc, rn) ==
  UiType(u) /\ Homes(u, h) /\ SendingOK(u) /\ Once(u, st) /\ Numbered(u, st, acc, rn)

(* Storage has the visible queue as it is, and of a hidden session what    *)
(* was not being sent when it was left.                                    *)
StoredOK ==
  /\ stored[sessionKey] = Serialize(ui.queue[sessionKey])
  /\ \A s \in Sessions : AtHome(stored[s], s, home)

KeptOK(q, i) ==
  IF home[i] = sessionKey THEN i \in IdsIn(q[home[i]])
  ELSE \/ i \in IdsIn(stored[home[i]])
       \/ i \in settled.left /\ i \in IdsIn(q[home[i]])

Exempt(st) == st.restored \cup st.dropped \cup st.acked \cup st.removed

IInv ==
  /\ TypeOK
  /\ UiOK(ui, home, settled, accepted, running)
  /\ settled.acked \subseteq Submitted
  /\ ~connected => ui.flights = {}
  /\ SnapsBackOnlyToOvertaken
  /\ StoredOK
  /\ \A i \in Submitted \ Exempt(settled) : KeptOK(ui.queue, i)

-------------------------------------------------------------------------------
(* Queues.                                                                 *)

(* The ids in a set of positions that is not empty have a first one.       *)
LEMMA FirstPosition ==
  ASSUME NEW n \in Nat, NEW I \in SUBSET (1 .. n), I # {}
  PROVE  Min(I) \in I /\ \A j \in I : Min(I) <= j
<1>1. \E k \in I : \A j \in I : k <= j
  BY LeastNat
<1>2. QED
  BY <1>1 DEF Min

(* The first message a flush may send has none before it.                  *)
LEMMA FirstFlushable ==
  ASSUME NEW q \in Seq(Entries), FirstOf(q, Flushable) # 0
  PROVE  LET k == FirstOf(q, Flushable)
         IN  k \in DOMAIN q /\ Flushable(q[k]) /\ Before(q, k, "flush")
<1> DEFINE I == {i \in 1 .. Len(q) : Flushable(q[i])}
<1>1. Len(q) \in Nat /\ DOMAIN q = 1 .. Len(q)
  OBVIOUS
<1>2. FirstOf(q, Flushable) = IF I # {} THEN Min(I) ELSE 0
  BY DEF FirstOf, SelectInSeq
<1>3. FirstOf(q, Flushable) = Min(I) /\ Min(I) \in I /\ \A j \in I : Min(I) <= j
  BY <1>1, <1>2, FirstPosition
<1> DEFINE k == Min(I)
<1>4. k \in DOMAIN q /\ Flushable(q[k])
  BY <1>1, <1>3
<1>5. ASSUME NEW j \in DOMAIN q, j < k PROVE ~Flushable(q[j])
  BY <1>1, <1>3, <1>5
<1> HIDE DEF k, I
<1>6. Before(q, k, "flush")
  BY <1>5 DEF Before
<1>7. QED
  BY <1>3, <1>4, <1>6 DEF k

(* A queue that is what is left of another, in its order.                  *)
Within(p, q) ==
  \E f \in [DOMAIN p -> DOMAIN q] :
    /\ \A k \in DOMAIN p : p[k] = q[f[k]]
    /\ \A k, l \in DOMAIN p : k < l <=> f[k] < f[l]

(* What is left of a queue without doubles has none.                       *)
LEMMA WithinUnique ==
  ASSUME NEW q \in Seq(Entries), NEW p \in Seq(Entries), Within(p, q), Unique(q)
  PROVE  Unique(p)
<1>1. PICK f \in [DOMAIN p -> DOMAIN q] :
             /\ \A k \in DOMAIN p : p[k] = q[f[k]]
             /\ \A k, l \in DOMAIN p : k < l <=> f[k] < f[l]
  BY DEF Within
<1>2. DOMAIN p = 1 .. Len(p) /\ DOMAIN q = 1 .. Len(q) /\ Len(p) \in Nat /\ Len(q) \in Nat
  OBVIOUS
<1>3. ASSUME NEW k \in DOMAIN p, NEW l \in DOMAIN p, p[k].id = p[l].id PROVE k = l
  <2>1. f[k] = f[l]
    BY <1>1, <1>3 DEF Unique
  <2>2. ~(k < l) /\ ~(l < k)
    BY <1>1, <1>2, <2>1
  <2>3. QED
    BY <1>2, <2>2
<1>4. QED
  BY <1>3 DEF Unique

(* Within, for a queue that is picked from another.                        *)
LEMMA PickedFacts ==
  ASSUME NEW q \in Seq(Entries), NEW S \in SUBSET (DOMAIN q)
  PROVE  /\ Pick(q, S) \in Seq(Entries)
         /\ Within(Pick(q, S), q)
         /\ \A k \in DOMAIN Pick(q, S) : \E j \in S : Pick(q, S)[k] = q[j]
         /\ \A j \in S : \E k \in DOMAIN Pick(q, S) : Pick(q, S)[k] = q[j]
<1>1. PICK f \in [DOMAIN Pick(q, S) -> S] :
             /\ \A k \in DOMAIN Pick(q, S) : Pick(q, S)[k] = q[f[k]]
             /\ \A j \in S : \E k \in DOMAIN Pick(q, S) : f[k] = j
             /\ \A k, l \in DOMAIN Pick(q, S) : k < l <=> f[k] < f[l]
  BY PickOrder
<1>2. Pick(q, S) \in Seq(Entries)
  BY PickOrder
<1>3. f \in [DOMAIN Pick(q, S) -> DOMAIN q]
  OBVIOUS
<1>4. Within(Pick(q, S), q)
  BY <1>1, <1>3 DEF Within
<1>5. QED
  BY <1>1, <1>2, <1>4

(* Without drops the message and keeps the others in their order.          *)
LEMMA WithoutFacts ==
  ASSUME NEW q \in Seq(Entries), NEW i
  PROVE  /\ Without(q, i) \in Seq(Entries)
         /\ Within(Without(q, i), q)
         /\ \A k \in DOMAIN Without(q, i) : Without(q, i)[k].id # i
         /\ IdsIn(Without(q, i)) = IdsIn(q) \ {i}
<1> DEFINE S == {k \in DOMAIN q : q[k].id # i}
           p == Without(q, i)
<1>1. p = Pick(q, S) /\ S \in SUBSET (DOMAIN q)
  BY DEF Without
<1>2. \A k \in DOMAIN q : k \in S <=> q[k].id # i
  OBVIOUS
<1> HIDE DEF p, S
<1>3. /\ p \in Seq(Entries) /\ Within(p, q)
      /\ \A k \in DOMAIN p : \E j \in S : p[k] = q[j]
      /\ \A j \in S : \E k \in DOMAIN p : p[k] = q[j]
  BY <1>1, PickedFacts
<1>4. \A k \in DOMAIN p : p[k].id # i
  BY <1>1, <1>2, <1>3
<1>5. IdsIn(p) = IdsIn(q) \ {i}
  BY <1>1, <1>2, <1>3 DEF IdsIn
<1>6. QED
  BY <1>3, <1>4, <1>5 DEF p

(* What is stored of a queue is what is not being sent.                    *)
LEMMA SerializeFacts ==
  ASSUME NEW q \in Seq(Entries)
  PROVE  /\ Serialize(q) \in Seq({e \in Entries : e.state # "sending"})
         /\ Within(Serialize(q), q)
         /\ IdsIn(Serialize(q)) \subseteq IdsIn(q)
         /\ \A k \in DOMAIN q :
              q[k].state # "sending" => q[k].id \in IdsIn(Serialize(q))
<1> DEFINE S == {k \in DOMAIN q : q[k].state # "sending"}
           p == Serialize(q)
           Stable == {e \in Entries : e.state # "sending"}
<1>1. p = Pick(q, S) /\ S \in SUBSET (DOMAIN q)
  BY DEF Serialize
<1>2. \A k \in DOMAIN q : k \in S <=> q[k].state # "sending"
  OBVIOUS
<1> HIDE DEF p, S
<1>3. /\ p \in Seq(Entries) /\ Within(p, q)
      /\ \A k \in DOMAIN p : \E j \in S : p[k] = q[j]
      /\ \A j \in S : \E k \in DOMAIN p : p[k] = q[j]
  BY <1>1, PickedFacts
<1>4. p \in Seq(Stable)
  <2>1. \A k \in DOMAIN p : p[k] \in Entries
    BY <1>3
  <2>2. \A k \in DOMAIN p : p[k] \in Stable
    BY <1>1, <1>2, <1>3, <2>1
  <2>3. DOMAIN p = 1 .. Len(p) /\ Len(p) \in Nat /\ p = [k \in 1 .. Len(p) |-> p[k]]
    BY <1>3
  <2> HIDE DEF Stable
  <2>4. QED
    BY <2>2, <2>3, IsASeq
<1>5. IdsIn(p) \subseteq IdsIn(q)
  BY <1>1, <1>3 DEF IdsIn
<1>6. \A k \in DOMAIN q : q[k].state # "sending" => q[k].id \in IdsIn(p)
  BY <1>2, <1>3 DEF IdsIn
<1>7. QED
  BY <1>3, <1>4, <1>5, <1>6 DEF p

(* Mark changes the state of one message.                                  *)
LEMMA MarkFacts ==
  ASSUME NEW q \in Seq(Entries), NEW i, NEW state \in States
  PROVE  /\ Mark(q, i, state) \in Seq(Entries)
         /\ DOMAIN Mark(q, i, state) = DOMAIN q
         /\ \A k \in DOMAIN q :
              /\ Mark(q, i, state)[k].id = q[k].id
              /\ Mark(q, i, state)[k].state = IF q[k].id = i THEN state ELSE q[k].state
         /\ IdsIn(Mark(q, i, state)) = IdsIn(q)
<1> DEFINE new(k) == IF q[k].id = i THEN [q[k] EXCEPT !.state = state] ELSE q[k]
           p == Mark(q, i, state)
<1>1. DOMAIN q = 1 .. Len(q) /\ Len(q) \in Nat /\ \A k \in DOMAIN q : q[k] \in Entries
  OBVIOUS
<1>2. p = [k \in DOMAIN q |-> new(k)]
  BY DEF Mark
<1>3. ASSUME NEW k \in DOMAIN q
      PROVE  /\ new(k) \in Entries
             /\ new(k).id = q[k].id
             /\ new(k).state = IF q[k].id = i THEN state ELSE q[k].state
  BY <1>1 DEF Entries
<1> HIDE DEF new, p
<1>4. p \in Seq(Entries)
  BY <1>1, <1>2, <1>3, IsASeq
<1>5. DOMAIN p = DOMAIN q /\ \A k \in DOMAIN q : p[k] = new(k)
  BY <1>2
<1>6. IdsIn(p) = IdsIn(q)
  BY <1>3, <1>5 DEF IdsIn
<1>7. QED
  BY <1>3, <1>4, <1>5, <1>6 DEF p

(* Marking keeps the messages of a queue apart, and at home.               *)
LEMMA MarkKeeps ==
  ASSUME NEW q \in Seq(Entries), NEW i, NEW state \in States, Unique(q),
         NEW s, NEW h, AtHome(q, s, h)
  PROVE  Unique(Mark(q, i, state)) /\ AtHome(Mark(q, i, state), s, h)
<1> DEFINE p == Mark(q, i, state)
<1>1. DOMAIN p = DOMAIN q /\ \A k \in DOMAIN q : p[k].id = q[k].id
  BY MarkFacts
<1> HIDE DEF p
<1>2. QED
  BY <1>1 DEF Unique, AtHome, p

(* Marking a message as one that no flush sends takes nothing away from    *)
(* what may stand before another.                                          *)
LEMMA MarkBefore ==
  ASSUME NEW q \in Seq(Entries), NEW i, NEW state \in {"sending", "failed"},
         NEW l, NEW origin, Before(q, l, origin)
  PROVE  Before(Mark(q, i, state), l, origin)
<1> DEFINE p == Mark(q, i, state)
<1>1. /\ DOMAIN p = DOMAIN q
      /\ \A k \in DOMAIN q : p[k].state = IF q[k].id = i THEN state ELSE q[k].state
  BY MarkFacts DEF States
<1> HIDE DEF p
<1>2. QED
  BY <1>1 DEF Before, Flushable, p

-------------------------------------------------------------------------------
(* A send.                                                                 *)

(* What a send changes, and that it leaves a host of the right type.       *)
LEMMA SendFields ==
  ASSUME NEW u, UiType(u), NEW i \in Items, NEW s \in Sessions,
         NEW origin \in Origins, NEW rest \in Seq(Sessions),
         NEW v, v = Send(u, i, s, origin, rest)
  PROVE  /\ v.queue[s] = Mark(u.queue[s], i, "sending")
         /\ \A x \in Sessions : x # s => v.queue[x] = u.queue[x]
         /\ \E f \in Flights :
              /\ f.id = i /\ f.session = s /\ f.origin = origin
              /\ f.att = u.attempts[i] + 1 /\ f.att = v.attempts[i]
              /\ v.flights = u.flights \cup {f}
         /\ \A j \in Items : j # i => v.attempts[j] = u.attempts[j]
         /\ v.run = u.run
         /\ UiType(v)
<1> DEFINE f == [id |-> i, session |-> s, att |-> u.attempts[i] + 1,
                 origin |-> origin, rest |-> rest]
           p == Mark(u.queue[s], i, "sending")
<1>1. /\ u.queue \in [Sessions -> Seq(Entries)] /\ u.flights \in SUBSET Flights
      /\ u.attempts \in [Items -> Nat] /\ u.run \in Runs \cup {NoRun}
      /\ \A x \in Sessions : Unique(u.queue[x])
  BY DEF UiType, Host
<1>0. u \in Host
  BY DEF UiType, Host
<1>2. /\ v.queue = [u.queue EXCEPT ![s] = p]
      /\ v.flights = u.flights \cup {f}
      /\ v.attempts = [u.attempts EXCEPT ![i] = @ + 1]
      /\ v.run = u.run
  BY <1>0 DEF Send
<1>3. f \in Flights
  BY <1>1 DEF Flights
<1>4. p \in Seq(Entries)
  BY <1>1, MarkFacts DEF States
<1>5. Unique(p)
  <2> DEFINE q == u.queue[s]
  <2>1. q \in Seq(Entries) /\ Unique(q) /\ "sending" \in States
    BY <1>1 DEF States
  <2>2. DOMAIN p = DOMAIN q /\ \A k \in DOMAIN q : p[k].id = q[k].id
    BY <2>1, MarkFacts
  <2> HIDE DEF p, q
  <2>3. QED
    BY <2>1, <2>2 DEF Unique
<1> HIDE DEF f, p
<1>6. UiType(v)
  <2>1. [u.queue EXCEPT ![s] = p] \in [Sessions -> Seq(Entries)]
    BY <1>1, <1>4
  <2>2. [u.attempts EXCEPT ![i] = @ + 1] \in [Items -> Nat]
    BY <1>1
  <2>3. \A x \in Sessions : Unique([u.queue EXCEPT ![s] = p][x])
    BY <1>1, <1>5
  <2>4. u.flights \cup {f} \in SUBSET Flights
    BY <1>1, <1>3
  <2>5. v \in Host
    BY <1>0, <2>1, <2>2, <2>4 DEF Send, f, p, Host
  <2>6. QED
    BY <1>2, <2>3, <2>5 DEF UiType, Host
<1>7. /\ v.queue[s] = p /\ \A x \in Sessions : x # s => v.queue[x] = u.queue[x]
      /\ v.attempts[i] = u.attempts[i] + 1
      /\ \A j \in Items : j # i => v.attempts[j] = u.attempts[j]
  BY <1>1, <1>2
<1>8. /\ f.id = i /\ f.session = s /\ f.origin = origin /\ f.att = u.attempts[i] + 1
  BY DEF f
<1>9. QED
  BY <1>2, <1>3, <1>6, <1>7, <1>8 DEF p

(* A message that is not being sent may be sent next if what is before it  *)
(* may be: everything about the host that is invariant stays true.         *)
LEMMA SendKeeps ==
  ASSUME NEW u, NEW h, NEW st, NEW acc \in SUBSET Runs, NEW rn,
         UiOK(u, h, st, acc, rn),
         NEW s \in Sessions, NEW k \in DOMAIN u.queue[s],
         NEW origin \in Origins, NEW rest \in Seq(Sessions),
         u.queue[s][k].state # "sending", Before(u.queue[s], k, origin)
  PROVE  UiOK(Send(u, u.queue[s][k].id, s, origin, rest), h, st, acc, rn)
<1> DEFINE i == u.queue[s][k].id
           v == Send(u, i, s, origin, rest)
           q == u.queue[s]
           p == Mark(q, i, "sending")
<1>1. /\ UiType(u) /\ Homes(u, h) /\ SendingOK(u) /\ Once(u, st)
      /\ Numbered(u, st, acc, rn)
  BY DEF UiOK
<1>2. /\ u.queue \in [Sessions -> Seq(Entries)] /\ u.flights \in SUBSET Flights
      /\ u.attempts \in [Items -> Nat]
      /\ \A x \in Sessions : Unique(u.queue[x])
  BY <1>1 DEF UiType, Host
<1>3. q \in Seq(Entries) /\ i \in Items /\ Unique(q)
  <2>1. q \in Seq(Entries) /\ Unique(q)
    BY <1>2
  <2>2. q[k] \in Entries
    BY <2>1
  <2>3. QED
    BY <2>1, <2>2 DEF Entries
<1>4. /\ v.queue[s] = p /\ \A x \in Sessions : x # s => v.queue[x] = u.queue[x]
      /\ \A j \in Items : j # i => v.attempts[j] = u.attempts[j]
      /\ UiType(v)
      /\ \E f \in Flights :
           /\ f.id = i /\ f.session = s /\ f.origin = origin
           /\ f.att = u.attempts[i] + 1 /\ f.att = v.attempts[i]
           /\ v.flights = u.flights \cup {f}
  <2> HIDE DEF i
  <2>1. QED
    BY <1>1, <1>3, SendFields
<1>10. PICK f \in Flights :
         /\ f.id = i /\ f.session = s /\ f.origin = origin
         /\ f.att = u.attempts[i] + 1 /\ f.att = v.attempts[i]
         /\ v.flights = u.flights \cup {f}
  BY <1>4
<1>5. /\ p \in Seq(Entries) /\ DOMAIN p = DOMAIN q
      /\ \A j \in DOMAIN q : /\ p[j].id = q[j].id
                             /\ p[j].state = IF q[j].id = i THEN "sending" ELSE q[j].state
  BY <1>3, MarkFacts DEF States
<1>6. AtHome(p, s, h) /\ \A j, l \in DOMAIN q : q[j].id = q[l].id => j = l
  BY <1>1, <1>3, MarkKeeps DEF Homes, States, Unique
<1>7. \A l, o : Before(q, l, o) => Before(p, l, o)
  BY <1>3, MarkBefore
<1>9. q[k].id = i /\ q[k].state # "sending" /\ Before(q, k, origin)
  OBVIOUS
<1>11. i \in DOMAIN h /\ h[i] = s
  BY <1>1 DEF Homes, AtHome
<1> HIDE DEF v, p, q, i
<1>12. Homes(v, h)
  BY <1>1, <1>4, <1>6, <1>10, <1>11 DEF Homes
<1>13. SendingOK(v)
  <2> SUFFICES ASSUME NEW x \in Sessions, NEW l \in DOMAIN v.queue[x],
                      v.queue[x][l].state = "sending"
               PROVE  \E g \in v.flights : /\ g.id = v.queue[x][l].id /\ g.session = x
                                           /\ Before(v.queue[x], l, g.origin)
    BY DEF SendingOK
  <2>1. CASE x # s
    BY <1>1, <1>4, <1>10, <2>1 DEF SendingOK
  <2>2. CASE x = s /\ q[l].id # i
    <3>1. l \in DOMAIN q /\ q[l].state = "sending" /\ p[l].id = q[l].id
      BY <1>5, <1>4, <1>10, <2>2
    <3>2. \E g \in u.flights : g.id = q[l].id /\ g.session = s /\ Before(q, l, g.origin)
      BY <1>1, <3>1 DEF SendingOK, q
    <3>3. QED
      BY <1>4, <1>7, <1>10, <2>2, <3>1, <3>2
  <2>3. CASE x = s /\ q[l].id = i
    <3>1. l = k
      BY <1>5, <1>6, <1>4, <1>9, <1>10, <2>3 DEF q
    <3>2. QED
      BY <1>4, <1>5, <1>7, <1>10, <1>9, <1>10, <2>3, <3>1
  <2>4. QED
    BY <2>1, <2>2, <2>3
<1>14. Once(v, st)
  <2> SUFFICES ASSUME NEW j \in Items \ st.restored
               PROVE  /\ \A g, e \in v.flights : g.id = j /\ e.id = j => g = e
                      /\ j \in st.acked => \A g \in v.flights : g.id # j
                      /\ \A x \in Sessions : \A l \in DOMAIN v.queue[x] :
                           v.queue[x][l].id = j
                             => /\ j \notin st.acked
                                /\ v.queue[x][l].state # "sending"
                                     => \A g \in v.flights : g.id # j
    BY DEF Once
  <2>1. /\ \A g, e \in u.flights : g.id = j /\ e.id = j => g = e
        /\ j \in st.acked => \A g \in u.flights : g.id # j
        /\ \A x \in Sessions : \A l \in DOMAIN u.queue[x] :
             u.queue[x][l].id = j
               => /\ j \notin st.acked
                  /\ u.queue[x][l].state # "sending" => \A g \in u.flights : g.id # j
    BY <1>1 DEF Once
  <2>2. j = i => j \notin st.acked /\ \A g \in u.flights : g.id # i
    BY <1>9, <2>1 DEF q
  <2>3. /\ \A g, e \in v.flights : g.id = j /\ e.id = j => g = e
        /\ j \in st.acked => \A g \in v.flights : g.id # j
    BY <1>4, <1>10, <2>1, <2>2
  <2>4. ASSUME NEW x \in Sessions, NEW l \in DOMAIN v.queue[x], v.queue[x][l].id = j
        PROVE  /\ j \notin st.acked
               /\ v.queue[x][l].state # "sending" => \A g \in v.flights : g.id # j
    <3>1. CASE x = s
      BY <1>4, <1>5, <1>10, <2>1, <2>2, <2>4, <3>1 DEF q
    <3>2. CASE x # s
      <4>1. l \in DOMAIN u.queue[x] /\ u.queue[x][l].id = j
            /\ u.queue[x][l].state = v.queue[x][l].state
        BY <1>4, <2>4, <3>2
      <4>2. h[j] = x
        BY <1>1, <4>1 DEF Homes, AtHome
      <4>3. j # i
        BY <1>11, <3>2, <4>2
      <4>4. QED
        BY <1>4, <1>10, <2>1, <4>1, <4>3
    <3>3. QED
      BY <3>1, <3>2
  <2>5. QED
    BY <2>3, <2>4
<1>15. Numbered(v, st, acc, rn)
  <2>1. \A j \in Items : u.attempts[j] \in Nat /\ v.attempts[j] \in Nat
                         /\ u.attempts[j] <= v.attempts[j]
    BY <1>2, <1>3, <1>4, <1>10
  <2>2. \A r \in acc : r[1] \in Items /\ r[2] \in Nat
    BY DEF Runs
  <2>3. \A r \in acc : r[2] <= v.attempts[r[1]]
    BY <1>1, <2>1, <2>2 DEF Numbered
  <2>4. \A g \in u.flights : g.id \in Items /\ g.att \in Nat
    BY <1>2 DEF Flights
  <2>5. \A g \in u.flights : g.att <= v.attempts[g.id]
    <3>1. \A g \in u.flights : g.att <= u.attempts[g.id]
      BY <1>1 DEF Numbered
    <3>2. QED
      BY <2>1, <2>4, <3>1
  <2>6. f.att = v.attempts[i]
    BY <1>10
  <2>7. <<f.id, f.att>> \notin acc
    <3>1. SUFFICES ASSUME <<f.id, f.att>> \in acc PROVE FALSE
      OBVIOUS
    <3>2. f.att <= u.attempts[i]
      BY <1>1, <1>10, <3>1 DEF Numbered
    <3>3. QED
      BY <1>3, <1>10, <2>1, <3>2
  <2>8. f.att <= v.attempts[f.id]
    BY <1>3, <1>10, <2>1, <2>6
  <2>9. QED
    BY <1>1, <1>10, <2>3, <2>5, <2>7, <2>8 DEF Numbered
<1>16. QED
  BY <1>4, <1>12, <1>13, <1>14, <1>15 DEF UiOK, v, i

(* A step of the host may end with a send.                                 *)
Sends(u, v) ==
  \/ v = u
  \/ \E s \in Sessions : \E k \in DOMAIN u.queue[s], o \in Origins, rest \in Seq(Sessions) :
       /\ u.queue[s][k].state # "sending" /\ Before(u.queue[s], k, o)
       /\ v = Send(u, u.queue[s][k].id, s, o, rest)

(* Such a step keeps what is invariant about the host.                     *)
LEMMA SendsKeep ==
  ASSUME NEW u, NEW v, NEW h, NEW st, NEW acc \in SUBSET Runs, NEW rn,
         UiOK(u, h, st, acc, rn), Sends(u, v)
  PROVE  /\ UiOK(v, h, st, acc, rn)
         /\ v.run = u.run
         /\ \A s \in Sessions : IdsIn(v.queue[s]) = IdsIn(u.queue[s])
<1>1. CASE v = u
  BY <1>1
<1>2. CASE v # u
  <2>0. PICK s \in Sessions :
          \E k \in DOMAIN u.queue[s], o \in Origins, rest \in Seq(Sessions) :
            /\ u.queue[s][k].state # "sending" /\ Before(u.queue[s], k, o)
            /\ v = Send(u, u.queue[s][k].id, s, o, rest)
    BY <1>2 DEF Sends
  <2>1. PICK k \in DOMAIN u.queue[s], o \in Origins, rest \in Seq(Sessions) :
          /\ u.queue[s][k].state # "sending" /\ Before(u.queue[s], k, o)
          /\ v = Send(u, u.queue[s][k].id, s, o, rest)
    BY <2>0
  <2>2. UiOK(v, h, st, acc, rn)
    BY <2>1, SendKeeps
  <2>3. u.queue[s] \in Seq(Entries) /\ UiType(u)
    BY DEF UiOK, UiType, Host
  <2>4. u.queue[s][k].id \in Items
    <3>1. u.queue[s][k] \in Entries
      BY <2>3
    <3>2. QED
      BY <3>1 DEF Entries
  <2> DEFINE i == u.queue[s][k].id
  <2> HIDE DEF i
  <2>5. /\ v.queue[s] = Mark(u.queue[s], i, "sending") /\ v.run = u.run
        /\ \A x \in Sessions : x # s => v.queue[x] = u.queue[x]
    <3>1. i \in Items /\ v = Send(u, i, s, o, rest)
      BY <2>1, <2>4 DEF i
    <3>2. QED
      BY <2>3, <3>1, SendFields
  <2>6. IdsIn(v.queue[s]) = IdsIn(u.queue[s])
    BY <2>3, <2>5, MarkFacts DEF States
  <2>7. QED
    BY <2>2, <2>5, <2>6
<1>3. QED
  BY <1>1, <1>2

(* flushChatQueue sends the first message that waits, if any.              *)
LEMMA FlushSends ==
  ASSUME NEW u, UiType(u), sessionKey \in Sessions
  PROVE  Sends(u, Flush(u))
<1> DEFINE q == u.queue[sessionKey]
           k == FirstOf(q, Flushable)
<1>1. q \in Seq(Entries)
  BY DEF UiType, Host
<1>2. CASE Busy(u) \/ k = 0
  BY <1>2 DEF Flush, Sends
<1>3. CASE ~(Busy(u) \/ k = 0)
  <2>1. Flush(u) = Send(u, q[k].id, sessionKey, "flush", <<>>)
    BY <1>3 DEF Flush
  <2>2. k \in DOMAIN q /\ Flushable(q[k]) /\ Before(q, k, "flush")
    BY <1>1, <1>3, FirstFlushable
  <2>3. "flush" \in Origins /\ <<>> \in Seq(Sessions)
    BY DEF Origins
  <2> HIDE DEF k
  <2>4. q[k].state # "sending"
    BY <2>2 DEF Flushable
  <2>5. QED
    BY <2>1, <2>2, <2>3, <2>4 DEF Sends
<1>4. QED
  BY <1>2, <1>3

(* retryReconnectableQueuedChatSends sends the first message of a queue    *)
(* that waits for the connection, or flushes.                              *)
LEMMA RetrySends ==
  ASSUME NEW u, UiType(u), sessionKey \in Sessions, NEW rest \in Seq(Sessions)
  PROVE  Sends(u, RetryLoop(u, rest))
<1> DEFINE I(x) == {j \in 1 .. Len(u.queue[x]) : u.queue[x][j].state = "waiting"}
           W(x) == IF I(x) # {} THEN Min(I(x)) ELSE 0
           K == {j \in 1 .. Len(rest) : W(rest[j]) # 0}
           k == IF K # {} THEN Min(K) ELSE 0
           here == rest[k]
           tail == SubSeq(rest, k + 1, Len(rest))
<1>1. RetryLoop(u, rest) =
        IF k # 0 THEN Send(u, u.queue[here][W(here)].id, here, "reconnect", tail)
        ELSE IF u.run = NoRun THEN Flush(u) ELSE u
  BY DEF RetryLoop, FirstOf, SelectInSeq
<1>2. Len(rest) \in Nat /\ DOMAIN rest = 1 .. Len(rest)
  OBVIOUS
<1>3. CASE k # 0
  <2> HIDE DEF W
  <2>1. K # {} /\ k = Min(K)
    BY <1>3
  <2>2. k \in 1 .. Len(rest) /\ W(here) # 0
    BY <1>2, <2>1, FirstPosition
  <2> HIDE DEF k
  <2>3. here \in Sessions /\ tail \in Seq(Sessions)
    BY <1>2, <2>2
  <2> HIDE DEF here, tail
  <2>4. u.queue[here] \in Seq(Entries)
    BY <2>3 DEF UiType, Host
  <2>5. Len(u.queue[here]) \in Nat /\ DOMAIN u.queue[here] = 1 .. Len(u.queue[here])
    BY <2>4
  <2>6. W(here) = Min(I(here)) /\ I(here) # {}
    BY <2>2 DEF W
  <2>7. W(here) \in I(here) /\ \A j \in I(here) : W(here) <= j
    BY <2>5, <2>6, FirstPosition
  <2> DEFINE w == W(here)
  <2>8. w \in DOMAIN u.queue[here] /\ u.queue[here][w].state = "waiting"
    BY <2>5, <2>7
  <2>9. \A j \in DOMAIN u.queue[here] : j < w => u.queue[here][j].state # "waiting"
    BY <2>5, <2>7
  <2> HIDE DEF w, I
  <2>10. Before(u.queue[here], w, "reconnect")
    BY <2>9 DEF Before
  <2>11. "reconnect" \in Origins
    BY DEF Origins
  <2>12. RetryLoop(u, rest) = Send(u, u.queue[here][w].id, here, "reconnect", tail)
    BY <1>1, <1>3 DEF w
  <2>13. QED
    BY <2>3, <2>8, <2>10, <2>11, <2>12 DEF Sends
<1>4. CASE k = 0
  <2>1. RetryLoop(u, rest) = IF u.run = NoRun THEN Flush(u) ELSE u
    BY <1>1, <1>4
  <2>2. QED
    BY <2>1, FlushSends DEF Sends
<1>5. QED
  BY <1>3, <1>4

(* Whoever sent a message goes on with one send at most.                   *)
LEMMA ContinueSends ==
  ASSUME NEW u, UiType(u), sessionKey \in Sessions, NEW f \in Flights,
         NEW sent \in BOOLEAN
  PROVE  Sends(u, Continue(u, f, sent))
<1>1. Sends(u, u) /\ Sends(u, Flush(u))
  BY FlushSends DEF Sends
<1>2. f.rest \in Seq(Sessions) /\ f.origin \in {"submit", "flush", "retry", "reconnect"}
  BY DEF Flights, Origins
<1>3. Sends(u, RetryLoop(u, f.rest))
  BY <1>2, RetrySends
<1>4. QED
  BY <1>1, <1>2, <1>3 DEF Continue

-------------------------------------------------------------------------------
(* What a step leaves behind.                                              *)

Plain ==
  /\ sessionKey \in Sessions /\ connected \in BOOLEAN
  /\ idleCheck \in SUBSET Sessions
  /\ accepted \in SUBSET Runs /\ running \in SUBSET accepted
  /\ home \in Seq(Sessions) /\ Len(home) <= MaxMessages
  /\ settled \in [Fates -> SUBSET Items]
  /\ faults \in 0 .. MaxFaults

StoredType ==
  /\ stored \in [Sessions -> Seq({e \in Entries : e.state # "sending"})]
  /\ \A s \in Sessions : Unique(stored[s])

(* TypeOK by the parts that the lemmas are about.                          *)
LEMMA Types == TypeOK <=> Plain /\ UiType(ui) /\ StoredType
  BY DEF TypeOK, Plain, UiType, Host, StoredType

(* What is left of a queue is at home where the queue is.                  *)
LEMMA WithinAtHome ==
  ASSUME NEW q \in Seq(Entries), NEW p \in Seq(Entries), Within(p, q),
         NEW s, NEW h, AtHome(q, s, h)
  PROVE  AtHome(p, s, h)
<1>1. PICK f \in [DOMAIN p -> DOMAIN q] : \A k \in DOMAIN p : p[k] = q[f[k]]
  BY DEF Within
<1>2. \A k \in DOMAIN p : p[k] = q[f[k]] /\ f[k] \in DOMAIN q
  BY <1>1
<1>3. QED
  BY <1>2 DEF AtHome

(* A stored queue is a queue with nothing being sent.                      *)
LEMMA StableSeq ==
  ASSUME NEW q \in Seq({e \in Entries : e.state # "sending"})
  PROVE  q \in Seq(Entries) /\ \A k \in DOMAIN q : q[k].state # "sending"
<1> DEFINE Stable == {e \in Entries : e.state # "sending"}
<1>1. \A k \in DOMAIN q : q[k] \in Stable
  OBVIOUS
<1>2. DOMAIN q = 1 .. Len(q) /\ Len(q) \in Nat /\ q = [k \in 1 .. Len(q) |-> q[k]]
  OBVIOUS
<1>3. \A k \in DOMAIN q : q[k] \in Entries /\ q[k].state # "sending"
  BY <1>1
<1>4. QED
  BY <1>2, <1>3, IsASeq

(* handleUpdated keeps storage as the invariant wants it.                  *)
LEMMA SavedKeeps ==
  ASSUME StoredType, UiType(ui'), sessionKey' \in Sessions, Saved,
         Homes(ui', home'), \A s \in Sessions : AtHome(stored[s], s, home')
  PROVE  /\ StoredType' /\ StoredOK'
         /\ \A s \in Sessions : s # sessionKey' => stored'[s] = stored[s]
<1> DEFINE q == ui'.queue[sessionKey']
           p == Serialize(q)
           Stable == {e \in Entries : e.state # "sending"}
<1>1. q \in Seq(Entries) /\ Unique(q) /\ AtHome(q, sessionKey', home')
  BY DEF UiType, Host, Homes
<1>2. p \in Seq(Stable) /\ Within(p, q)
  BY <1>1, SerializeFacts
<1>3. p \in Seq(Entries)
  BY <1>2, StableSeq
<1>4. Unique(p) /\ AtHome(p, sessionKey', home')
  BY <1>1, <1>2, <1>3, WithinUnique, WithinAtHome
<1>5. stored' = [stored EXCEPT ![sessionKey'] = p]
  BY DEF Saved
<1>6. stored \in [Sessions -> Seq(Stable)] /\ \A s \in Sessions : Unique(stored[s])
  BY DEF StoredType
<1> HIDE DEF p, Stable
<1>7. stored' \in [Sessions -> Seq(Stable)]
  BY <1>2, <1>5, <1>6
<1>8. stored'[sessionKey'] = p /\ \A s \in Sessions : s # sessionKey' => stored'[s] = stored[s]
  BY <1>5, <1>6
<1>9. \A s \in Sessions : Unique(stored'[s]) /\ AtHome(stored'[s], s, home')
  BY <1>4, <1>6, <1>8
<1>10. QED
  BY <1>7, <1>8, <1>9 DEF StoredType, StoredOK, p, Stable

(* A step within one session: what it takes from a queue it accounts for,  *)
(* and what it takes up it puts there.                                     *)
LEMMA Ordinary ==
  ASSUME IInv, Plain', sessionKey' = sessionKey,
         \A i \in Submitted : i \in Submitted' /\ home'[i] = home[i],
         \A i \in Submitted' \ Submitted :
           home'[i] = sessionKey /\ i \in IdsIn(ui'.queue[sessionKey]),
         UiOK(ui, home, settled, accepted, running)', Saved,
         settled.left \subseteq settled'.left,
         Exempt(settled) \subseteq Exempt(settled'), settled'.acked \subseteq Submitted,
         \A s \in Sessions : \A i \in IdsIn(ui.queue[s]) :
           i \in Exempt(settled') \/ i \in IdsIn(ui'.queue[s]),
         ~connected' => ui'.flights = {}, SnapsBackOnlyToOvertaken'
  PROVE  IInv'
<1>1. /\ Plain /\ UiType(ui) /\ StoredType /\ Homes(ui, home) /\ StoredOK
      /\ \A i \in Submitted \ Exempt(settled) : KeptOK(ui.queue, i)
  BY Types DEF IInv, UiOK
<1>2. UiType(ui') /\ Homes(ui', home')
  BY DEF UiOK
<1>3. \A s \in Sessions : AtHome(stored[s], s, home')
  BY <1>1 DEF StoredOK, AtHome, Submitted
<1>4. /\ StoredType' /\ StoredOK'
      /\ \A s \in Sessions : s # sessionKey => stored'[s] = stored[s]
  BY <1>1, <1>2, <1>3, SavedKeeps DEF Plain
<1>5. ASSUME NEW i \in Submitted' \ Exempt(settled')
      PROVE  KeptOK(ui.queue, i)'
  <2>1. CASE i \in Submitted
    <3>1. KeptOK(ui.queue, i) /\ home'[i] = home[i]
      BY <1>1, <1>5, <2>1
    <3>2. home[i] \in Sessions
      BY <1>1, <2>1, ElementOfSeq DEF Plain, Submitted
    <3>3. QED
      BY <1>4, <1>5, <3>1, <3>2 DEF KeptOK
  <2>2. CASE i \notin Submitted
    BY <1>5, <2>2 DEF KeptOK
  <2>3. QED
    BY <2>1, <2>2
<1>6. TypeOK'
  BY <1>2, <1>4, Types DEF TypeOK, Plain, UiType, Host, StoredType
<1>7. settled'.acked \subseteq Submitted'
  OBVIOUS
<1>8. QED
  BY <1>4, <1>5, <1>6, <1>7 DEF IInv

-------------------------------------------------------------------------------
(* What keeps the host as it is wanted.                                    *)

(* The run it shows is of no concern to its queues.                        *)
LEMMA RunKeeps ==
  ASSUME NEW u, NEW h, NEW st, NEW acc, NEW rn, UiOK(u, h, st, acc, rn),
         NEW run \in Runs \cup {NoRun}, NEW v, v = [u EXCEPT !.run = run]
  PROVE  /\ UiOK(v, h, st, acc, rn)
         /\ v.run = run /\ v.queue = u.queue /\ v.flights = u.flights
<1>1. /\ u \in Host
      /\ \A s \in Sessions : Unique(u.queue[s])
  BY DEF UiOK, UiType, Host
<1>2. /\ v.run = run /\ v.queue = u.queue /\ v.flights = u.flights
      /\ v.attempts = u.attempts
  BY <1>1
<1>3. v \in Host
  BY <1>1 DEF Host
<1>4. UiType(v)
  BY <1>1, <1>2, <1>3 DEF UiType, Host
<1>5. Homes(v, h) /\ SendingOK(v) /\ Once(v, st) /\ Numbered(v, st, acc, rn)
  BY <1>2 DEF UiOK, Homes, SendingOK, Once, Numbered
<1>6. QED
  BY <1>2, <1>4, <1>5 DEF UiOK

(* Nor are the fates of messages, but for three of them.                   *)
LEMMA FatesKeep ==
  ASSUME NEW u, NEW h, NEW st, NEW acc, NEW rn, UiOK(u, h, st, acc, rn),
         NEW new, new.restored = st.restored, new.acked = st.acked,
         st.overtaken \subseteq new.overtaken,
         NEW rn2, rn \subseteq rn2 \/ u.flights = {}
  PROVE  UiOK(u, h, new, acc, rn2)
  BY DEF UiOK, Once, Numbered

(* A queue is left of itself.                                              *)
LEMMA WithinItself ==
  ASSUME NEW q \in Seq(Entries)
  PROVE  Within(q, q)
<1> DEFINE f == [k \in DOMAIN q |-> k]
<1>1. /\ f \in [DOMAIN q -> DOMAIN q] /\ \A k \in DOMAIN q : q[k] = q[f[k]]
      /\ \A k, l \in DOMAIN q : k < l <=> f[k] < f[l]
  OBVIOUS
<1> HIDE DEF f
<1>2. QED
  BY <1>1 DEF Within

(* Messages leave the queues and sends come back, the marks of these with  *)
(* them; what is acknowledged is gone.                                     *)
Shrinks(u, v, st, new) ==
  /\ v.attempts = u.attempts /\ v.flights \subseteq u.flights
  /\ \A s \in Sessions : Within(v.queue[s], u.queue[s])
  /\ \A s \in Sessions : \A k \in DOMAIN v.queue[s] : \A f \in u.flights \ v.flights :
       f.session = s => f.id # v.queue[s][k].id
  /\ new.restored = st.restored /\ st.overtaken \subseteq new.overtaken
  /\ \A i \in (Items \ st.restored) \cap (new.acked \ st.acked) :
       /\ \A f \in v.flights : f.id # i
       /\ \A s \in Sessions : i \notin IdsIn(v.queue[s])

(* Such a step keeps what is invariant about the host.                     *)
LEMMA ShrinkKeeps ==
  ASSUME NEW u, NEW h, NEW st, NEW acc, NEW rn, UiOK(u, h, st, acc, rn),
         NEW v, UiType(v), NEW new, Shrinks(u, v, st, new)
  PROVE  UiOK(v, h, new, acc, rn)
<1>1. /\ UiType(u) /\ Homes(u, h) /\ SendingOK(u) /\ Once(u, st)
      /\ Numbered(u, st, acc, rn)
  BY DEF UiOK
<1> USE DEF Shrinks
<1>2. \A s \in Sessions : u.queue[s] \in Seq(Entries) /\ v.queue[s] \in Seq(Entries)
  BY <1>1 DEF UiType, Host
<1>3. Homes(v, h)
  <2>1. \A s \in Sessions : AtHome(v.queue[s], s, h)
    BY <1>1, <1>2, WithinAtHome DEF Homes
  <2>2. QED
    BY <1>1, <2>1 DEF Homes
<1>4. SendingOK(v)
  <2> SUFFICES ASSUME NEW s \in Sessions, NEW l \in DOMAIN v.queue[s],
                      v.queue[s][l].state = "sending"
               PROVE  \E f \in v.flights : /\ f.id = v.queue[s][l].id /\ f.session = s
                                           /\ Before(v.queue[s], l, f.origin)
    BY DEF SendingOK
  <2>1. PICK m \in [DOMAIN v.queue[s] -> DOMAIN u.queue[s]] :
               /\ \A k \in DOMAIN v.queue[s] : v.queue[s][k] = u.queue[s][m[k]]
               /\ \A j, k \in DOMAIN v.queue[s] : j < k <=> m[j] < m[k]
    BY DEF Within
  <2>2. \A k \in DOMAIN v.queue[s] : m[k] \in DOMAIN u.queue[s]
    BY <2>1
  <2>3. u.queue[s][m[l]].state = "sending" /\ m[l] \in DOMAIN u.queue[s]
    BY <2>1
  <2>4. PICK f \in u.flights : /\ f.id = u.queue[s][m[l]].id /\ f.session = s
                               /\ Before(u.queue[s], m[l], f.origin)
    BY <1>1, <2>3 DEF SendingOK
  <2>5. f \in v.flights /\ f.id = v.queue[s][l].id
    BY <2>1, <2>4
  <2>6. Before(v.queue[s], l, f.origin)
    BY <2>1, <2>2, <2>4 DEF Before
  <2>7. QED
    BY <2>4, <2>5, <2>6
<1>5. Once(v, new)
  <2> SUFFICES ASSUME NEW i \in Items \ st.restored
               PROVE  /\ \A f, g \in v.flights : f.id = i /\ g.id = i => f = g
                      /\ i \in new.acked => \A f \in v.flights : f.id # i
                      /\ \A s \in Sessions : \A k \in DOMAIN v.queue[s] :
                           v.queue[s][k].id = i
                             => /\ i \notin new.acked
                                /\ v.queue[s][k].state # "sending"
                                     => \A f \in v.flights : f.id # i
    BY DEF Once
  <2>1. /\ \A f, g \in u.flights : f.id = i /\ g.id = i => f = g
        /\ i \in st.acked => \A f \in u.flights : f.id # i
        /\ \A s \in Sessions : \A k \in DOMAIN u.queue[s] :
             u.queue[s][k].id = i
               => /\ i \notin st.acked
                  /\ u.queue[s][k].state # "sending" => \A f \in u.flights : f.id # i
    BY <1>1 DEF Once
  <2>2. /\ \A f, g \in v.flights : f.id = i /\ g.id = i => f = g
        /\ i \in new.acked => \A f \in v.flights : f.id # i
    BY <2>1
  <2>3. ASSUME NEW s \in Sessions, NEW k \in DOMAIN v.queue[s], v.queue[s][k].id = i
        PROVE  /\ i \notin new.acked
               /\ v.queue[s][k].state # "sending" => \A f \in v.flights : f.id # i
    <3>1. \E j \in DOMAIN u.queue[s] : v.queue[s][k] = u.queue[s][j]
      BY DEF Within
    <3>2. i \in IdsIn(v.queue[s])
      BY <2>3 DEF IdsIn
    <3>3. i \notin st.acked /\ (v.queue[s][k].state # "sending" => \A f \in u.flights : f.id # i)
      BY <2>1, <2>3, <3>1
    <3>4. QED
      BY <3>2, <3>3
  <2>4. QED
    BY <2>2, <2>3
<1>6. Numbered(v, new, acc, rn)
  BY <1>1 DEF Numbered
<1>7. QED
  BY <1>3, <1>4, <1>5, <1>6 DEF UiOK

(* Messages whose sends have come back, and others nobody sends, are       *)
(* marked as failed; or, when nothing is sent, as anything else.           *)
Marks(u, v, st) ==
  /\ v.attempts = u.attempts /\ v.flights \subseteq u.flights
  /\ \A s \in Sessions :
       /\ DOMAIN v.queue[s] = DOMAIN u.queue[s]
       /\ \A k \in DOMAIN u.queue[s] :
            /\ v.queue[s][k].id = u.queue[s][k].id
            /\ \/ v.queue[s][k].state = u.queue[s][k].state
               \/ /\ v.queue[s][k].state # "sending"
                  /\ v.flights = {} \/ v.queue[s][k].state = "failed"
                  /\ \/ u.queue[s][k].id \in st.restored
                     \/ \A f \in v.flights : f.id # u.queue[s][k].id
            /\ v.queue[s][k].state = "sending"
                 => \A f \in u.flights \ v.flights :
                      f.session = s => f.id # u.queue[s][k].id

(* Such a step keeps what is invariant about the host.                     *)
LEMMA MarkedKeeps ==
  ASSUME NEW u, NEW h, NEW st, NEW acc, NEW rn, UiOK(u, h, st, acc, rn),
         NEW v, UiType(v), Marks(u, v, st)
  PROVE  UiOK(v, h, st, acc, rn)
<1>1. /\ UiType(u) /\ Homes(u, h) /\ SendingOK(u) /\ Once(u, st)
      /\ Numbered(u, st, acc, rn)
  BY DEF UiOK
<1> USE DEF Marks
<1>2. Homes(v, h)
  BY <1>1 DEF Homes, AtHome
<1>3. SendingOK(v)
  <2> SUFFICES ASSUME NEW s \in Sessions, NEW l \in DOMAIN v.queue[s],
                      v.queue[s][l].state = "sending"
               PROVE  \E f \in v.flights : /\ f.id = v.queue[s][l].id /\ f.session = s
                                           /\ Before(v.queue[s], l, f.origin)
    BY DEF SendingOK
  <2>1. l \in DOMAIN u.queue[s] /\ u.queue[s][l].state = "sending"
    OBVIOUS
  <2>2. PICK f \in u.flights : /\ f.id = u.queue[s][l].id /\ f.session = s
                               /\ Before(u.queue[s], l, f.origin)
    BY <1>1, <2>1 DEF SendingOK
  <2>3. f \in v.flights /\ f.id = v.queue[s][l].id
    BY <2>1, <2>2
  <2>4. \A k \in DOMAIN u.queue[s] : v.queue[s][k].state = u.queue[s][k].state
                                     \/ v.queue[s][k].state = "failed"
    BY <2>3
  <2>5. Before(v.queue[s], l, f.origin)
    BY <2>2, <2>4 DEF Before, Flushable
  <2>6. QED
    BY <2>2, <2>3, <2>5
<1>4. Once(v, st)
  BY <1>1 DEF Once
<1>5. Numbered(v, st, acc, rn)
  BY <1>1 DEF Numbered
<1>6. QED
  BY <1>2, <1>3, <1>4, <1>5 DEF UiOK

(* A message that is new joins a queue at its end.                         *)
Joining(u, i, s, state) == [u EXCEPT !.queue[s] = Append(@, [id |-> i, state |-> state])]

Joins(u, v, i, s) ==
  /\ v.flights = u.flights /\ v.run = u.run
  /\ \A x \in Sessions : IdsIn(u.queue[x]) \subseteq IdsIn(v.queue[x])
  /\ i \in IdsIn(v.queue[s])
  /\ \E k \in DOMAIN v.queue[s] : v.queue[s][k].id = i /\ v.queue[s][k].state # "sending"

(* Such a step keeps what is invariant about the host.                     *)
LEMMA JoinKeeps ==
  ASSUME NEW u, NEW h \in Seq(Sessions), NEW st, NEW acc, NEW rn,
         UiOK(u, h, st, acc, rn), st.acked \subseteq DOMAIN h,
         NEW i \in Items, i = Len(h) + 1, NEW s \in Sessions,
         NEW h2, h2 = Append(h, s), NEW state \in {"queued", "waiting"},
         NEW v, v = Joining(u, i, s, state)
  PROVE  UiOK(v, h2, st, acc, rn) /\ Joins(u, v, i, s)
<1> DEFINE e == [id |-> i, state |-> state]
           q == u.queue[s]
           p == Append(q, e)
           n == Len(q) + 1
<1>1. /\ UiType(u) /\ Homes(u, h) /\ SendingOK(u) /\ Once(u, st)
      /\ Numbered(u, st, acc, rn)
  BY DEF UiOK
<1>2. u \in [queue : [Sessions -> Seq(Entries)], flights : SUBSET Flights,
             attempts : [Items -> Nat], sending : BOOLEAN, run : Runs \cup {NoRun}]
  BY <1>1 DEF UiType, Host
<1>3. e \in Entries /\ e.id = i /\ e.state = state
  BY DEF Entries, States
<1>4. q \in Seq(Entries) /\ Unique(q) /\ AtHome(q, s, h)
  BY <1>1 DEF UiType, Host, Homes
<1> HIDE DEF e
<1>5. /\ p \in Seq(Entries) /\ DOMAIN p = DOMAIN q \cup {n} /\ n \notin DOMAIN q
      /\ p[n] = e /\ \A k \in DOMAIN q : p[k] = q[k] /\ k < n
      /\ DOMAIN q = 1 .. Len(q) /\ Len(q) \in Nat
  <2> HIDE DEF q
  <2>1. /\ p \in Seq(Entries) /\ Len(p) = n /\ p[n] = e
        /\ \A k \in 1 .. Len(q) : p[k] = q[k]
    BY <1>3, <1>4, AppendProperties
  <2>2. DOMAIN q = 1 .. Len(q) /\ Len(q) \in Nat /\ DOMAIN p = 1 .. Len(p)
    BY <1>4, <2>1
  <2> HIDE DEF p
  <2>3. QED
    BY <2>1, <2>2
<1>6. /\ DOMAIN h2 = DOMAIN h \cup {i} /\ i \notin DOMAIN h
      /\ h2[i] = s /\ \A k \in DOMAIN h : h2[k] = h[k]
  OBVIOUS
<1>7. \A k \in DOMAIN q : q[k].id # i
  BY <1>4, <1>6 DEF AtHome
<1> HIDE DEF q, n
<1>8. Unique(p) /\ AtHome(p, s, h2)
  BY <1>3, <1>4, <1>5, <1>6, <1>7 DEF Unique, AtHome
<1>9. /\ v.queue = [u.queue EXCEPT ![s] = p]
      /\ v.flights = u.flights /\ v.attempts = u.attempts /\ v.run = u.run
      /\ [u.queue EXCEPT ![s] = p] \in [Sessions -> Seq(Entries)] => v \in Host
  BY <1>2 DEF Joining, p, e, q, Host
<1> HIDE DEF p
<1>10. /\ v.queue[s] = p /\ \A x \in Sessions : x # s => v.queue[x] = u.queue[x]
       /\ v.flights = u.flights /\ v.attempts = u.attempts /\ v.run = u.run
       /\ UiType(v)
  <2>1. [u.queue EXCEPT ![s] = p] \in [Sessions -> Seq(Entries)]
    BY <1>2, <1>5
  <2>2. v.queue[s] = p /\ \A x \in Sessions : x # s => v.queue[x] = u.queue[x]
    BY <1>2, <1>9
  <2>3. QED
    BY <1>1, <1>8, <1>9, <2>1, <2>2 DEF UiType
<1>11. Homes(v, h2)
  BY <1>1, <1>6, <1>8, <1>10 DEF Homes, AtHome
<1>12. SendingOK(v)
  <2> SUFFICES ASSUME NEW x \in Sessions, NEW l \in DOMAIN v.queue[x],
                      v.queue[x][l].state = "sending"
               PROVE  \E f \in v.flights : /\ f.id = v.queue[x][l].id /\ f.session = x
                                           /\ Before(v.queue[x], l, f.origin)
    BY DEF SendingOK
  <2>1. CASE x # s
    BY <1>1, <1>10, <2>1 DEF SendingOK
  <2>2. CASE x = s
    <3>1. l \in DOMAIN q /\ p[l] = q[l]
      BY <1>3, <1>5, <1>10, <2>2
    <3>2. \E f \in u.flights : f.id = q[l].id /\ f.session = s /\ Before(q, l, f.origin)
      BY <1>1, <1>10, <2>2, <3>1 DEF SendingOK, q
    <3>3. \A o : Before(q, l, o) => Before(p, l, o)
      <4>1. \A k \in DOMAIN p : k < l => k \in DOMAIN q
        BY <1>5, <3>1 DEF n
      <4>2. QED
        BY <1>5, <4>1 DEF Before
    <3>4. QED
      BY <1>10, <2>2, <3>1, <3>2, <3>3
  <2>3. QED
    BY <2>1, <2>2
<1>13. \A f \in u.flights : f.id # i
  BY <1>1, <1>6 DEF Homes
<1>14. i \notin st.acked
  BY <1>6
<1>15. Once(v, st)
  <2> SUFFICES ASSUME NEW j \in Items \ st.restored, NEW x \in Sessions,
                      NEW k \in DOMAIN v.queue[x], v.queue[x][k].id = j
               PROVE  /\ j \notin st.acked
                      /\ v.queue[x][k].state # "sending" => \A f \in v.flights : f.id # j
    BY <1>1, <1>10 DEF Once
  <2>1. CASE j = i
    BY <1>10, <1>13, <1>14, <2>1
  <2>2. CASE j # i
    <3>1. k \in DOMAIN u.queue[x] /\ u.queue[x][k] = v.queue[x][k]
      <4>1. CASE x # s
        BY <1>10, <4>1
      <4>2. CASE x = s
        BY <1>3, <1>5, <1>10, <2>2, <4>2 DEF q
      <4>3. QED
        BY <4>1, <4>2
    <3>2. QED
      BY <1>1, <1>10, <3>1 DEF Once
  <2>3. QED
    BY <2>1, <2>2
<1>16. Numbered(v, st, acc, rn)
  BY <1>1, <1>10 DEF Numbered
<1>17. /\ n \in DOMAIN v.queue[s] /\ v.queue[s][n].id = i
       /\ v.queue[s][n].state # "sending"
  BY <1>3, <1>5, <1>10
<1>18. IdsIn(u.queue[s]) \subseteq IdsIn(v.queue[s]) /\ i \in IdsIn(v.queue[s])
  <2>1. \A k \in DOMAIN q : k \in DOMAIN v.queue[s] /\ v.queue[s][k].id = q[k].id
    BY <1>5, <1>10
  <2>2. IdsIn(q) \subseteq IdsIn(v.queue[s])
    BY <2>1 DEF IdsIn
  <2>3. i \in IdsIn(v.queue[s])
    BY <1>17 DEF IdsIn
  <2>4. QED
    BY <2>2, <2>3 DEF q
<1>19. QED
  BY <1>10, <1>11, <1>12, <1>15, <1>16, <1>17, <1>18 DEF UiOK, Joins

-------------------------------------------------------------------------------
(* Every action keeps the invariant.                                       *)

(* The invariant, in the form in which the steps use it.                   *)
LEMMA Facts ==
  ASSUME IInv
  PROVE  /\ Plain /\ UiType(ui) /\ StoredType /\ StoredOK
         /\ UiOK(ui, home, settled, accepted, running)
         /\ \A s \in Sessions : ui.queue[s] \in Seq(Entries) /\ Unique(ui.queue[s])
         /\ ui.flights \subseteq Flights /\ ui.run \in Runs \cup {NoRun}
         /\ \A f \in ui.flights : /\ f.id \in Items /\ f.session \in Sessions
                                  /\ f.id \in Submitted /\ home[f.id] = f.session
  BY Types DEF IInv, UiOK, UiType, Host, Homes, Flights, Submitted

(* A new message joins the visible queue and may be sent at once.          *)
LEMMA SubmitKeeps ==
  ASSUME IInv, NEW i \in Items, Submit(i)
  PROVE  IInv'
<1> DEFINE s == sessionKey
           u(state) == Joining(ui, i, s, state)
<1>1. /\ Plain /\ UiOK(ui, home, settled, accepted, running)
      /\ settled.acked \subseteq DOMAIN home /\ s \in Sessions
      /\ home \in Seq(Sessions)
  BY Facts DEF IInv, Submitted, Plain
<1>2. /\ i = Len(home) + 1 /\ home' = Append(home, s) /\ Saved
      /\ UNCHANGED <<sessionKey, connected, idleCheck, gatewayVars, settled, faults>>
      /\ ui' = IF Busy(ui) THEN u("queued")
               ELSE IF connected THEN Send(u("queued"), i, s, "submit", <<>>)
               ELSE u("waiting")
  BY DEF Submit, Joining
<1>3. \A state \in {"queued", "waiting"} :
        /\ UiOK(u(state), home', settled, accepted, running)
        /\ u(state).flights = ui.flights /\ u(state).run = ui.run
        /\ \A x \in Sessions : IdsIn(ui.queue[x]) \subseteq IdsIn(u(state).queue[x])
        /\ i \in IdsIn(u(state).queue[s])
        /\ \E k \in DOMAIN u(state).queue[s] :
             u(state).queue[s][k].id = i /\ u(state).queue[s][k].state # "sending"
  <2> TAKE state \in {"queued", "waiting"}
  <2> DEFINE v == u(state)
  <2>1. v = Joining(ui, i, s, state) /\ i = Len(home) + 1
    BY <1>2
  <2> HIDE DEF v
  <2>2. UiOK(v, home', settled, accepted, running) /\ Joins(ui, v, i, s)
    BY <1>1, <1>2, <2>1, JoinKeeps
  <2>3. QED
    BY <2>2 DEF v, Joins
<1> HIDE DEF u
<1>4. ASSUME ui' = Send(u("queued"), i, s, "submit", <<>>)
      PROVE  Sends(u("queued"), ui')
  <2> DEFINE v == u("queued")
  <2>1. PICK k \in DOMAIN v.queue[s] :
          v.queue[s][k].id = i /\ v.queue[s][k].state # "sending"
    BY <1>3
  <2>2. Before(v.queue[s], k, "submit") /\ "submit" \in Origins /\ <<>> \in Seq(Sessions)
    BY DEF Before, Origins
  <2> HIDE DEF v
  <2>3. ui' = Send(v, v.queue[s][k].id, s, "submit", <<>>)
    BY <1>4, <2>1 DEF v
  <2>4. Sends(v, ui')
    BY <1>1, <2>1, <2>2, <2>3 DEF Sends
  <2>5. QED
    BY <2>4 DEF v
<1>5. \E state \in {"queued", "waiting"} :
        Sends(u(state), ui') /\ (~connected => ui' = u(state))
  BY <1>2, <1>4 DEF Sends
<1>6. PICK state \in {"queued", "waiting"} :
        Sends(u(state), ui') /\ (~connected => ui' = u(state))
  BY <1>5
<1>7. /\ UiOK(ui', home', settled, accepted, running)
      /\ ui'.run = u(state).run
      /\ \A x \in Sessions : IdsIn(ui'.queue[x]) = IdsIn(u(state).queue[x])
  BY <1>1, <1>3, <1>6, SendsKeep DEF Plain
<1>8. /\ home \in Seq(Sessions) /\ home' \in Seq(Sessions) /\ Len(home') <= MaxMessages
      /\ DOMAIN home' = DOMAIN home \cup {i} /\ home'[i] = s
      /\ \A j \in DOMAIN home : home'[j] = home[j]
  <2>1. home \in Seq(Sessions) /\ s \in Sessions /\ Len(home) \in Nat
    BY <1>1 DEF Plain
  <2>2. /\ home' \in Seq(Sessions) /\ Len(home') = i /\ home'[i] = s
        /\ \A j \in 1 .. Len(home) : home'[j] = home[j]
    BY <1>2, <2>1, AppendProperties
  <2>3. DOMAIN home = 1 .. Len(home) /\ DOMAIN home' = 1 .. Len(home')
    BY <2>1, <2>2
  <2>4. QED
    BY <1>2, <2>1, <2>2, <2>3, QueueAssumption DEF Items
<1>9. Plain'
  BY <1>1, <1>2, <1>8 DEF Plain, gatewayVars
<1>10. ~connected' => ui'.flights = {}
  BY <1>2, <1>3, <1>6 DEF IInv
<1>11. SnapsBackOnlyToOvertaken'
  BY <1>2, <1>3, <1>7 DEF IInv, SnapsBackOnlyToOvertaken, gatewayVars
<1>12. UiOK(ui, home, settled, accepted, running)' /\ settled' = settled
  BY <1>2, <1>7 DEF gatewayVars
<1>13. \A x \in Sessions : IdsIn(ui.queue[x]) \subseteq IdsIn(ui'.queue[x])
  BY <1>3, <1>7
<1>14. i \in IdsIn(ui'.queue[s])
  BY <1>1, <1>3, <1>7
<1>15. QED
  BY <1>1, <1>2, <1>8, <1>9, <1>10, <1>11, <1>12, <1>13, <1>14, Ordinary DEF Submitted

(* One queue is marked.                                                    *)
Marked(u, v, s, i, state) ==
  \A x \in Sessions :
    /\ DOMAIN v.queue[x] = DOMAIN u.queue[x]
    /\ IdsIn(v.queue[x]) = IdsIn(u.queue[x])
    /\ \A k \in DOMAIN u.queue[x] :
         /\ v.queue[x][k].id = u.queue[x][k].id
         /\ v.queue[x][k].state = IF x = s /\ u.queue[x][k].id = i THEN state
                                  ELSE u.queue[x][k].state

(* What Mark does to the host.                                             *)
LEMMA MarkedFields ==
  ASSUME NEW u, UiType(u), NEW s \in Sessions, NEW i, NEW state \in States,
         NEW v \in Host, v.queue[s] = Mark(u.queue[s], i, state),
         \A x \in Sessions : x # s => v.queue[x] = u.queue[x]
  PROVE  UiType(v) /\ Marked(u, v, s, i, state)
<1> DEFINE q == u.queue[s]
           p == Mark(q, i, state)
<1>1. q \in Seq(Entries) /\ \A x \in Sessions : Unique(u.queue[x])
  BY DEF UiType, Host
<1>2. /\ DOMAIN p = DOMAIN q /\ IdsIn(p) = IdsIn(q)
      /\ \A k \in DOMAIN q : /\ p[k].id = q[k].id
                             /\ p[k].state = IF q[k].id = i THEN state ELSE q[k].state
  BY <1>1, MarkFacts
<1> HIDE DEF p
<1>3. Unique(p)
  <2>1. Unique(q)
    BY <1>1
  <2> HIDE DEF q
  <2>2. QED
    BY <1>2, <2>1 DEF Unique
<1>4. v.queue[s] = p
  BY DEF p
<1>5. \A x \in Sessions : Unique(v.queue[x])
  BY <1>1, <1>3, <1>4
<1>6. UiType(v)
  BY <1>5 DEF UiType
<1>7. QED
  BY <1>2, <1>4, <1>6 DEF Marked

(* A step that changes only the host, and none of its messages.            *)
HostMoves ==
  /\ UiOK(ui', home, settled, accepted, running) /\ ui'.run = ui.run
  /\ \A x \in Sessions : IdsIn(ui'.queue[x]) = IdsIn(ui.queue[x])
  /\ ~connected => ui'.flights = {}

(* Such a step keeps the invariant.                                        *)
LEMMA MovesKeep ==
  ASSUME IInv, HostMoves, Saved, idleCheck' \in SUBSET Sessions,
         UNCHANGED <<sessionKey, connected, accepted, running, home, settled, faults>>
  PROVE  IInv'
<1>1. Plain
  BY Facts
<1>2. Plain'
  BY <1>1 DEF Plain
<1>3. UiOK(ui, home, settled, accepted, running)'
  BY DEF HostMoves
<1>4. SnapsBackOnlyToOvertaken' /\ (~connected' => ui'.flights = {})
  BY DEF IInv, HostMoves, SnapsBackOnlyToOvertaken
<1>5. settled.acked \subseteq Submitted
  BY DEF IInv
<1>6. QED
  BY <1>2, <1>3, <1>4, <1>5, Ordinary DEF HostMoves, Submitted

(* A message that failed is sent, or waits for the connection.             *)
LEMMA RetryKeeps ==
  ASSUME IInv, NEW i \in Items, Retry(i)
  PROVE  IInv'
<1> DEFINE s == sessionKey
           q == ui.queue[s]
           p == Mark(q, i, "waiting")
<1>1. /\ Plain /\ UiType(ui) /\ UiOK(ui, home, settled, accepted, running)
      /\ q \in Seq(Entries) /\ s \in Sessions
  BY Facts DEF Plain
<1>2. /\ Saved
      /\ UNCHANGED <<sessionKey, connected, idleCheck, gatewayVars, home, settled, faults>>
  BY DEF Retry
<1>3. PICK k \in DOMAIN q : q[k].id = i /\ q[k].state = "failed"
  BY <1>1 DEF Retry, ToSet
<1>4. ASSUME connected PROVE HostMoves
  <2>1. ui' = Send(ui, q[k].id, s, "retry", <<>>)
    BY <1>3, <1>4 DEF Retry
  <2>2. Before(q, k, "retry") /\ "retry" \in Origins /\ <<>> \in Seq(Sessions)
    BY DEF Before, Origins
  <2>3. Sends(ui, ui')
    BY <1>1, <1>3, <2>1, <2>2 DEF Sends
  <2>4. /\ UiOK(ui', home, settled, accepted, running) /\ ui'.run = ui.run
        /\ \A x \in Sessions : IdsIn(ui'.queue[x]) = IdsIn(ui.queue[x])
    BY <1>1, <2>3, SendsKeep DEF Plain
  <2>5. QED
    BY <1>2, <1>4, <2>4 DEF HostMoves
<1>5. ASSUME ~connected PROVE HostMoves
  <2>1. ui' = [ui EXCEPT !.queue[s] = p] /\ ui.flights = {}
    BY <1>5 DEF Retry, IInv
  <2>2. ui \in [queue : [Sessions -> Seq(Entries)], flights : SUBSET Flights,
                attempts : [Items -> Nat], sending : BOOLEAN, run : Runs \cup {NoRun}]
    BY <1>1 DEF UiType, Host
  <2>3. p \in Seq(Entries)
    BY <1>1, MarkFacts DEF States
  <2> HIDE DEF p
  <2>4. [ui.queue EXCEPT ![s] = p] \in [Sessions -> Seq(Entries)]
    BY <2>2, <2>3
  <2>5. /\ ui'.queue = [ui.queue EXCEPT ![s] = p] /\ ui'.flights = {}
        /\ ui'.attempts = ui.attempts /\ ui'.run = ui.run /\ ui' \in Host
    BY <2>1, <2>2, <2>4 DEF Host
  <2>6. ui'.queue[s] = p /\ \A x \in Sessions : x # s => ui'.queue[x] = ui.queue[x]
    BY <1>1, <2>2, <2>5
  <2>7. UiType(ui') /\ Marked(ui, ui', s, i, "waiting")
    BY <1>1, <2>5, <2>6, MarkedFields DEF p, States
  <2>8. Marks(ui, ui', settled)
    BY <2>1, <2>5, <2>7 DEF Marks, Marked
  <2>9. UiOK(ui', home, settled, accepted, running)
    BY <1>1, <2>7, <2>8, MarkedKeeps
  <2>10. QED
    BY <1>2, <2>5, <2>7, <2>9 DEF HostMoves, Marked
<1>6. QED
  BY <1>1, <1>2, <1>4, <1>5, MovesKeep DEF gatewayVars, Plain

(* A message leaves one queue.                                             *)
Dropped(u, v, s, i) ==
  \A x \in Sessions :
    /\ Within(v.queue[x], u.queue[x])
    /\ IdsIn(v.queue[x]) = IF x = s THEN IdsIn(u.queue[x]) \ {i} ELSE IdsIn(u.queue[x])

(* What Without does to the host.                                          *)
LEMMA DroppedFields ==
  ASSUME NEW u, UiType(u), NEW s \in Sessions, NEW i,
         NEW v \in Host, v.queue[s] = Without(u.queue[s], i),
         \A x \in Sessions : x # s => v.queue[x] = u.queue[x]
  PROVE  UiType(v) /\ Dropped(u, v, s, i)
<1> DEFINE q == u.queue[s]
           p == Without(q, i)
<1>1. \A x \in Sessions : u.queue[x] \in Seq(Entries) /\ Unique(u.queue[x])
  BY DEF UiType, Host
<1>2. p \in Seq(Entries) /\ Within(p, q) /\ IdsIn(p) = IdsIn(q) \ {i}
  BY <1>1, WithoutFacts
<1>3. Unique(p)
  <2>1. q \in Seq(Entries) /\ Unique(q)
    BY <1>1
  <2> HIDE DEF p, q
  <2>2. QED
    BY <1>2, <2>1, WithinUnique
<1>4. v.queue[s] = p
  OBVIOUS
<1> HIDE DEF p
<1>5. \A x \in Sessions : Unique(v.queue[x])
  BY <1>1, <1>3, <1>4
<1>6. \A x \in Sessions : Within(v.queue[x], u.queue[x])
  BY <1>1, <1>2, <1>4, WithinItself
<1>7. QED
  BY <1>2, <1>4, <1>5, <1>6 DEF UiType, Dropped

(* A message the user removes is accounted for as removed.                 *)
LEMMA DiscardKeeps ==
  ASSUME IInv, NEW i \in Items, Discard(i)
  PROVE  IInv'
<1> DEFINE s == sessionKey
           q == ui.queue[s]
           p == Without(q, i)
<1>1. /\ Plain /\ UiType(ui) /\ UiOK(ui, home, settled, accepted, running)
      /\ q \in Seq(Entries) /\ s \in Sessions /\ settled \in [Fates -> SUBSET Items]
  BY Facts DEF Plain
<1>2. /\ Saved /\ ui' = [ui EXCEPT !.queue[s] = p]
      /\ settled' = [settled EXCEPT !.removed = @ \cup {i}]
      /\ UNCHANGED <<sessionKey, connected, idleCheck, accepted, running, home, faults>>
  BY DEF Discard, gatewayVars
<1>3. ui \in [queue : [Sessions -> Seq(Entries)], flights : SUBSET Flights,
              attempts : [Items -> Nat], sending : BOOLEAN, run : Runs \cup {NoRun}]
  BY <1>1 DEF UiType, Host
<1>4. p \in Seq(Entries)
  BY <1>1, WithoutFacts
<1> HIDE DEF p
<1>5. [ui.queue EXCEPT ![s] = p] \in [Sessions -> Seq(Entries)]
  BY <1>3, <1>4
<1>6. /\ ui'.queue = [ui.queue EXCEPT ![s] = p] /\ ui'.flights = ui.flights
      /\ ui'.attempts = ui.attempts /\ ui'.run = ui.run /\ ui' \in Host
  BY <1>2, <1>3, <1>5 DEF Host
<1>7. ui'.queue[s] = p /\ \A x \in Sessions : x # s => ui'.queue[x] = ui.queue[x]
  BY <1>1, <1>3, <1>6
<1>8. UiType(ui') /\ Dropped(ui, ui', s, i)
  BY <1>1, <1>6, <1>7, DroppedFields DEF p
<1>9. /\ settled' \in [Fates -> SUBSET Items]
      /\ settled'.removed = settled.removed \cup {i}
      /\ settled'.restored = settled.restored /\ settled'.acked = settled.acked
      /\ settled'.overtaken = settled.overtaken /\ settled'.left = settled.left
      /\ settled'.dropped = settled.dropped
  BY <1>1, <1>2 DEF Fates
<1>10. Shrinks(ui, ui', settled, settled')
  BY <1>6, <1>8, <1>9 DEF Shrinks, Dropped
<1>11. UiOK(ui, home, settled, accepted, running)'
  BY <1>1, <1>2, <1>8, <1>10, ShrinkKeeps
<1>12. Plain'
  BY <1>1, <1>2, <1>9 DEF Plain
<1>13. SnapsBackOnlyToOvertaken' /\ (~connected' => ui'.flights = {})
  BY <1>2, <1>6, <1>9 DEF IInv, SnapsBackOnlyToOvertaken
<1>14. Exempt(settled) \subseteq Exempt(settled') /\ i \in Exempt(settled')
  BY <1>9 DEF Exempt
<1>15. \A x \in Sessions : \A j \in IdsIn(ui.queue[x]) :
         j \in Exempt(settled') \/ j \in IdsIn(ui'.queue[x])
  BY <1>8, <1>14 DEF Dropped
<1>16. settled'.acked \subseteq Submitted
  BY <1>9 DEF IInv
<1>17. QED
  BY <1>2, <1>9, <1>11, <1>12, <1>13, <1>14, <1>15, <1>16, Ordinary DEF Submitted

(* A refresh flushes the queue at most.                                    *)
LEMMA IdleCheckKeeps ==
  ASSUME IInv, IdleCheck
  PROVE  IInv'
<1>1. Plain /\ UiType(ui) /\ UiOK(ui, home, settled, accepted, running)
  BY Facts
<1>2. /\ connected /\ idleCheck' = {} /\ Saved
      /\ UNCHANGED <<sessionKey, connected, accepted, running, home, settled, faults>>
      /\ ui' = Flush(ui) \/ ui' = ui
  BY DEF IdleCheck, gatewayVars
<1>3. Sends(ui, ui')
  BY <1>1, <1>2, FlushSends DEF Sends, Plain
<1>4. HostMoves
  BY <1>1, <1>2, <1>3, SendsKeep DEF HostMoves, Plain
<1>5. QED
  BY <1>2, <1>4, MovesKeep

(* Nothing happens to the queues.                                          *)
LEMMA SavedAnyway ==
  ASSUME IInv, UNCHANGED <<sessionKey, stored>>, ui'.queue = ui.queue
  PROVE  Saved
<1>1. stored[sessionKey] = Serialize(ui.queue[sessionKey])
  BY DEF IInv, StoredOK
<1>2. stored \in [Sessions -> Seq({e \in Entries : e.state # "sending"})]
  BY Facts DEF StoredType
<1>3. stored = [stored EXCEPT ![sessionKey] = stored[sessionKey]]
  BY <1>2
<1>4. QED
  BY <1>1, <1>3 DEF Saved

(* The gateway starts the run of a send: it has the number of one.         *)
LEMMA AcceptKeeps ==
  ASSUME IInv, NEW f \in ui.flights, Accept(f)
  PROVE  IInv'
<1> DEFINE r == <<f.id, f.att>>
<1>1. /\ Plain /\ UiOK(ui, home, settled, accepted, running)
      /\ f \in Flights /\ f.id \in Items /\ f.att \in Nat \ {0}
  BY Facts DEF Flights
<1>2. /\ connected /\ accepted' = accepted \cup {r} /\ running' = running \cup {r}
      /\ UNCHANGED <<sessionKey, connected, ui, stored, idleCheck, home, settled, faults>>
  BY DEF Accept
<1>3. r \in Runs /\ r[1] = f.id /\ r[2] = f.att
  BY <1>1 DEF Runs
<1>4. Numbered(ui, settled, accepted, running)
  BY <1>1 DEF UiOK
<1>5. Numbered(ui, settled, accepted', running')
  <2>1. f.att <= ui.attempts[f.id]
    BY <1>4 DEF Numbered
  <2> HIDE DEF r
  <2>2. QED
    BY <1>2, <1>3, <1>4, <2>1 DEF Numbered
<1>6. UiOK(ui, home, settled, accepted, running)'
  BY <1>1, <1>2, <1>5 DEF UiOK
<1>7. Plain'
  BY <1>1, <1>2, <1>3 DEF Plain
<1>8. SnapsBackOnlyToOvertaken' /\ (~connected' => ui'.flights = {})
  BY <1>2 DEF IInv, SnapsBackOnlyToOvertaken
<1>9. Saved
  BY <1>2, SavedAnyway
<1>10. settled'.acked \subseteq Submitted
  BY <1>2 DEF IInv
<1>11. QED
  BY <1>2, <1>6, <1>7, <1>8, <1>9, <1>10, Ordinary DEF Submitted

(* What the acknowledgement of a send leaves, before the next is sent.     *)
LEMMA AckedKeeps ==
  ASSUME IInv, NEW f \in ui.flights, Acked(f)
  PROVE  IInv'
<1> DEFINE s == f.session
           i == f.id
           r == <<f.id, f.att>>
           q == ui.queue[s]
           p == Without(q, i)
           run == IF sessionKey = s THEN r ELSE ui.run
           v == [Land(ui, f) EXCEPT !.queue[s] = p, !.run = run]
<1>1. /\ Plain /\ UiType(ui) /\ UiOK(ui, home, settled, accepted, running)
      /\ s \in Sessions /\ q \in Seq(Entries) /\ settled \in [Fates -> SUBSET Items]
      /\ f \in Flights /\ f.id \in Items /\ f.att \in Nat \ {0}
      /\ i \in Submitted /\ home[i] = s /\ ui.run \in Runs \cup {NoRun}
  BY Facts DEF Flights, Plain
<1>2. /\ connected /\ r \in accepted /\ Saved
      /\ settled' = [settled EXCEPT !.acked = @ \cup {i},
                                    !.elsewhere = IF s = sessionKey THEN @ ELSE @ \cup {i}]
      /\ UNCHANGED <<sessionKey, connected, idleCheck, accepted, running, home, faults>>
  BY DEF Acked, gatewayVars
<1>3. ui' = Continue(v, f, TRUE)
  BY DEF Acked, Land
<1>4. run \in Runs \cup {NoRun}
  BY <1>1 DEF Runs
<1>5. ui \in [queue : [Sessions -> Seq(Entries)], flights : SUBSET Flights,
              attempts : [Items -> Nat], sending : BOOLEAN, run : Runs \cup {NoRun}]
  BY <1>1 DEF UiType, Host
<1>6. p \in Seq(Entries)
  BY <1>1, WithoutFacts
<1> HIDE DEF p, run
<1>7. [ui.queue EXCEPT ![s] = p] \in [Sessions -> Seq(Entries)]
  BY <1>5, <1>6
<1>8. /\ v.queue = [ui.queue EXCEPT ![s] = p] /\ v.flights = ui.flights \ {f}
      /\ v.attempts = ui.attempts /\ v.run = run /\ v \in Host
  BY <1>4, <1>5, <1>7 DEF Host, Land
<1> HIDE DEF v
<1>9. v.queue[s] = p /\ \A x \in Sessions : x # s => v.queue[x] = ui.queue[x]
  BY <1>1, <1>5, <1>8
<1>10. UiType(v) /\ Dropped(ui, v, s, i)
  BY <1>1, <1>8, <1>9, DroppedFields DEF p
<1>11. /\ settled' \in [Fates -> SUBSET Items]
       /\ settled'.acked = settled.acked \cup {i}
       /\ settled'.restored = settled.restored /\ settled'.removed = settled.removed
       /\ settled'.overtaken = settled.overtaken /\ settled'.left = settled.left
       /\ settled'.dropped = settled.dropped
  BY <1>1, <1>2 DEF Fates
<1>12. Shrinks(ui, v, settled, settled')
  <2>1. i \notin settled.restored => \A g \in v.flights : g.id # i
    BY <1>1, <1>8 DEF UiOK, Once
  <2>2. \A x \in Sessions : i \notin IdsIn(v.queue[x])
    <3>1. i \notin IdsIn(v.queue[s])
      BY <1>1, <1>10 DEF Dropped
    <3>2. \A x \in Sessions : AtHome(ui.queue[x], x, home)
      BY <1>1 DEF UiOK, Homes
    <3>3. ASSUME NEW x \in Sessions, x # s PROVE i \notin IdsIn(v.queue[x])
      BY <1>1, <1>9, <3>2, <3>3 DEF AtHome, IdsIn
    <3>4. QED
      BY <3>1, <3>3
  <2>3. \A x \in Sessions : \A k \in DOMAIN v.queue[x] : v.queue[x][k].id # i
    BY <2>2 DEF IdsIn
  <2>4. QED
    BY <1>8, <1>10, <1>11, <2>1, <2>2, <2>3 DEF Shrinks, Dropped
<1>13. UiOK(v, home, settled', accepted, running)
  BY <1>1, <1>10, <1>12, ShrinkKeeps
<1>14. Sends(v, ui')
  BY <1>1, <1>3, <1>10, ContinueSends DEF Plain
<1>15. /\ UiOK(ui', home, settled', accepted, running) /\ ui'.run = run
       /\ \A x \in Sessions : IdsIn(ui'.queue[x]) = IdsIn(v.queue[x])
  BY <1>1, <1>8, <1>13, <1>14, SendsKeep DEF Plain
<1>16. UiOK(ui, home, settled, accepted, running)'
  BY <1>2, <1>15
<1>17. Plain'
  BY <1>1, <1>2, <1>11 DEF Plain
<1>18. SnapsBackOnlyToOvertaken'
  <2>1. CASE sessionKey = s
    <3>1. r \in running \/ i \in settled.overtaken
      BY <1>1, <1>2 DEF UiOK, Numbered
    <3>2. ui'.run = r /\ r[1] = i
      BY <1>15, <2>1 DEF run
    <3>3. QED
      BY <1>2, <1>11, <3>1, <3>2 DEF SnapsBackOnlyToOvertaken
  <2>2. CASE sessionKey # s
    <3>1. ui'.run = ui.run
      BY <1>15, <2>2 DEF run
    <3>2. QED
      BY <1>2, <1>11, <3>1 DEF IInv, SnapsBackOnlyToOvertaken
  <2>3. QED
    BY <2>1, <2>2
<1>19. Exempt(settled) \subseteq Exempt(settled') /\ i \in Exempt(settled')
  BY <1>11 DEF Exempt
<1>20. \A x \in Sessions : \A j \in IdsIn(ui.queue[x]) :
         j \in Exempt(settled') \/ j \in IdsIn(ui'.queue[x])
  BY <1>10, <1>15, <1>19 DEF Dropped
<1>21. settled'.acked \subseteq Submitted
  BY <1>1, <1>11 DEF IInv
<1>22. QED
  BY <1>2, <1>11, <1>16, <1>17, <1>18, <1>19, <1>20, <1>21, Ordinary DEF Submitted

(* A refused message is marked as failed, and nobody has it any more.      *)
LEMMA RefusedKeeps ==
  ASSUME IInv, NEW f \in ui.flights, Refused(f)
  PROVE  IInv'
<1> DEFINE s == f.session
           i == f.id
           q == ui.queue[s]
           p == Mark(q, i, "failed")
           v == [Land(ui, f) EXCEPT !.queue[s] = p]
<1>1. /\ Plain /\ UiType(ui) /\ UiOK(ui, home, settled, accepted, running)
      /\ s \in Sessions /\ q \in Seq(Entries) /\ settled \in [Fates -> SUBSET Items]
      /\ f \in Flights /\ f.id \in Items
  BY Facts DEF Plain
<1>2. /\ connected /\ Fault /\ Saved
      /\ settled' = [settled EXCEPT !.refused = @ \cup {i}]
      /\ UNCHANGED <<sessionKey, connected, idleCheck, accepted, running, home>>
  BY DEF Refused, gatewayVars
<1>3. ui' = Continue(v, f, FALSE)
  BY DEF Refused, Land
<1>4. ui \in [queue : [Sessions -> Seq(Entries)], flights : SUBSET Flights,
              attempts : [Items -> Nat], sending : BOOLEAN, run : Runs \cup {NoRun}]
  BY <1>1 DEF UiType, Host
<1>5. p \in Seq(Entries)
  BY <1>1, MarkFacts DEF States
<1> HIDE DEF p
<1>6. [ui.queue EXCEPT ![s] = p] \in [Sessions -> Seq(Entries)]
  BY <1>4, <1>5
<1>7. /\ v.queue = [ui.queue EXCEPT ![s] = p] /\ v.flights = ui.flights \ {f}
      /\ v.attempts = ui.attempts /\ v.run = ui.run /\ v \in Host
  BY <1>4, <1>6 DEF Host, Land
<1> HIDE DEF v
<1>8. v.queue[s] = p /\ \A x \in Sessions : x # s => v.queue[x] = ui.queue[x]
  BY <1>1, <1>4, <1>7
<1>9. UiType(v) /\ Marked(ui, v, s, i, "failed")
  BY <1>1, <1>7, <1>8, MarkedFields DEF p, States
<1>10. /\ settled' \in [Fates -> SUBSET Items]
       /\ settled'.acked = settled.acked
       /\ settled'.restored = settled.restored /\ settled'.removed = settled.removed
       /\ settled'.overtaken = settled.overtaken /\ settled'.left = settled.left
       /\ settled'.dropped = settled.dropped
  BY <1>1, <1>2 DEF Fates
<1>11. i \in settled.restored \/ \A g \in v.flights : g.id # i
  BY <1>1, <1>7 DEF UiOK, Once
<1>12. Marks(ui, v, settled)
  BY <1>7, <1>9, <1>11 DEF Marks, Marked
<1>13. UiOK(v, home, settled, accepted, running)
  BY <1>1, <1>9, <1>12, MarkedKeeps
<1>14. UiOK(v, home, settled', accepted, running)
  BY <1>10, <1>13, FatesKeep
<1>15. Sends(v, ui')
  BY <1>1, <1>3, <1>9, ContinueSends DEF Plain
<1>16. /\ UiOK(ui', home, settled', accepted, running) /\ ui'.run = ui.run
       /\ \A x \in Sessions : IdsIn(ui'.queue[x]) = IdsIn(v.queue[x])
  BY <1>1, <1>7, <1>14, <1>15, SendsKeep DEF Plain
<1>17. UiOK(ui, home, settled, accepted, running)'
  BY <1>2, <1>16
<1>18. Plain'
  BY <1>1, <1>2, <1>10, QueueAssumption DEF Plain, Fault
<1>19. SnapsBackOnlyToOvertaken'
  BY <1>2, <1>10, <1>16 DEF IInv, SnapsBackOnlyToOvertaken
<1>20. Exempt(settled) \subseteq Exempt(settled') /\ settled'.acked \subseteq Submitted
  BY <1>10 DEF Exempt, IInv
<1>21. \A x \in Sessions : IdsIn(ui'.queue[x]) = IdsIn(ui.queue[x])
  BY <1>9, <1>16 DEF Marked
<1>22. QED
  BY <1>2, <1>10, <1>17, <1>18, <1>19, <1>20, <1>21, Ordinary DEF Submitted

(* A run that is adopted goes on.                                          *)
LEMMA RunEventKeeps ==
  ASSUME IInv, NEW r \in running, RunEvent(r)
  PROVE  IInv'
<1>1. Plain /\ UiOK(ui, home, settled, accepted, running) /\ r \in Runs
  BY Facts DEF Plain
<1>2. /\ connected /\ ui' = [ui EXCEPT !.run = r]
      /\ UNCHANGED <<sessionKey, connected, stored, idleCheck, accepted, running, home,
                     settled, faults>>
  BY DEF RunEvent, gatewayVars
<1>3. /\ UiOK(ui', home, settled, accepted, running)
      /\ ui'.run = r /\ ui'.queue = ui.queue /\ ui'.flights = ui.flights
  BY <1>1, <1>2, RunKeeps
<1>4. UiOK(ui, home, settled, accepted, running)'
  BY <1>2, <1>3
<1>5. Plain'
  BY <1>1, <1>2 DEF Plain
<1>6. SnapsBackOnlyToOvertaken' /\ (~connected' => ui'.flights = {})
  BY <1>2, <1>3 DEF SnapsBackOnlyToOvertaken
<1>7. Saved
  BY <1>2, <1>3, SavedAnyway
<1>8. settled'.acked \subseteq Submitted
  BY <1>2 DEF IInv
<1>9. QED
  BY <1>2, <1>3, <1>4, <1>5, <1>6, <1>7, <1>8, Ordinary DEF Submitted

(* A step of a connection that takes no message from a queue.              *)
LEMMA EndKeeps ==
  ASSUME IInv, Saved, connected' \in BOOLEAN, ~connected' => ui'.flights = {},
         UNCHANGED <<sessionKey, accepted, home>>,
         idleCheck' \in SUBSET Sessions,
         running' \in SUBSET accepted, faults' \in 0 .. MaxFaults,
         settled' \in [Fates -> SUBSET Items], settled'.acked = settled.acked,
         settled'.restored = settled.restored, settled'.removed = settled.removed,
         settled'.left = settled.left, settled'.dropped = settled.dropped,
         UiOK(ui', home, settled', accepted, running'),
         ~connected' \/ ui'.run = NoRun \/ ui'.run \in running'
                     \/ ui'.run[1] \in settled'.overtaken,
         \A x \in Sessions : IdsIn(ui'.queue[x]) = IdsIn(ui.queue[x])
  PROVE  IInv'
<1>1. Plain
  BY Facts
<1>2. Plain'
  BY <1>1 DEF Plain
<1>3. UiOK(ui, home, settled, accepted, running)'
  OBVIOUS
<1>4. SnapsBackOnlyToOvertaken'
  BY DEF SnapsBackOnlyToOvertaken
<1>5. Exempt(settled) \subseteq Exempt(settled') /\ settled'.acked \subseteq Submitted
  BY DEF Exempt, IInv
<1>6. QED
  BY <1>2, <1>3, <1>4, <1>5, Ordinary DEF Submitted

(* The end of a run: who still waits for its acknowledgement is overtaken. *)
LEMMA RunEndsKeeps ==
  ASSUME IInv, NEW r \in running, RunEnds(r)
  PROVE  IInv'
<1> DEFINE u == [ui EXCEPT !.run = NoRun]
<1>1. /\ Plain /\ UiOK(ui, home, settled, accepted, running) /\ r \in Runs
      /\ settled \in [Fates -> SUBSET Items]
  BY Facts DEF Plain
<1>2. /\ connected /\ Saved /\ running' = running \ {r}
      /\ IF \E f \in ui.flights : <<f.id, f.att>> = r
         THEN Fault /\ settled' = [settled EXCEPT !.overtaken = @ \cup {r[1]}]
         ELSE UNCHANGED <<settled, faults>>
      /\ UNCHANGED <<sessionKey, connected, idleCheck, accepted, home>>
  BY DEF RunEnds
<1>3. IF ui.run = r \/ Adopts(r) THEN ui' = Flush(u) ELSE ui' = ui
  BY DEF RunEnds, AfterRun
<1>4. r[1] \in Items
  BY <1>1 DEF Runs
<1>5. /\ settled' \in [Fates -> SUBSET Items]
      /\ settled'.acked = settled.acked
      /\ settled'.restored = settled.restored /\ settled'.removed = settled.removed
      /\ settled'.left = settled.left /\ settled'.dropped = settled.dropped
      /\ settled.overtaken \subseteq settled'.overtaken
      /\ (\E f \in ui.flights : <<f.id, f.att>> = r) => r[1] \in settled'.overtaken
      /\ faults' \in 0 .. MaxFaults
  BY <1>1, <1>2, <1>4, QueueAssumption DEF Fates, Fault, Plain
<1>6. Numbered(ui, settled', accepted, running')
  <2>1. Numbered(ui, settled, accepted, running)
    BY <1>1 DEF UiOK
  <2>2. ASSUME NEW f \in ui.flights, <<f.id, f.att>> \in accepted
        PROVE  <<f.id, f.att>> \in running' \/ f.id \in settled'.overtaken
    <3>1. CASE <<f.id, f.att>> = r
      <4>1. r[1] = f.id
        BY <3>1
      <4>2. QED
        BY <1>5, <3>1, <4>1
    <3>2. CASE <<f.id, f.att>> # r
      BY <1>2, <1>5, <2>1, <2>2, <3>2 DEF Numbered
    <3>3. QED
      BY <3>1, <3>2
  <2>3. QED
    BY <2>1, <2>2 DEF Numbered
<1>7. UiOK(ui, home, settled', accepted, running')
  <2>1. Once(ui, settled')
    BY <1>1, <1>5 DEF UiOK, Once
  <2>2. QED
    BY <1>1, <1>6, <2>1 DEF UiOK
<1>8. /\ UiOK(u, home, settled', accepted, running')
      /\ u.run = NoRun /\ u.queue = ui.queue /\ UiType(u)
  <2> HIDE DEF u
  <2>1. u = [ui EXCEPT !.run = NoRun]
    BY DEF u
  <2>2. QED
    BY <1>7, <2>1, RunKeeps DEF UiOK
<1> HIDE DEF u
<1>0. /\ connected' = TRUE /\ idleCheck' \in SUBSET Sessions
      /\ running' \in SUBSET accepted
  BY <1>1, <1>2 DEF Plain
<1>9. CASE ui' = Flush(u)
  <2>1. Sends(u, ui')
    BY <1>1, <1>8, <1>9, FlushSends DEF Plain
  <2>2. /\ UiOK(ui', home, settled', accepted, running') /\ ui'.run = NoRun
        /\ \A x \in Sessions : IdsIn(ui'.queue[x]) = IdsIn(ui.queue[x])
    BY <1>1, <1>8, <2>1, SendsKeep DEF Plain
  <2>3. QED
    BY <1>0, <1>2, <1>5, <2>2, EndKeeps
<1>10. CASE ui' = ui /\ ui.run # r
  <2>1. UiOK(ui', home, settled', accepted, running')
    BY <1>7, <1>10
  <2>2. ui'.run = NoRun \/ ui'.run \in running' \/ ui'.run[1] \in settled'.overtaken
    BY <1>2, <1>5, <1>10 DEF IInv, SnapsBackOnlyToOvertaken
  <2>3. QED
    BY <1>0, <1>2, <1>5, <1>10, <2>1, <2>2, EndKeeps
<1>11. QED
  BY <1>3, <1>9, <1>10

(* Every send is rejected, and nothing is in flight.                       *)
LEMMA RejectedFields ==
  ASSUME IInv, NEW state \in {"waiting", "failed"}, ui' = FlightsRejected(state)
  PROVE  /\ UiOK(ui', home, settled, accepted, {}) /\ ui'.flights = {}
         /\ \A x \in Sessions : IdsIn(ui'.queue[x]) = IdsIn(ui.queue[x])
<1> DEFINE sent(s, e) == \E f \in ui.flights : f.id = e.id /\ f.session = s
           new(s, k) == IF sent(s, ui.queue[s][k]) THEN [ui.queue[s][k] EXCEPT !.state = state]
                        ELSE ui.queue[s][k]
           Q == [s \in Sessions |-> [k \in DOMAIN ui.queue[s] |-> new(s, k)]]
<1>1. UiType(ui) /\ UiOK(ui, home, settled, accepted, running)
  BY Facts
<1>2. /\ ui \in [queue : [Sessions -> Seq(Entries)], flights : SUBSET Flights,
                 attempts : [Items -> Nat], sending : BOOLEAN, run : Runs \cup {NoRun}]
      /\ \A s \in Sessions : Unique(ui.queue[s])
  BY <1>1 DEF UiType, Host
<1>3. ui' = [ui EXCEPT !.flights = {}, !.sending = FALSE, !.queue = Q]
  BY DEF FlightsRejected
<1>4. ASSUME NEW s \in Sessions, NEW k \in DOMAIN ui.queue[s]
      PROVE  /\ new(s, k) \in Entries /\ new(s, k).id = ui.queue[s][k].id
             /\ sent(s, ui.queue[s][k]) => new(s, k).state = state
             /\ ~sent(s, ui.queue[s][k]) => new(s, k).state = ui.queue[s][k].state
  <2>1. ui.queue[s][k] \in Entries
    BY <1>2
  <2> HIDE DEF sent
  <2>2. QED
    BY <2>1 DEF Entries, States
<1> HIDE DEF new
<1>5. ASSUME NEW s \in Sessions
      PROVE  /\ Q[s] \in Seq(Entries) /\ DOMAIN Q[s] = DOMAIN ui.queue[s]
             /\ \A k \in DOMAIN ui.queue[s] : Q[s][k] = new(s, k)
  <2>1. DOMAIN ui.queue[s] = 1 .. Len(ui.queue[s]) /\ Len(ui.queue[s]) \in Nat
    BY <1>2
  <2>2. Q[s] = [k \in 1 .. Len(ui.queue[s]) |-> new(s, k)]
    BY <2>1
  <2>3. \A k \in 1 .. Len(ui.queue[s]) : new(s, k) \in Entries
    BY <1>4, <2>1
  <2> HIDE DEF Q
  <2>4. QED
    BY <2>1, <2>2, <2>3, IsASeq
<1>6. Q \in [Sessions -> Seq(Entries)]
  BY <1>5
<1> HIDE DEF Q
<1>7. /\ ui'.queue = Q /\ ui'.flights = {} /\ ui'.attempts = ui.attempts
      /\ ui' \in Host
  BY <1>2, <1>3, <1>6 DEF Host
<1>8. \A s \in Sessions : DOMAIN Q[s] = DOMAIN ui.queue[s]
        /\ \A k \in DOMAIN Q[s] :
             /\ Q[s][k].id = ui.queue[s][k].id
             /\ sent(s, ui.queue[s][k]) => Q[s][k].state = state
             /\ ~sent(s, ui.queue[s][k]) => Q[s][k].state = ui.queue[s][k].state
  BY <1>4, <1>5
<1>9. UiType(ui')
  <2>1. \A s \in Sessions : Unique(Q[s])
    BY <1>2, <1>8 DEF Unique
  <2>2. QED
    BY <1>7, <2>1 DEF UiType
<1>10. \A s \in Sessions : \A k \in DOMAIN Q[s] :
         Q[s][k].state = "sending" => ~sent(s, ui.queue[s][k])
  BY <1>8
<1>11. Marks(ui, ui', settled)
  <2>1. \A s \in Sessions : \A k \in DOMAIN Q[s] :
          Q[s][k].state = ui.queue[s][k].state \/ Q[s][k].state # "sending"
    BY <1>8
  <2>2. QED
    BY <1>7, <1>8, <1>10, <2>1 DEF Marks
<1>12. UiOK(ui', home, settled, accepted, running)
  BY <1>1, <1>9, <1>11, MarkedKeeps
<1>13. UiOK(ui', home, settled, accepted, {})
  BY <1>7, <1>12, FatesKeep
<1>14. \A x \in Sessions : IdsIn(ui'.queue[x]) = IdsIn(ui.queue[x])
  BY <1>7, <1>8 DEF IdsIn
<1>15. QED
  BY <1>7, <1>13, <1>14

(* Rejected sends are marked; a run that was shown ends unheard of.        *)
LEMMA DisconnectKeeps ==
  ASSUME IInv, Disconnect \/ ReplaceClient
  PROVE  IInv'
<1>1. Plain
  BY Facts
<1>2. /\ connected' = FALSE /\ Fault /\ RunsCancelled /\ Saved
      /\ UNCHANGED <<sessionKey, idleCheck, home, settled>>
  BY DEF Disconnect, ReplaceClient
<1>3. \E state \in {"waiting", "failed"} : ui' = FlightsRejected(state)
  BY DEF Disconnect, ReplaceClient
<1>4. /\ UiOK(ui', home, settled, accepted, {}) /\ ui'.flights = {}
      /\ \A x \in Sessions : IdsIn(ui'.queue[x]) = IdsIn(ui.queue[x])
  BY <1>3, RejectedFields
<1>5. /\ running' = {} /\ accepted' = accepted /\ idleCheck' \in SUBSET Sessions
      /\ settled' \in [Fates -> SUBSET Items] /\ faults' \in 0 .. MaxFaults
  BY <1>1, <1>2, QueueAssumption DEF Plain, RunsCancelled, Fault
<1>6. UiOK(ui', home, settled', accepted, running')
  BY <1>2, <1>4, <1>5
<1>7. QED
  BY <1>2, <1>4, <1>5, <1>6, EndKeeps

(* A sequence of the sessions there are.                                   *)
LEMMA SessionsSeq ==
  ASSUME NEW T \in SUBSET Sessions
  PROVE  SetToSeq(T) \in Seq(Sessions)
<1> DEFINE n == Cardinality(T)
           good(f) == f \in [1 .. n -> T] /\ IsInjective(f)
<1>1. IsFiniteSet(T)
  BY QueueAssumption, FS_Subset
<1>2. n \in Nat /\ ExistsBijection(1 .. n, T)
  BY <1>1, FS_CardinalityType
<1>3. \E f \in [1 .. n -> T] : IsInjective(f)
  BY <1>2 DEF ExistsBijection, Bijection, Injection
<1>4. SetToSeq(T) \in [1 .. n -> T]
  BY <1>3 DEF SetToSeq
<1> HIDE DEF n
<1>5. QED
  BY <1>2, <1>4

(* After a reconnect no run is shown, and at most one send begins.         *)
LEMMA HelloKeeps ==
  ASSUME IInv, Hello
  PROVE  IInv'
<1> DEFINE u == RunForgotten(ui)
           others == SetToSeq({s \in Sessions : s # sessionKey /\ u.queue[s] # <<>>})
           rest == <<sessionKey>> \o others
<1>1. /\ Plain /\ UiOK(ui, home, settled, accepted, running)
      /\ sessionKey \in Sessions /\ accepted \in SUBSET Runs
  BY Facts DEF Plain
<1>2. /\ connected' = TRUE /\ Saved
      /\ UNCHANGED <<sessionKey, accepted, running, home, settled, faults>>
      /\ idleCheck' \in {{sessionKey}, {}}
      /\ ui' = RetryLoop(u, rest) \/ ui' = u
  BY DEF Hello, gatewayVars
<1>3. rest \in Seq(Sessions)
  <2>1. others \in Seq(Sessions)
    BY SessionsSeq
  <2>2. <<sessionKey>> \in Seq(Sessions)
    BY <1>1
  <2> HIDE DEF others
  <2>3. QED
    BY <2>1, <2>2
<1>4. /\ UiOK(u, home, settled, accepted, running) /\ UiType(u)
      /\ u.run = NoRun /\ u.queue = ui.queue
  <2>1. u = [ui EXCEPT !.run = NoRun]
    BY DEF RunForgotten
  <2> HIDE DEF u
  <2>2. QED
    BY <1>1, <2>1, RunKeeps DEF UiOK
<1> HIDE DEF u, others, rest
<1>5. Sends(u, ui')
  <2>1. Sends(u, u)
    BY DEF Sends
  <2>2. Sends(u, RetryLoop(u, rest))
    BY <1>1, <1>3, <1>4, RetrySends
  <2>3. QED
    BY <1>2, <2>1, <2>2
<1>6. /\ UiOK(ui', home, settled, accepted, running) /\ ui'.run = NoRun
      /\ \A x \in Sessions : IdsIn(ui'.queue[x]) = IdsIn(ui.queue[x])
  BY <1>1, <1>4, <1>5, SendsKeep
<1>7. /\ idleCheck' \in SUBSET Sessions /\ running' \in SUBSET accepted
      /\ settled' \in [Fates -> SUBSET Items] /\ faults' \in 0 .. MaxFaults
  BY <1>1, <1>2 DEF Plain
<1>8. UiOK(ui', home, settled', accepted, running')
  BY <1>2, <1>6
<1>9. QED
  BY <1>2, <1>6, <1>7, <1>8, EndKeeps

(* The session that is opened has the queue of storage, if there is one.   *)
LEMMA SwitchKeeps ==
  ASSUME IInv, NEW s \in Sessions, SwitchSession(s)
  PROVE  IInv'
<1> DEFINE old == sessionKey
           back == stored[s]
           p == IF back # <<>> THEN back ELSE ui.queue[s]
           resent == {i \in IdsIn(back) : i \in settled.acked \/ InFlight(i)}
           missed == IdsIn(ui.queue[s]) \ IdsIn(back)
<1>1. /\ Plain /\ UiType(ui) /\ StoredType /\ StoredOK
      /\ UiOK(ui, home, settled, accepted, running)
      /\ settled \in [Fates -> SUBSET Items] /\ old \in Sessions
      /\ \A x \in Sessions : ui.queue[x] \in Seq(Entries) /\ Unique(ui.queue[x])
  BY Facts DEF Plain
<1>2. /\ s # old /\ sessionKey' = s /\ Saved
      /\ ui' = [ui EXCEPT !.queue[s] = p, !.run = NoRun]
      /\ idleCheck' \in {{s}, {}}
      /\ settled' =
           [settled EXCEPT
              !.left = {i \in @ : home[i] # s} \cup SendingIn(ui.queue[old]),
              !.restored = IF back = <<>> THEN @ ELSE @ \cup resent \cup missed]
      /\ UNCHANGED <<connected, accepted, running, home, faults>>
  BY DEF SwitchSession, gatewayVars
<1>3. /\ back \in Seq(Entries) /\ \A k \in DOMAIN back : back[k].state # "sending"
      /\ Unique(back) /\ AtHome(back, s, home)
  BY <1>1, StableSeq DEF StoredType, StoredOK
<1>4. \A x \in Sessions : AtHome(ui.queue[x], x, home)
  BY <1>1 DEF UiOK, Homes
<1>5. /\ p \in Seq(Entries) /\ Unique(p) /\ AtHome(p, s, home)
      /\ back = <<>> => p = ui.queue[s]
      /\ back # <<>> => p = back
  BY <1>1, <1>3, <1>4
<1>6. ui \in [queue : [Sessions -> Seq(Entries)], flights : SUBSET Flights,
              attempts : [Items -> Nat], sending : BOOLEAN, run : Runs \cup {NoRun}]
  BY <1>1 DEF UiType, Host
<1> HIDE DEF p
<1>7. [ui.queue EXCEPT ![s] = p] \in [Sessions -> Seq(Entries)]
  BY <1>5, <1>6
<1>8. /\ ui'.queue = [ui.queue EXCEPT ![s] = p] /\ ui'.flights = ui.flights
      /\ ui'.attempts = ui.attempts /\ ui'.run = NoRun /\ ui' \in Host
  BY <1>2, <1>6, <1>7 DEF Host
<1>9. ui'.queue[s] = p /\ \A x \in Sessions : x # s => ui'.queue[x] = ui.queue[x]
  BY <1>6, <1>8
<1>10. /\ \A q \in Seq(Entries) : IdsIn(q) \subseteq Items
       /\ \A q \in Seq(Entries) : SendingIn(q) \subseteq Items
  <2>1. \A q \in Seq(Entries) : \A k \in DOMAIN q : q[k] \in Entries
    OBVIOUS
  <2>2. \A e \in Entries : e.id \in Items
    BY DEF Entries
  <2>3. QED
    BY <2>1, <2>2 DEF IdsIn, SendingIn
<1>11. resent \cup missed \subseteq Items
  BY <1>1, <1>3, <1>10
<1> HIDE DEF resent, missed
<1>12. /\ settled' \in [Fates -> SUBSET Items]
       /\ settled'.acked = settled.acked /\ settled'.removed = settled.removed
       /\ settled'.overtaken = settled.overtaken /\ settled'.dropped = settled.dropped
       /\ settled'.left = {i \in settled.left : home[i] # s} \cup SendingIn(ui.queue[old])
       /\ settled'.restored = IF back = <<>> THEN settled.restored
                              ELSE settled.restored \cup resent \cup missed
  <2>1. SendingIn(ui.queue[old]) \subseteq Items
    BY <1>1, <1>10
  <2>2. QED
    BY <1>1, <1>2, <1>11, <2>1 DEF Fates
<1>13. settled.restored \subseteq settled'.restored
  BY <1>12
<1>14. UiOK(ui', home, settled', accepted, running)
  <2>1. UiType(ui')
    BY <1>1, <1>5, <1>8, <1>9 DEF UiType
  <2>2. Homes(ui', home)
    BY <1>1, <1>5, <1>8, <1>9 DEF UiOK, Homes
  <2>3. SendingOK(ui')
    <3>1. SendingOK(ui)
      BY <1>1 DEF UiOK
    <3>2. CASE back = <<>>
      <4>1. \A x \in Sessions : ui'.queue[x] = ui.queue[x]
        BY <1>5, <1>9, <3>2
      <4>2. QED
        BY <1>8, <3>1, <4>1 DEF SendingOK
    <3>3. CASE back # <<>>
      <4>1. \A k \in DOMAIN ui'.queue[s] : ui'.queue[s][k].state # "sending"
        BY <1>3, <1>5, <1>9, <3>3
      <4>2. QED
        BY <1>8, <1>9, <3>1, <4>1 DEF SendingOK
    <3>4. QED
      BY <3>2, <3>3
  <2>4. Once(ui', settled')
    <3>1. Once(ui, settled)
      BY <1>1 DEF UiOK
    <3>2. CASE back = <<>>
      <4>1. \A x \in Sessions : ui'.queue[x] = ui.queue[x]
        BY <1>5, <1>9, <3>2
      <4>2. QED
        BY <1>8, <1>12, <3>1, <3>2, <4>1 DEF Once
    <3>3. CASE back # <<>>
      <4> SUFFICES ASSUME NEW i \in Items \ settled'.restored, NEW x \in Sessions,
                          NEW k \in DOMAIN ui'.queue[x], ui'.queue[x][k].id = i
                   PROVE  /\ i \notin settled'.acked
                          /\ ui'.queue[x][k].state # "sending"
                               => \A f \in ui'.flights : f.id # i
        BY <1>8, <1>12, <1>13, <3>1 DEF Once
      <4>1. CASE x = s
        <5>1. i \in IdsIn(back)
          BY <1>5, <1>9, <3>3, <4>1 DEF IdsIn
        <5>2. i \notin resent
          BY <1>12, <3>3
        <5>3. QED
          BY <1>8, <1>12, <5>1, <5>2 DEF resent, InFlight
      <4>2. CASE x # s
        BY <1>8, <1>9, <1>12, <1>13, <3>1, <4>2 DEF Once
      <4>3. QED
        BY <4>1, <4>2
    <3>4. QED
      BY <3>2, <3>3
  <2>5. Numbered(ui', settled', accepted, running)
    BY <1>1, <1>8, <1>12 DEF UiOK, Numbered
  <2>6. QED
    BY <2>1, <2>2, <2>3, <2>4, <2>5 DEF UiOK
<1>15. UiOK(ui, home, settled, accepted, running)'
  BY <1>2, <1>14
<1>16. UiType(ui') /\ Homes(ui', home')
  BY <1>2, <1>14 DEF UiOK
<1>17. /\ StoredType' /\ StoredOK'
       /\ \A x \in Sessions : x # s => stored'[x] = stored[x]
  BY <1>1, <1>2, <1>16, SavedKeeps DEF StoredOK
<1>18. Plain'
  BY <1>1, <1>2, <1>12 DEF Plain
<1>19. ASSUME NEW i \in Submitted' \ Exempt(settled')
       PROVE  KeptOK(ui.queue, i)'
  <2>1. /\ i \in Submitted /\ i \notin Exempt(settled) /\ i \notin settled'.restored
        /\ home'[i] = home[i] /\ home[i] \in Sessions
    <3>1. i \in Submitted /\ home' = home
      BY <1>2, <1>19 DEF Submitted
    <3>2. home[i] \in Sessions
      BY <1>1, <3>1, ElementOfSeq DEF Plain, Submitted
    <3>3. i \notin Exempt(settled) /\ i \notin settled'.restored
      BY <1>12, <1>13, <1>19 DEF Exempt
    <3>4. QED
      BY <3>1, <3>2, <3>3
  <2>2. KeptOK(ui.queue, i)
    BY <2>1 DEF IInv
  <2>3. CASE home[i] = s
    <3>1. \/ i \in IdsIn(back)
          \/ i \in IdsIn(ui.queue[s])
      BY <1>2, <2>2, <2>3 DEF KeptOK
    <3>2. i \in IdsIn(p)
      <4>1. CASE back = <<>>
        <5>1. IdsIn(back) = {}
          BY <4>1 DEF IdsIn
        <5>2. QED
          BY <1>5, <3>1, <4>1, <5>1
      <4>2. CASE back # <<>>
        <5>1. i \notin missed
          BY <1>12, <2>1, <4>2
        <5>2. QED
          BY <1>5, <3>1, <4>2, <5>1 DEF missed
      <4>3. QED
        BY <4>1, <4>2
    <3>3. QED
      BY <1>2, <1>9, <2>1, <2>3, <3>2 DEF KeptOK
  <2>4. CASE home[i] = old
    <3>1. i \in IdsIn(ui.queue[old])
      BY <2>2, <2>4 DEF KeptOK
    <3>2. PICK k \in DOMAIN ui.queue[old] : ui.queue[old][k].id = i
      BY <3>1 DEF IdsIn
    <3>3. CASE ui.queue[old][k].state = "sending"
      <4>1. i \in SendingIn(ui.queue[old])
        BY <3>2, <3>3 DEF SendingIn
      <4>2. QED
        BY <1>1, <1>2, <1>9, <1>12, <2>1, <2>4, <3>1, <4>1 DEF KeptOK
    <3>4. CASE ui.queue[old][k].state # "sending"
      <4>1. i \in IdsIn(Serialize(ui.queue[old]))
        BY <1>1, <3>2, <3>4, SerializeFacts
      <4>2. stored'[old] = Serialize(ui.queue[old])
        BY <1>1, <1>2, <1>17 DEF StoredOK
      <4>3. QED
        BY <1>2, <2>1, <2>4, <4>1, <4>2 DEF KeptOK
    <3>5. QED
      BY <3>3, <3>4
  <2>5. CASE home[i] \notin {s, old}
    <3>1. \/ i \in IdsIn(stored[home[i]])
          \/ i \in settled.left /\ i \in IdsIn(ui.queue[home[i]])
      BY <2>2, <2>5 DEF KeptOK
    <3>2. QED
      BY <1>2, <1>9, <1>12, <1>17, <2>1, <2>5, <3>1 DEF KeptOK
  <2>6. QED
    BY <2>3, <2>4, <2>5
<1>20. TypeOK'
  BY <1>16, <1>17, <1>18 DEF TypeOK, Plain, UiType, Host, StoredType
<1>21. SnapsBackOnlyToOvertaken' /\ (~connected' => ui'.flights = {})
  BY <1>2, <1>8 DEF IInv, SnapsBackOnlyToOvertaken
<1>22. settled'.acked \subseteq Submitted'
  BY <1>2, <1>12 DEF IInv, Submitted
<1>23. QED
  BY <1>15, <1>17, <1>19, <1>20, <1>21, <1>22 DEF IInv

(* The page is loaded again, with the queue of storage.                    *)
LEMMA ReloadKeeps ==
  ASSUME IInv, Reload
  PROVE  IInv'
<1> DEFINE s == sessionKey
           back == stored[s]
           Q == [x \in Sessions |-> IF x = s THEN back ELSE <<>>]
           gone == {f.id : f \in {g \in ui.flights : g.session = s}} \cup settled.left
<1>1. /\ Plain /\ UiType(ui) /\ StoredType /\ StoredOK
      /\ UiOK(ui, home, settled, accepted, running)
      /\ settled \in [Fates -> SUBSET Items] /\ s \in Sessions
      /\ ui.queue[s] \in Seq(Entries)
      /\ \A f \in ui.flights : f.id \in Items
  BY Facts DEF Plain
<1>2. /\ Fault /\ connected' = FALSE /\ RunsCancelled /\ Saved /\ idleCheck' = {}
      /\ ui' = [ui EXCEPT !.queue = Q, !.flights = {}, !.sending = FALSE, !.run = NoRun]
      /\ settled' = [settled EXCEPT
                       !.dropped = @ \cup {f.id : f \in {g \in ui.flights : g.session = s}}
                                     \cup settled.left,
                       !.left = {}]
      /\ UNCHANGED <<sessionKey, home>>
  BY DEF Reload
<1>3. /\ back \in Seq(Entries) /\ \A k \in DOMAIN back : back[k].state # "sending"
      /\ Unique(back) /\ AtHome(back, s, home)
      /\ back = Serialize(ui.queue[s])
  BY <1>1, StableSeq DEF StoredType, StoredOK
<1>4. ui \in [queue : [Sessions -> Seq(Entries)], flights : SUBSET Flights,
              attempts : [Items -> Nat], sending : BOOLEAN, run : Runs \cup {NoRun}]
  BY <1>1 DEF UiType, Host
<1>5. /\ Q \in [Sessions -> Seq(Entries)] /\ Q[s] = back
      /\ \A x \in Sessions : x # s => Q[x] = <<>>
  BY <1>1, <1>3
<1> HIDE DEF Q
<1>6. /\ ui'.queue = Q /\ ui'.flights = {} /\ ui'.attempts = ui.attempts
      /\ ui'.run = NoRun /\ ui' \in Host
  BY <1>2, <1>4, <1>5 DEF Host
<1>7. /\ settled' \in [Fates -> SUBSET Items]
      /\ settled'.acked = settled.acked /\ settled'.removed = settled.removed
      /\ settled'.restored = settled.restored
      /\ settled'.dropped = settled.dropped \cup gone
  <2>1. gone \subseteq Items
    BY <1>1 DEF Fates
  <2>2. settled' = [settled EXCEPT !.dropped = @ \cup gone, !.left = {}]
    BY <1>2
  <2> HIDE DEF gone
  <2>3. QED
    BY <1>1, <2>1, <2>2 DEF Fates
<1>8. \A x \in Sessions : \A k \in DOMAIN Q[x] : x = s /\ k \in DOMAIN back
  BY <1>5
<1>9. UiOK(ui', home, settled', accepted', running')
  <2>1. UiType(ui')
    <3>1. \A x \in Sessions : Unique(Q[x])
      BY <1>3, <1>5, <1>8 DEF Unique
    <3>2. QED
      BY <1>6, <3>1 DEF UiType
  <2>2. Homes(ui', home) /\ SendingOK(ui')
    BY <1>3, <1>5, <1>6, <1>8 DEF Homes, AtHome, SendingOK
  <2>3. IdsIn(back) \subseteq IdsIn(ui.queue[s])
    BY <1>1, <1>3, SerializeFacts
  <2>4. \A i \in IdsIn(ui.queue[s]) : i \in Items \ settled.restored => i \notin settled.acked
    BY <1>1 DEF UiOK, Once, IdsIn
  <2>5. \A k \in DOMAIN back : back[k].id \in IdsIn(back)
    BY DEF IdsIn
  <2>6. Once(ui', settled')
    BY <1>5, <1>6, <1>7, <1>8, <2>3, <2>4, <2>5 DEF Once
  <2>7. Numbered(ui', settled', accepted', running')
    BY <1>1, <1>2, <1>6 DEF UiOK, Numbered, RunsCancelled
  <2>8. QED
    BY <2>1, <2>2, <2>6, <2>7 DEF UiOK
<1>10. UiOK(ui, home, settled, accepted, running)'
  BY <1>2, <1>9
<1>11. UiType(ui') /\ Homes(ui', home')
  BY <1>2, <1>9 DEF UiOK
<1>12. /\ StoredType' /\ StoredOK'
       /\ \A x \in Sessions : x # s => stored'[x] = stored[x]
  BY <1>1, <1>2, <1>11, SavedKeeps DEF StoredOK
<1>13. Plain'
  <2>1. faults' \in 0 .. MaxFaults /\ running' = {} /\ accepted' = accepted
    BY <1>1, <1>2, QueueAssumption DEF Plain, Fault, RunsCancelled
  <2>2. settled' \in [Fates -> SUBSET Items]
    BY <1>7
  <2>3. UNCHANGED <<sessionKey, home>> /\ connected' = FALSE /\ idleCheck' = {}
    BY <1>2
  <2>4. QED
    BY <1>1, <2>1, <2>2, <2>3 DEF Plain
<1>14. ASSUME NEW i \in Submitted' \ Exempt(settled')
       PROVE  KeptOK(ui.queue, i)'
  <2>1. /\ i \in Submitted /\ i \notin Exempt(settled) /\ i \notin gone
        /\ home'[i] = home[i] /\ home[i] \in Sessions
    <3>1. i \in Submitted /\ home' = home
      BY <1>2, <1>14 DEF Submitted
    <3>2. home[i] \in Sessions
      BY <1>1, <3>1, ElementOfSeq DEF Plain, Submitted
    <3>3. i \notin Exempt(settled) /\ i \notin gone
      <4> HIDE DEF gone
      <4>1. QED
        BY <1>7, <1>14 DEF Exempt
    <3>4. QED
      BY <3>1, <3>2, <3>3
  <2>2. KeptOK(ui.queue, i)
    BY <2>1 DEF IInv
  <2>3. CASE home[i] = s
    <3>1. i \in IdsIn(ui.queue[s])
      BY <2>2, <2>3 DEF KeptOK
    <3>2. PICK k \in DOMAIN ui.queue[s] : ui.queue[s][k].id = i
      BY <3>1 DEF IdsIn
    <3>3. ui.queue[s][k].state # "sending"
      BY <1>1, <2>1, <3>2 DEF UiOK, SendingOK
    <3>4. i \in IdsIn(back)
      BY <1>1, <1>3, <3>2, <3>3, SerializeFacts
    <3>5. QED
      BY <1>2, <1>5, <1>6, <2>1, <2>3, <3>4 DEF KeptOK
  <2>4. CASE home[i] # s
    <3>1. i \in IdsIn(stored[home[i]])
      BY <2>1, <2>2, <2>4 DEF KeptOK
    <3>2. QED
      BY <1>2, <1>12, <2>1, <2>4, <3>1 DEF KeptOK
  <2>5. QED
    BY <2>3, <2>4
<1>15. TypeOK'
  BY <1>11, <1>12, <1>13 DEF TypeOK, Plain, UiType, Host, StoredType
<1>16. SnapsBackOnlyToOvertaken' /\ (~connected' => ui'.flights = {})
  BY <1>2, <1>6 DEF SnapsBackOnlyToOvertaken
<1>17. settled'.acked \subseteq Submitted'
  BY <1>2, <1>7 DEF IInv, Submitted
<1>18. QED
  BY <1>10, <1>12, <1>14, <1>15, <1>16, <1>17 DEF IInv

-------------------------------------------------------------------------------
(* The invariant holds of a page without messages.                         *)
LEMMA InitHolds == Init => IInv
<1> SUFFICES ASSUME Init PROVE IInv
  OBVIOUS
<1>1. /\ sessionKey \in Sessions /\ connected = FALSE /\ idleCheck = {}
      /\ ui = [queue |-> [s \in Sessions |-> <<>>], flights |-> {},
               attempts |-> [i \in Items |-> 0], sending |-> FALSE, run |-> NoRun]
      /\ stored = [s \in Sessions |-> <<>>]
      /\ accepted = {} /\ running = {} /\ home = <<>>
      /\ settled = [fate \in Fates |-> {}] /\ faults = 0
  BY DEF Init
<1>2. /\ ui.queue = [s \in Sessions |-> <<>>] /\ ui.flights = {} /\ ui.run = NoRun
      /\ \A s \in Sessions : ui.queue[s] = <<>> /\ stored[s] = <<>>
  BY <1>1
<1>3. TypeOK
  <2>1. Plain
    <3>1. home \in Seq(Sessions) /\ Len(home) = 0
      BY <1>1
    <3>2. settled \in [Fates -> SUBSET Items]
      BY <1>1
    <3>3. accepted \in SUBSET Runs /\ running \in SUBSET accepted
      BY <1>1
    <3>4. Len(home) <= MaxMessages /\ faults \in 0 .. MaxFaults
      BY <1>1, <3>1, QueueAssumption
    <3>5. QED
      BY <1>1, <3>1, <3>2, <3>3, <3>4 DEF Plain
  <2>2. UiType(ui)
    <3>1. [s \in Sessions |-> <<>>] \in [Sessions -> Seq(Entries)]
      OBVIOUS
    <3>2. [i \in Items |-> 0] \in [Items -> Nat]
      OBVIOUS
    <3>3. ui \in Host
      BY <1>1, <3>1, <3>2 DEF Host
    <3>4. QED
      BY <1>2, <3>3 DEF UiType, Unique
  <2>3. StoredType
    BY <1>1 DEF StoredType, Unique
  <2>4. QED
    BY <2>1, <2>2, <2>3, Types
<1>4. UiOK(ui, home, settled, accepted, running)
  <2>1. UiType(ui)
    BY <1>3, Types
  <2>2. Homes(ui, home) /\ SendingOK(ui)
    BY <1>2 DEF Homes, AtHome, SendingOK
  <2>3. Once(ui, settled) /\ Numbered(ui, settled, accepted, running)
    BY <1>1, <1>2 DEF Once, Numbered
  <2>4. QED
    BY <2>1, <2>2, <2>3 DEF UiOK
<1>5. StoredOK
  <2>1. Serialize(<<>>) = <<>>
    <3>1. <<>> \in Seq(Entries)
      OBVIOUS
    <3>2. Serialize(<<>>) \in Seq(Entries) /\ Within(Serialize(<<>>), <<>>)
      BY <3>1, SerializeFacts, StableSeq
    <3>3. DOMAIN Serialize(<<>>) = {}
      BY <3>2 DEF Within
    <3>4. Len(Serialize(<<>>)) = 0
      BY <3>2, <3>3
    <3>5. QED
      BY <3>2, <3>4
  <2>2. QED
    BY <1>1, <1>2, <2>1 DEF StoredOK, AtHome
<1>6. /\ settled.acked \subseteq Submitted /\ Submitted = {}
      /\ SnapsBackOnlyToOvertaken
  BY <1>1, <1>2 DEF Submitted, Fates, SnapsBackOnlyToOvertaken
<1>7. QED
  BY <1>2, <1>3, <1>4, <1>5, <1>6 DEF IInv

(* Each action has its lemma.                                              *)
LEMMA NextKeeps == IInv /\ [Next]_vars => IInv'
<1> SUFFICES ASSUME IInv, [Next]_vars PROVE IInv'
  OBVIOUS
<1>1. CASE UNCHANGED vars
  <2>1. /\ UNCHANGED <<sessionKey, connected, ui, stored, idleCheck, accepted, running,
                       home, settled, faults>>
    BY <1>1 DEF vars, gatewayVars
  <2>2. QED
    BY <2>1 DEF IInv, TypeOK, StoredOK, KeptOK, Submitted, SnapsBackOnlyToOvertaken
<1>2. CASE Gateway
  BY <1>2, AcceptKeeps, AckedKeeps, RefusedKeeps, RunEventKeeps, RunEndsKeeps DEF Gateway
<1>3. CASE User
  BY <1>3, SubmitKeeps, RetryKeeps, DiscardKeeps, SwitchKeeps DEF User
<1>4. CASE IdleCheck \/ Disconnect \/ ReplaceClient \/ Hello \/ Reload
  BY <1>4, IdleCheckKeeps, DisconnectKeeps, HelloKeeps, ReloadKeeps
<1>5. QED
  BY <1>1, <1>2, <1>3, <1>4 DEF Next

(* The invariant holds of every state the program reaches.                 *)
THEOREM InductiveInvariant == Spec => []IInv
<1>1. Init => IInv
  BY InitHolds
<1>2. IInv /\ [Next]_vars => IInv'
  BY NextKeeps
<1>3. QED
  BY <1>1, <1>2, PTL DEF Spec

(* The host, its queues and the storage are what they are declared to be:  *)
(* no queue has a message twice, and none is stored as being sent.         *)
THEOREM TypeCorrect == Spec => []TypeOK
<1>1. IInv => TypeOK
  BY DEF IInv
<1>2. QED
  BY <1>1, InductiveInvariant, PTL

(* Whatever is refused, lost, switched, reconnected or acknowledged late,  *)
(* a message of the composer waits or one request has it until it was      *)
(* acknowledged or given up; a restore from storage and a reload aside.    *)
THEOREM MessagesAreKept == Spec => []KeptAndSentOnce
<1>1. IInv => KeptAndSentOnce
  <2> SUFFICES ASSUME IInv PROVE KeptAndSentOnce
    OBVIOUS
  <2>1. SendingIsInFlight
    BY DEF IInv, UiOK, SendingOK, SendingIsInFlight
  <2>2. LostOnlyByRestore
    <3> SUFFICES ASSUME NEW i \in Submitted \ (settled.restored \cup settled.dropped),
                        i \notin settled.acked \cup settled.removed
                 PROVE  Kept(i)
      BY DEF LostOnlyByRestore
    <3>1. KeptOK(ui.queue, i)
      BY DEF IInv, Exempt
    <3>2. QED
      BY <3>1 DEF KeptOK, Kept
  <2>3. SentAgainOnlyByRestore
    <3>1. \A f \in ui.flights : f.id \in Items
      BY Facts
    <3>2. Once(ui, settled)
      BY DEF IInv, UiOK
    <3>3. QED
      BY <3>1, <3>2 DEF Once, SentAgainOnlyByRestore
  <2>4. QED
    BY <2>1, <2>2, <2>3 DEF KeptAndSentOnce
<1>2. QED
  BY <1>1, InductiveInvariant, PTL

(* The composer shows a run as going on only while it goes on, but for one *)
(* whose end overtook the acknowledgement of its send.                     *)
THEOREM NoSnapBack == Spec => []SnapsBackOnlyToOvertaken
<1>1. IInv => SnapsBackOnlyToOvertaken
  BY DEF IInv
<1>2. QED
  BY <1>1, InductiveInvariant, PTL

(* No flush lets a message overtake one that waits before it, and no       *)
(* reconnect one that waits for the connection.                            *)
THEOREM SendsInOrder == Spec => []SentInOrder
<1>1. IInv => SentInOrder
  <2> SUFFICES ASSUME IInv, NEW s \in Sessions, NEW k \in DOMAIN ui.queue[s],
                      NEW l \in DOMAIN ui.queue[s], k < l,
                      ui.queue[s][l].state = "sending", Flushable(ui.queue[s][k])
               PROVE  \E f \in ui.flights :
                        /\ f.id = ui.queue[s][l].id
                        /\ \/ f.origin \in {"submit", "retry"}
                           \/ f.origin = "reconnect" /\ ui.queue[s][k].state = "queued"
    BY DEF SentInOrder
  <2>1. PICK f \in ui.flights : /\ f.id = ui.queue[s][l].id /\ f.session = s
                                /\ Before(ui.queue[s], l, f.origin)
    BY DEF IInv, UiOK, SendingOK
  <2>2. f.origin \in {"submit", "flush", "retry", "reconnect"}
    BY Facts DEF Flights, Origins
  <2>3. /\ f.origin # "flush"
        /\ f.origin = "reconnect" => ui.queue[s][k].state # "waiting"
    BY <2>1 DEF Before
  <2>4. ui.queue[s][k].state \in {"queued", "waiting"}
    BY DEF Flushable
  <2>5. QED
    BY <2>1, <2>2, <2>3, <2>4
<1>2. QED
  BY <1>1, InductiveInvariant, PTL
===============================================================================
