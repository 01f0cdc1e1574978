--------------------------- MODULE ConfigDraftProofs ---------------------------
(***************************************************************************)
(* Proofs about ConfigDraft, for any tabs, keys and values and any bounds: *)
(* the types, and that a submit names the snapshot its draft started from; *)
(* a draft stays dirty as long as edits count as unsaved, and the agent    *)
(* runs with the configuration the table holds.                            *)
(* All rest on what the requests of one connection may look like, one      *)
(* behind the other, while the oldest is served and the tab appends more.  *)
(***************************************************************************)
EXTENDS ConfigDraft, SequenceTheorems, TLAPS

-------------------------------------------------------------------------------
TabStates ==
  [form : Overrides, formOriginal : Overrides, hash : Hashes, startHash : Hashes,
   draftBaseHash : Hashes, dirty : BOOLEAN, rebased : BOOLEAN,
   busy : SUBSET Submits, loading : BOOLEAN]

(* A submit says where it started; a config.get is in one of its stages,   *)
(* and has a hash once it has read the configuration.                      *)
Honest(r) ==
  /\ r.op \in Submits /\ ~r.rebased => r.hash = r.startHash
  /\ r.op = "config.get" => /\ r.left = {} /\ r.stage \in {"sent", "config", "done"}
                            /\ r.stage # "sent" => r.hash # NoHash
  /\ r.stage = "config" => r.op = "config.get"
  /\ r.stage = "sent" => \A k \in r.left : r.data[k] # Unset

HonestRequests == {r \in Requests : Honest(r)}

Shapes ==
  /\ tab \in [Tabs -> TabStates]
  /\ open \in [Tabs -> Seq(Requests)]
  /\ orphans \subseteq HonestRequests
  /\ db \in Overrides /\ runtime \in [Keys -> Stored]
  /\ acts \in 0 .. MaxActs /\ faults \in 0 .. MaxFaults
  /\ unsaved \in [Tabs -> SUBSET Keys]
  /\ disturbed \in BOOLEAN

(* A draft that was not reset or saved since its snapshot is bound to it.  *)
Bound(u) == ~u.rebased => u.draftBaseHash = u.startHash /\ u.draftBaseHash # NoHash

(* The busy flag of op is held by the submit, then by the load it awaits.  *)
Holds(r, op) == r.op = op \/ op \in r.awaitedBy

QueueOK(q, busy) ==
  /\ \A n \in 1 .. Len(q) : /\ Honest(q[n])
                            /\ n > 1 => q[n].stage = "sent"
                            /\ \A op \in Submits : Holds(q[n], op) => op \in busy
  /\ \A m, n \in 1 .. Len(q) : \A op \in Submits :
       Holds(q[m], op) /\ Holds(q[n], op) => m = n

IInv == /\ Shapes
        /\ \A t \in Tabs : Bound(tab[t]) /\ QueueOK(open[t], tab[t].busy)

-------------------------------------------------------------------------------
(* What the snapshots of the gateway are made of.                          *)
LEMMA ReadTypes ==
  ASSUME NEW d \in Overrides
  PROVE  /\ Effective(d) \in [Keys -> Stored]
         /\ Hash(d) \in Hashes /\ Hash(d) # NoHash
         /\ SourceConfig(d) \in Overrides
<1>1. \A v \in Values : Masked(v) \in Stored
  BY DEF Stored
<1>2. Default \in Stored
  BY ConfigAssumption DEF Stored
<1>3. Effective(d) \in [Keys -> Stored]
  BY <1>2 DEF Effective, Overrides
<1>4. \A e \in [Keys -> Stored] : MaskSecret(e) \in [Keys -> Stored]
  BY <1>1 DEF MaskSecret
<1>5. MaskSecret(d) \in Overrides
  BY <1>1 DEF MaskSecret, Overrides
<1> QED
  BY <1>3, <1>4, <1>5, HashAssumption DEF Hash, SourceConfig, Hashes

LEMMA BlankType ==
  ASSUME NEW op \in Submits \cup {"config.get"}
  PROVE  /\ Blank(op) \in Requests /\ Blank(op).op = op /\ Blank(op).stage = "sent"
         /\ Blank(op).left = {} /\ Blank(op).awaitedBy = {}
         /\ Blank(op).hash = NoHash /\ Blank(op).startHash = NoHash
BY DEF Blank, Requests, Overrides, Hashes, Submits

LEMMA DoneIs == \A r : Done(r) = [Done(r) EXCEPT !.stage = "done"]
BY DEF Done, Blank

LEMMA DoneType ==
  ASSUME NEW r \in Requests, r.op \in Submits, NEW stage \in {"done", "failed"}
  PROVE  LET next == [Done(r) EXCEPT !.stage = stage]
         IN /\ next \in Requests /\ Honest(next) /\ next.op = r.op
            /\ next.awaitedBy = {} /\ next.took = r.took /\ next.stage = stage
<1> DEFINE b == Blank(r.op)
<1>1. /\ b \in Requests /\ b.op = r.op /\ b.awaitedBy = {}
      /\ b.hash = NoHash /\ b.startHash = NoHash
  BY BlankType
<1>2. Done(r) = [b EXCEPT !.stage = "done", !.took = r.took] /\ r.took \in SUBSET Keys
  BY DEF Done, Requests
<1> HIDE DEF b
<1>3. /\ Done(r) \in Requests /\ Done(r).op = r.op /\ Done(r).awaitedBy = {}
      /\ Done(r).hash = NoHash /\ Done(r).startHash = NoHash /\ Done(r).took = r.took
      /\ Done(r).stage = "done"
  BY <1>1, <1>2 DEF Requests
<1> HIDE DEF Done
<1> QED
  BY <1>3 DEF Requests, Honest, Submits

-------------------------------------------------------------------------------
(* Queues of requests.                                                     *)
LEMMA HeadOK ==
  ASSUME NEW q \in Seq(Requests), NEW busy, QueueOK(q, busy), q # <<>>
  PROVE  /\ Head(q) \in Requests /\ Honest(Head(q)) /\ Head(q) = q[1]
         /\ \A op \in Submits : Holds(Head(q), op) => op \in busy
<1>1. Head(q) = q[1] /\ Len(q) \in Nat /\ Len(q) > 0
  BY HeadTailProperties, EmptySeq
<1> QED BY <1>1, HeadTailProperties DEF QueueOK

LEMMA AppendOK ==
  ASSUME NEW q \in Seq(Requests), NEW busy, NEW busy2, QueueOK(q, busy),
         NEW r \in Requests, Honest(r), r.stage = "sent", busy \subseteq busy2,
         \A op \in Submits : Holds(r, op) =>
           op \in busy2 /\ \A n \in 1 .. Len(q) : ~Holds(q[n], op)
  PROVE  Append(q, r) \in Seq(Requests) /\ QueueOK(Append(q, r), busy2)
<1> DEFINE a == Append(q, r)
<1>1. /\ a \in Seq(Requests) /\ Len(a) = Len(q) + 1 /\ Len(q) \in Nat
      /\ \A i \in 1 .. Len(q) : a[i] = q[i]
      /\ a[Len(q) + 1] = r
  BY AppendProperties, LenProperties
<1> HIDE DEF a
<1>2. ASSUME NEW n \in 1 .. Len(a)
      PROVE  /\ Honest(a[n]) /\ (n > 1 => a[n].stage = "sent")
             /\ \A op \in Submits : Holds(a[n], op) => op \in busy2
  <2>1. CASE n \in 1 .. Len(q)
    BY <1>1, <2>1 DEF QueueOK
  <2>2. CASE n = Len(q) + 1
    BY <1>1, <2>2
  <2> QED BY <1>1, <2>1, <2>2
<1>3. ASSUME NEW m \in 1 .. Len(a), NEW n \in 1 .. Len(a), NEW op \in Submits,
             Holds(a[m], op), Holds(a[n], op)
      PROVE  m = n
  <2>1. CASE m \in 1 .. Len(q) /\ n \in 1 .. Len(q)
    BY <1>1, <1>3, <2>1 DEF QueueOK
  <2>2. CASE m = Len(q) + 1 \/ n = Len(q) + 1
    BY <1>1, <1>3, <2>2
  <2> QED BY <1>1, <2>1, <2>2
<1>4. QueueOK(a, busy2)
  BY <1>2, <1>3 DEF QueueOK
<1> QED BY <1>1, <1>4 DEF a

LEMMA TailOK ==
  ASSUME NEW q \in Seq(Requests), NEW busy, NEW busy2, QueueOK(q, busy), q # <<>>,
         \A op \in Submits : op \in busy /\ ~Holds(Head(q), op) => op \in busy2
  PROVE  /\ Tail(q) \in Seq(Requests) /\ QueueOK(Tail(q), busy2)
         /\ \A n \in 1 .. Len(Tail(q)) : \A op \in Submits :
              Holds(Tail(q)[n], op) => ~Holds(Head(q), op)
<1> DEFINE a == Tail(q)
<1>1. /\ a \in Seq(Requests) /\ Len(a) = Len(q) - 1 /\ Len(q) \in Nat /\ Len(q) > 0
      /\ \A i \in 1 .. Len(a) : a[i] = q[i + 1]
      /\ Head(q) = q[1]
  BY HeadTailProperties, EmptySeq
<1> HIDE DEF a
<1>2. ASSUME NEW n \in 1 .. Len(a)
      PROVE  n + 1 \in 1 .. Len(q) /\ n + 1 > 1 /\ n + 1 # 1 /\ a[n] = q[n + 1]
  BY <1>1
<1>3. ASSUME NEW n \in 1 .. Len(a), NEW op \in Submits, Holds(a[n], op)
      PROVE  ~Holds(Head(q), op) /\ op \in busy2
  <2>1. 1 \in 1 .. Len(q)
    BY <1>1
  <2>2. Holds(q[n + 1], op) /\ op \in busy
    BY <1>2, <1>3 DEF QueueOK
  <2>3. ~Holds(q[1], op)
    BY <1>2, <2>1, <2>2 DEF QueueOK
  <2> QED BY <1>1, <2>2, <2>3
<1>4. ASSUME NEW n \in 1 .. Len(a) PROVE Honest(a[n]) /\ a[n].stage = "sent"
  BY <1>2 DEF QueueOK
<1>5. ASSUME NEW m \in 1 .. Len(a), NEW n \in 1 .. Len(a), NEW op \in Submits,
             Holds(a[m], op), Holds(a[n], op)
      PROVE  m = n
  <2>1. m + 1 = n + 1
    BY <1>2, <1>5 DEF QueueOK
  <2> QED BY <1>1, <2>1
<1>6. QueueOK(a, busy2)
  BY <1>3, <1>4, <1>5 DEF QueueOK
<1> QED BY <1>1, <1>3, <1>6 DEF a

LEMMA Replaced ==
  ASSUME NEW q \in Seq(Requests), q # <<>>, NEW r \in Requests
  PROVE  LET a == <<r>> \o Tail(q)
         IN /\ a \in Seq(Requests) /\ Len(a) = Len(q) /\ Len(q) \in Nat /\ Len(q) > 0
            /\ a # <<>> /\ Head(a) = r /\ a[1] = r /\ Head(q) = q[1]
            /\ \A n \in 2 .. Len(q) : a[n] = q[n]
<1> DEFINE a == <<r>> \o Tail(q)
<1>1. /\ Tail(q) \in Seq(Requests) /\ Len(Tail(q)) = Len(q) - 1
      /\ Len(q) \in Nat /\ Len(q) > 0 /\ Head(q) = q[1]
      /\ \A i \in 1 .. Len(Tail(q)) : Tail(q)[i] = q[i + 1]
  BY HeadTailProperties, EmptySeq
<1>2. <<r>> \in Seq(Requests) /\ Len(<<r>>) = 1 /\ <<r>>[1] = r
  OBVIOUS
<1>3. /\ a \in Seq(Requests) /\ Len(a) = 1 + Len(Tail(q))
      /\ \A i \in 1 .. 1 + Len(Tail(q)) :
           a[i] = IF i <= 1 THEN <<r>>[i] ELSE Tail(q)[i - 1]
  BY <1>1, <1>2, ConcatProperties
<1> HIDE DEF a
<1>4. Len(a) = Len(q) /\ a[1] = r
  BY <1>1, <1>2, <1>3
<1>5. ASSUME NEW n \in 2 .. Len(a) PROVE a[n] = q[n]
  <2>1. n - 1 \in 1 .. Len(Tail(q)) /\ ~(n <= 1) /\ n \in 1 .. 1 + Len(Tail(q))
    BY <1>1, <1>4
  <2>2. a[n] = Tail(q)[n - 1]
    BY <1>3, <2>1
  <2>3. Tail(q)[n - 1] = q[(n - 1) + 1]
    BY <1>1, <2>1
  <2>4. (n - 1) + 1 = n
    BY <1>1, <1>4
  <2> QED BY <2>2, <2>3, <2>4
<1>6. a # <<>> /\ Head(a) = a[1]
  BY <1>1, <1>3, <1>4, HeadTailProperties, EmptySeq
<1> QED BY <1>1, <1>3, <1>4, <1>5, <1>6 DEF a

LEMMA ReplaceOK ==
  ASSUME NEW q \in Seq(Requests), NEW busy, QueueOK(q, busy), q # <<>>,
         NEW r \in Requests, Honest(r),
         \A op \in Submits : Holds(r, op) => Holds(Head(q), op)
  PROVE  <<r>> \o Tail(q) \in Seq(Requests) /\ QueueOK(<<r>> \o Tail(q), busy)
<1> DEFINE a == <<r>> \o Tail(q)
<1>1. /\ a \in Seq(Requests) /\ Len(a) = Len(q) /\ Len(q) \in Nat /\ Len(q) > 0
      /\ a[1] = r /\ Head(q) = q[1]
      /\ \A n \in 2 .. Len(q) : a[n] = q[n]
  BY Replaced
<1> HIDE DEF a
<1>2. ASSUME NEW n \in 1 .. Len(a), NEW op \in Submits, Holds(a[n], op)
      PROVE  Holds(q[n], op)
  BY <1>1, <1>2
<1>3. ASSUME NEW n \in 1 .. Len(a)
      PROVE  /\ Honest(a[n]) /\ (n > 1 => a[n].stage = "sent")
             /\ \A op \in Submits : Holds(a[n], op) => op \in busy
  <2>1. CASE n = 1
    BY <1>1, <1>2, <2>1 DEF QueueOK
  <2>2. CASE n \in 2 .. Len(a)
    BY <1>1, <1>2, <2>2 DEF QueueOK
  <2> QED BY <1>1, <2>1, <2>2
<1>4. QueueOK(a, busy)
  BY <1>1, <1>2, <1>3 DEF QueueOK
<1> QED BY <1>1, <1>4 DEF a

(* Only the history of requests changes.                                   *)
LEMMA TookOK ==
  ASSUME NEW q \in Seq(Requests), NEW busy, QueueOK(q, busy),
         NEW f, f = [n \in DOMAIN q |-> f[n]],
         \A n \in DOMAIN q : \E took \in SUBSET Keys : f[n] = [q[n] EXCEPT !.took = took]
  PROVE  f \in Seq(Requests) /\ QueueOK(f, busy)
<1>1. Len(q) \in Nat /\ DOMAIN q = 1 .. Len(q) /\ \A n \in 1 .. Len(q) : q[n] \in Requests
  BY LenProperties, ElementOfSeq
<1>2. ASSUME NEW n \in 1 .. Len(q)
      PROVE  /\ f[n] \in Requests /\ f[n].stage = q[n].stage
             /\ Honest(q[n]) => Honest(f[n])
             /\ \A op \in Submits : Holds(f[n], op) <=> Holds(q[n], op)
  <2>1. PICK took \in SUBSET Keys : f[n] = [q[n] EXCEPT !.took = took]
    BY <1>1
  <2>2. q[n] \in Requests
    BY <1>1
  <2>3. /\ f[n] \in Requests /\ f[n].stage = q[n].stage /\ f[n].op = q[n].op
        /\ f[n].awaitedBy = q[n].awaitedBy /\ f[n].hash = q[n].hash
        /\ f[n].startHash = q[n].startHash /\ f[n].rebased = q[n].rebased
        /\ f[n].left = q[n].left /\ f[n].data = q[n].data
    BY <2>1, <2>2 DEF Requests
  <2> QED BY <2>3 DEF Honest, Holds
<1>3. DOMAIN f = 1 .. Len(q)
  BY <1>1
<1>4. f \in [1 .. Len(q) -> Requests]
  BY <1>1, <1>2, <1>3
<1>5. f \in Seq(Requests)
  BY <1>1, <1>4, SeqDef
<1>6. Len(f) = Len(q)
  BY <1>1, <1>3, <1>5, LenProperties
<1> QED BY <1>1, <1>2, <1>5, <1>6 DEF QueueOK

LEMMA NoLongerTookOK ==
  ASSUME NEW q \in Seq(Requests), NEW busy, QueueOK(q, busy), NEW keys
  PROVE  NoLongerTook(q, keys) \in Seq(Requests) /\ QueueOK(NoLongerTook(q, keys), busy)
<1> DEFINE f == NoLongerTook(q, keys)
<1>1. f = [n \in DOMAIN q |-> f[n]]
  BY DEF NoLongerTook
<1>2. \A n \in DOMAIN q : f[n] = [q[n] EXCEPT !.took = q[n].took \ keys]
  BY DEF NoLongerTook
<1>3. \A n \in DOMAIN q : q[n].took \ keys \in SUBSET Keys
  <2>1. \A n \in DOMAIN q : q[n] \in Requests
    BY LenProperties, ElementOfSeq
  <2> QED BY <2>1 DEF Requests
<1> HIDE DEF f
<1>4. \A n \in DOMAIN q : \E took \in SUBSET Keys : f[n] = [q[n] EXCEPT !.took = took]
  BY <1>2, <1>3
<1>5. f \in Seq(Requests) /\ QueueOK(f, busy)
  BY <1>1, <1>4, TookOK
<1> QED BY <1>5 DEF f

-------------------------------------------------------------------------------
LEMMA OneTab ==
  ASSUME IInv, NEW t \in Tabs, NEW u \in TabStates, NEW q \in Seq(Requests),
         tab' = [tab EXCEPT ![t] = u], open' = [open EXCEPT ![t] = q],
         Bound(u), QueueOK(q, u.busy),
         orphans' \subseteq HonestRequests, db' \in Overrides, runtime' \in [Keys -> Stored],
         acts' \in 0 .. MaxActs, faults' \in 0 .. MaxFaults,
         unsaved' \in [Tabs -> SUBSET Keys], disturbed' \in BOOLEAN
  PROVE  IInv'
<1>1. tab' \in [Tabs -> TabStates] /\ open' \in [Tabs -> Seq(Requests)]
  BY DEF IInv, Shapes
<1>2. ASSUME NEW s \in Tabs PROVE Bound(tab'[s]) /\ QueueOK(open'[s], tab'[s].busy)
  <2>1. CASE s = t
    BY <2>1 DEF IInv, Shapes
  <2>2. CASE s # t
    <3>1. tab'[s] = tab[s] /\ open'[s] = open[s]
      BY <2>2 DEF IInv, Shapes
    <3> QED BY <3>1 DEF IInv
  <2> QED BY <2>1, <2>2
<1>3. Shapes'
  BY <1>1 DEF Shapes
<1> QED BY <1>2, <1>3 DEF IInv, Bound, QueueOK

LEMMA TabParts ==
  ASSUME IInv, NEW t \in Tabs
  PROVE  /\ tab[t] \in TabStates /\ Bound(tab[t])
         /\ open[t] \in Seq(Requests) /\ QueueOK(open[t], tab[t].busy)
         /\ unsaved[t] \in SUBSET Keys /\ tab[t].busy \subseteq Submits
         /\ open = [open EXCEPT ![t] = open[t]]
         /\ tab = [tab EXCEPT ![t] = tab[t]]
BY DEF IInv, Shapes, TabStates

LEMMA Counts ==
  ASSUME IInv
  PROVE  /\ Act => acts' \in 0 .. MaxActs
         /\ Fault => faults' \in 0 .. MaxFaults
BY ConfigAssumption DEF IInv, Shapes, Act, Fault

LEMMA EditKeeps ==
  ASSUME IInv, NEW t \in Tabs, NEW k \in Keys, NEW v \in Values \cup {Unset}, Edit(t, k, v)
  PROVE  IInv'
<1> DEFINE form == [tab[t].form EXCEPT ![k] = v]
           u == [tab[t] EXCEPT !.form = form, !.dirty = (form # tab[t].formOriginal)]
           q == NoLongerTook(open[t], {k})
<1>1. form \in Overrides
  BY TabParts DEF TabStates, Overrides, Stored
<1>2. tab' = [tab EXCEPT ![t] = u]
  BY TabParts DEF Edit, TabStates
<1>3. open' = [open EXCEPT ![t] = q]
  BY DEF Edit
<1>4. unsaved' \in [Tabs -> SUBSET Keys]
  BY DEF Edit, IInv, Shapes
<1> HIDE DEF form
<1>5. u \in TabStates /\ u.busy = tab[t].busy /\ u.rebased = tab[t].rebased
      /\ u.draftBaseHash = tab[t].draftBaseHash /\ u.startHash = tab[t].startHash
  BY <1>1, TabParts DEF TabStates
<1>6. Bound(u)
  BY <1>5, TabParts DEF Bound
<1>7. q \in Seq(Requests) /\ QueueOK(q, u.busy)
  BY <1>5, TabParts, NoLongerTookOK
<1> HIDE DEF u, q
<1> QED
  BY <1>2, <1>3, <1>4, <1>5, <1>6, <1>7, Counts, OneTab DEF Edit, serverVars, IInv, Shapes

LEMMA ResetKeeps ==
  ASSUME IInv, NEW t \in Tabs, Reset(t)
  PROVE  IInv'
<1> DEFINE u == [tab[t] EXCEPT !.form = tab[t].formOriginal, !.dirty = FALSE,
                               !.draftBaseHash = tab[t].hash, !.rebased = TRUE]
           q == TookNothing(open[t])
<1>1. tab' = [tab EXCEPT ![t] = u]
  BY TabParts DEF Reset, TabStates
<1>2. open' = [open EXCEPT ![t] = q]
  BY DEF Reset
<1>3. unsaved' \in [Tabs -> SUBSET Keys]
  BY DEF Reset, NothingUnsaved, IInv, Shapes
<1>4. u \in TabStates /\ u.busy = tab[t].busy /\ u.rebased
  BY TabParts DEF TabStates
<1>5. Bound(u)
  BY <1>4 DEF Bound
<1>6. q \in Seq(Requests) /\ QueueOK(q, u.busy)
  BY <1>4, TabParts, NoLongerTookOK DEF TookNothing
<1> HIDE DEF u, q
<1> QED
  BY <1>1, <1>2, <1>3, <1>4, <1>5, <1>6, Counts, OneTab DEF Reset, serverVars, IInv, Shapes

LEMMA LoadKeeps ==
  ASSUME IInv, NEW t \in Tabs, NEW discard \in BOOLEAN, Load(t, discard)
  PROVE  IInv'
<1> DEFINE u == [tab[t] EXCEPT !.loading = TRUE]
           r == [Blank("config.get") EXCEPT !.discard = discard]
           q == Append(open[t], r)
<1>1. tab' = [tab EXCEPT ![t] = u]
  BY TabParts DEF Load, TabStates
<1>2. open' = [open EXCEPT ![t] = q]
  BY DEF Load
<1>3. /\ u \in TabStates /\ u.busy = tab[t].busy /\ u.rebased = tab[t].rebased
      /\ u.draftBaseHash = tab[t].draftBaseHash /\ u.startHash = tab[t].startHash
  BY TabParts DEF TabStates
<1>4. Bound(u)
  BY <1>3, TabParts DEF Bound
<1>5. /\ r \in Requests /\ r.op = "config.get" /\ r.stage = "sent" /\ r.left = {}
      /\ r.awaitedBy = {}
  BY BlankType DEF Requests
<1> HIDE DEF r
<1>6. Honest(r) /\ \A op \in Submits : ~Holds(r, op)
  BY <1>5 DEF Honest, Holds, Submits
<1>7. q \in Seq(Requests) /\ QueueOK(q, u.busy)
  BY <1>3, <1>5, <1>6, TabParts, AppendOK
<1> HIDE DEF u, q
<1> QED
  BY <1>1, <1>2, <1>3, <1>4, <1>7, Counts, OneTab DEF Load, serverVars, IInv, Shapes

SubmitSent(t, op, r) ==
  /\ r \in Requests /\ r.op = op /\ r.stage = "sent" /\ r.awaitedBy = {}
  /\ r.hash = IF tab[t].draftBaseHash = NoHash THEN tab[t].hash ELSE tab[t].draftBaseHash
  /\ r.startHash = tab[t].startHash /\ r.rebased = tab[t].rebased
  /\ \A k \in r.left : r.data[k] # Unset
  /\ r.took = unsaved[t]

LEMMA SubmitRequest ==
  ASSUME IInv, NEW t \in Tabs, NEW op \in Submits, Submit(t, op)
  PROVE  \E r : /\ SubmitSent(t, op, r)
                /\ open' = [open EXCEPT ![t] = Append(open[t], r)]
<1> DEFINE base == IF tab[t].draftBaseHash = NoHash THEN tab[t].hash ELSE tab[t].draftBaseHash
           left == {k \in Keys : tab[t].form[k] # Unset}
           b == Blank(op)
           r == [b EXCEPT !.data = tab[t].form, !.left = left, !.hash = base,
                          !.startHash = tab[t].startHash, !.rebased = tab[t].rebased,
                          !.took = unsaved[t]]
<1>1. base \in Hashes /\ tab[t].form \in Overrides /\ tab[t].startHash \in Hashes
      /\ tab[t].rebased \in BOOLEAN
  BY TabParts DEF TabStates
<1>2. /\ left \subseteq Keys /\ unsaved[t] \in SUBSET Keys
      /\ \A k \in left : tab[t].form[k] # Unset
  BY TabParts
<1>3. b \in Requests /\ b.op = op /\ b.stage = "sent" /\ b.awaitedBy = {}
  BY BlankType
<1>4. open' = [open EXCEPT ![t] = Append(open[t], r)]
  BY DEF Submit
<1> HIDE DEF base, left, b
<1>5. /\ r \in Requests /\ r.op = op /\ r.stage = "sent" /\ r.awaitedBy = {}
      /\ r.hash = base /\ r.startHash = tab[t].startHash /\ r.rebased = tab[t].rebased
      /\ r.left = left /\ r.data = tab[t].form /\ r.took = unsaved[t]
  BY <1>1, <1>2, <1>3 DEF Requests
<1> HIDE DEF r
<1>6. SubmitSent(t, op, r)
  BY <1>2, <1>5 DEF SubmitSent, base
<1> QED BY <1>4, <1>6

LEMMA SubmitKeeps ==
  ASSUME IInv, NEW t \in Tabs, NEW op \in Submits, Submit(t, op)
  PROVE  IInv'
<1> DEFINE u == [tab[t] EXCEPT !.busy = @ \cup {op}]
<1>1. tab' = [tab EXCEPT ![t] = u]
  BY TabParts DEF Submit, TabStates
<1>2. PICK r : SubmitSent(t, op, r) /\ open' = [open EXCEPT ![t] = Append(open[t], r)]
  BY SubmitRequest
<1> DEFINE q == Append(open[t], r)
<1>3. unsaved' \in [Tabs -> SUBSET Keys]
  BY DEF Submit, NothingUnsaved, IInv, Shapes
<1>4. /\ u \in TabStates /\ u.busy = tab[t].busy \cup {op} /\ u.rebased = tab[t].rebased
      /\ u.draftBaseHash = tab[t].draftBaseHash /\ u.startHash = tab[t].startHash
  BY TabParts DEF TabStates
<1>5. Bound(u)
  BY <1>4, TabParts DEF Bound
<1>6. r \in Requests /\ r.stage = "sent" /\ Honest(r)
  BY <1>2, TabParts DEF SubmitSent, Bound, Honest, Submits
<1>7. \A o \in Submits : Holds(r, o) => o = op
  BY <1>2 DEF SubmitSent, Holds
<1>8. \A n \in 1 .. Len(open[t]) : ~Holds(open[t][n], op)
  BY TabParts DEF Submit, QueueOK
<1>9. q \in Seq(Requests) /\ QueueOK(q, u.busy)
  BY <1>4, <1>6, <1>7, <1>8, TabParts, AppendOK
<1> HIDE DEF u
<1> QED
  BY <1>1, <1>2, <1>3, <1>4, <1>5, <1>9, Counts, OneTab DEF Submit, serverVars, IInv, Shapes

LEMMA SnapshotType ==
  ASSUME IInv, NEW t \in Tabs, NEW r \in Requests, r.hash # NoHash, r.data \in Overrides
  PROVE  LET u == ApplySnapshot(t, r)
         IN u \in TabStates /\ Bound(u) /\ u.busy = tab[t].busy
<1> DEFINE a == [tab[t] EXCEPT !.draftBaseHash = IF @ = NoHash THEN tab[t].hash ELSE @,
                               !.hash = r.hash]
           b == [tab[t] EXCEPT !.form = r.data, !.formOriginal = r.data, !.dirty = FALSE,
                               !.hash = r.hash, !.draftBaseHash = r.hash,
                               !.startHash = r.hash, !.rebased = FALSE]
<1>1. r.hash \in Hashes
  BY DEF Requests
<1>2. a \in TabStates /\ a.busy = tab[t].busy /\ Bound(a)
  BY <1>1, TabParts DEF TabStates, Bound
<1>3. b \in TabStates /\ b.busy = tab[t].busy /\ Bound(b)
  BY <1>1, TabParts DEF TabStates, Bound
<1>4. ApplySnapshot(t, r) = a \/ ApplySnapshot(t, r) = b
  BY DEF ApplySnapshot, KeepDraft
<1> HIDE DEF a, b
<1> QED BY <1>2, <1>3, <1>4

LEMMA GetReturnsKeeps ==
  ASSUME IInv, NEW t \in Tabs, GetReturns(t)
  PROVE  IInv'
<1> DEFINE r == Head(open[t])
           s == ApplySnapshot(t, r)
           u == [s EXCEPT !.loading = FALSE, !.busy = @ \ r.awaitedBy]
           q == Tail(open[t])
<1>1. open[t] # <<>> /\ r.op = "config.get" /\ r.stage = "done"
  BY DEF GetReturns, Answered
<1>2. r \in Requests /\ Honest(r)
  BY <1>1, TabParts, HeadOK
<1>3. r.hash # NoHash /\ r.data \in Overrides /\ r.awaitedBy \subseteq Submits
  BY <1>1, <1>2 DEF Honest, Requests
<1>4. tab' = [tab EXCEPT ![t] = u]
  BY DEF GetReturns, Finished
<1> HIDE DEF r
<1>5. s \in TabStates /\ Bound(s) /\ s.busy = tab[t].busy
  BY <1>2, <1>3, SnapshotType
<1> HIDE DEF s
<1>6. u \in TabStates /\ Bound(u) /\ u.busy = tab[t].busy \ r.awaitedBy
  BY <1>5 DEF TabStates, Bound
<1>7. \A op \in Submits : op \in tab[t].busy /\ ~Holds(r, op) => op \in u.busy
  BY <1>6 DEF Holds
<1>8. q \in Seq(Requests) /\ QueueOK(q, u.busy)
  BY <1>1, <1>7, TabParts, TailOK DEF r
<1> HIDE DEF u
<1>9. CASE r.discard
  <2>1. open' = [open EXCEPT ![t] = TookNothing(q)] /\ unsaved' \in [Tabs -> SUBSET Keys]
    BY <1>9 DEF GetReturns, NothingUnsaved, r, IInv, Shapes
  <2>2. TookNothing(q) \in Seq(Requests) /\ QueueOK(TookNothing(q), u.busy)
    BY <1>8, NoLongerTookOK DEF TookNothing
  <2> HIDE DEF q
  <2> QED
    BY <1>4, <1>6, <2>1, <2>2, OneTab DEF GetReturns, serverVars, IInv, Shapes
<1>10. CASE ~r.discard
  <2>1. open' = [open EXCEPT ![t] = q] /\ unsaved' \in [Tabs -> SUBSET Keys]
    BY <1>10 DEF GetReturns, r, IInv, Shapes
  <2> HIDE DEF q
  <2> QED
    BY <1>4, <1>6, <1>8, <2>1, OneTab DEF GetReturns, serverVars, IInv, Shapes
<1> QED BY <1>9, <1>10

LEMMA SubmitReturnsKeeps ==
  ASSUME IInv, NEW t \in Tabs, NEW op \in Submits, SubmitReturns(t, op)
  PROVE  IInv'
<1> DEFINE u == [tab[t] EXCEPT !.dirty = FALSE, !.draftBaseHash = NoHash,
                               !.rebased = TRUE, !.loading = TRUE]
           r == [Blank("config.get") EXCEPT !.awaitedBy = {op}]
           q == Append(Tail(open[t]), r)
<1>1. open[t] # <<>> /\ Head(open[t]).op = op
  BY DEF SubmitReturns, Answered
<1>2. tab' = [tab EXCEPT ![t] = u]
  BY TabParts DEF SubmitReturns, TabStates
<1>3. open' = [open EXCEPT ![t] = q]
  BY DEF SubmitReturns
<1>4. u \in TabStates /\ u.busy = tab[t].busy /\ u.rebased
  BY TabParts DEF TabStates, Hashes
<1>5. Bound(u)
  BY <1>4 DEF Bound
<1>6. /\ r \in Requests /\ r.op = "config.get" /\ r.stage = "sent" /\ r.left = {}
      /\ r.awaitedBy = {op}
  BY BlankType DEF Requests
<1> HIDE DEF r
<1>7. Honest(r) /\ \A o \in Submits : Holds(r, o) => o = op
  BY <1>6 DEF Honest, Holds, Submits
<1>8. Holds(Head(open[t]), op) /\ op \in tab[t].busy
  BY <1>1, TabParts, HeadOK DEF Holds
<1>9. /\ Tail(open[t]) \in Seq(Requests) /\ QueueOK(Tail(open[t]), tab[t].busy)
      /\ \A n \in 1 .. Len(Tail(open[t])) : ~Holds(Tail(open[t])[n], op)
  BY <1>1, <1>8, TabParts, TailOK
<1>10. q \in Seq(Requests) /\ QueueOK(q, u.busy)
  <2> HIDE DEF u
  <2>1. \A o \in Submits : Holds(r, o) =>
          o \in u.busy /\ \A n \in 1 .. Len(Tail(open[t])) : ~Holds(Tail(open[t])[n], o)
    BY <1>4, <1>7, <1>8, <1>9
  <2>2. tab[t].busy \subseteq u.busy
    BY <1>4
  <2> QED BY <1>6, <1>7, <1>9, <2>1, <2>2, AppendOK
<1> HIDE DEF u, q
<1> QED
  BY <1>2, <1>3, <1>4, <1>5, <1>10, OneTab DEF SubmitReturns, serverVars, IInv, Shapes

LEMMA SubmitFailsKeeps ==
  ASSUME IInv, NEW t \in Tabs, SubmitFails(t)
  PROVE  IInv'
<1> DEFINE r == Head(open[t])
           rest == Tail(open[t])
           later == {n \in DOMAIN rest : rest[n].op \in Submits}
           Took(n) == rest[n].took \cup IF n \in later THEN r.took ELSE {}
           q == [n \in DOMAIN rest |-> [rest[n] EXCEPT !.took = Took(n)]]
           u == [tab[t] EXCEPT !.busy = @ \ {r.op}]
<1>1. open[t] # <<>> /\ r.stage = "failed"
  BY DEF SubmitFails
<1>2. r \in Requests /\ Honest(r)
  BY <1>1, TabParts, HeadOK
<1>3. r.took \in SUBSET Keys /\ r.awaitedBy \subseteq Submits /\ r.op \in Submits
  BY <1>1, <1>2 DEF Honest, Requests
<1>4. tab' = [tab EXCEPT ![t] = u]
  BY TabParts DEF SubmitFails, TabStates
<1>5. open' = [open EXCEPT ![t] = q]
  BY DEF SubmitFails
<1>6. /\ u \in TabStates /\ u.busy = tab[t].busy \ {r.op} /\ u.rebased = tab[t].rebased
      /\ u.draftBaseHash = tab[t].draftBaseHash /\ u.startHash = tab[t].startHash
  BY TabParts DEF TabStates
<1>7. Bound(u)
  BY <1>6, TabParts DEF Bound
<1>8. unsaved' \in [Tabs -> SUBSET Keys]
  <2> HIDE DEF r
  <2>1. unsaved' = unsaved \/ unsaved' = [unsaved EXCEPT ![t] = @ \cup r.took]
    BY DEF SubmitFails, r
  <2> QED BY <1>3, <2>1 DEF IInv, Shapes
<1>9. \A op \in Submits : op \in tab[t].busy /\ ~Holds(r, op) => op \in u.busy
  BY <1>6 DEF Holds
<1>10. rest \in Seq(Requests) /\ QueueOK(rest, u.busy)
  BY <1>1, <1>9, TabParts, TailOK
<1> HIDE DEF r, u, rest
<1>11. \A n \in DOMAIN rest : Took(n) \in SUBSET Keys
  <2>1. \A n \in DOMAIN rest : rest[n] \in Requests
    BY <1>10, LenProperties, ElementOfSeq
  <2>2. \A n \in DOMAIN rest : rest[n].took \in SUBSET Keys
    BY <2>1 DEF Requests
  <2> QED BY <1>3, <2>2
<1>12. \A n \in DOMAIN rest : q[n] = [rest[n] EXCEPT !.took = Took(n)]
  OBVIOUS
<1>13. q = [n \in DOMAIN rest |-> q[n]]
  OBVIOUS
<1> HIDE DEF Took, q
<1>14. q \in Seq(Requests) /\ QueueOK(q, u.busy)
  <2>1. \A n \in DOMAIN rest : \E took \in SUBSET Keys :
          q[n] = [rest[n] EXCEPT !.took = took]
    BY <1>11, <1>12
  <2> QED BY <1>10, <1>13, <2>1, TookOK
<1> QED
  BY <1>4, <1>5, <1>6, <1>7, <1>8, <1>14, OneTab DEF SubmitFails, serverVars, IInv, Shapes

LEMMA DisconnectKeeps ==
  ASSUME IInv, NEW t \in Tabs, Disconnect(t)
  PROVE  IInv'
<1> DEFINE u == [tab[t] EXCEPT !.loading = FALSE, !.busy = {}]
           took == UNION {r.took : r \in ToSet(open[t])}
<1>1. tab' = [tab EXCEPT ![t] = u] /\ open' = [open EXCEPT ![t] = <<>>]
  BY TabParts DEF Disconnect, TabStates
<1>2. /\ u \in TabStates /\ u.busy = {} /\ u.rebased = tab[t].rebased
      /\ u.draftBaseHash = tab[t].draftBaseHash /\ u.startHash = tab[t].startHash
  BY TabParts DEF TabStates
<1>3. Bound(u)
  BY <1>2, TabParts DEF Bound
<1>4. <<>> \in Seq(Requests) /\ QueueOK(<<>>, u.busy)
  BY EmptySeq DEF QueueOK
<1>5. took \in SUBSET Keys
  <2>1. ToSet(open[t]) \subseteq Requests
    BY TabParts, LenProperties, ElementOfSeq DEF ToSet
  <2>2. \A r \in Requests : r.took \in SUBSET Keys
    BY DEF Requests
  <2> QED BY <2>1, <2>2
<1>6. unsaved' \in [Tabs -> SUBSET Keys]
  <2>1. unsaved' = [unsaved EXCEPT ![t] = @ \cup took]
    BY DEF Disconnect
  <2> QED BY <1>5, <2>1 DEF IInv, Shapes
<1>7. orphans' \subseteq HonestRequests
  <2>1. Head(open[t]) \in HonestRequests
    BY TabParts, HeadOK DEF Disconnect, HonestRequests
  <2> QED BY <2>1 DEF Disconnect, IInv, Shapes
<1> HIDE DEF u, took
<1> QED
  BY <1>1, <1>2, <1>3, <1>4, <1>6, <1>7, Counts, OneTab
  DEF Disconnect, serverVars, IInv, Shapes

-------------------------------------------------------------------------------
(* The steps of the gateway: a request it serves becomes its next stage.   *)
LEMMA ServingOK ==
  ASSUME IInv, NEW r \in Serving
  PROVE  r \in Requests /\ Honest(r)
<1>1. CASE r \in orphans
  BY <1>1 DEF IInv, Shapes, HonestRequests
<1>2. CASE \E t \in Tabs : open[t] # <<>> /\ r = Head(open[t])
  BY <1>2, TabParts, HeadOK
<1> QED BY <1>1, <1>2 DEF Serving

LEMMA ServedKeeps ==
  ASSUME IInv, NEW r, NEW next \in Requests, Honest(next), Becomes(r, next),
         \A op \in Submits : Holds(next, op) => Holds(r, op),
         UNCHANGED <<tab, unsaved, acts>>,
         db' \in Overrides, runtime' \in [Keys -> Stored],
         faults' \in 0 .. MaxFaults, disturbed' \in BOOLEAN
  PROVE  IInv'
<1>1. ASSUME NEW t \in Tabs, open[t] # <<>>, Head(open[t]) = r,
             open' = [open EXCEPT ![t] = <<next>> \o Tail(@)], orphans' = orphans
      PROVE  IInv'
  <2> DEFINE q == <<next>> \o Tail(open[t])
  <2>1. q \in Seq(Requests) /\ QueueOK(q, tab[t].busy)
    BY <1>1, TabParts, ReplaceOK
  <2>2. open' = [open EXCEPT ![t] = q] /\ tab' = [tab EXCEPT ![t] = tab[t]]
    BY <1>1, TabParts
  <2> HIDE DEF q
  <2> QED BY <1>1, <2>1, <2>2, TabParts, OneTab DEF IInv, Shapes
<1>2. ASSUME orphans' = (orphans \ {r}) \cup (IF Over(next) THEN {} ELSE {next}),
             open' = open
      PROVE  IInv'
  <2>1. next \in HonestRequests
    BY DEF HonestRequests
  <2>2. Shapes'
    BY <1>2, <2>1 DEF IInv, Shapes
  <2> QED BY <1>2, <2>2 DEF IInv, Bound, QueueOK
<1> QED BY <1>1, <1>2 DEF Becomes

LEMMA ReadingOK ==
  ASSUME IInv, NEW read \in Readings, CountFault(read)
  PROVE  read \in Overrides /\ faults' \in 0 .. MaxFaults
<1>1. db \in Overrides /\ faults \in 0 .. MaxFaults
  BY DEF IInv, Shapes
<1>2. PICK unread \in (IF faults < MaxFaults THEN SUBSET Keys ELSE {{}}) :
        read = [k \in Keys |-> IF k \in unread THEN Unset ELSE db[k]]
  BY DEF Readings
<1>3. read \in Overrides
  BY <1>1, <1>2 DEF Overrides
<1>4. ASSUME ~(faults < MaxFaults) PROVE read = db
  BY <1>1, <1>2, <1>4 DEF Overrides
<1>5. faults' \in 0 .. MaxFaults
  BY <1>1, <1>4, ConfigAssumption DEF CountFault
<1> QED BY <1>3, <1>5

LEMMA ReadConfigKeeps ==
  ASSUME IInv, NEW r \in Serving, ReadConfig(r)
  PROVE  IInv'
<1>1. r \in Requests /\ Honest(r) /\ r.op = "config.get"
  BY ServingOK DEF ReadConfig
<1>2. PICK read \in Readings :
        Becomes(r, [r EXCEPT !.hash = Hash(read), !.stage = "config"]) /\ CountFault(read)
  BY DEF ReadConfig
<1>3. Hash(read) \in Hashes /\ Hash(read) # NoHash /\ faults' \in 0 .. MaxFaults
  BY <1>2, ReadingOK, ReadTypes
<1> DEFINE next == [r EXCEPT !.hash = Hash(read), !.stage = "config"]
<1>4. /\ next \in Requests /\ next.op = r.op /\ next.left = r.left /\ next.stage = "config"
      /\ next.hash = Hash(read) /\ next.awaitedBy = r.awaitedBy
  BY <1>1, <1>3 DEF Requests
<1> HIDE DEF next
<1>5. Honest(next) /\ \A op \in Submits : Holds(next, op) => Holds(r, op)
  BY <1>1, <1>3, <1>4 DEF Honest, Holds, Submits
<1> QED
  BY <1>2, <1>3, <1>4, <1>5, ServedKeeps DEF next, ReadConfig, serverVars, IInv, Shapes

LEMMA ReadSourceKeeps ==
  ASSUME IInv, NEW r \in Serving, ReadSource(r)
  PROVE  IInv'
<1>1. r \in Requests /\ Honest(r) /\ r.stage = "config"
  BY ServingOK DEF ReadSource
<1>2. PICK read \in Readings :
        Becomes(r, [r EXCEPT !.data = SourceConfig(read), !.stage = "done"]) /\ CountFault(read)
  BY DEF ReadSource
<1>3. SourceConfig(read) \in Overrides /\ faults' \in 0 .. MaxFaults
  BY <1>2, ReadingOK, ReadTypes
<1> DEFINE next == [r EXCEPT !.data = SourceConfig(read), !.stage = "done"]
<1>4. /\ next \in Requests /\ next.op = r.op /\ next.left = r.left /\ next.stage = "done"
      /\ next.hash = r.hash /\ next.startHash = r.startHash /\ next.rebased = r.rebased
      /\ next.awaitedBy = r.awaitedBy
  BY <1>1, <1>3 DEF Requests
<1> HIDE DEF next
<1>5. Honest(next) /\ \A op \in Submits : Holds(next, op) => Holds(r, op)
  BY <1>1, <1>4 DEF Honest, Holds
<1> QED
  BY <1>2, <1>3, <1>4, <1>5, ServedKeeps DEF next, ReadSource, serverVars, IInv, Shapes

LEMMA UpsertKeeps ==
  ASSUME IInv, NEW r \in Serving, NEW k \in Keys, Upsert(r, k)
  PROVE  IInv'
<1>1. r \in Requests /\ Honest(r) /\ k \in r.left
  BY ServingOK DEF Upsert
<1> DEFINE next == [r EXCEPT !.left = @ \ {k}]
<1>2. /\ next \in Requests /\ next.op = r.op /\ next.left = r.left \ {k}
      /\ next.stage = r.stage /\ next.hash = r.hash /\ next.startHash = r.startHash
      /\ next.data = r.data
      /\ next.rebased = r.rebased /\ next.awaitedBy = r.awaitedBy
  BY <1>1 DEF Requests
<1>3. db' \in Overrides
  BY <1>1 DEF Upsert, IInv, Shapes, Overrides, Requests
<1>4. Becomes(r, next) /\ disturbed' \in BOOLEAN
  BY DEF Upsert, IInv, Shapes
<1> HIDE DEF next
<1>5. Honest(next) /\ \A op \in Submits : Holds(next, op) => Holds(r, op)
  BY <1>1, <1>2 DEF Honest, Holds
<1> QED
  BY <1>2, <1>3, <1>4, <1>5, ServedKeeps DEF Upsert, IInv, Shapes

(* Only a submit has keys left, or reads for the reload.                   *)
LEMMA OnlySubmits ==
  ASSUME NEW r \in Requests, Honest(r),
         r.left # {} \/ r.stage \in {"reading", "failed"} \/ AllStored(r)
  PROVE  r.op \in Submits
BY DEF Requests, Honest, AllStored

LEMMA UpsertFailsKeeps ==
  ASSUME IInv, NEW r \in Serving, UpsertFails(r)
  PROVE  IInv'
<1>1. r \in Requests /\ r.op \in Submits
  BY ServingOK, OnlySubmits DEF UpsertFails
<1> DEFINE next == [Done(r) EXCEPT !.stage = "failed"]
<1>2. next \in Requests /\ Honest(next) /\ next.op = r.op /\ next.awaitedBy = {}
  BY <1>1, DoneType
<1>3. Becomes(r, next) /\ disturbed' \in BOOLEAN
  BY DEF UpsertFails, IInv, Shapes
<1> HIDE DEF next
<1>4. \A op \in Submits : Holds(next, op) => Holds(r, op)
  BY <1>2 DEF Holds
<1> QED
  BY <1>2, <1>3, <1>4, Counts, ServedKeeps DEF UpsertFails, IInv, Shapes

OverrideRead(r, k, read, next) ==
  /\ Becomes(r, next)
  /\ next.data = [r.data EXCEPT ![k] = read]
  /\ next.stage = "reading" /\ next.left = ToRead(r) \ {k}
  /\ next.op = r.op /\ next.hash = r.hash /\ next.startHash = r.startHash
  /\ next.rebased = r.rebased /\ next.awaitedBy = r.awaitedBy
  /\ next.took = r.took
  /\ faults' \in 0 .. MaxFaults
  /\ disturbed' = (disturbed \/ read # db[k])

LEMMA ReadOverrideNext ==
  ASSUME IInv, NEW r \in Serving, NEW k \in Keys, ReadOverride(r, k)
  PROVE  /\ r.op \in Submits /\ ToRead(r) \subseteq Keys
         /\ \E read \in Stored \cup {Unset}, next \in Requests :
              OverrideRead(r, k, read, next)
<1>1. /\ r \in Requests /\ Honest(r) /\ r.op \in Submits
      /\ ToRead(r) \subseteq Keys
  <2>1. r \in Requests /\ Honest(r) /\ k \in ToRead(r)
    BY ServingOK DEF ReadOverride
  <2>2. ToRead(r) \subseteq Keys /\ (AllStored(r) \/ r.stage = "reading")
    BY <2>1 DEF ToRead, Requests
  <2> QED BY <2>1, <2>2, OnlySubmits
<1>2. PICK read \in {db[k]} \cup IF faults < MaxFaults THEN {Unset} ELSE {} :
        /\ Becomes(r, [r EXCEPT !.data[k] = TableValue(r, k, read),
                                !.stage = "reading", !.left = ToRead(r) \ {k}])
        /\ faults' = faults + IF read = db[k] THEN 0 ELSE 1
        /\ disturbed' = (disturbed \/ read # db[k])
  BY DEF ReadOverride
<1>3. read \in Stored \cup {Unset} /\ faults' \in 0 .. MaxFaults
  BY <1>2, ConfigAssumption DEF IInv, Shapes, Overrides
<1> DEFINE data == [r.data EXCEPT ![k] = read]
           left == ToRead(r) \ {k}
           next == [r EXCEPT !.data = data, !.stage = "reading", !.left = left]
<1>4. data \in Overrides /\ left \subseteq Keys
  BY <1>1, <1>3 DEF Overrides, Requests
<1>5. Becomes(r, next)
  BY <1>1, <1>2 DEF TableValue, Requests
<1> HIDE DEF data, left
<1>6. /\ next \in Requests /\ next.op = r.op /\ next.stage = "reading"
      /\ next.hash = r.hash /\ next.startHash = r.startHash
      /\ next.rebased = r.rebased /\ next.awaitedBy = r.awaitedBy
      /\ next.took = r.took /\ next.data = data /\ next.left = left
  BY <1>1, <1>4 DEF Requests
<1> HIDE DEF next
<1>7. OverrideRead(r, k, read, next)
  BY <1>2, <1>3, <1>5, <1>6 DEF OverrideRead, data, left
<1> QED BY <1>1, <1>3, <1>6, <1>7

LEMMA ReadOverrideKeeps ==
  ASSUME IInv, NEW r \in Serving, NEW k \in Keys, ReadOverride(r, k)
  PROVE  IInv'
<1>1. PICK read \in Stored \cup {Unset}, next \in Requests : OverrideRead(r, k, read, next)
  BY ReadOverrideNext
<1>2. disturbed' \in BOOLEAN
  BY <1>1 DEF OverrideRead, IInv, Shapes
<1>3. Honest(r) /\ r.op \in Submits
  BY ServingOK, ReadOverrideNext
<1>4. Honest(next) /\ \A op \in Submits : Holds(next, op) => Holds(r, op)
  BY <1>1, <1>3 DEF OverrideRead, Honest, Holds, Submits
<1> QED
  BY <1>1, <1>2, <1>4, ServedKeeps DEF OverrideRead, ReadOverride, IInv, Shapes

LEMMA ReloadConfigKeeps ==
  ASSUME IInv, NEW r \in Serving, ReloadConfig(r)
  PROVE  IInv'
<1>1. r \in Requests /\ r.op \in Submits /\ r.data \in Overrides
  BY ServingOK, OnlySubmits DEF ReloadConfig, Requests
<1>2. Effective(r.data) \in [Keys -> Stored]
  BY <1>1, ReadTypes
<1> DEFINE next == [Done(r) EXCEPT !.stage = "done"]
<1>3. next \in Requests /\ Honest(next) /\ next.op = r.op /\ next.awaitedBy = {}
  BY <1>1, DoneType
<1>4. Done(r) = next
  BY DoneIs
<1> HIDE DEF next
<1>5. \A op \in Submits : Holds(next, op) => Holds(r, op)
  BY <1>3 DEF Holds
<1> QED
  BY <1>2, <1>3, <1>4, <1>5, ServedKeeps DEF ReloadConfig, IInv, Shapes

-------------------------------------------------------------------------------
LEMMA InitHolds == Init => IInv
<1> SUFFICES ASSUME Init PROVE IInv
  OBVIOUS
<1>1. db \in Overrides
  BY DEF Init, Overrides, Stored
<1>2. /\ runtime \in [Keys -> Stored] /\ Hash(db) \in Hashes /\ Hash(db) # NoHash
      /\ SourceConfig(db) \in Overrides
  BY <1>1, ReadTypes DEF Init
<1>3. tab \in [Tabs -> TabStates] /\ \A t \in Tabs : Bound(tab[t])
  BY <1>2 DEF Init, TabStates, Bound
<1>4. \A t \in Tabs : open[t] = <<>> /\ QueueOK(open[t], tab[t].busy)
  BY EmptySeq DEF Init, QueueOK
<1>5. open \in [Tabs -> Seq(Requests)]
  BY EmptySeq DEF Init
<1>6. acts \in 0 .. MaxActs /\ faults \in 0 .. MaxFaults
  BY ConfigAssumption DEF Init
<1>7. unsaved \in [Tabs -> SUBSET Keys] /\ disturbed \in BOOLEAN /\ orphans = {}
  BY DEF Init
<1> QED
  BY <1>1, <1>2, <1>3, <1>4, <1>5, <1>6, <1>7 DEF IInv, Shapes

LEMMA NextKeeps == IInv /\ [Next]_vars => IInv'
<1> SUFFICES ASSUME IInv, [Next]_vars PROVE IInv'
  OBVIOUS
<1>1. ASSUME NEW t \in Tabs, User(t) PROVE IInv'
  BY <1>1, EditKeeps, ResetKeeps, LoadKeeps, SubmitKeeps DEF User
<1>2. ASSUME NEW t \in Tabs, Returns(t) PROVE IInv'
  BY <1>2, GetReturnsKeeps, SubmitFailsKeeps, SubmitReturnsKeeps DEF Returns
<1>3. ASSUME NEW r \in Serving, Serve(r) PROVE IInv'
  BY <1>3, ReadConfigKeeps, ReadSourceKeeps, UpsertKeeps, UpsertFailsKeeps,
     ReadOverrideKeeps, ReloadConfigKeeps DEF Serve
<1>4. CASE UNCHANGED vars
  BY <1>4 DEF vars, serverVars, IInv, Shapes, Bound, QueueOK
<1> QED BY <1>1, <1>2, <1>3, <1>4, DisconnectKeeps DEF Next

(* Every state has the shapes of IInv: drafts are bound to the snapshot    *)
(* they started from, and the requests of a tab stand in a proper queue.   *)
THEOREM InductiveInvariant == Spec => []IInv
<1> QED BY InitHolds, NextKeeps, PTL DEF Spec

(* The tabs, their requests, the table and the running configuration keep  *)
(* their types; only the oldest request of a tab is being served, and each *)
(* submit that has not come back holds the busy flag of its button.        *)
THEOREM TypeCorrect == Spec => []TypeOK
<1>1. IInv => TypeOK
  <2> SUFFICES ASSUME IInv PROVE TypeOK
    OBVIOUS
  <2>1. ASSUME NEW t \in Tabs, NEW n \in DOMAIN open[t]
        PROVE  /\ open[t][n] \in Requests
               /\ n > 1 => open[t][n].stage = "sent"
               /\ open[t][n].op \in Submits => open[t][n].op \in tab[t].busy
    <3>1. n \in 1 .. Len(open[t]) /\ open[t][n] \in Requests
      BY TabParts, LenProperties, ElementOfSeq
    <3> QED BY <3>1, TabParts DEF QueueOK, Holds
  <2>2. ASSUME NEW t \in Tabs
        PROVE  /\ tab[t].form \in Overrides /\ tab[t].formOriginal \in Overrides
               /\ tab[t].hash \in Hashes /\ tab[t].startHash \in Hashes
               /\ tab[t].draftBaseHash \in Hashes
               /\ tab[t].dirty \in BOOLEAN /\ tab[t].rebased \in BOOLEAN
               /\ tab[t].busy \subseteq Submits /\ tab[t].loading \in BOOLEAN
               /\ unsaved[t] \subseteq Keys
    BY TabParts DEF TabStates
  <2> QED BY <2>1, <2>2 DEF TypeOK, IInv, Shapes, HonestRequests
<1> QED BY <1>1, InductiveInvariant, PTL

(* config.test.ts, "submits the original draft base hash": however many    *)
(* snapshots came since, whatever failed and was sent again, a submit      *)
(* names the snapshot its draft started from, unless it was reset.         *)
THEOREM SubmitsNameTheirStart == Spec => []SubmitNamesItsStart
<1>1. IInv => SubmitNamesItsStart
  <2> SUFFICES ASSUME IInv, NEW t \in Tabs, NEW r \in ToSet(open[t]) PROVE Honest(r)
    BY DEF SubmitNamesItsStart, Honest
  <2>1. PICK n \in DOMAIN open[t] : r = open[t][n]
    BY DEF ToSet
  <2>2. n \in 1 .. Len(open[t])
    BY TabParts, LenProperties
  <2> QED BY <2>1, <2>2, TabParts DEF QueueOK
<1> QED BY <1>1, InductiveInvariant, PTL

-------------------------------------------------------------------------------
(* What keeps a draft dirty: the keys that count as unsaved or taken along *)
(* differ from what the draft started from.                                *)
Differs(u, keys) == \A k \in keys : u.dirty /\ u.form[k] # u.formOriginal[k]

(* Only the first submit under way has taken keys along, and while it has  *)
(* not come back no key counts as unsaved.                                 *)
TakenOK(u, q, un) ==
  /\ Differs(u, un)
  /\ \A n \in 1 .. Len(q) :
       /\ Differs(u, q[n].took)
       /\ q[n].op \in Submits => un = {}
       /\ q[n].op \notin Submits => q[n].took = {}
       /\ \A m \in 1 .. Len(q) : m < n /\ q[m].op \in Submits => q[n].took = {}

Pending == \A t \in Tabs : TakenOK(tab[t], open[t], unsaved[t])

NoneTaken(q) == \A n \in 1 .. Len(q) : q[n].took = {}

LEMMA NoneTakenOK ==
  ASSUME NEW u, NEW q, NoneTaken(q)
  PROVE  TakenOK(u, q, {})
BY DEF NoneTaken, TakenOK, Differs

LEMMA TakenTail ==
  ASSUME NEW q \in Seq(Requests), q # <<>>, NEW u, NEW un, TakenOK(u, q, un)
  PROVE  /\ TakenOK(u, Tail(q), un)
         /\ Differs(u, Head(q).took)
         /\ Head(q).op \in Submits => un = {} /\ NoneTaken(Tail(q))
<1> DEFINE a == Tail(q)
<1>1. /\ Len(a) = Len(q) - 1 /\ Len(q) \in Nat /\ Len(q) > 0 /\ Head(q) = q[1]
      /\ \A i \in 1 .. Len(a) : a[i] = q[i + 1]
  BY HeadTailProperties, EmptySeq
<1> HIDE DEF a
<1>2. ASSUME NEW n \in 1 .. Len(a)
      PROVE  n + 1 \in 1 .. Len(q) /\ 1 < n + 1 /\ 1 \in 1 .. Len(q) /\ a[n] = q[n + 1]
  BY <1>1
<1>3. ASSUME NEW n \in 1 .. Len(a), NEW m \in 1 .. Len(a), m < n, a[m].op \in Submits
      PROVE  a[n].took = {}
  <2>1. m + 1 < n + 1
    BY <1>1, <1>3
  <2> QED BY <1>2, <1>3, <2>1 DEF TakenOK
<1>4. TakenOK(u, a, un)
  BY <1>2, <1>3 DEF TakenOK
<1>5. 1 \in 1 .. Len(q)
  BY <1>1
<1>6. Differs(u, Head(q).took) /\ (Head(q).op \in Submits => un = {})
  BY <1>1, <1>5 DEF TakenOK
<1>7. Head(q).op \in Submits => NoneTaken(a)
  BY <1>1, <1>2 DEF TakenOK, NoneTaken
<1> QED BY <1>4, <1>6, <1>7 DEF a

LEMMA TakenAppend ==
  ASSUME NEW q \in Seq(Requests), NEW r \in Requests, NEW u, NEW un, NEW un2,
         TakenOK(u, q, un), Differs(u, r.took), Differs(u, un2),
         (r.op \in Submits \/ \E n \in 1 .. Len(q) : q[n].op \in Submits) => un2 = {},
         r.op \notin Submits => r.took = {},
         (\E n \in 1 .. Len(q) : q[n].op \in Submits) => r.took = {}
  PROVE  TakenOK(u, Append(q, r), un2)
<1> DEFINE a == Append(q, r)
<1>1. /\ Len(a) = Len(q) + 1 /\ Len(q) \in Nat
      /\ \A i \in 1 .. Len(q) : a[i] = q[i]
      /\ a[Len(q) + 1] = r
  BY AppendProperties, LenProperties
<1> HIDE DEF a
<1>2. ASSUME NEW n \in 1 .. Len(a)
      PROVE  /\ Differs(u, a[n].took)
             /\ a[n].op \in Submits => un2 = {}
             /\ a[n].op \notin Submits => a[n].took = {}
  <2>1. CASE n \in 1 .. Len(q)
    BY <1>1, <2>1 DEF TakenOK
  <2>2. CASE n = Len(q) + 1
    BY <1>1, <2>2
  <2> QED BY <1>1, <2>1, <2>2
<1>3. ASSUME NEW n \in 1 .. Len(a), NEW m \in 1 .. Len(a), m < n, a[m].op \in Submits
      PROVE  a[n].took = {}
  <2>1. m \in 1 .. Len(q) /\ a[m] = q[m]
    BY <1>1, <1>3
  <2>2. CASE n \in 1 .. Len(q)
    BY <1>1, <1>3, <2>1, <2>2 DEF TakenOK
  <2>3. CASE n = Len(q) + 1
    BY <1>1, <1>3, <2>1, <2>3
  <2> QED BY <1>1, <2>2, <2>3
<1>4. TakenOK(u, a, un2)
  BY <1>2, <1>3 DEF TakenOK
<1> QED BY <1>4 DEF a

(* Only the operation and the history of a request matter.                 *)
LEMMA TakenAlike ==
  ASSUME NEW u, NEW un, NEW q, NEW a, TakenOK(u, q, un), Len(a) = Len(q),
         \A n \in 1 .. Len(q) : a[n].op = q[n].op /\ a[n].took = q[n].took
  PROVE  TakenOK(u, a, un)
BY DEF TakenOK

(* Only the draft matters of a tab.                                        *)
LEMMA SameDraft ==
  ASSUME NEW u, NEW v, NEW q, NEW un, TakenOK(u, q, un),
         v.dirty = u.dirty, v.form = u.form, v.formOriginal = u.formOriginal
  PROVE  TakenOK(v, q, un)
BY DEF TakenOK, Differs

LEMMA CleanTakesNothing ==
  ASSUME NEW u, NEW q, NEW un, TakenOK(u, q, un), ~u.dirty
  PROVE  un = {} /\ NoneTaken(q)
BY DEF TakenOK, Differs, NoneTaken

LEMMA NoLongerTookIs ==
  ASSUME NEW q \in Seq(Requests), NEW keys
  PROVE  LET a == NoLongerTook(q, keys)
         IN /\ Len(a) = Len(q) /\ Len(q) \in Nat
            /\ \A n \in 1 .. Len(q) :
                 /\ q[n] \in Requests /\ a[n] \in Requests
                 /\ a[n].took = q[n].took \ keys /\ a[n].op = q[n].op
                 /\ a[n].stage = q[n].stage /\ a[n].left = q[n].left
                 /\ a[n].data = q[n].data
<1> DEFINE a == NoLongerTook(q, keys)
<1>1. Len(q) \in Nat /\ DOMAIN q = 1 .. Len(q) /\ \A n \in 1 .. Len(q) : q[n] \in Requests
  BY LenProperties, ElementOfSeq
<1>2. a = [n \in 1 .. Len(q) |-> [q[n] EXCEPT !.took = q[n].took \ keys]]
  BY <1>1 DEF NoLongerTook
<1> HIDE DEF a
<1>3. \A n \in 1 .. Len(q) :
        /\ a[n] \in Requests /\ a[n].took = q[n].took \ keys
        /\ a[n].op = q[n].op /\ a[n].stage = q[n].stage
        /\ a[n].left = q[n].left /\ a[n].data = q[n].data
  BY <1>1, <1>2 DEF Requests
<1>4. a \in [1 .. Len(q) -> Requests]
  BY <1>2, <1>3
<1>5. a \in Seq(Requests)
  BY <1>1, <1>4, SeqDef
<1>6. Len(a) = Len(q)
  BY <1>1, <1>2, <1>5, LenProperties
<1> QED BY <1>1, <1>3, <1>6 DEF a

LEMMA ForgetAll ==
  ASSUME NEW q \in Seq(Requests), NEW u
  PROVE  TakenOK(u, TookNothing(q), {})
<1>1. NoneTaken(TookNothing(q))
  <2>1. Len(TookNothing(q)) = Len(q)
    BY NoLongerTookIs DEF TookNothing
  <2>2. ASSUME NEW n \in 1 .. Len(q)
        PROVE  q[n] \in Requests /\ TookNothing(q)[n].took = q[n].took \ Keys
    BY NoLongerTookIs DEF TookNothing
  <2>3. \A r \in Requests : r.took \ Keys = {}
    BY DEF Requests
  <2> QED BY <2>1, <2>2, <2>3 DEF NoneTaken
<1> QED BY <1>1, NoneTakenOK

-------------------------------------------------------------------------------
LEMMA OneTabPending ==
  ASSUME IInv, Pending, NEW t \in Tabs, NEW u, NEW q, NEW un,
         tab' = [tab EXCEPT ![t] = u], open' = [open EXCEPT ![t] = q],
         unsaved' = [unsaved EXCEPT ![t] = un], TakenOK(u, q, un)
  PROVE  Pending'
<1>1. ASSUME NEW s \in Tabs PROVE TakenOK(tab'[s], open'[s], unsaved'[s])
  <2>1. CASE s = t
    BY <2>1 DEF IInv, Shapes
  <2>2. CASE s # t
    <3>1. tab'[s] = tab[s] /\ open'[s] = open[s] /\ unsaved'[s] = unsaved[s]
      BY <2>2 DEF IInv, Shapes
    <3> QED BY <3>1 DEF Pending
  <2> QED BY <2>1, <2>2
<1> QED BY <1>1 DEF Pending, TakenOK, Differs

LEMMA EditPending ==
  ASSUME IInv, Pending, NEW t \in Tabs, NEW k \in Keys, NEW v \in Values \cup {Unset},
         Edit(t, k, v)
  PROVE  Pending'
<1> DEFINE form == [tab[t].form EXCEPT ![k] = v]
           u == [tab[t] EXCEPT !.form = form, !.dirty = (form # tab[t].formOriginal)]
           calm == tab[t].busy = {} /\ tab[t].draftBaseHash # NoHash
           un == (unsaved[t] \ {k}) \cup IF calm /\ v # tab[t].formOriginal[k] THEN {k} ELSE {}
           q == open[t]
           a == NoLongerTook(q, {k})
<1>1. /\ tab' = [tab EXCEPT ![t] = u] /\ open' = [open EXCEPT ![t] = a]
      /\ unsaved' = [unsaved EXCEPT ![t] = un]
  BY TabParts DEF Edit, TabStates, IInv, Shapes
<1>2. /\ u.form = form /\ u.formOriginal = tab[t].formOriginal
      /\ u.dirty = (form # tab[t].formOriginal)
  BY TabParts DEF TabStates
<1>3. form[k] = v /\ \A l \in Keys \ {k} : form[l] = tab[t].form[l]
  BY TabParts DEF TabStates, Overrides
<1> HIDE DEF form, u
<1>4. ASSUME NEW keys \in SUBSET Keys, Differs(tab[t], keys)
      PROVE  Differs(u, keys \ {k})
  BY <1>2, <1>3, <1>4 DEF Differs
<1>5. ASSUME v # tab[t].formOriginal[k] PROVE Differs(u, {k})
  BY <1>2, <1>3, <1>5 DEF Differs
<1>6. Differs(u, un)
  <2>1. Differs(u, unsaved[t] \ {k})
    BY <1>4, TabParts DEF Pending, TakenOK
  <2> QED BY <1>5, <2>1 DEF Differs
<1>7. /\ Len(a) = Len(q) /\ Len(q) \in Nat
      /\ \A n \in 1 .. Len(q) : /\ q[n].took \in SUBSET Keys
                                /\ a[n].took = q[n].took \ {k} /\ a[n].op = q[n].op
  <2>1. \A r \in Requests : r.took \in SUBSET Keys
    BY DEF Requests
  <2>2. q \in Seq(Requests)
    BY TabParts
  <2>3. ASSUME NEW n \in 1 .. Len(q)
        PROVE  q[n] \in Requests /\ a[n].took = q[n].took \ {k} /\ a[n].op = q[n].op
    BY <2>2, NoLongerTookIs
  <2>4. Len(a) = Len(q) /\ Len(q) \in Nat
    BY <2>2, NoLongerTookIs
  <2> QED BY <2>1, <2>3, <2>4
<1>8. ASSUME NEW n \in 1 .. Len(q), q[n].op \in Submits PROVE un = {}
  <2>1. tab[t].busy # {}
    BY <1>8, TabParts DEF QueueOK, Holds
  <2>2. unsaved[t] = {}
    BY <1>8 DEF Pending, TakenOK
  <2> QED BY <2>1, <2>2
<1> HIDE DEF un, a
<1>9. ASSUME NEW n \in 1 .. Len(q) PROVE Differs(u, a[n].took)
  BY <1>4, <1>7 DEF Pending, TakenOK
<1>10. TakenOK(u, a, un)
  BY <1>6, <1>7, <1>8, <1>9 DEF Pending, TakenOK
<1> QED BY <1>1, <1>10, OneTabPending

LEMMA ResetPending ==
  ASSUME IInv, Pending, NEW t \in Tabs, Reset(t)
  PROVE  Pending'
<1> DEFINE u == [tab[t] EXCEPT !.form = tab[t].formOriginal, !.dirty = FALSE,
                               !.draftBaseHash = tab[t].hash, !.rebased = TRUE]
<1>1. /\ tab' = [tab EXCEPT ![t] = u] /\ open' = [open EXCEPT ![t] = TookNothing(open[t])]
      /\ unsaved' = [unsaved EXCEPT ![t] = {}]
  BY TabParts DEF Reset, TabStates, NothingUnsaved
<1> HIDE DEF u
<1> QED BY <1>1, TabParts, ForgetAll, OneTabPending

LEMMA LoadPending ==
  ASSUME IInv, Pending, NEW t \in Tabs, NEW discard \in BOOLEAN, Load(t, discard)
  PROVE  Pending'
<1> DEFINE u == [tab[t] EXCEPT !.loading = TRUE]
           r == [Blank("config.get") EXCEPT !.discard = discard]
<1>1. /\ tab' = [tab EXCEPT ![t] = u] /\ open' = [open EXCEPT ![t] = Append(open[t], r)]
      /\ unsaved' = [unsaved EXCEPT ![t] = unsaved[t]]
  BY TabParts DEF Load, TabStates, IInv, Shapes
<1>2. u.dirty = tab[t].dirty /\ u.form = tab[t].form /\ u.formOriginal = tab[t].formOriginal
  BY TabParts DEF TabStates
<1>3. r \in Requests /\ r.op = "config.get" /\ r.took = {}
  BY BlankType DEF Requests, Blank
<1> HIDE DEF u, r
<1>4. TakenOK(u, open[t], unsaved[t])
  BY <1>2, SameDraft DEF Pending
<1>5. Differs(u, {}) /\ Differs(u, unsaved[t]) /\ r.op \notin Submits
  BY <1>3, <1>4 DEF Differs, TakenOK, Submits
<1>6. TakenOK(u, Append(open[t], r), unsaved[t])
  <2>1. (\E n \in 1 .. Len(open[t]) : open[t][n].op \in Submits) => unsaved[t] = {}
    BY <1>4 DEF TakenOK
  <2> QED BY <1>3, <1>4, <1>5, <2>1, TabParts, TakenAppend
<1> QED BY <1>1, <1>6, OneTabPending

LEMMA SubmitPending ==
  ASSUME IInv, Pending, NEW t \in Tabs, NEW op \in Submits, Submit(t, op)
  PROVE  Pending'
<1> DEFINE u == [tab[t] EXCEPT !.busy = @ \cup {op}]
<1>1. /\ tab' = [tab EXCEPT ![t] = u]
      /\ unsaved' = [unsaved EXCEPT ![t] = {}]
  BY TabParts DEF Submit, TabStates, NothingUnsaved
<1>2. u.dirty = tab[t].dirty /\ u.form = tab[t].form /\ u.formOriginal = tab[t].formOriginal
  BY TabParts DEF TabStates
<1>3. PICK r : SubmitSent(t, op, r) /\ open' = [open EXCEPT ![t] = Append(open[t], r)]
  BY SubmitRequest
<1> HIDE DEF u
<1>4. TakenOK(u, open[t], unsaved[t])
  BY <1>2, SameDraft DEF Pending
<1>5. Differs(u, {}) /\ Differs(u, r.took)
  BY <1>3, <1>4 DEF Differs, TakenOK, SubmitSent
<1>6. TakenOK(u, Append(open[t], r), {})
  <2>1. (\E n \in 1 .. Len(open[t]) : open[t][n].op \in Submits) => r.took = {}
    BY <1>3, <1>4 DEF TakenOK, SubmitSent
  <2> QED BY <1>3, <1>4, <1>5, <2>1, TabParts, TakenAppend DEF SubmitSent
<1> QED BY <1>1, <1>3, <1>6, OneTabPending

LEMMA GetReturnsPending ==
  ASSUME IInv, Pending, NEW t \in Tabs, GetReturns(t)
  PROVE  Pending'
<1> DEFINE r == Head(open[t])
           s == ApplySnapshot(t, r)
           u == [s EXCEPT !.loading = FALSE, !.busy = @ \ r.awaitedBy]
           q == Tail(open[t])
<1>1. open[t] # <<>> /\ r.op = "config.get" /\ r.stage = "done"
  BY DEF GetReturns, Answered
<1>2. r \in Requests /\ Honest(r) /\ q \in Seq(Requests)
  BY <1>1, TabParts, HeadOK, HeadTailProperties
<1>3. tab' = [tab EXCEPT ![t] = u]
  BY DEF GetReturns, Finished
<1>4. TakenOK(tab[t], q, unsaved[t])
  BY <1>1, TabParts, TakenTail DEF Pending
<1>5. CASE r.discard
  <2>1. /\ open' = [open EXCEPT ![t] = TookNothing(q)]
        /\ unsaved' = [unsaved EXCEPT ![t] = {}]
    BY <1>5 DEF GetReturns, NothingUnsaved
  <2> HIDE DEF r, u, q
  <2> QED BY <1>2, <1>3, <2>1, ForgetAll, OneTabPending
<1>6. CASE ~r.discard
  <2>1. /\ open' = [open EXCEPT ![t] = q]
        /\ unsaved' = [unsaved EXCEPT ![t] = unsaved[t]]
    BY <1>6 DEF GetReturns, IInv, Shapes
  <2>2. CASE tab[t].dirty
    <3>1. s = KeepDraft(t, r)
      BY <1>6, <2>2 DEF ApplySnapshot, PreservesPending
    <3>2. /\ u.dirty = tab[t].dirty /\ u.form = tab[t].form
          /\ u.formOriginal = tab[t].formOriginal
      BY <3>1, TabParts DEF KeepDraft, TabStates
    <3> HIDE DEF u, q
    <3> QED BY <1>3, <1>4, <2>1, <3>2, SameDraft, OneTabPending
  <2>3. CASE ~tab[t].dirty
    <3> HIDE DEF u, q
    <3>1. unsaved[t] = {} /\ NoneTaken(q)
      BY <1>4, <2>3, CleanTakesNothing
    <3> QED BY <1>3, <2>1, <3>1, NoneTakenOK, OneTabPending
  <2> QED BY <2>2, <2>3
<1> QED BY <1>5, <1>6

LEMMA SubmitReturnsPending ==
  ASSUME IInv, Pending, NEW t \in Tabs, NEW op \in Submits, SubmitReturns(t, op)
  PROVE  Pending'
<1> DEFINE u == [tab[t] EXCEPT !.dirty = FALSE, !.draftBaseHash = NoHash,
                               !.rebased = TRUE, !.loading = TRUE]
           r == [Blank("config.get") EXCEPT !.awaitedBy = {op}]
           q == Tail(open[t])
<1>1. open[t] # <<>> /\ Head(open[t]).op \in Submits
  BY DEF SubmitReturns, Answered
<1>2. unsaved[t] = {} /\ NoneTaken(q) /\ q \in Seq(Requests)
  BY <1>1, TabParts, TakenTail, HeadTailProperties DEF Pending
<1>3. /\ tab' = [tab EXCEPT ![t] = u] /\ open' = [open EXCEPT ![t] = Append(q, r)]
      /\ unsaved' = [unsaved EXCEPT ![t] = {}]
  BY <1>2, TabParts DEF SubmitReturns, TabStates, IInv, Shapes
<1>4. r \in Requests /\ r.op = "config.get" /\ r.took = {}
  BY BlankType DEF Requests, Blank
<1> HIDE DEF u, q, r
<1>5. TakenOK(u, Append(q, r), {})
  BY <1>2, <1>4, NoneTakenOK, TakenAppend DEF Differs, Submits
<1> QED BY <1>3, <1>5, OneTabPending

LEMMA SubmitFailsPending ==
  ASSUME IInv, Pending, NEW t \in Tabs, SubmitFails(t)
  PROVE  Pending'
<1> DEFINE r == Head(open[t])
           rest == Tail(open[t])
           later == {n \in DOMAIN rest : rest[n].op \in Submits}
           a == [n \in DOMAIN rest |->
                  [rest[n] EXCEPT !.took = @ \cup IF n \in later THEN r.took ELSE {}]]
           u == [tab[t] EXCEPT !.busy = @ \ {r.op}]
           un == IF later = {} THEN r.took ELSE {}
<1>1. open[t] # <<>> /\ r.stage = "failed"
  BY DEF SubmitFails
<1>2. r \in Requests /\ Honest(r) /\ r.op \in Submits
  BY <1>1, TabParts, HeadOK, OnlySubmits
<1>3. rest \in Seq(Requests) /\ r.took \in SUBSET Keys
  BY <1>1, <1>2, HeadTailProperties, TabParts DEF Requests
<1>4. /\ unsaved[t] = {} /\ NoneTaken(rest) /\ Differs(tab[t], r.took)
  BY <1>1, <1>2, TabParts, TakenTail DEF Pending
<1>5. u.dirty = tab[t].dirty /\ u.form = tab[t].form /\ u.formOriginal = tab[t].formOriginal
  BY TabParts DEF TabStates
<1>6. Differs(u, r.took)
  BY <1>4, <1>5 DEF Differs
<1>7. /\ tab' = [tab EXCEPT ![t] = u] /\ open' = [open EXCEPT ![t] = a]
      /\ unsaved' = [unsaved EXCEPT ![t] = un]
  BY <1>4, TabParts DEF SubmitFails, TabStates, IInv, Shapes
<1>8. ASSUME NEW m \in 1 .. Len(rest), NEW n \in 1 .. Len(rest),
             rest[m].op \in Submits, rest[n].op \in Submits
      PROVE  m = n
  <2>1. /\ QueueOK(rest, tab[t].busy)
        /\ \A i \in 1 .. Len(rest) : \A op \in Submits :
             Holds(rest[i], op) => ~Holds(r, op)
    BY <1>1, TabParts, TailOK
  <2>2. rest[m].op # r.op /\ rest[n].op # r.op
    BY <1>2, <1>8, <2>1 DEF Holds
  <2>3. rest[m].op = rest[n].op
    BY <1>2, <1>8, <2>2 DEF Submits
  <2> QED BY <1>8, <2>1, <2>3 DEF QueueOK, Holds
<1> HIDE DEF r, rest, u
<1>9. /\ Len(rest) \in Nat /\ DOMAIN rest = 1 .. Len(rest)
      /\ \A n \in 1 .. Len(rest) : rest[n] \in Requests
  BY <1>3, LenProperties, ElementOfSeq
<1>10. \A n \in 1 .. Len(rest) :
         /\ a[n] \in Requests /\ a[n].op = rest[n].op
         /\ a[n].took = IF n \in later THEN r.took ELSE {}
  BY <1>3, <1>4, <1>9 DEF NoneTaken, Requests
<1>11. Len(a) = Len(rest)
  <2>1. a \in [1 .. Len(rest) -> Requests]
    BY <1>9, <1>10
  <2>2. a \in Seq(Requests)
    BY <1>9, <2>1, SeqDef
  <2> QED BY <1>9, <2>1, <2>2, LenProperties
<1>12. \A n \in 1 .. Len(rest) : n \in later <=> rest[n].op \in Submits
  BY <1>9
<1> HIDE DEF a, later
<1>13. Differs(u, un)
  BY <1>6 DEF Differs
<1>14. TakenOK(u, a, un)
  <2>1. ASSUME NEW n \in 1 .. Len(a)
        PROVE  /\ Differs(u, a[n].took)
               /\ a[n].op \in Submits => un = {}
               /\ a[n].op \notin Submits => a[n].took = {}
    <3>1. Differs(u, {})
      BY DEF Differs
    <3> QED BY <1>6, <1>10, <1>11, <1>12, <3>1
  <2>2. ASSUME NEW n \in 1 .. Len(a), NEW m \in 1 .. Len(a), m < n, a[m].op \in Submits
        PROVE  a[n].took = {}
    <3>1. m # n
      BY <1>9, <1>11, <2>2
    <3> QED BY <1>8, <1>10, <1>11, <1>12, <2>2, <3>1
  <2> QED BY <1>13, <2>1, <2>2 DEF TakenOK
<1> QED BY <1>7, <1>14, OneTabPending

LEMMA DisconnectPending ==
  ASSUME IInv, Pending, NEW t \in Tabs, Disconnect(t)
  PROVE  Pending'
<1> DEFINE u == [tab[t] EXCEPT !.loading = FALSE, !.busy = {}]
           un == unsaved[t] \cup UNION {r.took : r \in ToSet(open[t])}
<1>1. /\ tab' = [tab EXCEPT ![t] = u] /\ open' = [open EXCEPT ![t] = <<>>]
      /\ unsaved' = [unsaved EXCEPT ![t] = un]
  BY TabParts DEF Disconnect, TabStates
<1>2. u.dirty = tab[t].dirty /\ u.form = tab[t].form /\ u.formOriginal = tab[t].formOriginal
  BY TabParts DEF TabStates
<1> HIDE DEF u
<1>3. ASSUME NEW k \in un PROVE Differs(tab[t], {k})
  <2>1. CASE k \in unsaved[t]
    BY <2>1 DEF Pending, TakenOK, Differs
  <2>2. CASE \E n \in 1 .. Len(open[t]) : k \in open[t][n].took
    BY <2>2 DEF Pending, TakenOK, Differs
  <2>3. DOMAIN open[t] = 1 .. Len(open[t])
    BY TabParts, LenProperties
  <2> QED BY <2>1, <2>2, <2>3 DEF ToSet
<1>4. Differs(u, un)
  BY <1>2, <1>3 DEF Differs
<1>5. TakenOK(u, <<>>, un)
  BY <1>4, EmptySeq DEF TakenOK
<1> HIDE DEF un
<1> QED BY <1>1, <1>5, OneTabPending

(* What every step of the gateway does to the request it serves.           *)
LEMMA Served ==
  ASSUME IInv, NEW r \in Serving, Serve(r)
  PROVE  /\ UNCHANGED <<tab, unsaved>>
         /\ \E next \in Requests : /\ Becomes(r, next)
                                   /\ next.op = r.op /\ next.took = r.took
<1>1. UNCHANGED <<tab, unsaved>>
  BY DEF Serve, ReadConfig, ReadSource, Upsert, UpsertFails, ReadOverride, ReloadConfig
<1>2. r \in Requests /\ Honest(r)
  BY ServingOK
<1>3. CASE ReadConfig(r)
  <2>1. PICK read \in Readings :
          Becomes(r, [r EXCEPT !.hash = Hash(read), !.stage = "config"]) /\ CountFault(read)
    BY <1>3 DEF ReadConfig
  <2>2. Hash(read) \in Hashes
    BY <2>1, ReadingOK, ReadTypes
  <2> DEFINE next == [r EXCEPT !.hash = Hash(read), !.stage = "config"]
  <2>3. next \in Requests /\ next.op = r.op /\ next.took = r.took
    BY <1>2, <2>2 DEF Requests
  <2> HIDE DEF next
  <2> QED BY <1>1, <2>1, <2>3 DEF next
<1>4. CASE ReadSource(r)
  <2>1. PICK read \in Readings :
          Becomes(r, [r EXCEPT !.data = SourceConfig(read), !.stage = "done"]) /\ CountFault(read)
    BY <1>4 DEF ReadSource
  <2>2. SourceConfig(read) \in Overrides
    BY <2>1, ReadingOK, ReadTypes
  <2> DEFINE next == [r EXCEPT !.data = SourceConfig(read), !.stage = "done"]
  <2>3. next \in Requests /\ next.op = r.op /\ next.took = r.took
    BY <1>2, <2>2 DEF Requests
  <2> HIDE DEF next
  <2> QED BY <1>1, <2>1, <2>3 DEF next
<1>5. ASSUME NEW k \in Keys, Upsert(r, k) PROVE Becomes(r, [r EXCEPT !.left = @ \ {k}])
  BY <1>5 DEF Upsert
<1>6. ASSUME NEW k \in Keys
      PROVE  LET next == [r EXCEPT !.left = @ \ {k}]
             IN next \in Requests /\ next.op = r.op /\ next.took = r.took
  BY <1>2 DEF Requests
<1>7. ASSUME NEW k \in Keys, ReadOverride(r, k)
      PROVE  \E next \in Requests : Becomes(r, next) /\ next.op = r.op /\ next.took = r.took
  BY <1>7, ReadOverrideNext DEF OverrideRead
<1>8. CASE UpsertFails(r)
  <2>1. r.op \in Submits
    BY <1>2, <1>8, OnlySubmits DEF UpsertFails
  <2> QED BY <1>1, <1>2, <1>8, <2>1, DoneType DEF UpsertFails
<1>9. CASE ReloadConfig(r)
  <2>1. r.op \in Submits
    BY <1>2, <1>9, OnlySubmits DEF ReloadConfig
  <2> QED BY <1>1, <1>2, <1>9, <2>1, DoneType, DoneIs DEF ReloadConfig
<1> QED BY <1>1, <1>3, <1>4, <1>5, <1>6, <1>7, <1>8, <1>9 DEF Serve

LEMMA ServePending ==
  ASSUME IInv, Pending, NEW r \in Serving, Serve(r)
  PROVE  Pending'
<1>1. PICK next \in Requests : Becomes(r, next) /\ next.op = r.op /\ next.took = r.took
  BY Served
<1>2. tab' = tab /\ unsaved' = unsaved
  BY Served
<1>3. CASE open' = open
  BY <1>2, <1>3 DEF Pending
<1>4. ASSUME NEW t \in Tabs, open[t] # <<>>, Head(open[t]) = r,
             open' = [open EXCEPT ![t] = <<next>> \o Tail(@)]
      PROVE  Pending'
  <2> DEFINE a == <<next>> \o Tail(open[t])
  <2>1. /\ Len(a) = Len(open[t]) /\ Len(open[t]) \in Nat
        /\ a[1] = next /\ open[t][1] = r
        /\ \A n \in 2 .. Len(open[t]) : a[n] = open[t][n]
    BY <1>4, TabParts, Replaced
  <2>2. /\ open' = [open EXCEPT ![t] = a] /\ tab' = [tab EXCEPT ![t] = tab[t]]
        /\ unsaved' = [unsaved EXCEPT ![t] = unsaved[t]]
    BY <1>2, <1>4, TabParts DEF IInv, Shapes
  <2> HIDE DEF a
  <2>3. \A n \in 1 .. Len(open[t]) : a[n].op = open[t][n].op /\ a[n].took = open[t][n].took
    BY <1>1, <2>1
  <2>4. TakenOK(tab[t], a, unsaved[t])
    BY <2>1, <2>3, TakenAlike DEF Pending
  <2> QED BY <2>2, <2>4, OneTabPending
<1> QED BY <1>1, <1>3, <1>4 DEF Becomes

LEMMA PendingInit == Init => Pending
<1> SUFFICES ASSUME Init PROVE Pending
  OBVIOUS
<1>1. ASSUME NEW t \in Tabs PROVE TakenOK(tab[t], open[t], unsaved[t])
  <2>1. open[t] = <<>> /\ unsaved[t] = {}
    BY DEF Init
  <2>2. NoneTaken(<<>>)
    BY EmptySeq DEF NoneTaken
  <2> QED BY <2>1, <2>2, NoneTakenOK
<1> QED BY <1>1 DEF Pending

LEMMA PendingNext == IInv /\ Pending /\ [Next]_vars => Pending'
<1> SUFFICES ASSUME IInv, Pending, [Next]_vars PROVE Pending'
  OBVIOUS
<1>1. ASSUME NEW t \in Tabs, User(t) PROVE Pending'
  BY <1>1, EditPending, ResetPending, LoadPending, SubmitPending DEF User
<1>2. ASSUME NEW t \in Tabs, Returns(t) PROVE Pending'
  BY <1>2, GetReturnsPending, SubmitFailsPending, SubmitReturnsPending DEF Returns
<1>3. CASE UNCHANGED vars
  BY <1>3 DEF vars, Pending
<1> QED BY <1>1, <1>2, <1>3, DisconnectPending, ServePending DEF Next

(* What was typed while nothing was being saved is a pending change until  *)
(* a submit takes it along or the user drops it, whatever answers come     *)
(* late, whatever fails, and however often the connection breaks.          *)
THEOREM UnsavedStaysDirty == Spec => []UnsavedIsDirty
<1>1. Pending => UnsavedIsDirty
  BY DEF Pending, TakenOK, Differs, UnsavedIsDirty
<1>2. Spec => []Pending
  BY InductiveInvariant, PendingInit, PendingNext, PTL DEF Spec
<1> QED BY <1>1, <1>2, PTL

-------------------------------------------------------------------------------
(* What keeps the configuration in memory right: a reload has read what    *)
(* the table still holds, and while the two differ a submit is at work.    *)
Working(r) == r.op \in Submits /\ Begun(r) /\ ~Over(r)
HasRead(r) == r.stage = "reading" => \A k \in Keys \ r.left : r.data[k] = db[k]

Followed ==
  ~disturbed => /\ \A r \in Serving : HasRead(r)
                /\ runtime = Effective(db) \/ \E r \in Serving : Working(r)

Alike(r, s) == r.op = s.op /\ r.stage = s.stage /\ r.data = s.data /\ r.left = s.left

LEMMA AlikeActs ==
  ASSUME NEW r, NEW s, Alike(r, s)
  PROVE  (HasRead(r) <=> HasRead(s)) /\ (Working(r) <=> Working(s))
BY DEF Alike, HasRead, Working, Begun, Over

(* A step of a tab, or the loss of its connection: requests that are being *)
(* served go on, others are at most looked at next.                        *)
LEMMA OneTabFollowed ==
  ASSUME IInv, Followed, UNCHANGED serverVars, NEW t \in Tabs, NEW q,
         open' = [open EXCEPT ![t] = q],
         orphans \subseteq orphans',
         \A r \in orphans' \ orphans : open[t] # <<>> /\ r = Head(open[t]),
         q # <<>> => \/ Head(q).stage # "reading"
                     \/ open[t] # <<>> /\ Alike(Head(q), Head(open[t])),
         open[t] # <<>> /\ Working(Head(open[t])) =>
           \/ q # <<>> /\ Alike(Head(q), Head(open[t]))
           \/ Head(open[t]) \in orphans'
  PROVE  Followed'
<1>1. open'[t] = q /\ \A s \in Tabs \ {t} : open'[s] = open[s]
  BY DEF IInv, Shapes
<1>2. db' = db /\ runtime' = runtime /\ disturbed' = disturbed
  BY DEF serverVars
<1>3. ASSUME ~disturbed, NEW r \in Serving'
      PROVE  HasRead(r)'
  <2>1. CASE r \in Serving
    BY <1>2, <1>3, <2>1 DEF Followed, HasRead
  <2>2. CASE q # <<>> /\ r = Head(q)
    <3>1. CASE r.stage # "reading"
      BY <3>1 DEF HasRead
    <3>2. CASE open[t] # <<>> /\ Alike(r, Head(open[t]))
      <4>1. Head(open[t]) \in Serving
        BY <3>2 DEF Serving
      <4>2. HasRead(r)
        BY <1>3, <3>2, <4>1, AlikeActs DEF Followed
      <4> QED BY <1>2, <4>2 DEF HasRead
    <3> QED BY <2>2, <3>1, <3>2
  <2>3. r \in Serving \/ (q # <<>> /\ r = Head(q))
    BY <1>1, <1>3 DEF Serving
  <2> QED BY <2>1, <2>2, <2>3
<1>4. ASSUME NEW r \in Serving, Working(r)
      PROVE  \E s \in Serving' : Working(s)
  <2>1. CASE r \in orphans \/ \E s \in Tabs \ {t} : open[s] # <<>> /\ r = Head(open[s])
    BY <1>1, <1>4, <2>1 DEF Serving
  <2>2. CASE open[t] # <<>> /\ r = Head(open[t])
    <3>1. CASE q # <<>> /\ Alike(Head(q), r)
      <4>1. Head(q) \in Serving'
        BY <1>1, <3>1 DEF Serving
      <4> QED BY <1>4, <3>1, <4>1, AlikeActs
    <3>2. CASE r \in orphans'
      BY <1>4, <3>2 DEF Serving
    <3> QED BY <1>4, <2>2, <3>1, <3>2
  <2> QED BY <2>1, <2>2 DEF Serving
<1>5. (\E s \in Serving' : Working(s)) => (\E s \in Serving : Working(s))'
  BY DEF Working, Begun, Over
<1> QED BY <1>2, <1>3, <1>4, <1>5 DEF Followed

LEMMA HistoryFollowed ==
  ASSUME IInv, Followed, UNCHANGED <<serverVars, orphans>>, NEW t \in Tabs, NEW keys,
         open' = [open EXCEPT ![t] = NoLongerTook(open[t], keys)]
  PROVE  Followed'
<1> DEFINE q == NoLongerTook(open[t], keys)
<1>1. open[t] \in Seq(Requests) /\ q \in Seq(Requests)
  BY TabParts, NoLongerTookOK
<1>2. Len(q) = Len(open[t]) /\ Len(q) \in Nat
  BY <1>1, NoLongerTookIs
<1>3. ASSUME NEW n \in 1 .. Len(open[t]) PROVE Alike(q[n], open[t][n])
  <2>1. /\ q[n].op = open[t][n].op /\ q[n].stage = open[t][n].stage
        /\ q[n].left = open[t][n].left /\ q[n].data = open[t][n].data
    BY <1>1, NoLongerTookIs
  <2> QED BY <2>1 DEF Alike
<1> HIDE DEF q
<1>4. (q # <<>> <=> open[t] # <<>>) /\ (q # <<>> => Alike(Head(q), Head(open[t])))
  <2>1. q # <<>> <=> open[t] # <<>>
    BY <1>1, <1>2, EmptySeq
  <2>2. ASSUME q # <<>> PROVE Alike(Head(q), Head(open[t]))
    <3>1. 1 \in 1 .. Len(q)
      BY <1>1, <1>2, <2>2, EmptySeq
    <3>2. Head(q) = q[1] /\ Head(open[t]) = open[t][1]
      BY <1>1, <2>1, <2>2, HeadTailProperties
    <3> QED BY <1>2, <1>3, <3>1, <3>2
  <2> QED BY <2>1, <2>2
<1>5. open' = [open EXCEPT ![t] = q]
  BY DEF q
<1> QED BY <1>4, <1>5, OneTabFollowed

LEMMA AppendFollowed ==
  ASSUME IInv, Followed, UNCHANGED <<serverVars, orphans>>, NEW t \in Tabs,
         NEW r \in Requests, r.stage = "sent",
         open' = [open EXCEPT ![t] = Append(open[t], r)]
  PROVE  Followed'
<1> DEFINE a == Append(open[t], r)
           q == open[t]
<1>1. /\ a \in Seq(Requests) /\ Len(a) = Len(q) + 1 /\ Len(q) \in Nat
      /\ \A i \in 1 .. Len(q) : a[i] = q[i]
      /\ a[Len(q) + 1] = r
  BY TabParts, AppendProperties, LenProperties
<1>2. open' = [open EXCEPT ![t] = a]
  OBVIOUS
<1> HIDE DEF a
<1>3. a # <<>> /\ Head(a) = a[1]
  BY <1>1, HeadTailProperties, EmptySeq
<1>4. CASE q = <<>>
  <2>1. Head(a) = r
    BY <1>1, <1>3, <1>4, EmptySeq
  <2> QED BY <1>2, <1>4, <2>1, OneTabFollowed
<1>5. CASE q # <<>>
  <2>1. Head(q) = q[1] /\ Len(q) > 0
    BY <1>1, <1>5, TabParts, HeadTailProperties, EmptySeq
  <2>2. Alike(Head(a), Head(q))
    BY <1>1, <1>3, <2>1 DEF Alike
  <2> QED BY <1>2, <1>3, <1>5, <2>2, OneTabFollowed
<1> QED BY <1>4, <1>5

(* An answer: the request at the head was over, the next was only sent.    *)
LEMMA AnswerFollowed ==
  ASSUME IInv, Followed, UNCHANGED <<serverVars, orphans>>, NEW t \in Tabs,
         open[t] # <<>>, Head(open[t]).op = "config.get" \/ Over(Head(open[t])),
         NEW q \in Seq(Requests), \A n \in 1 .. Len(q) : q[n].stage = "sent",
         open' = [open EXCEPT ![t] = q]
  PROVE  Followed'
<1>1. q # <<>> => Head(q).stage = "sent"
  BY HeadTailProperties, EmptySeq, LenProperties
<1>2. ~Working(Head(open[t]))
  BY DEF Working, Submits
<1> QED BY <1>1, <1>2, OneTabFollowed

LEMMA TailSent ==
  ASSUME IInv, NEW t \in Tabs, open[t] # <<>>
  PROVE  /\ Tail(open[t]) \in Seq(Requests)
         /\ \A n \in 1 .. Len(Tail(open[t])) : Tail(open[t])[n].stage = "sent"
<1>1. /\ Tail(open[t]) \in Seq(Requests) /\ Len(Tail(open[t])) = Len(open[t]) - 1
      /\ Len(open[t]) \in Nat
      /\ \A n \in 1 .. Len(Tail(open[t])) : Tail(open[t])[n] = open[t][n + 1]
  BY TabParts, HeadTailProperties, LenProperties
<1>2. ASSUME NEW n \in 1 .. Len(Tail(open[t]))
      PROVE  Tail(open[t])[n].stage = "sent"
  <2>1. n + 1 \in 1 .. Len(open[t]) /\ n + 1 > 1
    BY <1>1
  <2> QED BY <1>1, <2>1, TabParts DEF QueueOK
<1> QED BY <1>1, <1>2

LEMMA TookNothingSent ==
  ASSUME NEW q \in Seq(Requests), \A n \in 1 .. Len(q) : q[n].stage = "sent"
  PROVE  /\ TookNothing(q) \in Seq(Requests)
         /\ \A n \in 1 .. Len(TookNothing(q)) : TookNothing(q)[n].stage = "sent"
<1> DEFINE a == TookNothing(q)
<1>1. /\ Len(a) = Len(q) /\ Len(q) \in Nat
      /\ \A n \in 1 .. Len(q) : a[n] \in Requests /\ a[n].stage = q[n].stage
  BY NoLongerTookIs DEF TookNothing
<1>2. a \in Seq(Requests)
  <2>1. DOMAIN q = 1 .. Len(q)
    BY LenProperties
  <2>2. a \in [1 .. Len(q) -> Requests]
    BY <1>1, <2>1 DEF TookNothing, NoLongerTook
  <2> QED BY <1>1, <2>2, SeqDef
<1> QED BY <1>1, <1>2

LEMMA UserFollowed ==
  ASSUME IInv, Followed, NEW t \in Tabs, User(t)
  PROVE  Followed'
<1>1. ASSUME NEW k \in Keys, NEW v \in Values \cup {Unset}, Edit(t, k, v) PROVE Followed'
  BY <1>1, HistoryFollowed DEF Edit
<1>2. CASE Reset(t)
  BY <1>2, HistoryFollowed DEF Reset, TookNothing
<1>3. ASSUME NEW discard \in BOOLEAN, Load(t, discard) PROVE Followed'
  <2> DEFINE r == [Blank("config.get") EXCEPT !.discard = discard]
  <2>1. r \in Requests /\ r.stage = "sent"
    BY BlankType DEF Requests
  <2>2. open' = [open EXCEPT ![t] = Append(open[t], r)]
    BY <1>3 DEF Load
  <2> HIDE DEF r
  <2> QED BY <1>3, <2>1, <2>2, AppendFollowed DEF Load
<1>4. ASSUME NEW op \in Submits, Submit(t, op) PROVE Followed'
  <2>1. PICK r : SubmitSent(t, op, r) /\ open' = [open EXCEPT ![t] = Append(open[t], r)]
    BY <1>4, SubmitRequest
  <2> QED BY <1>4, <2>1, AppendFollowed DEF Submit, SubmitSent
<1> QED BY <1>1, <1>2, <1>3, <1>4 DEF User

LEMMA ReturnsFollowed ==
  ASSUME IInv, Followed, NEW t \in Tabs, Returns(t)
  PROVE  Followed'
<1> DEFINE q == Tail(open[t])
<1>1. CASE GetReturns(t)
  <2>1. open[t] # <<>> /\ Head(open[t]).op = "config.get"
    BY <1>1 DEF GetReturns, Answered
  <2>2. q \in Seq(Requests) /\ \A n \in 1 .. Len(q) : q[n].stage = "sent"
    BY <2>1, TailSent
  <2>3. CASE open' = [open EXCEPT ![t] = q]
    BY <1>1, <2>1, <2>2, <2>3, AnswerFollowed DEF GetReturns
  <2>4. CASE open' = [open EXCEPT ![t] = TookNothing(q)]
    <3> DEFINE a == TookNothing(q)
    <3>1. a \in Seq(Requests) /\ \A n \in 1 .. Len(a) : a[n].stage = "sent"
      <4> HIDE DEF q
      <4> QED BY <2>2, TookNothingSent
    <3> HIDE DEF a
    <3>2. open' = [open EXCEPT ![t] = a]
      BY <2>4 DEF a
    <3> QED BY <1>1, <2>1, <3>1, <3>2, AnswerFollowed DEF GetReturns
  <2> QED BY <1>1, <2>3, <2>4 DEF GetReturns
<1>2. CASE SubmitFails(t)
  <2>1. open[t] # <<>> /\ Over(Head(open[t]))
    BY <1>2 DEF SubmitFails, Over
  <2>2. q \in Seq(Requests) /\ \A n \in 1 .. Len(q) : q[n].stage = "sent"
    BY <2>1, TailSent
  <2>3. PICK took : open' = [open EXCEPT ![t] =
                               [n \in DOMAIN q |-> [q[n] EXCEPT !.took = took[n]]]]
                    /\ \A n \in DOMAIN q : took[n] \in SUBSET Keys
    <3> DEFINE r == Head(open[t])
               later == {n \in DOMAIN q : q[n].op \in Submits}
               took == [n \in DOMAIN q |->
                          q[n].took \cup IF n \in later THEN r.took ELSE {}]
    <3>1. \A s \in Requests : s.took \in SUBSET Keys
      BY DEF Requests
    <3>2. r \in Requests /\ \A n \in DOMAIN q : q[n] \in Requests
      BY <2>1, <2>2, TabParts, HeadOK, LenProperties, ElementOfSeq
    <3>3. \A n \in DOMAIN q : took[n] \in SUBSET Keys
      <4> HIDE DEF q, r
      <4> QED BY <3>1, <3>2
    <3>4. open' = [open EXCEPT ![t] = [n \in DOMAIN q |-> [q[n] EXCEPT !.took = took[n]]]]
      BY <1>2 DEF SubmitFails
    <3> HIDE DEF took
    <3> QED BY <3>3, <3>4
  <2> DEFINE a == [n \in DOMAIN q |-> [q[n] EXCEPT !.took = took[n]]]
  <2>4. /\ DOMAIN q = 1 .. Len(q) /\ Len(q) \in Nat
        /\ \A n \in 1 .. Len(q) : q[n] \in Requests
    BY <2>2, LenProperties, ElementOfSeq
  <2>5. \A n \in 1 .. Len(q) : a[n] \in Requests /\ a[n].stage = "sent"
    BY <2>2, <2>3, <2>4 DEF Requests
  <2>6. a \in [1 .. Len(q) -> Requests]
    BY <2>4, <2>5
  <2>7. a \in Seq(Requests)
    BY <2>4, <2>6, SeqDef
  <2>8. Len(a) = Len(q)
    BY <2>4, <2>6, <2>7, LenProperties
  <2> HIDE DEF a
  <2>9. open' = [open EXCEPT ![t] = a]
    BY <2>3 DEF a
  <2> QED BY <1>2, <2>1, <2>5, <2>7, <2>8, <2>9, AnswerFollowed DEF SubmitFails
<1>3. ASSUME NEW op \in Submits, SubmitReturns(t, op) PROVE Followed'
  <2>1. open[t] # <<>> /\ Over(Head(open[t]))
    BY <1>3 DEF SubmitReturns, Answered, Over
  <2>2. q \in Seq(Requests) /\ \A n \in 1 .. Len(q) : q[n].stage = "sent"
    BY <2>1, TailSent
  <2> DEFINE r == [Blank("config.get") EXCEPT !.awaitedBy = {op}]
             a == Append(q, r)
  <2>3. r \in Requests /\ r.stage = "sent"
    BY BlankType DEF Requests
  <2>4. open' = [open EXCEPT ![t] = a]
    BY <1>3 DEF SubmitReturns
  <2> HIDE DEF r, q
  <2>5. /\ a \in Seq(Requests) /\ Len(a) = Len(q) + 1 /\ Len(q) \in Nat
        /\ \A n \in 1 .. Len(q) : a[n] = q[n]
        /\ a[Len(q) + 1] = r
    BY <2>2, <2>3, AppendProperties, LenProperties
  <2> HIDE DEF a
  <2>6. \A n \in 1 .. Len(a) : a[n].stage = "sent"
    <3>1. \A n \in 1 .. Len(a) : n \in 1 .. Len(q) \/ n = Len(q) + 1
      BY <2>5
    <3> QED BY <2>2, <2>3, <2>5, <3>1
  <2> QED BY <1>3, <2>1, <2>4, <2>5, <2>6, AnswerFollowed DEF SubmitReturns
<1> QED BY <1>1, <1>2, <1>3 DEF Returns

LEMMA DisconnectFollowed ==
  ASSUME IInv, Followed, NEW t \in Tabs, Disconnect(t)
  PROVE  Followed'
<1>1. open[t] # <<>> /\ open' = [open EXCEPT ![t] = <<>>]
  BY DEF Disconnect
<1>2. orphans' = orphans \cup {r \in {Head(open[t])} : Begun(r) /\ ~Over(r)}
  BY DEF Disconnect
<1>3. Working(Head(open[t])) => Head(open[t]) \in orphans'
  BY <1>2 DEF Working
<1> QED BY <1>1, <1>2, <1>3, OneTabFollowed DEF Disconnect

-------------------------------------------------------------------------------
(* A step of the gateway: next stands where r stood, unless it is over and *)
(* nobody waits for it.                                                    *)
LEMMA ServingNext ==
  ASSUME IInv, NEW r, NEW next \in Requests, Becomes(r, next)
  PROVE  /\ Serving' \subseteq Serving \cup {next}
         /\ Serving \ {r} \subseteq Serving'
         /\ next \in Serving' \/ Over(next)
<1>1. ASSUME NEW t \in Tabs, open[t] # <<>>, Head(open[t]) = r,
             open' = [open EXCEPT ![t] = <<next>> \o Tail(@)], orphans' = orphans
      PROVE  /\ Serving' \subseteq Serving \cup {next}
             /\ Serving \ {r} \subseteq Serving'
             /\ next \in Serving'
  <2> DEFINE a == <<next>> \o Tail(open[t])
  <2>1. a # <<>> /\ Head(a) = next
    BY <1>1, TabParts, Replaced
  <2>2. open'[t] = a /\ \A s \in Tabs \ {t} : open'[s] = open[s]
    BY <1>1 DEF IInv, Shapes
  <2> HIDE DEF a
  <2> QED BY <1>1, <2>1, <2>2 DEF Serving
<1>2. ASSUME r \in orphans, open' = open,
             orphans' = (orphans \ {r}) \cup (IF Over(next) THEN {} ELSE {next})
      PROVE  /\ Serving' \subseteq Serving \cup {next}
             /\ Serving \ {r} \subseteq Serving'
             /\ next \in Serving' \/ Over(next)
  BY <1>2 DEF Serving
<1> QED BY <1>1, <1>2 DEF Becomes

(* The table stays as it was, and so do the other requests.                *)
LEMMA ServedFollowed ==
  ASSUME IInv, Followed, NEW r, NEW next \in Requests, Becomes(r, next),
         db' = db, ~disturbed' => ~disturbed,
         ~disturbed' => HasRead(next)',
         ~disturbed' => \/ runtime' = Effective(db)
                        \/ runtime' = runtime /\ (Working(r) => Working(next))
  PROVE  Followed'
<1>1. /\ Serving' \subseteq Serving \cup {next}
      /\ Serving \ {r} \subseteq Serving'
      /\ next \in Serving' \/ Over(next)
  BY ServingNext
<1>2. ASSUME ~disturbed', NEW s \in Serving' PROVE HasRead(s)'
  <2>1. CASE s \in Serving
    BY <1>2, <2>1 DEF Followed, HasRead
  <2>2. CASE s = next
    BY <1>2, <2>2
  <2> QED BY <1>1, <2>1, <2>2
<1>3. ASSUME NEW s \in Serving, Working(s), Working(r) => Working(next)
      PROVE  \E w \in Serving' : Working(w)
  <2>1. CASE s = r
    <3>1. next \in Serving'
      BY <1>1, <1>3, <2>1 DEF Working
    <3> QED BY <1>3, <2>1, <3>1
  <2>2. CASE s # r
    BY <1>1, <1>3, <2>2
  <2> QED BY <2>1, <2>2
<1>4. (\E w \in Serving' : Working(w)) => (\E w \in Serving : Working(w))'
  BY DEF Working, Begun, Over
<1>5. ASSUME ~disturbed'
      PROVE  runtime' = Effective(db)' \/ (\E w \in Serving : Working(w))'
  <2>1. Effective(db)' = Effective(db)
    BY DEF Effective
  <2>2. CASE runtime' = Effective(db)
    BY <2>1, <2>2
  <2>3. CASE runtime' = runtime /\ (Working(r) => Working(next))
    <3>1. runtime = Effective(db) \/ \E s \in Serving : Working(s)
      BY <1>5 DEF Followed
    <3> QED BY <1>3, <1>4, <2>1, <2>3, <3>1
  <2> QED BY <1>5, <2>2, <2>3
<1> QED BY <1>2, <1>5 DEF Followed

LEMMA UpsertFollowed ==
  ASSUME IInv, Followed, NEW r \in Serving, NEW k \in Keys, Upsert(r, k)
  PROVE  Followed'
<1>1. r \in Requests /\ Honest(r) /\ r.stage = "sent" /\ k \in r.left /\ r.op \in Submits
  BY ServingOK, OnlySubmits DEF Upsert
<1> DEFINE next == [r EXCEPT !.left = @ \ {k}]
<1>2. /\ next \in Requests /\ next.op = r.op /\ next.stage = "sent"
      /\ next.left = r.left \ {k} /\ next.data = r.data
  BY <1>1 DEF Requests
<1>3. Becomes(r, next)
  BY DEF Upsert
<1> HIDE DEF next
<1>4. Working(next)
  BY <1>1, <1>2 DEF Working, Begun, Over, Honest
<1>5. Serving' \subseteq Serving \cup {next} /\ next \in Serving'
  BY <1>2, <1>3, <1>4, ServingNext DEF Working
<1>6. ASSUME ~disturbed', NEW s \in Serving' PROVE s.stage # "reading"
  BY <1>2, <1>5, <1>6 DEF Upsert
<1>7. ~disturbed' => \A s \in Serving' : HasRead(s)'
  BY <1>6 DEF HasRead
<1>8. (\E w \in Serving : Working(w))'
  BY <1>4, <1>5 DEF Working, Begun, Over
<1> QED BY <1>7, <1>8 DEF Followed

LEMMA ReadOverrideFollowed ==
  ASSUME IInv, Followed, NEW r \in Serving, NEW k \in Keys, ReadOverride(r, k)
  PROVE  Followed'
<1>1. r.op \in Submits /\ ToRead(r) \subseteq Keys /\ r \in Requests
  BY ServingOK, ReadOverrideNext
<1>2. PICK read \in Stored \cup {Unset}, next \in Requests : OverrideRead(r, k, read, next)
  BY ReadOverrideNext
<1>3. k \in ToRead(r) /\ db' = db /\ runtime' = runtime
  BY DEF ReadOverride
<1>4. Working(next)
  BY <1>1, <1>2 DEF OverrideRead, Working, Begun, Over
<1>5. ~disturbed' => ~disturbed /\ read = db[k]
  BY <1>2 DEF OverrideRead
<1>6. ASSUME ~disturbed', NEW l \in Keys \ next.left PROVE next.data[l] = db[l]
  <2>1. /\ next.data = [r.data EXCEPT ![k] = db[k]] /\ r.data \in Overrides
        /\ next.left = ToRead(r) \ {k}
    BY <1>1, <1>2, <1>5, <1>6 DEF OverrideRead, Requests
  <2>2. CASE l = k
    BY <2>1, <2>2 DEF Overrides
  <2>3. CASE l # k
    <3>1. r.stage = "reading" /\ l \in Keys \ r.left
      BY <1>3, <1>6, <2>1, <2>3 DEF ToRead
    <3>2. r.data[l] = db[l]
      BY <1>5, <1>6, <3>1 DEF Followed, HasRead
    <3> QED BY <2>1, <2>3, <3>2 DEF Overrides
  <2> QED BY <2>2, <2>3
<1>7. ~disturbed' => HasRead(next)'
  BY <1>3, <1>6 DEF HasRead
<1> QED BY <1>2, <1>3, <1>4, <1>5, <1>7, ServedFollowed DEF OverrideRead

LEMMA ReloadConfigFollowed ==
  ASSUME IInv, Followed, NEW r \in Serving, ReloadConfig(r)
  PROVE  Followed'
<1>1. /\ r \in Requests /\ r.op \in Submits /\ r.stage = "reading" /\ r.left = {}
      /\ r.data \in Overrides
  BY ServingOK, OnlySubmits DEF ReloadConfig, Requests
<1> DEFINE next == [Done(r) EXCEPT !.stage = "done"]
<1>2. next \in Requests /\ next.stage = "done"
  BY <1>1, DoneType
<1>3. Becomes(r, next) /\ db' = db /\ disturbed' = disturbed
  BY DoneIs DEF ReloadConfig
<1> HIDE DEF next
<1>4. ASSUME ~disturbed PROVE runtime' = Effective(db)
  <2>1. \A k \in Keys : r.data[k] = db[k]
    BY <1>1, <1>4 DEF Followed, HasRead
  <2>2. Effective(r.data) = Effective(db)
    BY <2>1 DEF Effective
  <2> QED BY <2>2 DEF ReloadConfig
<1>5. HasRead(next)'
  BY <1>2 DEF HasRead
<1> QED BY <1>2, <1>3, <1>4, <1>5, ServedFollowed

LEMMA ServeFollowed ==
  ASSUME IInv, Followed, NEW r \in Serving, Serve(r)
  PROVE  Followed'
<1>1. r \in Requests /\ Honest(r)
  BY ServingOK
<1>2. CASE ReadConfig(r)
  <2>1. PICK read \in Readings :
          Becomes(r, [r EXCEPT !.hash = Hash(read), !.stage = "config"]) /\ CountFault(read)
    BY <1>2 DEF ReadConfig
  <2>2. Hash(read) \in Hashes
    BY <2>1, ReadingOK, ReadTypes
  <2> DEFINE next == [r EXCEPT !.hash = Hash(read), !.stage = "config"]
  <2>3. next \in Requests /\ next.stage = "config" /\ r.op = "config.get"
    BY <1>1, <1>2, <2>2 DEF ReadConfig, Requests
  <2>4. Becomes(r, next)
    BY <2>1
  <2> HIDE DEF next
  <2>5. HasRead(next)' /\ ~Working(r)
    BY <2>3 DEF HasRead, Working, Submits
  <2> QED BY <1>2, <2>3, <2>4, <2>5, ServedFollowed DEF ReadConfig, serverVars
<1>3. CASE ReadSource(r)
  <2>1. PICK read \in Readings :
          Becomes(r, [r EXCEPT !.data = SourceConfig(read), !.stage = "done"]) /\ CountFault(read)
    BY <1>3 DEF ReadSource
  <2>2. SourceConfig(read) \in Overrides
    BY <2>1, ReadingOK, ReadTypes
  <2> DEFINE next == [r EXCEPT !.data = SourceConfig(read), !.stage = "done"]
  <2>3. next \in Requests /\ next.stage = "done" /\ r.op = "config.get"
    BY <1>1, <1>3, <2>2 DEF ReadSource, Requests, Honest
  <2>4. Becomes(r, next)
    BY <2>1
  <2> HIDE DEF next
  <2>5. HasRead(next)' /\ ~Working(r)
    BY <2>3 DEF HasRead, Working, Submits
  <2> QED BY <1>3, <2>3, <2>4, <2>5, ServedFollowed DEF ReadSource, serverVars
<1>4. CASE UpsertFails(r)
  <2>1. r.op \in Submits
    BY <1>1, <1>4, OnlySubmits DEF UpsertFails
  <2> DEFINE next == [Done(r) EXCEPT !.stage = "failed"]
  <2>2. next \in Requests /\ next.stage = "failed"
    BY <1>1, <2>1, DoneType
  <2>3. Becomes(r, next)
    BY <1>4 DEF UpsertFails
  <2> HIDE DEF next
  <2>4. HasRead(next)' /\ (~disturbed' => ~disturbed /\ ~Working(r))
    BY <1>4, <2>2 DEF HasRead, Working, UpsertFails
  <2> QED BY <1>4, <2>2, <2>3, <2>4, ServedFollowed DEF UpsertFails
<1> QED
  BY <1>2, <1>3, <1>4, UpsertFollowed, ReadOverrideFollowed, ReloadConfigFollowed DEF Serve

LEMMA FollowedInit == Init => Followed
BY DEF Init, Followed, Serving

LEMMA FollowedNext == IInv /\ Followed /\ [Next]_vars => Followed'
<1> SUFFICES ASSUME IInv, Followed, [Next]_vars PROVE Followed'
  OBVIOUS
<1>1. CASE UNCHANGED vars
  BY <1>1 DEF vars, serverVars, Followed, Serving, HasRead, Working, Begun, Over, Effective
<1> QED
  BY <1>1, UserFollowed, ReturnsFollowed, DisconnectFollowed, ServeFollowed DEF Next

(* The agent runs with the stored configuration whenever no submit is      *)
(* being served, though tabs and lost connections interleave upserts and   *)
(* reloads, unless one failed half-way or two were reloaded at once.       *)
THEOREM RuntimeIsStored == Spec => []RuntimeFollowsDb
<1>1. Followed => RuntimeFollowsDb
  BY DEF Followed, Working, RuntimeFollowsDb
<1>2. Spec => []Followed
  BY InductiveInvariant, FollowedInit, FollowedNext, PTL DEF Spec
<1> QED BY <1>1, <1>2, PTL
================================================================================
