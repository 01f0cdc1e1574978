---------------------------- MODULE ChatScreenProofs ---------------------------
(***************************************************************************)
(* Theorems about ChatScreen, for any sessions, numbers of messages and    *)
(* budgets: the types, OnlyForThisSession, NewMessagesStay,                *)
(* StreamIsTheRuns, and DoubledOnlyWhenLate, whose invariant stands on     *)
(* that of the others.                                                     *)
(***************************************************************************)
EXTENDS ChatScreen, PickingProofs

-------------------------------------------------------------------------------
(* Sequences.                                                              *)

(* A set of positions that is not empty has a last one.                    *)
LEMMA LastPosition ==
  ASSUME NEW n \in Nat, NEW I \in SUBSET (1 .. n), I # {}
  PROVE  Max(I) \in I /\ \A k \in I : k <= Max(I)
<1> DEFINE T == {m \in Nat : \A i \in I : i <= m}
<1>1. n \in T
  OBVIOUS
<1>2. PICK m \in T : \A k \in T : m <= k
  BY <1>1, LeastNat
<1>3. PICK i \in I : TRUE
  OBVIOUS
<1>4. i \in Nat \ {0} /\ i <= m
  BY <1>2, <1>3
<1>5. m - 1 \in Nat /\ m - 1 \notin T
  BY <1>2, <1>4
<1>6. PICK j \in I : ~(j <= m - 1)
  BY <1>5
<1>7. j = m
  BY <1>2, <1>6
<1>8. m \in I /\ \A k \in I : m >= k
  BY <1>2, <1>6, <1>7
<1>9. Max(I) \in I /\ \A k \in I : Max(I) >= k
  BY <1>8 DEF Max
<1> QED
  BY <1>9

(* What appending does to the elements.                                    *)
LEMMA ConcatElements ==
  ASSUME NEW X, NEW s \in Seq(X), NEW t \in Seq(X)
  PROVE  /\ s \o t \in Seq(X) /\ ToSet(s \o t) = ToSet(s) \cup ToSet(t)
         /\ Len(s \o t) = Len(s) + Len(t)
         /\ \A k \in 1 .. Len(s) : (s \o t)[k] = s[k]
         /\ \A k \in 1 .. Len(t) : (s \o t)[Len(s) + k] = t[k]
<1>1. /\ s \o t \in Seq(X) /\ Len(s \o t) = Len(s) + Len(t)
      /\ \A k \in 1 .. Len(s) + Len(t) :
           (s \o t)[k] = IF k <= Len(s) THEN s[k] ELSE t[k - Len(s)]
  BY ConcatProperties
<1>2. /\ Len(s) \in Nat /\ DOMAIN s = 1 .. Len(s)
      /\ Len(t) \in Nat /\ DOMAIN t = 1 .. Len(t)
      /\ DOMAIN (s \o t) = 1 .. Len(s) + Len(t)
  BY <1>1, LenProperties
<1>3. \A k \in 1 .. Len(s) : k \in 1 .. Len(s) + Len(t) /\ (s \o t)[k] = s[k]
  BY <1>1, <1>2
<1>4. \A k \in 1 .. Len(t) : Len(s) + k \in 1 .. Len(s) + Len(t)
                              /\ (s \o t)[Len(s) + k] = t[k]
  BY <1>1, <1>2
<1>5. \A k \in DOMAIN (s \o t) : (s \o t)[k] \in ToSet(s) \cup ToSet(t)
  <2> TAKE k \in DOMAIN (s \o t)
  <2>1. CASE k <= Len(s)
    BY <2>1, <1>2, <1>3 DEF ToSet
  <2>2. CASE ~(k <= Len(s))
    <3>1. k - Len(s) \in 1 .. Len(t) /\ (s \o t)[k] = t[k - Len(s)]
      BY <2>2, <1>1, <1>2
    <3> QED
      BY <3>1, <1>2 DEF ToSet
  <2> QED
    BY <2>1, <2>2
<1>6. ToSet(s) \cup ToSet(t) \subseteq ToSet(s \o t)
  BY <1>2, <1>3, <1>4 DEF ToSet
<1>7. ToSet(s \o t) \subseteq ToSet(s) \cup ToSet(t)
  BY <1>5 DEF ToSet
<1> QED
  BY <1>1, <1>3, <1>4, <1>6, <1>7

(* One message is appended as a sequence of one.                           *)
LEMMA OneIsAll ==
  ASSUME NEW m \in Shown, screen \in Seq(Shown), Append1(m)
  PROVE  AppendAll(<<m>>) /\ <<m>> \in Seq(Shown) /\ ToSet(<<m>>) = {m}
<1>1. <<m>> \in Seq(Shown) /\ ToSet(<<m>>) = {m}
  BY DEF ToSet
<1>2. Append(screen, m) = screen \o <<m>>
  BY AppendIsConcat
<1>3. Sigs(<<m>>) = {Sig(m)}
  BY <1>1 DEF Sigs
<1> QED
  BY <1>1, <1>2, <1>3 DEF Append1, AppendAll

(* What is left of a sequence behind its m-th element.                     *)
LEMMA SuffixElements ==
  ASSUME NEW X, NEW s \in Seq(X), NEW m \in 0 .. Len(s)
  PROVE  /\ SubSeq(s, m + 1, Len(s)) \in Seq(X)
         /\ Len(SubSeq(s, m + 1, Len(s))) = Len(s) - m
         /\ \A k \in 1 .. Len(s) - m : SubSeq(s, m + 1, Len(s))[k] = s[m + k]
         /\ ToSet(SubSeq(s, m + 1, Len(s))) \subseteq ToSet(s)
<1> DEFINE t == SubSeq(s, m + 1, Len(s))
<1>1. Len(s) \in Nat /\ m \in Nat /\ m <= Len(s)
  OBVIOUS
<1>2. DOMAIN s = 1 .. Len(s)
  BY LenProperties
<1>3. /\ t \in Seq(X) /\ Len(t) = Len(s) - m
      /\ \A k \in 1 .. Len(s) - m : t[k] = s[m + k]
  <2>1. t \in Seq(X)
    BY <1>1
  <2>2. Len(t) = Len(s) - m
    BY <1>1
  <2>3. \A k \in 1 .. Len(s) - m : t[k] = s[m + k]
    BY <1>1
  <2> QED
    BY <2>1, <2>2, <2>3
<1> HIDE DEF t
<1>4. DOMAIN t = 1 .. Len(s) - m
  BY <1>3, LenProperties
<1>5. \A k \in DOMAIN t : m + k \in DOMAIN s /\ t[k] = s[m + k]
  BY <1>1, <1>2, <1>3, <1>4
<1>6. ToSet(t) \subseteq ToSet(s)
  BY <1>5 DEF ToSet
<1> QED
  BY <1>3, <1>6 DEF t

(* A transcript is shown whole, and beside it only what was on the screen. *)
LEMMA TailPreserved ==
  ASSUME NEW msgs \in Seq(Shown), NEW before \in Seq(Shown)
  PROVE  /\ PreserveTail(msgs, before) \in Seq(Shown)
         /\ ToSet(msgs) \subseteq ToSet(PreserveTail(msgs, before))
         /\ ToSet(PreserveTail(msgs, before)) \subseteq ToSet(msgs) \cup ToSet(before)
<1> DEFINE I == {i \in 1 .. Len(before) : Sig(before[i]) \in Sigs(msgs)}
           last == IF I # {} THEN Max(I) ELSE 0
           tail == SubSeq(before, last + 1, Len(before))
<1>1. Len(before) \in Nat /\ DOMAIN before = 1 .. Len(before)
  BY LenProperties
<1>2. last \in 0 .. Len(before)
  <2>1. I # {} => Max(I) \in I
    BY <1>1, LastPosition
  <2> QED
    BY <1>1, <2>1
<1>3. PreserveTail(msgs, before) =
        IF msgs = <<>> THEN before
        ELSE IF last = 0 \/ Sig(before[last]) # Sig(Last(msgs)) THEN msgs ELSE msgs \o tail
  BY DEF PreserveTail, SelectLastInSeq
<1> HIDE DEF last
<1>4. tail \in Seq(Shown) /\ ToSet(tail) \subseteq ToSet(before)
  BY <1>2, SuffixElements
<1> HIDE DEF tail
<1>5. ToSet(<<>>) = {}
  BY DEF ToSet
<1>6. msgs \o tail \in Seq(Shown) /\ ToSet(msgs \o tail) = ToSet(msgs) \cup ToSet(tail)
  BY <1>4, ConcatElements
<1> QED
  BY <1>3, <1>4, <1>5, <1>6

(* The text of a run after its n-th delta.                                 *)
LEMMA TextGrows ==
  ASSUME NEW r \in Runs, NEW n \in Nat \ {0}
  PROVE  /\ Text(r, n) \in Seq(Runs \X (Nat \ {0}))
         /\ Append(Text(r, n - 1), <<r, n>>) = Text(r, n)
         /\ Text(r, n)[1][1] = r
<1>1. \A k \in Nat : Text(r, k) \in Seq(Runs \X (Nat \ {0})) /\ Len(Text(r, k)) = k
  BY IsASeq, LenProperties DEF Text
<1> QED
  <2>1. n - 1 \in Nat
    OBVIOUS
  <2>2. /\ Append(Text(r, n - 1), <<r, n>>) \in Seq(Runs \X (Nat \ {0}))
        /\ Len(Append(Text(r, n - 1), <<r, n>>)) = n
        /\ \A k \in 1 .. n - 1 : Append(Text(r, n - 1), <<r, n>>)[k] = Text(r, n - 1)[k]
        /\ Append(Text(r, n - 1), <<r, n>>)[n] = <<r, n>>
    <3>1. Text(r, n - 1) \in Seq(Runs \X (Nat \ {0})) /\ Len(Text(r, n - 1)) = n - 1
      BY <1>1, <2>1
    <3>2. <<r, n>> \in Runs \X (Nat \ {0})
      OBVIOUS
    <3> QED
      BY <3>1, <3>2, AppendProperties
  <2>3. \A k \in 1 .. n : Append(Text(r, n - 1), <<r, n>>)[k] = Text(r, n)[k]
    BY <2>2 DEF Text
  <2>4. Append(Text(r, n - 1), <<r, n>>) = Text(r, n)
    BY <1>1, <2>2, <2>3, SeqEqual
  <2> QED
    BY <1>1, <2>4 DEF Text

-------------------------------------------------------------------------------
(* The inductive invariant.                                                *)

(* A run exists once its message was sent.                                 *)
Started == \A r \in Runs : phase[r] # "none" => r \in Sent

(* While a load is in flight it is for the selected session, and the       *)
(* screen is what it was when the load began, followed by what is fresh.   *)
LoadInv ==
  /\ connected \/ load = None
  /\ load # None =>
       /\ load.key = sessionKey
       /\ Len(load.before) <= Len(screen)
       /\ \A k \in DOMAIN load.before : screen[k] = load.before[k]
       /\ \A x \in fresh : \E k \in DOMAIN screen : Len(load.before) < k /\ Sig(screen[k]) = x

(* A request or a transcript of the load in flight is of its session.      *)
IsCurrent(m) == load # None /\ m.version = version
AskOK(m) == m.op = "history" => m.version <= version /\ (IsCurrent(m) => m.key = sessionKey)
TranscriptOK(m) ==
  m.op = "transcript" =>
    /\ m.version <= version
    /\ IsCurrent(m) => \A x \in ToSet(m.msgs) : Belongs(x, sessionKey, lent)

AnswersInv ==
  /\ \A k \in DOMAIN pipe : AskOK(pipe[k]) /\ TranscriptOK(pipe[k])
  /\ \A k \in DOMAIN wire : TranscriptOK(wire[k])

ScreenTypes ==
  /\ screen \in Seq(Shown)
  /\ runId \in Sent \cup {None}
  /\ stream \in Seq(Runs \X (Nat \ {0})) \cup {None}
  /\ version \in Nat
  /\ load \in [version : {version}, key : Sessions, before : Seq(Shown),
               run : Sent \cup {None}, shared : BOOLEAN] \cup {None}
  /\ seen \in [Runs -> Nat] /\ fresh \subseteq Stored /\ late \subseteq Stored

(* All that speaks of the screen and of the load it waits for.             *)
ScreenInv == ScreenTypes /\ OnlyForThisSession /\ StreamIsTheRuns /\ LoadInv /\ NewMessagesStay

PipeTypes ==
  /\ pipe \in Seq(Requests \cup Answers)
  /\ \A k \in DOMAIN pipe : pipe[k] \in Answers => k = 1
  /\ wire \in Seq(Answers \cup Events)

RunTypes ==
  /\ db \in [Sessions -> Seq(Stored)]
  /\ phase \in [Runs -> Phases] /\ deltas \in [Runs -> Nat]
  /\ cancelled \subseteq Runs
  /\ lent \in [Sessions -> SUBSET Stored]
  /\ Started

RestTypes ==
  /\ sessionKey \in Sessions /\ connected \in BOOLEAN /\ sending \in BOOLEAN
  /\ home \in Seq(Sessions) /\ Len(home) <= MaxSends
  /\ budget \in Budgets /\ faults \in Nat

(* Nothing is on its way without a connection.                             *)
OfflineInv == connected \/ (pipe = <<>> /\ wire = <<>>)

IInv == ScreenInv /\ PipeTypes /\ AnswersInv /\ OfflineInv /\ RunTypes /\ RestTypes

(* The parts of the invariant are those of TypeOK.                         *)
LEMMA InvTypes == IInv => TypeOK
  BY DEF IInv, ScreenInv, ScreenTypes, PipeTypes, RunTypes, RestTypes, TypeOK

LEMMA InitInv == Init => IInv
<1> SUFFICES ASSUME Init PROVE IInv
  OBVIOUS
<1>1. /\ DOMAIN screen = {} /\ DOMAIN pipe = {} /\ DOMAIN wire = {} /\ Sent = {}
      /\ Len(home) = 0
  BY DEF Init, Sent
<1>2. ScreenInv
  <2>1. ScreenTypes
    BY DEF Init, ScreenTypes
  <2>2. OnlyForThisSession /\ StreamIsTheRuns /\ LoadInv /\ NewMessagesStay
    BY <1>1 DEF Init, OnlyForThisSession, StreamIsTheRuns, Visible, LoadInv, NewMessagesStay
  <2> QED
    BY <2>1, <2>2 DEF ScreenInv
<1>3. PipeTypes /\ AnswersInv
  BY <1>1 DEF Init, PipeTypes, AnswersInv
<1>4. RunTypes
  BY DEF Init, RunTypes, Started, Phases
<1>5. RestTypes
  <2>1. connected \in BOOLEAN /\ sending \in BOOLEAN /\ sessionKey \in Sessions
    BY Zenon DEF Init
  <2>2. home \in Seq(Sessions) /\ Len(home) <= MaxSends /\ budget \in Budgets /\ faults \in Nat
    BY <1>1, BudgetAssumption DEF Init
  <2> QED
    BY <2>1, <2>2 DEF RestTypes
<1>6. OfflineInv
  BY DEF Init, OfflineInv
<1> QED
  BY <1>2, <1>3, <1>4, <1>5, <1>6 DEF IInv

-------------------------------------------------------------------------------
(* What is on its way.                                                     *)

(* The messages there are, when none was sent.                             *)
LEMMA KindsKept ==
  ASSUME home' = home
  PROVE  Sent' = Sent /\ Requests' = Requests /\ Answers' = Answers /\ Events' = Events
  BY DEF Sent, Requests, Answers, Events

(* What the messages carry.                                                *)
LEMMA Kinds ==
  /\ \A m \in Requests :
       /\ m.op \in {"send", "abort", "reset", "history"}
       /\ m.op \in {"send", "abort"} => m.run \in Sent
       /\ m.op \in {"reset", "history"} => m.key \in Sessions
       /\ m.op = "history" => m.version \in Nat
  /\ \A m \in Answers :
       /\ m.op \in {"acked", "refused", "cleared", "transcript"}
       /\ m.op = "acked" => m.run \in Sent
       /\ m.op = "transcript" => m.version \in Nat /\ m.msgs \in Seq(Shown)
  /\ \A m \in Events :
       /\ m.op = "event" /\ m.run \in Sent
       /\ m.state \in {"delta", "final", "aborted", "error"}
       /\ m.state = "delta" => m.count \in Nat \ {0}
       /\ m.state = "error" => m.part \in Parts
<1>1. \A m \in Requests :
       /\ m.op \in {"send", "abort", "reset", "history"}
       /\ m.op \in {"send", "abort"} => m.run \in Sent
       /\ m.op \in {"reset", "history"} => m.key \in Sessions
       /\ m.op = "history" => m.version \in Nat
  BY DEF Requests
<1>2. \A m \in Answers :
       /\ m.op \in {"acked", "refused", "cleared", "transcript"}
       /\ m.op = "acked" => m.run \in Sent
       /\ m.op = "transcript" => m.version \in Nat /\ m.msgs \in Seq(Shown)
  BY DEF Answers
<1>3. \A m \in Events :
       /\ m.op = "event" /\ m.run \in Sent
       /\ m.state \in {"delta", "final", "aborted", "error"}
       /\ m.state = "delta" => m.count \in Nat \ {0}
       /\ m.state = "error" => m.part \in Parts
  BY DEF Events
<1> QED
  BY <1>1, <1>2, <1>3

(* A run that was sent is a run, and was sent in a session.                *)
LEMMA SentRuns ==
  ASSUME RestTypes
  PROVE  Sent \subseteq Runs /\ \A r \in Sent : home[r] \in Sessions
<1>1. Len(home) \in Nat /\ DOMAIN home = 1 .. Len(home)
  BY LenProperties DEF RestTypes
<1>2. MaxSends \in Nat /\ Len(home) <= MaxSends
  BY BudgetAssumption DEF RestTypes
<1>3. \A r \in DOMAIN home : home[r] \in Sessions
  BY <1>1, ElementOfSeq DEF RestTypes
<1> QED
  BY <1>1, <1>2, <1>3 DEF Sent, Runs

(* What is on its way stays in order while no other transcript is asked    *)
(* for, and whatever is on its way is outdated when one is.                *)
LEMMA AnswersKept ==
  ASSUME version' = version, load' # None => load # None /\ sessionKey' = sessionKey,
         lent[sessionKey] \subseteq lent'[sessionKey]
  PROVE  \A m : (AskOK(m) => AskOK(m)') /\ (TranscriptOK(m) => TranscriptOK(m)')
  BY DEF AskOK, TranscriptOK, IsCurrent, Belongs

LEMMA AnswersOutdated ==
  ASSUME version \in Nat, version' = version + 1
  PROVE  /\ \A m \in Requests \cup Answers : AskOK(m) => AskOK(m)'
         /\ \A m \in Answers \cup Events \cup Requests : TranscriptOK(m) => TranscriptOK(m)'
<1>1. \A m \in Requests \cup Answers : m.op = "history" => m.version \in Nat
  BY Kinds
<1>2. \A m \in Requests \cup Answers \cup Events : m.op = "transcript" => m.version \in Nat
  BY Kinds
<1>3. \A m \in Requests \cup Answers : AskOK(m) => AskOK(m)'
  BY <1>1 DEF AskOK, IsCurrent
<1>4. \A m \in Answers \cup Events \cup Requests : TranscriptOK(m) => TranscriptOK(m)'
  BY <1>2 DEF TranscriptOK, IsCurrent
<1> QED
  BY <1>3, <1>4

-------------------------------------------------------------------------------
(* What changes the screen.                                                *)

(* Messages of the selected session are appended: the screen and the load  *)
(* in flight stay in order.                                                *)
LEMMA AppendStep ==
  ASSUME ScreenInv, NEW ms \in Seq(Shown), \A x \in ToSet(ms) : Belongs(x, sessionKey, lent),
         AppendAll(ms),
         sessionKey' = sessionKey, connected' = connected, version' = version, home' = home
  PROVE  /\ screen' \in Seq(Shown)
         /\ \A k \in DOMAIN screen' : Belongs(screen'[k], sessionKey, lent)
         /\ load' \in [version : {version'}, key : Sessions, before : Seq(Shown),
                      run : Sent' \cup {None}, shared : BOOLEAN] \cup {None}
         /\ load' # None => load # None
         /\ fresh' \subseteq Stored /\ late' \subseteq Stored
         /\ LoadInv' /\ NewMessagesStay'
<1>1. /\ screen' = screen \o ms
      /\ fresh' = fresh \cup Sigs(ms)
      /\ late' = late \/ late' = late \cup Sigs(ms)
      /\ load' = load \/ (load # None /\ load' = [load EXCEPT !.shared = FALSE])
  BY DEF AppendAll, Assign
<1>2. screen \in Seq(Shown) /\ fresh \subseteq Stored /\ late \subseteq Stored
  BY DEF ScreenInv, ScreenTypes
<1>3. /\ screen' \in Seq(Shown) /\ ToSet(screen') = ToSet(screen) \cup ToSet(ms)
      /\ Len(screen') = Len(screen) + Len(ms)
      /\ \A k \in 1 .. Len(screen) : screen'[k] = screen[k]
      /\ \A k \in 1 .. Len(ms) : screen'[Len(screen) + k] = ms[k]
  BY <1>1, <1>2, ConcatElements
<1>4. /\ Len(screen) \in Nat /\ DOMAIN screen = 1 .. Len(screen)
      /\ Len(ms) \in Nat /\ DOMAIN ms = 1 .. Len(ms)
      /\ DOMAIN screen' = 1 .. Len(screen')
  BY <1>2, <1>3, LenProperties
<1>5. \A k \in DOMAIN screen' : Belongs(screen'[k], sessionKey, lent)
  <2>1. \A x \in ToSet(screen) : Belongs(x, sessionKey, lent)
    BY DEF ToSet, ScreenInv, OnlyForThisSession
  <2>2. \A x \in ToSet(screen') : Belongs(x, sessionKey, lent)
    BY <2>1, <1>3
  <2> QED
    BY <2>2 DEF ToSet
<1>6. /\ load' \in [version : {version'}, key : Sessions, before : Seq(Shown),
                   run : Sent' \cup {None}, shared : BOOLEAN] \cup {None}
      /\ load' # None => load # None /\ load'.key = load.key /\ load'.before = load.before
  <2>1. load \in [version : {version'}, key : Sessions, before : Seq(Shown),
                  run : Sent' \cup {None}, shared : BOOLEAN] \cup {None}
    BY KindsKept DEF ScreenInv, ScreenTypes
  <2> QED
    BY <1>1, <2>1
<1>7. Sigs(ms) \subseteq Stored /\ \A x \in Sigs(ms) : \E j \in 1 .. Len(ms) : x = Sig(ms[j])
  <2>1. \A j \in 1 .. Len(ms) : ms[j] \in Shown
    BY ElementOfSeq
  <2>2. \A j \in 1 .. Len(ms) : Sig(ms[j]) \in Stored
    BY <2>1 DEF Shown, Sig, Stored
  <2> QED
    BY <2>2, <1>4 DEF Sigs, ToSet
<1>8. LoadInv'
  <2> SUFFICES ASSUME load' # None
               PROVE  /\ load'.key = sessionKey
                      /\ Len(load'.before) <= Len(screen')
                      /\ \A k \in DOMAIN load'.before : screen'[k] = load'.before[k]
                      /\ \A x \in fresh' : \E k \in DOMAIN screen' :
                                 Len(load'.before) < k /\ Sig(screen'[k]) = x
    <3>1. (connected \/ load = None) /\ (load' # None => load # None)
      BY <1>6 DEF ScreenInv, LoadInv
    <3> QED
      BY <3>1 DEF LoadInv, Sig
  <2> DEFINE b == load.before
  <2>1. /\ load.key = sessionKey /\ Len(b) <= Len(screen)
        /\ \A k \in DOMAIN b : screen[k] = b[k]
        /\ \A x \in fresh : \E k \in DOMAIN screen : Len(b) < k /\ Sig(screen[k]) = x
    BY <1>6 DEF ScreenInv, LoadInv
  <2>2. load'.key = load.key /\ load'.before = b
    BY <1>6
  <2>3. b \in Seq(Shown)
    BY <1>6 DEF ScreenInv, ScreenTypes
  <2>4. Len(b) \in Nat /\ DOMAIN b = 1 .. Len(b)
    BY <2>3, LenProperties
  <2>5. \A k \in DOMAIN b : screen'[k] = b[k]
    BY <1>3, <1>4, <2>1, <2>4
  <2>6. \A x \in fresh : \E k \in DOMAIN screen' : Len(b) < k /\ Sig(screen'[k]) = x
    BY <1>3, <1>4, <2>1
  <2>7. \A x \in Sigs(ms) : \E k \in DOMAIN screen' : Len(b) < k /\ Sig(screen'[k]) = x
    <3> TAKE x \in Sigs(ms)
    <3>1. PICK j \in 1 .. Len(ms) : x = Sig(ms[j])
      BY <1>7
    <3>2. Len(screen) + j \in DOMAIN screen' /\ Len(b) < Len(screen) + j
          /\ screen'[Len(screen) + j] = ms[j]
      BY <1>3, <1>4, <2>1, <2>4
    <3> QED
      BY <3>1, <3>2
  <2> HIDE DEF b
  <2>8. Len(b) <= Len(screen')
    BY <1>3, <1>4, <2>1, <2>4
  <2> QED
    BY <1>1, <2>1, <2>2, <2>5, <2>6, <2>7, <2>8
<1>9. NewMessagesStay'
  <2>1. fresh \subseteq Sigs(screen)
    BY DEF ScreenInv, NewMessagesStay
  <2>2. Sigs(screen \o ms) = Sigs(screen) \cup Sigs(ms)
    BY <1>1, <1>3 DEF Sigs
  <2>3. Sigs(screen)' = Sigs(screen \o ms)
    BY <1>1 DEF Sigs, Sig, ToSet
  <2> QED
    BY <1>1, <2>1, <2>2, <2>3 DEF NewMessagesStay
<1> QED
  BY <1>1, <1>2, <1>3, <1>5, <1>6, <1>7, <1>8, <1>9

(* What is streamed is the answer of the run shown.                        *)
LEMMA StreamOfRun ==
  ASSUME ScreenInv, RestTypes, Visible
  PROVE  /\ runId \in Sent /\ runId \in Runs /\ home[runId] = sessionKey
         /\ stream[1][1] = runId
<1>1. runId \in Sent /\ stream = Text(runId, seen[runId]) /\ home[runId] = sessionKey
  BY DEF ScreenInv, ScreenTypes, StreamIsTheRuns, OnlyForThisSession
<1>2. runId \in Runs /\ seen[runId] \in Nat
  BY <1>1, SentRuns DEF ScreenInv, ScreenTypes
<1>3. seen[runId] # 0
  <2> SUFFICES ASSUME seen[runId] = 0 PROVE FALSE
    OBVIOUS
  <2>1. Text(runId, 0) = <<>>
    BY DEF Text
  <2> QED
    BY <1>1, <2>1 DEF Visible
<1> QED
  BY <1>1, <1>2, <1>3, TextGrows

(* What has been streamed is a message of the run shown.                   *)
LEMMA MaterializedOfSession ==
  ASSUME ScreenInv, RestTypes
  PROVE  Materialized \in Seq(Shown) /\ \A x \in ToSet(Materialized) : Belongs(x, sessionKey, lent)
<1>1. CASE Materialized = <<>>
  BY <1>1 DEF ToSet
<1>2. CASE Materialized # <<>>
  <2>1. Visible /\ Materialized = <<Message(stream[1][1], "partial")>>
    BY <1>2 DEF Materialized
  <2>2. runId \in Runs /\ home[runId] = sessionKey /\ stream[1][1] = runId
    BY <2>1, StreamOfRun
  <2>3. sessionKey \in Sessions
    BY DEF RestTypes
  <2>4. Message(runId, "partial") \in Shown /\ Belongs(Message(runId, "partial"), sessionKey, lent)
    BY <2>2, <2>3 DEF Message, Shown, Parts, Belongs
  <2> QED
    BY <2>1, <2>2, <2>4 DEF ToSet
<1> QED
  BY <1>1, <1>2

(* An event, of whichever run.  Only one of the run shown, or of a run of  *)
(* the selected session while none is shown, touches the stream.           *)
LEMMA EventStep ==
  ASSUME ScreenInv, RestTypes, NEW m \in Events, Event(m),
         UNCHANGED <<home, connected, lent>>
  PROVE  ScreenInv' /\ (load' # None => load # None)
<1> DEFINE r == m.run
           matches == home[r] = sessionKey
           shown == IF runId = None THEN r ELSE runId
<1>1. /\ r \in Sent /\ r \in Runs /\ home[r] \in Sessions /\ r # None
      /\ m.state \in {"delta", "final", "aborted", "error"}
      /\ m.state = "delta" => m.count \in Nat \ {0}
      /\ m.state = "error" => m.part \in Parts
  BY Kinds, SentRuns, BudgetAssumption
<1>2. /\ sessionKey' = sessionKey /\ version' = version
      /\ seen' = [seen EXCEPT ![r] = IF m.state = "delta" THEN m.count ELSE 0]
  BY DEF Event
<1>3. seen' \in [Runs -> Nat] /\ \A q \in Runs : q # r => seen'[q] = seen[q]
  BY <1>1, <1>2 DEF ScreenInv, ScreenTypes
<1>4. runId = r => matches
  BY <1>1 DEF ScreenInv, OnlyForThisSession
<1>5. \A part \in Parts :
        matches => Message(r, part) \in Shown /\ Belongs(Message(r, part), sessionKey, lent)
  BY <1>1 DEF Message, Shown, Belongs
<1>6. runId \in Sent \cup {None} /\ Sent' = Sent
  BY KindsKept DEF ScreenInv, ScreenTypes
(* Nothing is appended: the stream stays, and so does its run.             *)
<1> DEFINE Quiet == UNCHANGED <<screen, load, fresh, late>>
<1>7. ASSUME Quiet
      PROVE  /\ screen' \in Seq(Shown)
             /\ \A k \in DOMAIN screen' : Belongs(screen'[k], sessionKey, lent)
             /\ load' \in [version : {version'}, key : Sessions, before : Seq(Shown),
                          run : Sent' \cup {None}, shared : BOOLEAN] \cup {None}
             /\ load' # None => load # None
             /\ fresh' \subseteq Stored /\ late' \subseteq Stored
             /\ LoadInv' /\ NewMessagesStay'
  <2>1. LoadInv' /\ NewMessagesStay'
    BY <1>2, <1>7 DEF ScreenInv, LoadInv, NewMessagesStay, Sigs, Sig
  <2> QED
    BY <1>2, <1>6, <1>7, <2>1 DEF ScreenInv, ScreenTypes, OnlyForThisSession
(* What is appended is of the selected session.                            *)
<1>8. ASSUME NEW ms \in Seq(Shown), \A x \in ToSet(ms) : Belongs(x, sessionKey, lent), AppendAll(ms)
      PROVE  /\ screen' \in Seq(Shown)
             /\ \A k \in DOMAIN screen' : Belongs(screen'[k], sessionKey, lent)
             /\ load' \in [version : {version'}, key : Sessions, before : Seq(Shown),
                          run : Sent' \cup {None}, shared : BOOLEAN] \cup {None}
             /\ load' # None => load # None
             /\ fresh' \subseteq Stored /\ late' \subseteq Stored
             /\ LoadInv' /\ NewMessagesStay'
  BY <1>2, <1>8, AppendStep
(* An answer is appended.                                                  *)
<1>9. ASSUME matches, Append1(Message(r, "answer"))
      PROVE  \E ms \in Seq(Shown) : (\A x \in ToSet(ms) : Belongs(x, sessionKey, lent)) /\ AppendAll(ms)
  <2>1. Message(r, "answer") \in Shown /\ Belongs(Message(r, "answer"), sessionKey, lent)
    BY <1>5, <1>9 DEF Parts
  <2>2. PICK a \in Shown : a = Message(r, "answer")
    BY <2>1
  <2>3. AppendAll(<<a>>) /\ <<a>> \in Seq(Shown) /\ ToSet(<<a>>) = {a}
    BY <1>9, <2>2, OneIsAll DEF ScreenInv, ScreenTypes
  <2> QED
    BY <2>1, <2>2, <2>3
<1> DEFINE Added == \E ms \in Seq(Shown) :
                      (\A x \in ToSet(ms) : Belongs(x, sessionKey, lent)) /\ AppendAll(ms)
(* What becomes of the run and the stream.                                 *)
<1>10. ASSUME Quiet \/ Added,
              \/ UNCHANGED <<runId, stream>> /\ runId # r
              \/ m.state = "delta" /\ matches /\ runId' = r /\ stream' = ResolveDelta(r, m.count)
              \/ Forget
       PROVE  ScreenInv' /\ (load' # None => load # None)
  <2>1. /\ screen' \in Seq(Shown)
        /\ \A k \in DOMAIN screen' : Belongs(screen'[k], sessionKey, lent)
        /\ load' \in [version : {version'}, key : Sessions, before : Seq(Shown),
                     run : Sent' \cup {None}, shared : BOOLEAN] \cup {None}
        /\ load' # None => load # None
        /\ fresh' \subseteq Stored /\ late' \subseteq Stored
        /\ LoadInv' /\ NewMessagesStay'
    BY <1>10, <1>7, <1>8
  <2>2. /\ runId' \in Sent' \cup {None}
        /\ stream' \in Seq(Runs \X (Nat \ {0})) \cup {None}
        /\ runId' # None => home'[runId'] = sessionKey'
        /\ StreamIsTheRuns'
    <3>1. CASE UNCHANGED <<runId, stream>> /\ runId # r
      <4>1. runId # None => runId \in Runs
        BY <1>6, SentRuns
      <4>2. runId # None => seen'[runId] = seen[runId]
        BY <3>1, <4>1, <1>3
      <4> QED
        BY <3>1, <4>2, <1>2, <1>6
           DEF ScreenInv, ScreenTypes, OnlyForThisSession, StreamIsTheRuns, Visible, Text
    <3>2. CASE m.state = "delta" /\ matches /\ runId' = r /\ stream' = ResolveDelta(r, m.count)
      <4>1. m.count \in Nat \ {0} /\ seen'[r] = m.count
        BY <3>2, <1>1, <1>2 DEF ScreenInv, ScreenTypes
      <4>2. stream' = Text(r, m.count)
        BY <3>2, <4>1, <1>1, TextGrows DEF ResolveDelta
      <4>3. stream' \in Seq(Runs \X (Nat \ {0}))
        BY <4>1, <4>2, <1>1, TextGrows
      <4> QED
        BY <3>2, <4>1, <4>2, <4>3, <1>1, <1>2, <1>6 DEF StreamIsTheRuns, Visible, Text
    <3>3. CASE Forget
      BY <3>3 DEF Forget, StreamIsTheRuns, Visible
    <3> QED
      BY <1>10, <3>1, <3>2, <3>3
  <2> QED
    BY <2>1, <2>2, <1>2, <1>3 DEF ScreenInv, ScreenTypes, OnlyForThisSession
<1>11. CASE ~matches /\ runId # r
  BY <1>11, <1>10 DEF Event
<1>12. CASE ~(~matches /\ runId # r) /\ shown # r
  <2>1. matches /\ runId # r
    BY <1>12, <1>4
  <2>2. /\ UNCHANGED <<runId, stream>>
        /\ Append1(Message(r, "answer")) \/ Quiet
    BY <1>12 DEF Event
  <2> QED
    BY <2>1, <2>2, <1>9, <1>10
<1>13. CASE ~(~matches /\ runId # r) /\ shown = r
  <2>1. matches
    BY <1>13, <1>4
  <2>2. Materialized \in Seq(Shown) /\ \A x \in ToSet(Materialized) : Belongs(x, sessionKey, lent)
    BY MaterializedOfSession
  <2>3. CASE m.state = "delta"
    <3>1. Quiet /\ runId' = r /\ stream' = ResolveDelta(r, m.count)
      BY <1>13, <2>3 DEF Event
    <3> QED
      BY <2>1, <2>3, <3>1, <1>10
  <2>4. CASE m.state = "final"
    <3>1. Append1(Message(r, "answer")) /\ Forget
      BY <1>13, <2>4 DEF Event
    <3> QED
      BY <2>1, <3>1, <1>9, <1>10
  <2>5. CASE m.state = "aborted"
    <3>1. AppendAll(Materialized) /\ Forget
      BY <1>13, <2>5 DEF Event
    <3> QED
      BY <2>2, <3>1, <1>10
  <2>6. CASE m.state = "error"
    <3> DEFINE ms == IF runId # None THEN Append(Materialized, Message(r, m.part)) ELSE <<>>
    <3>1. AppendAll(ms) /\ Forget
      BY <1>13, <2>6 DEF Event
    <3>2. ms \in Seq(Shown) /\ \A x \in ToSet(ms) : Belongs(x, sessionKey, lent)
      <4>1. Message(r, m.part) \in Shown /\ Belongs(Message(r, m.part), sessionKey, lent)
        BY <2>1, <2>6, <1>1, <1>5
      <4> DEFINE one == <<Message(r, m.part)>>
                 both == Materialized \o one
      <4>2. one \in Seq(Shown) /\ ToSet(one) = {Message(r, m.part)}
        BY <4>1 DEF ToSet
      <4>3. Append(Materialized, Message(r, m.part)) = both
        BY <2>2, <4>1, AppendIsConcat
      <4>4. <<>> \in Seq(Shown) /\ ToSet(<<>>) = {}
        BY DEF ToSet
      <4> HIDE DEF one
      <4>5. both \in Seq(Shown) /\ ToSet(both) = ToSet(Materialized) \cup ToSet(one)
        BY <2>2, <4>2, ConcatElements
      <4>6. ms = both \/ ms = <<>>
        BY <4>3
      <4> HIDE DEF both, ms
      <4> QED
        BY <2>2, <4>1, <4>2, <4>4, <4>5, <4>6
    <3> QED
      BY <3>1, <3>2, <1>10
  <2> QED
    BY <1>1, <2>3, <2>4, <2>5, <2>6
<1> QED
  BY <1>11, <1>12, <1>13

(* An acknowledgement: the question and the run appear only where they     *)
(* belong.                                                                 *)
LEMMA AcknowledgedStep ==
  ASSUME ScreenInv, RestTypes, NEW r \in Sent, Acknowledged(r),
         UNCHANGED <<home, connected, lent>>
  PROVE  ScreenInv' /\ (load' # None => load # None)
<1>1. r \in Runs /\ home[r] \in Sessions /\ r # None /\ Sent' = Sent
  BY SentRuns, KindsKept, BudgetAssumption
<1>2. sessionKey' = sessionKey /\ version' = version /\ seen' = seen
  BY DEF Acknowledged
<1>3. CASE sessionKey = home[r]
  <2>1. /\ Append1(Message(r, "question")) /\ runId' = r
        /\ stream' = IF runId = r /\ stream # None THEN stream ELSE <<>>
    BY <1>3 DEF Acknowledged
  <2>2. Message(r, "question") \in Shown /\ Belongs(Message(r, "question"), sessionKey, lent)
    BY <1>1, <1>3 DEF Message, Shown, Parts, Belongs
  <2>3. /\ AppendAll(<<Message(r, "question")>>) /\ <<Message(r, "question")>> \in Seq(Shown)
        /\ \A x \in ToSet(<<Message(r, "question")>>) : Belongs(x, sessionKey, lent)
    BY <2>1, <2>2, OneIsAll DEF ScreenInv, ScreenTypes
  <2>4. /\ screen' \in Seq(Shown)
        /\ \A k \in DOMAIN screen' : Belongs(screen'[k], sessionKey, lent)
        /\ load' \in [version : {version'}, key : Sessions, before : Seq(Shown),
                     run : Sent' \cup {None}, shared : BOOLEAN] \cup {None}
        /\ load' # None => load # None
        /\ fresh' \subseteq Stored /\ late' \subseteq Stored
        /\ LoadInv' /\ NewMessagesStay'
    BY <1>2, <2>3, AppendStep
  <2>5. stream' \in Seq(Runs \X (Nat \ {0})) \cup {None}
    BY <2>1 DEF ScreenInv, ScreenTypes
  <2>6. StreamIsTheRuns'
    <3>1. Visible' => stream' = stream /\ runId = r /\ Visible
      BY <2>1 DEF Visible
    <3> QED
      BY <1>1, <1>2, <2>1, <3>1 DEF ScreenInv, StreamIsTheRuns, Text
  <2> QED
    BY <1>1, <1>2, <1>3, <2>1, <2>4, <2>5, <2>6 DEF ScreenInv, ScreenTypes, OnlyForThisSession
<1>4. CASE sessionKey # home[r]
  <2>1. UNCHANGED <<screen, runId, stream, load, fresh, late>>
    BY <1>4 DEF Acknowledged
  <2>2. /\ LoadInv' /\ NewMessagesStay' /\ StreamIsTheRuns'
    BY <1>2, <2>1 DEF ScreenInv, LoadInv, NewMessagesStay, Sigs, Sig, StreamIsTheRuns, Visible,
                      Text
  <2> QED
    BY <1>1, <1>2, <2>1, <2>2 DEF ScreenInv, ScreenTypes, OnlyForThisSession
<1> QED
  BY <1>3, <1>4

(* A transcript: the one asked for last is of the selected session, and    *)
(* what is fresh is behind the messages the load began with.               *)
LEMMA ApplyStep ==
  ASSUME ScreenInv, RestTypes, NEW m \in Answers, m.op = "transcript", TranscriptOK(m),
         ApplyHistory(m.msgs, m.version),
         UNCHANGED <<sessionKey, home, connected, lent>>
  PROVE  ScreenInv' /\ version' = version /\ (load' # None => load # None)
<1>1. m.msgs \in Seq(Shown) /\ Sent' = Sent
  BY Kinds, KindsKept
<1>2. CASE ~ShouldApply(m.version)
  <2>1. UNCHANGED <<browser, history>>
    BY <1>2 DEF ApplyHistory
  <2>2. /\ LoadInv' /\ NewMessagesStay' /\ StreamIsTheRuns'
    BY <2>1 DEF browser, history, ScreenInv, LoadInv, NewMessagesStay, Sigs, Sig, StreamIsTheRuns,
                Visible, Text
  <2> QED
    BY <1>1, <2>1, <2>2 DEF browser, history, ScreenInv, ScreenTypes, OnlyForThisSession
<1>3. CASE ShouldApply(m.version)
  <2> DEFINE b == load.before
             kept == {k \in Len(b) + 1 .. Len(screen) :
                        ~(Stamped(screen[k]) /\ Sig(screen[k]) \in Sigs(m.msgs))}
             now == PreserveTail(m.msgs, b) \o LateTail(m.msgs, b)
  <2>1. load # None /\ m.version = version /\ load.key = sessionKey
    BY <1>3 DEF ShouldApply
  <2>2. /\ screen' = now /\ load' = None /\ (stream' = None \/ stream' = stream)
        /\ UNCHANGED <<runId, sending, version, seen, fresh, late>>
    BY <1>3 DEF ApplyHistory, history
  <2>3. /\ b \in Seq(Shown) /\ screen \in Seq(Shown)
        /\ Len(b) <= Len(screen)
        /\ \A k \in DOMAIN b : screen[k] = b[k]
        /\ \A x \in fresh : \E k \in DOMAIN screen : Len(b) < k /\ Sig(screen[k]) = x
    BY <2>1 DEF ScreenInv, ScreenTypes, LoadInv
  <2>4. /\ Len(b) \in Nat /\ DOMAIN b = 1 .. Len(b)
        /\ Len(screen) \in Nat /\ DOMAIN screen = 1 .. Len(screen)
    BY <2>3, LenProperties
  <2> HIDE DEF b
  <2>5. IsPrefix(b, screen)
    <3>1. \A k \in 1 .. Len(b) : screen[k] = b[k]
      BY <2>3, <2>4
    <3>2. SubSeq(b, 1, Len(b)) = SubSeq(screen, 1, Len(b))
      BY <2>3, <2>4, <3>1
    <3> QED
      BY <2>3, <3>2 DEF IsPrefix
  <2>6. kept \in SUBSET (DOMAIN screen)
    BY <2>4
  <2>7. LateTail(m.msgs, b) = Pick(screen, kept)
    BY <2>5 DEF LateTail
  <2>8. /\ LateTail(m.msgs, b) \in Seq(Shown)
        /\ ToSet(LateTail(m.msgs, b)) = {screen[k] : k \in kept}
    <3> HIDE DEF kept
    <3> QED
      BY <2>3, <2>6, <2>7, PickProperties
  <2>9. /\ PreserveTail(m.msgs, b) \in Seq(Shown)
        /\ ToSet(m.msgs) \subseteq ToSet(PreserveTail(m.msgs, b))
        /\ ToSet(PreserveTail(m.msgs, b)) \subseteq ToSet(m.msgs) \cup ToSet(b)
    BY <1>1, <2>3, TailPreserved
  <2>10. /\ now \in Seq(Shown)
         /\ ToSet(now) = ToSet(PreserveTail(m.msgs, b)) \cup {screen[k] : k \in kept}
    BY <2>8, <2>9, ConcatElements
  <2> HIDE DEF now
  <2>11. \A x \in ToSet(now) : Belongs(x, sessionKey, lent)
    <3>1. \A k \in DOMAIN screen : Belongs(screen[k], sessionKey, lent)
      BY DEF ScreenInv, OnlyForThisSession
    <3>2. \A x \in ToSet(b) : Belongs(x, sessionKey, lent)
      BY <2>3, <2>4, <3>1 DEF ToSet
    <3>3. \A x \in ToSet(m.msgs) : Belongs(x, sessionKey, lent)
      BY <2>1 DEF TranscriptOK, IsCurrent
    <3> QED
      BY <2>6, <2>9, <2>10, <3>1, <3>2, <3>3
  <2>12. fresh \subseteq Sigs(now)
    <3> SUFFICES ASSUME NEW x \in fresh PROVE \E y \in ToSet(now) : Sig(y) = x
      BY DEF Sigs
    <3>1. PICK k \in DOMAIN screen : Len(b) < k /\ Sig(screen[k]) = x
      BY <2>3
    <3>2. CASE k \in kept
      BY <3>1, <3>2, <2>10
    <3>3. CASE k \notin kept
      <4>1. Sig(screen[k]) \in Sigs(m.msgs)
        BY <3>1, <3>3, <2>4
      <4>2. PICK y \in ToSet(m.msgs) : Sig(y) = x
        BY <3>1, <4>1 DEF Sigs
      <4> QED
        BY <4>2, <2>9, <2>10
    <3> QED
      BY <3>2, <3>3
  <2>13. NewMessagesStay'
    <3>1. Sigs(screen)' = Sigs(now)
      BY <2>2 DEF Sigs, Sig, ToSet
    <3> QED
      BY <2>2, <2>12, <3>1 DEF NewMessagesStay
  <2>14. \A k \in DOMAIN screen' : Belongs(screen'[k], sessionKey', lent')
    BY <2>2, <2>11 DEF ToSet
  <2>15. StreamIsTheRuns'
    BY <2>2 DEF ScreenInv, StreamIsTheRuns, Visible, Text
  <2>16. LoadInv'
    BY <2>2 DEF LoadInv
  <2> QED
    BY <1>1, <2>2, <2>10, <2>13, <2>14, <2>15, <2>16 DEF ScreenInv, ScreenTypes, OnlyForThisSession
<1> QED
  BY <1>2, <1>3

(* A load begins with what is on the screen.                               *)
LEMMA AskStep ==
  ASSUME ScreenInv, RestTypes, NEW s \in Sessions, NEW msgs \in Seq(Shown),
         NEW run \in Sent \cup {None}, \A x \in ToSet(msgs) : Belongs(x, s, lent),
         Ask(s, msgs, run),
         screen' = msgs, sessionKey' = s, connected', home' = home, seen' = seen,
         lent' = lent, late' \subseteq Stored,
         \/ runId' = None /\ stream' = None
         \/ UNCHANGED <<runId, stream>> /\ s = sessionKey
  PROVE  ScreenInv' /\ version' = version + 1
         /\ pipe' = Append(pipe, [op |-> "history", key |-> s, version |-> version + 1])
         /\ load' = [version |-> version + 1, key |-> s, before |-> msgs,
                     run |-> run, shared |-> TRUE]
<1>1. /\ version' = version + 1 /\ version \in Nat /\ fresh' = {} /\ Sent' = Sent
      /\ load' = [version |-> version + 1, key |-> s, before |-> msgs, run |-> run, shared |-> TRUE]
      /\ pipe' = Append(pipe, [op |-> "history", key |-> s, version |-> version + 1])
  BY KindsKept DEF Ask, ScreenInv, ScreenTypes
<1>2. ScreenTypes'
  <2>1. load' \in [version : {version'}, key : Sessions, before : Seq(Shown),
                   run : Sent' \cup {None}, shared : BOOLEAN]
    BY <1>1
  <2>2. /\ runId' \in Sent' \cup {None}
        /\ stream' \in Seq(Runs \X (Nat \ {0})) \cup {None}
        /\ seen' \in [Runs -> Nat]
    BY <1>1 DEF ScreenInv, ScreenTypes
  <2> QED
    BY <1>1, <2>1, <2>2 DEF ScreenTypes
<1>3. OnlyForThisSession'
  <2>1. \A k \in DOMAIN screen' : Belongs(screen'[k], sessionKey', lent')
    BY DEF ToSet
  <2>2. runId' # None => home'[runId'] = sessionKey'
    BY DEF ScreenInv, OnlyForThisSession
  <2> QED
    BY <2>1, <2>2 DEF OnlyForThisSession
<1>4. StreamIsTheRuns'
  BY DEF ScreenInv, StreamIsTheRuns, Visible, Text
<1>5. LoadInv'
  <2>1. Len(load'.before) <= Len(screen')
    BY <1>1, LenProperties
  <2> QED
    BY <1>1, <2>1 DEF LoadInv
<1>6. NewMessagesStay'
  BY <1>1 DEF NewMessagesStay
<1> QED
  BY <1>1, <1>2, <1>3, <1>4, <1>5, <1>6 DEF ScreenInv

(* Nothing of what the screen shows changes.                               *)
LEMMA ScreenKept ==
  ASSUME ScreenInv, UNCHANGED <<sessionKey, connected, screen, runId, stream, load, version, home,
                                seen, fresh, late>>,
         lent[sessionKey] \subseteq lent'[sessionKey]
  PROVE  ScreenInv' /\ Sent' = Sent
<1>1. Sent' = Sent
  BY KindsKept
<1>2. ScreenTypes' /\ OnlyForThisSession'
  BY <1>1 DEF ScreenInv, ScreenTypes, OnlyForThisSession, Belongs
<1>3. StreamIsTheRuns' /\ LoadInv' /\ NewMessagesStay'
  BY DEF ScreenInv, StreamIsTheRuns, Visible, Text, LoadInv, NewMessagesStay, Sigs, Sig
<1> QED
  BY <1>1, <1>2, <1>3 DEF ScreenInv

-------------------------------------------------------------------------------
(* What changes the pipe and the wire.                                     *)

(* A request more.                                                         *)
LEMMA PipeGrows ==
  ASSUME PipeTypes, NEW q \in Requests, pipe' = Append(pipe, q)
  PROVE  /\ pipe' \in Seq(Requests \cup Answers)
         /\ \A k \in DOMAIN pipe' : pipe'[k] \in Answers => k = 1
         /\ \A k \in DOMAIN pipe' : pipe'[k] = q \/ \E j \in DOMAIN pipe : pipe'[k] = pipe[j]
<1>1. /\ pipe \in Seq(Requests \cup Answers)
      /\ \A k \in DOMAIN pipe : pipe[k] \in Answers => k = 1
  BY DEF PipeTypes
<1>2. /\ pipe' \in Seq(Requests \cup Answers) /\ Len(pipe') = Len(pipe) + 1
      /\ \A k \in 1 .. Len(pipe) : pipe'[k] = pipe[k]
      /\ pipe'[Len(pipe) + 1] = q
  BY <1>1, AppendProperties
<1>3. /\ Len(pipe) \in Nat /\ DOMAIN pipe = 1 .. Len(pipe) /\ DOMAIN pipe' = 1 .. Len(pipe')
  BY <1>1, <1>2, LenProperties
<1>4. \A k \in DOMAIN pipe' : pipe'[k] = q \/ (k \in DOMAIN pipe /\ pipe'[k] = pipe[k])
  BY <1>2, <1>3
<1>5. q \notin Answers
  BY Kinds
<1> QED
  BY <1>1, <1>2, <1>4, <1>5

(* The first request is done.                                              *)
LEMMA PipeShrinks ==
  ASSUME PipeTypes, pipe # <<>>
  PROVE  /\ Tail(pipe) \in Seq(Requests \cup Answers)
         /\ \A k \in DOMAIN Tail(pipe) : Tail(pipe)[k] \notin Answers
         /\ \A k \in DOMAIN Tail(pipe) : \E j \in DOMAIN pipe : Tail(pipe)[k] = pipe[j]
<1>1. /\ pipe \in Seq(Requests \cup Answers)
      /\ \A k \in DOMAIN pipe : pipe[k] \in Answers => k = 1
  BY DEF PipeTypes
<1>2. /\ Tail(pipe) \in Seq(Requests \cup Answers) /\ Len(Tail(pipe)) = Len(pipe) - 1
      /\ \A i \in 1 .. Len(Tail(pipe)) : Tail(pipe)[i] = pipe[i + 1]
  BY <1>1, HeadTailProperties
<1>3. /\ Len(pipe) \in Nat /\ DOMAIN pipe = 1 .. Len(pipe)
      /\ Len(Tail(pipe)) \in Nat /\ DOMAIN Tail(pipe) = 1 .. Len(Tail(pipe))
  BY <1>1, <1>2, LenProperties
<1>4. \A i \in DOMAIN Tail(pipe) : i + 1 \in DOMAIN pipe /\ i + 1 # 1 /\ Tail(pipe)[i] = pipe[i + 1]
  BY <1>2, <1>3
<1> QED
  BY <1>1, <1>2, <1>4

(* Its answer takes its place.                                             *)
LEMMA PipeAnswered ==
  ASSUME PipeTypes, pipe # <<>>, NEW m \in Answers, AnswerWith(m)
  PROVE  /\ pipe' \in Seq(Requests \cup Answers)
         /\ \A k \in DOMAIN pipe' : pipe'[k] \in Answers => k = 1
         /\ \A k \in DOMAIN pipe' : pipe'[k] = m \/ \E j \in DOMAIN pipe : pipe'[k] = pipe[j]
<1> DEFINE one == <<m>>
           rest == Tail(pipe)
<1>1. one \in Seq(Requests \cup Answers) /\ Len(one) = 1 /\ one[1] = m
  OBVIOUS
<1>2. /\ rest \in Seq(Requests \cup Answers)
      /\ \A k \in DOMAIN rest : rest[k] \notin Answers
      /\ \A k \in DOMAIN rest : \E j \in DOMAIN pipe : rest[k] = pipe[j]
  BY PipeShrinks
<1>3. pipe' = one \o rest
  BY DEF AnswerWith
<1> HIDE DEF one, rest
<1>4. /\ pipe' \in Seq(Requests \cup Answers) /\ Len(pipe') = 1 + Len(rest)
      /\ \A k \in 1 .. 1 : pipe'[k] = one[k]
      /\ \A k \in 1 .. Len(rest) : pipe'[1 + k] = rest[k]
  <2>1. /\ one \o rest \in Seq(Requests \cup Answers) /\ Len(one \o rest) = Len(one) + Len(rest)
        /\ \A k \in 1 .. Len(one) : (one \o rest)[k] = one[k]
        /\ \A k \in 1 .. Len(rest) : (one \o rest)[Len(one) + k] = rest[k]
    BY <1>1, <1>2, ConcatElements
  <2> QED
    BY <1>1, <1>3, <2>1
<1>5. /\ DOMAIN pipe' = 1 .. Len(pipe') /\ Len(rest) \in Nat /\ DOMAIN rest = 1 .. Len(rest)
  BY <1>2, <1>4, LenProperties
<1>6. pipe'[1] = m
  BY <1>1, <1>4
<1>7. \A k \in DOMAIN pipe' : k # 1 => k - 1 \in DOMAIN rest /\ pipe'[k] = rest[k - 1]
  <2> TAKE k \in DOMAIN pipe'
  <2> HAVE k # 1
  <2>1. k - 1 \in 1 .. Len(rest) /\ 1 + (k - 1) = k
    BY <1>4, <1>5
  <2> QED
    BY <1>4, <1>5, <2>1
<1> QED
  BY <1>2, <1>4, <1>6, <1>7

(* The wire takes one message at its end and gives one at its head.        *)
LEMMA WireGrows ==
  ASSUME PipeTypes, NEW m \in Answers \cup Events, wire' = Append(wire, m)
  PROVE  /\ wire' \in Seq(Answers \cup Events)
         /\ \A k \in DOMAIN wire' : wire'[k] = m \/ \E j \in DOMAIN wire : wire'[k] = wire[j]
<1>1. wire \in Seq(Answers \cup Events)
  BY DEF PipeTypes
<1>2. /\ wire' \in Seq(Answers \cup Events) /\ Len(wire') = Len(wire) + 1
      /\ \A k \in 1 .. Len(wire) : wire'[k] = wire[k]
      /\ wire'[Len(wire) + 1] = m
  BY <1>1, AppendProperties
<1>3. /\ Len(wire) \in Nat /\ DOMAIN wire = 1 .. Len(wire) /\ DOMAIN wire' = 1 .. Len(wire')
  BY <1>1, <1>2, LenProperties
<1> QED
  BY <1>2, <1>3

LEMMA WireShrinks ==
  ASSUME PipeTypes, wire # <<>>
  PROVE  /\ Head(wire) \in Answers \cup Events /\ \E j \in DOMAIN wire : Head(wire) = wire[j]
         /\ Tail(wire) \in Seq(Answers \cup Events)
         /\ \A k \in DOMAIN Tail(wire) : \E j \in DOMAIN wire : Tail(wire)[k] = wire[j]
<1>1. wire \in Seq(Answers \cup Events)
  BY DEF PipeTypes
<1>2. /\ Head(wire) \in Answers \cup Events
      /\ Tail(wire) \in Seq(Answers \cup Events) /\ Len(Tail(wire)) = Len(wire) - 1
      /\ \A i \in 1 .. Len(Tail(wire)) : Tail(wire)[i] = wire[i + 1]
  BY <1>1, HeadTailProperties
<1>3. /\ Len(wire) \in Nat \ {0} /\ DOMAIN wire = 1 .. Len(wire)
      /\ DOMAIN Tail(wire) = 1 .. Len(Tail(wire))
  BY <1>1, <1>2, LenProperties, EmptySeq
<1>4. Head(wire) = wire[1]
  BY <1>1, <1>3
<1> QED
  BY <1>2, <1>3, <1>4

(* The answers of what is on its way, after a step that adds at most one   *)
(* message to the pipe and one to the wire.                                *)
LEMMA StillInOrder ==
  ASSUME AnswersInv,
         \A k \in DOMAIN pipe' : \/ AskOK(pipe'[k]) /\ TranscriptOK(pipe'[k])
                               \/ \E j \in DOMAIN pipe : pipe'[k] = pipe[j],
         \A k \in DOMAIN wire' : \/ TranscriptOK(wire'[k])
                               \/ \E j \in DOMAIN wire : wire'[k] = wire[j],
         version' = version, load' # None => load # None /\ sessionKey' = sessionKey,
         lent[sessionKey] \subseteq lent'[sessionKey]
  PROVE  AnswersInv'
<1>1. \A m : (AskOK(m) => AskOK(m)') /\ (TranscriptOK(m) => TranscriptOK(m)')
  BY AnswersKept
<1>2. \A k \in DOMAIN pipe' : AskOK(pipe'[k]) /\ TranscriptOK(pipe'[k])
  BY DEF AnswersInv
<1>3. \A k \in DOMAIN wire' : TranscriptOK(wire'[k])
  BY DEF AnswersInv
<1> QED
  BY <1>1, <1>2, <1>3 DEF AnswersInv

(* A new load: all that is on its way is of an older one.                  *)
LEMMA AskedInOrder ==
  ASSUME PipeTypes, AnswersInv, version \in Nat, version' = version + 1, home' = home,
         NEW s \in Sessions, sessionKey' = s,
         pipe' = Append(pipe, [op |-> "history", key |-> s, version |-> version + 1]),
         wire' \in Seq(Answers \cup Events),
         \A k \in DOMAIN wire' : \E j \in DOMAIN wire : wire'[k] = wire[j]
  PROVE  PipeTypes' /\ AnswersInv'
<1>0. PICK v \in Nat : v = version
  OBVIOUS
<1> DEFINE q == [op |-> "history", key |-> s, version |-> v + 1]
<1>1. q \in Requests /\ AskOK(q)' /\ TranscriptOK(q)'
  BY <1>0 DEF Requests, AskOK, TranscriptOK, IsCurrent
<1>2. pipe' = Append(pipe, q)
  BY <1>0
<1> HIDE DEF q
<1>3. /\ pipe' \in Seq(Requests \cup Answers)
      /\ \A k \in DOMAIN pipe' : pipe'[k] \in Answers => k = 1
      /\ \A k \in DOMAIN pipe' : pipe'[k] = q \/ \E j \in DOMAIN pipe : pipe'[k] = pipe[j]
  BY <1>1, <1>2, PipeGrows
<1>4. PipeTypes'
  BY <1>3, KindsKept DEF PipeTypes
<1>5. /\ \A j \in DOMAIN pipe : pipe[j] \in Requests \cup Answers
      /\ \A j \in DOMAIN wire : wire[j] \in Answers \cup Events
  BY DEF PipeTypes
<1>6. /\ \A m \in Requests \cup Answers : AskOK(m) => AskOK(m)'
      /\ \A m \in Answers \cup Events \cup Requests : TranscriptOK(m) => TranscriptOK(m)'
  BY AnswersOutdated
<1>7. /\ \A j \in DOMAIN pipe : AskOK(pipe[j]) /\ TranscriptOK(pipe[j])
      /\ \A j \in DOMAIN wire : TranscriptOK(wire[j])
  BY DEF AnswersInv
<1>8. (\A k \in DOMAIN pipe : AskOK(pipe[k]) /\ TranscriptOK(pipe[k]))'
  BY <1>1, <1>3, <1>5, <1>6, <1>7
<1>9. (\A k \in DOMAIN wire : TranscriptOK(wire[k]))'
  BY <1>5, <1>6, <1>7
<1> QED
  BY <1>4, <1>8, <1>9 DEF AnswersInv

-------------------------------------------------------------------------------
(* The steps.                                                              *)

(* Runs, their rows and what bounds a behaviour are left alone by the tab. *)
LEMMA RunsKept ==
  ASSUME RunTypes, UNCHANGED <<db, phase, deltas, lent, home>>, cancelled' \subseteq Runs
  PROVE  RunTypes'
  BY KindsKept DEF RunTypes, Started

LEMMA LoadChatHistoryStep == IInv /\ LoadChatHistory => IInv'
<1> SUFFICES ASSUME IInv, LoadChatHistory PROVE IInv'
  OBVIOUS
<1> USE DEF IInv
<1>1. /\ connected /\ Ask(sessionKey, screen, runId)
      /\ UNCHANGED <<sessionKey, connected, screen, runId, stream, sending, wire, db, phase,
                     deltas, cancelled, lent, home, seen, late, faults, budget>>
  BY DEF LoadChatHistory, gateway
<1>2. /\ sessionKey \in Sessions /\ screen \in Seq(Shown) /\ runId \in Sent \cup {None}
      /\ version \in Nat /\ late \subseteq Stored
      /\ \A x \in ToSet(screen) : Belongs(x, sessionKey, lent)
  BY DEF RestTypes, ScreenInv, ScreenTypes, OnlyForThisSession, ToSet
<1>3. /\ ScreenInv' /\ version' = version + 1
      /\ pipe' = Append(pipe, [op |-> "history", key |-> sessionKey, version |-> version + 1])
  BY <1>1, <1>2, AskStep
<1>4. /\ wire' \in Seq(Answers \cup Events)
      /\ \A k \in DOMAIN wire' : \E j \in DOMAIN wire : wire'[k] = wire[j]
  BY <1>1 DEF PipeTypes
<1>5. PipeTypes' /\ AnswersInv'
  BY <1>1, <1>2, <1>3, <1>4, AskedInOrder
<1>6. RunTypes' /\ RestTypes'
  BY <1>1, RunsKept DEF RunTypes, RestTypes
<1>7. OfflineInv'
  BY <1>1 DEF OfflineInv
<1> QED
  BY <1>3, <1>5, <1>6, <1>7

(* A message more: what was sent before stays what it was.                 *)
LEMMA SendStep == ASSUME IInv, NEW r \in Runs, Send(r) PROVE IInv'
<1> USE DEF IInv
<1>1. /\ connected /\ runId = None /\ r = Len(home) + 1 /\ r <= budget.sends
      /\ home' = Append(home, sessionKey) /\ sending' = TRUE
      /\ pipe' = Append(pipe, [op |-> "send", run |-> r])
      /\ UNCHANGED <<sessionKey, connected, screen, runId, stream, load, version, wire,
                     db, phase, deltas, cancelled, lent, seen, fresh, late, faults, budget>>
  BY DEF Send, gateway, history
<1>2. /\ home' \in Seq(Sessions) /\ Len(home') = r /\ Sent' = Sent \cup {r}
  <2>1. home \in Seq(Sessions) /\ sessionKey \in Sessions
    BY DEF RestTypes
  <2>2. home' \in Seq(Sessions) /\ Len(home') = Len(home) + 1
    BY <1>1, <2>1, AppendProperties
  <2>3. Len(home) \in Nat /\ DOMAIN home = 1 .. Len(home) /\ DOMAIN home' = 1 .. Len(home')
    BY <2>1, <2>2, LenProperties
  <2> QED
    BY <1>1, <2>2, <2>3 DEF Sent
<1>3. RestTypes'
  <2>1. budget.sends \in 0 .. MaxSends /\ MaxSends \in Nat
    BY BudgetAssumption DEF RestTypes
  <2>2. sending' \in BOOLEAN
    BY <1>1
  <2> QED
    BY <1>1, <1>2, <2>1, <2>2 DEF RestTypes, Runs
<1>4. ScreenInv'
  <2>1. ScreenTypes'
    BY <1>1, <1>2 DEF ScreenInv, ScreenTypes
  <2>2. OnlyForThisSession' /\ LoadInv' /\ NewMessagesStay'
    BY <1>1 DEF ScreenInv, OnlyForThisSession, LoadInv, NewMessagesStay, Sigs, Sig
  <2>3. StreamIsTheRuns'
    BY <1>1 DEF ScreenInv, StreamIsTheRuns, Visible
  <2> QED
    BY <2>1, <2>2, <2>3 DEF ScreenInv
<1>5. RunTypes'
  BY <1>1, <1>2 DEF RunTypes, Started
<1> DEFINE q == [op |-> "send", run |-> r]
<1>6. /\ Requests \subseteq Requests' /\ Answers \subseteq Answers' /\ Events \subseteq Events'
      /\ q \in Requests'
  BY <1>2 DEF Requests, Answers, Events
<1>7. AskOK(q) /\ TranscriptOK(q)
  BY DEF AskOK, TranscriptOK
<1>8. /\ pipe' \in Seq(Requests' \cup Answers')
      /\ \A k \in DOMAIN pipe' : pipe'[k] = q \/ (k \in DOMAIN pipe /\ pipe'[k] = pipe[k])
  <2> HIDE DEF q
  <2>1. pipe \in Seq(Requests \cup Answers) /\ pipe' = Append(pipe, q)
    BY <1>1 DEF PipeTypes, q
  <2>2. pipe \in Seq(Requests' \cup Answers')
    BY <1>6, <2>1, SeqMonotonic
  <2>3. /\ pipe' \in Seq(Requests' \cup Answers') /\ Len(pipe') = Len(pipe) + 1
        /\ \A k \in 1 .. Len(pipe) : pipe'[k] = pipe[k]
        /\ pipe'[Len(pipe) + 1] = q
    BY <1>6, <2>1, <2>2, AppendProperties
  <2>4. /\ Len(pipe) \in Nat /\ DOMAIN pipe = 1 .. Len(pipe) /\ DOMAIN pipe' = 1 .. Len(pipe')
    BY <2>2, <2>3, LenProperties
  <2> QED
    BY <2>3, <2>4
<1>9. \A k \in DOMAIN pipe : pipe[k] \in Answers' => pipe[k] \in Answers
  <2>1. \A m \in Requests : m.op \notin {"acked", "refused", "cleared", "transcript"}
    BY Kinds
  <2>2. \A m \in Answers' : m.op \in {"acked", "refused", "cleared", "transcript"}
    BY DEF Answers
  <2>3. \A k \in DOMAIN pipe : pipe[k] \in Requests \cup Answers
    BY DEF PipeTypes
  <2> QED
    BY <2>1, <2>2, <2>3
<1>10. PipeTypes'
  <2>1. q \notin Answers'
    BY DEF Answers
  <2>2. \A k \in DOMAIN pipe' : pipe'[k] \in Answers' => k = 1
    BY <1>8, <1>9, <2>1 DEF PipeTypes
  <2>3. wire' \in Seq(Answers' \cup Events')
    BY <1>1, <1>6, SeqMonotonic DEF PipeTypes
  <2> QED
    BY <1>8, <2>2, <2>3 DEF PipeTypes
<1>11. AnswersInv'
  <2> HIDE DEF q
  <2> QED
    BY <1>1, <1>7, <1>8, StillInOrder
<1>12. OfflineInv'
  BY <1>1 DEF OfflineInv
<1> QED
  BY <1>3, <1>4, <1>5, <1>10, <1>11, <1>12

(* A request more that concerns neither runs nor transcripts.              *)
LEMMA RequestStep ==
  ASSUME IInv, connected, NEW q \in Requests, q.op \in {"abort", "reset"}, pipe' = Append(pipe, q),
         UNCHANGED <<sessionKey, connected, screen, runId, stream, sending, load, version, wire,
                     db, phase, deltas, cancelled, lent, home, seen, fresh, late, budget>>,
         faults' \in Nat
  PROVE  IInv'
<1> USE DEF IInv
<1>1. ScreenInv'
  BY ScreenKept
<1>2. /\ pipe' \in Seq(Requests \cup Answers)
      /\ \A k \in DOMAIN pipe' : pipe'[k] \in Answers => k = 1
      /\ \A k \in DOMAIN pipe' : pipe'[k] = q \/ \E j \in DOMAIN pipe : pipe'[k] = pipe[j]
  BY PipeGrows
<1>3. PipeTypes'
  BY <1>2, KindsKept DEF PipeTypes
<1>4. AnswersInv'
  <2>1. AskOK(q) /\ TranscriptOK(q)
    BY DEF AskOK, TranscriptOK
  <2> QED
    BY <1>2, <2>1, StillInOrder
<1>5. RunTypes' /\ RestTypes'
  BY RunsKept DEF RunTypes, RestTypes
<1>6. OfflineInv'
  BY DEF OfflineInv
<1> QED
  BY <1>1, <1>3, <1>4, <1>5, <1>6

LEMMA AbortRunStep == IInv /\ AbortRun => IInv'
<1> SUFFICES ASSUME IInv, AbortRun PROVE IInv'
  OBVIOUS
<1> DEFINE q == [op |-> "abort", run |-> runId]
<1>1. /\ connected /\ pipe' = Append(pipe, q) /\ runId # None /\ faults' = faults + 1
      /\ UNCHANGED <<sessionKey, connected, screen, runId, stream, sending, load, version, wire,
                     db, phase, deltas, cancelled, lent, home, seen, fresh, late, budget>>
  BY DEF AbortRun, browser, gateway, history
<1>2. q \in Requests /\ q.op \in {"abort", "reset"}
  BY <1>1 DEF Requests, IInv, ScreenInv, ScreenTypes
<1>3. faults' \in Nat
  BY <1>1 DEF IInv, RestTypes
<1> HIDE DEF q
<1> QED
  BY <1>1, <1>2, <1>3, RequestStep

LEMMA ClearStep == IInv /\ Clear => IInv'
<1> SUFFICES ASSUME IInv, Clear PROVE IInv'
  OBVIOUS
<1> DEFINE q == [op |-> "reset", key |-> sessionKey]
<1>1. /\ connected /\ pipe' = Append(pipe, q)
      /\ UNCHANGED <<sessionKey, connected, screen, runId, stream, sending, load, version, wire,
                     db, phase, deltas, cancelled, lent, home, seen, fresh, late, budget, faults>>
  BY DEF Clear, browser, gateway, history
<1>2. q \in Requests /\ q.op \in {"abort", "reset"} /\ faults' \in Nat
  BY <1>1 DEF Requests, IInv, RestTypes
<1> HIDE DEF q
<1> QED
  BY <1>1, <1>2, RequestStep

LEMMA SwitchStep == ASSUME IInv, NEW s \in Sessions, SwitchChatSession(s) PROVE IInv'
<1> USE DEF IInv
<1>1. /\ sessionKey' = s /\ screen' = <<>> /\ runId' = None /\ stream' = None /\ late' = {}
      /\ UNCHANGED <<connected, sending, wire, db, phase, deltas, cancelled, lent, home, seen, faults,
                     budget>>
  BY DEF SwitchChatSession, gateway
<1>2. RunTypes' /\ RestTypes'
  BY <1>1, RunsKept DEF RunTypes, RestTypes
<1>3. /\ <<>> \in Seq(Shown) /\ ToSet(<<>>) = {} /\ DOMAIN <<>> = {}
      /\ version \in Nat
  BY DEF ToSet, ScreenInv, ScreenTypes
<1>4. CASE connected
  <2>1. Ask(s, <<>>, None)
    BY <1>4 DEF SwitchChatSession
  <2>2. /\ ScreenInv' /\ version' = version + 1
        /\ pipe' = Append(pipe, [op |-> "history", key |-> s, version |-> version + 1])
    BY <1>1, <1>3, <1>4, <2>1, AskStep
  <2>3. /\ wire' \in Seq(Answers \cup Events)
        /\ \A k \in DOMAIN wire' : \E j \in DOMAIN wire : wire'[k] = wire[j]
    BY <1>1 DEF PipeTypes
  <2>4. PipeTypes' /\ AnswersInv'
    BY <1>1, <1>3, <2>2, <2>3, AskedInOrder
  <2> QED
    BY <1>1, <1>2, <1>4, <2>2, <2>4 DEF OfflineInv
<1>5. CASE ~connected
  <2>1. load' = load /\ fresh' = {} /\ UNCHANGED <<version, pipe>>
    BY <1>5 DEF SwitchChatSession
  <2>2. load = None
    BY <1>5 DEF ScreenInv, LoadInv
  <2>3. ScreenInv'
    <3>1. ScreenTypes'
      BY <1>1, <1>3, <2>1, <2>2, KindsKept DEF ScreenInv, ScreenTypes
    <3>2. /\ OnlyForThisSession' /\ LoadInv' /\ NewMessagesStay' /\ StreamIsTheRuns'
      BY <1>1, <1>3, <2>1, <2>2
         DEF OnlyForThisSession, LoadInv, NewMessagesStay, StreamIsTheRuns, Visible
    <3> QED
      BY <3>1, <3>2 DEF ScreenInv
  <2>4. PipeTypes'
    BY <1>1, <2>1, KindsKept DEF PipeTypes
  <2>5. AnswersInv'
    BY <1>1, <2>1, <2>2, StillInOrder
  <2>6. OfflineInv'
    BY <1>1, <2>1 DEF OfflineInv
  <2> QED
    BY <1>2, <2>3, <2>4, <2>5, <2>6
<1> QED
  BY <1>4, <1>5

LEMMA DisconnectStep == IInv /\ Disconnect => IInv'
<1> SUFFICES ASSUME IInv, Disconnect PROVE IInv'
  OBVIOUS
<1> USE DEF IInv
<1>1. /\ connected' = FALSE /\ sending' = FALSE /\ load' = None /\ pipe' = <<>> /\ wire' = <<>>
      /\ faults' = faults + 1
      /\ cancelled' = cancelled \cup {r \in Runs : phase[r] \notin {"none", "ended"}}
      /\ UNCHANGED <<sessionKey, screen, runId, stream, version, db, phase, deltas, lent, home, seen,
                     fresh, late, budget>>
  BY DEF Disconnect, history
<1>2. ScreenInv'
  <2>1. ScreenTypes' /\ OnlyForThisSession'
    BY <1>1, KindsKept DEF ScreenInv, ScreenTypes, OnlyForThisSession
  <2>2. LoadInv' /\ NewMessagesStay' /\ StreamIsTheRuns'
    BY <1>1 DEF ScreenInv, LoadInv, NewMessagesStay, Sigs, Sig, StreamIsTheRuns, Visible, Text
  <2> QED
    BY <2>1, <2>2 DEF ScreenInv
<1>3. DOMAIN pipe' = {} /\ DOMAIN wire' = {}
  BY <1>1
<1>4. PipeTypes' /\ AnswersInv'
  BY <1>1, <1>3 DEF PipeTypes, AnswersInv
<1>5. cancelled' \subseteq Runs
  BY <1>1 DEF RunTypes
<1>6. RestTypes'
  <2>1. connected' \in BOOLEAN /\ sending' \in BOOLEAN
    BY <1>1
  <2> QED
    BY <1>1, <2>1 DEF RestTypes
<1> QED
  BY <1>1, <1>2, <1>4, <1>5, <1>6, RunsKept DEF OfflineInv

LEMMA HelloStep == IInv /\ Hello => IInv'
<1> SUFFICES ASSUME IInv, Hello PROVE IInv'
  OBVIOUS
<1> USE DEF IInv
<1>1. /\ connected' = TRUE /\ runId' = None /\ stream' = None
      /\ UNCHANGED <<sessionKey, screen, sending, load, version, pipe, wire, db, phase, deltas,
                     cancelled, lent, home, seen, fresh, late, faults, budget>>
  BY DEF Hello, Forget, gateway, history
<1>2. ScreenInv'
  <2>1. ScreenTypes' /\ OnlyForThisSession'
    BY <1>1, KindsKept DEF ScreenInv, ScreenTypes, OnlyForThisSession
  <2>2. LoadInv' /\ NewMessagesStay' /\ StreamIsTheRuns'
    BY <1>1 DEF ScreenInv, LoadInv, NewMessagesStay, Sigs, Sig, StreamIsTheRuns, Visible
  <2> QED
    BY <2>1, <2>2 DEF ScreenInv
<1>3. PipeTypes'
  BY <1>1, KindsKept DEF PipeTypes
<1>4. AnswersInv'
  BY <1>1, StillInOrder
<1>5. RunTypes'
  BY <1>1, RunsKept DEF RunTypes
<1>6. RestTypes'
  <2>1. connected' \in BOOLEAN
    BY <1>1
  <2> QED
    BY <1>1, <2>1 DEF RestTypes
<1>7. OfflineInv'
  BY <1>1 DEF OfflineInv
<1> QED
  BY <1>2, <1>3, <1>4, <1>5, <1>6, <1>7

(* What arrives.                                                           *)
LEMMA ReceiveStep == IInv /\ Receive => IInv'
<1> SUFFICES ASSUME IInv, Receive PROVE IInv'
  OBVIOUS
<1> USE DEF IInv
<1> DEFINE m == Head(wire)
<1>1. /\ wire # <<>> /\ wire' = Tail(wire)
      /\ UNCHANGED <<connected, db, phase, deltas, cancelled, lent, home, faults, budget>>
      /\ \/ m.op = "acked" /\ Acknowledged(m.run)
         \/ m.op = "event" /\ Event(m)
         \/ m.op = "transcript" /\ ApplyHistory(m.msgs, m.version) /\ UNCHANGED <<sessionKey, pipe>>
         \/ m.op = "cleared" /\ Cleared
         \/ /\ m.op = "refused" /\ sending' = FALSE
            /\ UNCHANGED <<sessionKey, screen, runId, stream, load, version, pipe, seen, fresh, late>>
  BY DEF Receive, gateway, history
<1>2. /\ m \in Answers \cup Events /\ \E j \in DOMAIN wire : m = wire[j]
      /\ wire' \in Seq(Answers \cup Events)
      /\ \A k \in DOMAIN wire' : \E j \in DOMAIN wire : wire'[k] = wire[j]
  BY <1>1, WireShrinks
<1>3. TranscriptOK(m)
  BY <1>2 DEF AnswersInv
<1>4. /\ m \in Answers => m.op # "event" /\ (m.op = "acked" => m.run \in Sent)
      /\ m \in Events => m.op = "event"
  BY Kinds
<1> HIDE DEF m
<1>5. RunTypes' /\ OfflineInv'
  BY <1>1, RunsKept DEF RunTypes, OfflineInv
<1> DEFINE Rest == /\ sessionKey' = sessionKey /\ sending' \in BOOLEAN
                   /\ \/ pipe' = pipe /\ version' = version /\ (load' # None => load # None)
                      \/ PipeTypes' /\ AnswersInv'
<1>6. ASSUME ScreenInv', Rest
      PROVE  IInv'
  <2>1. RestTypes'
    BY <1>1, <1>6 DEF RestTypes
  <2>2. CASE pipe' = pipe /\ version' = version /\ (load' # None => load # None)
    <3>1. PipeTypes'
      BY <1>1, <1>2, <2>2, KindsKept DEF PipeTypes
    <3>2. AnswersInv'
      BY <1>1, <1>2, <1>6, <2>2, StillInOrder
    <3> QED
      BY <1>5, <1>6, <2>1, <3>1, <3>2
  <2> QED
    BY <1>5, <1>6, <2>1, <2>2
<1>7. CASE m.op = "acked" /\ Acknowledged(m.run)
  <2>1. sessionKey' = sessionKey /\ version' = version /\ pipe' = pipe /\ sending' = FALSE
    BY <1>7 DEF Acknowledged
  <2>2. m.run \in Sent
    BY <1>2, <1>4, <1>7
  <2>3. ScreenInv' /\ (load' # None => load # None)
    BY <1>1, <1>7, <2>2, AcknowledgedStep
  <2> QED
    BY <1>6, <2>1, <2>3
<1>8. CASE m.op = "event" /\ Event(m)
  <2>1. sessionKey' = sessionKey /\ version' = version /\ pipe' = pipe /\ sending' = sending
    BY <1>8 DEF Event
  <2>2. m \in Events
    BY <1>2, <1>4, <1>8
  <2>3. ScreenInv' /\ (load' # None => load # None)
    BY <1>1, <1>8, <2>2, EventStep
  <2> QED
    BY <1>6, <2>1, <2>3 DEF RestTypes
<1>9. CASE m.op = "transcript" /\ ApplyHistory(m.msgs, m.version) /\ UNCHANGED <<sessionKey, pipe>>
  <2>1. m \in Answers
    BY <1>2, <1>4, <1>9
  <2>2. ScreenInv' /\ version' = version /\ (load' # None => load # None)
    BY <1>1, <1>3, <1>9, <2>1, ApplyStep
  <2>3. sending' = sending
    BY <1>9 DEF ApplyHistory, browser
  <2> QED
    BY <1>6, <1>9, <2>2, <2>3 DEF RestTypes
<1>10. CASE m.op = "cleared" /\ Cleared
  <2>1. /\ screen' = <<>> /\ runId' = None /\ stream' = None /\ late' = {}
        /\ Ask(sessionKey, <<>>, None)
        /\ UNCHANGED <<sessionKey, sending, seen>>
    BY <1>10 DEF Cleared, Forget
  <2>2. /\ <<>> \in Seq(Shown) /\ ToSet(<<>>) = {} /\ sessionKey \in Sessions
        /\ version \in Nat
    BY DEF ToSet, RestTypes, ScreenInv, ScreenTypes
  <2>3. connected
    BY <1>1 DEF OfflineInv
  <2>4. /\ ScreenInv' /\ version' = version + 1
        /\ pipe' = Append(pipe, [op |-> "history", key |-> sessionKey, version |-> version + 1])
    BY <1>1, <2>1, <2>2, <2>3, AskStep
  <2>5. PipeTypes' /\ AnswersInv'
    BY <1>1, <1>2, <2>1, <2>2, <2>4, AskedInOrder
  <2> QED
    BY <1>6, <2>1, <2>4, <2>5 DEF RestTypes
<1>11. CASE /\ m.op = "refused" /\ sending' = FALSE
            /\ UNCHANGED <<sessionKey, screen, runId, stream, load, version, pipe, seen, fresh, late>>
  BY <1>1, <1>6, <1>11, ScreenKept
<1> QED
  BY <1>1, <1>7, <1>8, <1>9, <1>10, <1>11

(* A request is done and answered, and nothing of the screen changes.      *)
LEMMA ServedStep ==
  ASSUME IInv, pipe # <<>>, RunTypes', faults' \in Nat,
         UNCHANGED <<sessionKey, connected, screen, runId, stream, sending, load, version, wire,
                     home, seen, fresh, late, budget>>,
         lent[sessionKey] \subseteq lent'[sessionKey],
         \/ pipe' = Tail(pipe)
         \/ \E m \in Answers : TranscriptOK(m)' /\ AnswerWith(m)
  PROVE  IInv'
<1> USE DEF IInv
<1>1. ScreenInv'
  BY ScreenKept
<1>2. connected
  BY DEF OfflineInv
<1>3. OfflineInv' /\ RestTypes'
  BY <1>2 DEF OfflineInv, RestTypes
<1>4. CASE pipe' = Tail(pipe)
  <2>1. /\ pipe' \in Seq(Requests \cup Answers)
        /\ \A k \in DOMAIN pipe' : pipe'[k] \notin Answers
        /\ \A k \in DOMAIN pipe' : \E j \in DOMAIN pipe : pipe'[k] = pipe[j]
    BY <1>4, PipeShrinks
  <2>2. PipeTypes'
    BY <2>1, KindsKept DEF PipeTypes
  <2>3. AnswersInv'
    BY <2>1, StillInOrder
  <2> QED
    BY <1>1, <1>3, <2>2, <2>3
<1>5. ASSUME NEW m \in Answers, TranscriptOK(m)', AnswerWith(m)
      PROVE  PipeTypes' /\ AnswersInv'
  <2>1. /\ pipe' \in Seq(Requests \cup Answers)
        /\ \A k \in DOMAIN pipe' : pipe'[k] \in Answers => k = 1
        /\ \A k \in DOMAIN pipe' : pipe'[k] = m \/ \E j \in DOMAIN pipe : pipe'[k] = pipe[j]
    BY <1>5, PipeAnswered
  <2>2. PipeTypes'
    BY <2>1, KindsKept DEF PipeTypes
  <2>3. AskOK(m)'
    BY Kinds DEF AskOK
  <2>4. \A x : (AskOK(x) => AskOK(x)') /\ (TranscriptOK(x) => TranscriptOK(x)')
    BY AnswersKept
  <2>5. (\A k \in DOMAIN pipe : AskOK(pipe[k]) /\ TranscriptOK(pipe[k]))'
    BY <1>5, <2>1, <2>3, <2>4 DEF AnswersInv
  <2>6. (\A k \in DOMAIN wire : TranscriptOK(wire[k]))'
    BY <2>4 DEF AnswersInv
  <2> QED
    BY <2>2, <2>5, <2>6 DEF AnswersInv
<1> QED
  BY <1>1, <1>3, <1>4, <1>5

(* The rows of a session, turned round, as a transcript of another.        *)
LEMMA RowsAsTranscript ==
  ASSUME NEW rows \in Seq(Stored), NEW s \in Sessions
  PROVE  /\ Under(Reverse(rows), s) \in Seq(Shown)
         /\ \A x \in ToSet(Under(Reverse(rows), s)) : x.under = s /\ Sig(x) \in ToSet(rows)
<1> DEFINE n == Len(rows)
           back == Reverse(rows)
<1>1. n \in Nat /\ \A k \in 1 .. n : rows[k] \in Stored
  BY LenProperties, ElementOfSeq
<1>2. back = [k \in 1 .. n |-> rows[(n - k) + 1]]
  BY DEF Reverse
<1>3. \A k \in 1 .. n : (n - k) + 1 \in 1 .. n
  BY <1>1
<1> HIDE DEF n, back
<1>4. DOMAIN back = 1 .. n /\ \A k \in 1 .. n : back[k] \in Stored
  BY <1>1, <1>2, <1>3
<1>5. Under(back, s) = [k \in 1 .. n |-> [run |-> back[k].run, part |-> back[k].part, under |-> s]]
  BY <1>4 DEF Under
<1>6. \A k \in 1 .. n : [run |-> back[k].run, part |-> back[k].part, under |-> s] \in Shown
  BY <1>4 DEF Stored, Shown
<1>7. Under(back, s) \in Seq(Shown)
  BY <1>1, <1>5, <1>6, IsASeq
<1>8. \A x \in ToSet(Under(back, s)) : x.under = s /\ Sig(x) \in ToSet(rows)
  <2> SUFFICES ASSUME NEW k \in 1 .. n
               PROVE  Under(back, s)[k].under = s /\ Sig(Under(back, s)[k]) \in ToSet(rows)
    BY <1>5 DEF ToSet
  <2>1. Under(back, s)[k] = [run |-> back[k].run, part |-> back[k].part, under |-> s]
    BY <1>5
  <2>2. back[k] \in Stored /\ back[k] \in ToSet(rows)
    BY <1>2, <1>3, <1>4 DEF n, ToSet
  <2>3. Sig(Under(back, s)[k]) = back[k]
    BY <2>1, <2>2 DEF Sig, Stored
  <2> QED
    BY <2>1, <2>2, <2>3
<1> QED
  BY <1>7, <1>8 DEF back

LEMMA HandleStep == IInv /\ Handle => IInv'
<1> SUFFICES ASSUME IInv, Handle PROVE IInv'
  OBVIOUS
<1> DEFINE q == Head(pipe)
<1>1. /\ pipe # <<>>
      /\ UNCHANGED <<sessionKey, connected, screen, runId, stream, sending, load, version, wire,
                     home, seen, fresh, late, budget>>
      /\ \/ q.op = "send" /\ HandleChatSend(q.run)
         \/ q.op = "abort" /\ HandleChatAbort(q.run)
         \/ q.op = "reset" /\ HandleReset(q.key)
         \/ q.op = "history" /\ HandleChatHistory(q.key, q.version)
  BY DEF Handle, browser, history
<1>2. q \in Requests \cup Answers /\ AskOK(q)
  <2>1. pipe \in Seq(Requests \cup Answers)
    BY DEF IInv, PipeTypes
  <2>2. Len(pipe) \in Nat \ {0} /\ DOMAIN pipe = 1 .. Len(pipe)
    BY <1>1, <2>1, EmptySeq, LenProperties
  <2>3. q = pipe[1] /\ 1 \in DOMAIN pipe
    BY <2>1, <2>2
  <2> QED
    BY <2>1, <2>3 DEF IInv, AnswersInv, PipeTypes
<1>3. /\ q.op \in {"send", "abort"} => q.run \in Sent /\ q.run \in Runs
      /\ q.op \in {"reset", "history"} => q.key \in Sessions
      /\ q.op = "history" => q.version \in Nat
  <2>1. q \in Requests \/ q.op \notin {"send", "abort", "reset", "history"}
    BY <1>2, Kinds
  <2> QED
    BY <2>1, Kinds, SentRuns DEF IInv
<1>4. /\ db \in [Sessions -> Seq(Stored)] /\ phase \in [Runs -> Phases]
      /\ deltas \in [Runs -> Nat] /\ cancelled \subseteq Runs /\ Started /\ faults \in Nat
      /\ lent \in [Sessions -> SUBSET Stored] /\ sessionKey \in Sessions /\ Sent' = Sent
  BY <1>1, KindsKept DEF IInv, RunTypes, RestTypes
<1> HIDE DEF q
<1>5. faults' = faults \/ Fails => faults' \in Nat
  BY <1>4 DEF Fails
<1>5a. \A a : a.op # "transcript" => TranscriptOK(a)'
  BY DEF TranscriptOK
<1>6. CASE q.op = "send" /\ HandleChatSend(q.run)
  <2> DEFINE m == [op |-> "acked", run |-> q.run]
             n == [op |-> "refused"]
  <2>1. m \in Answers /\ n \in Answers /\ m.op # "transcript" /\ n.op # "transcript"
    BY <1>3, <1>6 DEF Answers
  <2>2. /\ AnswerWith(m) \/ AnswerWith(n)
        /\ phase' = phase \/ phase' = [phase EXCEPT ![q.run] = "started"]
        /\ UNCHANGED <<db, deltas, cancelled, lent>>
        /\ faults' = faults \/ Fails
    BY <1>6 DEF HandleChatSend, gateway
  <2>3. RunTypes'
    BY <1>3, <1>4, <1>6, <2>2 DEF RunTypes, Started, Phases
  <2> HIDE DEF m, n
  <2> QED
    BY <1>1, <1>5, <1>5a, <2>1, <2>2, <2>3, ServedStep
<1>7. CASE q.op = "abort" /\ HandleChatAbort(q.run)
  <2>1. /\ pipe' = Tail(pipe) /\ faults' = faults /\ UNCHANGED <<db, phase, deltas, lent>>
        /\ cancelled' = cancelled \/ cancelled' = cancelled \cup {q.run}
    BY <1>7 DEF HandleChatAbort
  <2>2. cancelled' \subseteq Runs
    BY <1>3, <1>4, <1>7, <2>1
  <2>3. RunTypes'
    BY <1>1, <2>1, <2>2, RunsKept DEF IInv
  <2> QED
    BY <1>1, <1>5, <2>1, <2>3, ServedStep
<1>8. CASE q.op = "reset" /\ HandleReset(q.key)
  <2> DEFINE m == [op |-> "cleared"]
  <2>1. m \in Answers /\ m.op # "transcript"
    BY DEF Answers
  <2>2. /\ AnswerWith(m) \/ pipe' = Tail(pipe)
        /\ db' = db \/ db' = [db EXCEPT ![q.key] = <<>>]
        /\ faults' = faults \/ Fails
        /\ UNCHANGED <<phase, deltas, cancelled, lent>>
    BY <1>8 DEF HandleReset
  <2>3. RunTypes'
    <3>1. [db EXCEPT ![q.key] = <<>>] \in [Sessions -> Seq(Stored)]
      <4>1. <<>> \in Seq(Stored)
        OBVIOUS
      <4> QED
        BY <1>3, <1>4, <1>8, <4>1
    <3> QED
      BY <1>1, <1>4, <2>2, <3>1 DEF RunTypes, Started
  <2> HIDE DEF m
  <2> QED
    BY <1>1, <1>5, <1>5a, <2>1, <2>2, <2>3, ServedStep
<1>9. CASE q.op = "history" /\ HandleChatHistory(q.key, q.version)
  <2> DEFINE m(msgs) == [op |-> "transcript", version |-> q.version, msgs |-> msgs]
             Returned(msgs) == \A x \in ToSet(msgs) : Belongs(x, q.key, lent')
  <2>1. UNCHANGED <<db, phase, deltas, cancelled>> /\ (faults' = faults \/ Fails)
    BY <1>9 DEF HandleChatHistory, gateway
  <2>2. \A s \in Sessions : db[s] \in Seq(Stored) /\ ToSet(db[s]) \subseteq Stored
    BY <1>4, LenProperties, ElementOfSeq DEF ToSet
  <2>3. /\ lent' \in [Sessions -> SUBSET Stored]
        /\ \A s \in Sessions : lent[s] \subseteq lent'[s]
    BY <1>3, <1>4, <1>9, <2>2 DEF HandleChatHistory, gateway
  <2>4. \E msgs \in Seq(Shown) : Returned(msgs) /\ AnswerWith(m(msgs))
    <3>1. CASE AnswerWith(m(Under(Reverse(db[q.key]), q.key)))
      <4>1. /\ Under(Reverse(db[q.key]), q.key) \in Seq(Shown)
            /\ \A x \in ToSet(Under(Reverse(db[q.key]), q.key)) : x.under = q.key
        BY <1>3, <1>9, <2>2, RowsAsTranscript
      <4>2. Returned(Under(Reverse(db[q.key]), q.key))
        BY <4>1 DEF Belongs
      <4> QED
        BY <3>1, <4>1, <4>2
    <3>2. CASE AnswerWith(m(<<>>))
      <4>1. <<>> \in Seq(Shown) /\ ToSet(<<>>) = {}
        BY DEF ToSet
      <4> QED
        BY <3>2, <4>1
    <3>3. ASSUME NEW other \in Sessions, AnswerWith(m(Under(Reverse(db[other]), other))),
                 lent' = [lent EXCEPT ![q.key] = @ \cup ToSet(db[other])]
          PROVE  \E msgs \in Seq(Shown) : Returned(msgs) /\ AnswerWith(m(msgs))
      <4>1. /\ Under(Reverse(db[other]), other) \in Seq(Shown)
            /\ \A x \in ToSet(Under(Reverse(db[other]), other)) : Sig(x) \in ToSet(db[other])
        BY <2>2, RowsAsTranscript
      <4>2. ToSet(db[other]) \subseteq lent'[q.key]
        BY <1>3, <1>4, <1>9, <3>3
      <4>3. Returned(Under(Reverse(db[other]), other))
        BY <4>1, <4>2 DEF Belongs
      <4> QED
        BY <3>3, <4>1, <4>3
    <3> QED
      BY <1>9, <3>1, <3>2, <3>3 DEF HandleChatHistory
  <2>5. PICK msgs \in Seq(Shown) : Returned(msgs) /\ AnswerWith(m(msgs))
    BY <2>4
  <2>6. m(msgs) \in Answers
    BY <1>3, <1>9 DEF Answers
  <2>7. PICK a \in Answers : a = m(msgs)
    BY <2>6
  <2>8. TranscriptOK(a)'
    <3>1. a.version <= version /\ (load # None /\ a.version = version => q.key = sessionKey)
      BY <1>2, <1>9, <2>7 DEF AskOK, IsCurrent
    <3>2. \A x \in ToSet(a.msgs) : Belongs(x, q.key, lent')
      BY <2>5, <2>7
    <3> QED
      BY <1>1, <3>1, <3>2 DEF TranscriptOK, IsCurrent
  <2>9. RunTypes'
    BY <1>1, <1>4, <2>1, <2>3 DEF RunTypes, Started
  <2> HIDE DEF m, Returned
  <2> QED
    BY <1>1, <1>4, <1>5, <2>1, <2>3, <2>5, <2>7, <2>8, <2>9, ServedStep
<1> QED
  BY <1>1, <1>6, <1>7, <1>8, <1>9

(* An answer is written to the socket.                                     *)
LEMMA RespondStep == IInv /\ Respond => IInv'
<1> SUFFICES ASSUME IInv, Respond PROVE IInv'
  OBVIOUS
<1> USE DEF IInv
<1> DEFINE m == Head(pipe)
<1>1. /\ pipe # <<>> /\ m.op \in {"acked", "refused", "cleared", "transcript"}
      /\ wire' = Append(wire, m) /\ pipe' = Tail(pipe)
      /\ UNCHANGED <<sessionKey, connected, screen, runId, stream, sending, load, version,
                     db, phase, deltas, cancelled, lent, home, seen, fresh, late, faults, budget>>
  BY DEF Respond, browser, gateway, history
<1>2. m \in Requests \cup Answers /\ TranscriptOK(m)
  <2>1. pipe \in Seq(Requests \cup Answers)
    BY DEF PipeTypes
  <2>2. m = pipe[1] /\ 1 \in DOMAIN pipe
    BY <1>1, <2>1, EmptySeq, LenProperties
  <2> QED
    BY <2>1, <2>2 DEF AnswersInv
<1>3. m \in Answers
  BY <1>1, <1>2, Kinds
<1> HIDE DEF m
<1>4. /\ pipe' \in Seq(Requests \cup Answers)
      /\ \A k \in DOMAIN pipe' : pipe'[k] \notin Answers
      /\ \A k \in DOMAIN pipe' : \E j \in DOMAIN pipe : pipe'[k] = pipe[j]
  BY <1>1, PipeShrinks
<1>5. /\ wire' \in Seq(Answers \cup Events)
      /\ \A k \in DOMAIN wire' : wire'[k] = m \/ \E j \in DOMAIN wire : wire'[k] = wire[j]
  BY <1>1, <1>3, WireGrows
<1>6. PipeTypes'
  BY <1>1, <1>4, <1>5, KindsKept DEF PipeTypes
<1>7. AnswersInv'
  BY <1>1, <1>2, <1>4, <1>5, StillInOrder
<1>8. ScreenInv'
  BY <1>1, ScreenKept
<1>9. RunTypes' /\ RestTypes' /\ OfflineInv'
  BY <1>1, RunsKept DEF RunTypes, RestTypes, OfflineInv
<1> QED
  BY <1>6, <1>7, <1>8, <1>9

(* A run writes at most one event, if there is still a connection.         *)
LEMMA EventWritten ==
  ASSUME IInv, UNCHANGED <<sessionKey, connected, browser, pipe, lent, home, history>>,
         NEW m \in Events, SendEvent(m) \/ wire' = wire
  PROVE  PipeTypes' /\ AnswersInv' /\ OfflineInv'
<1> USE DEF IInv
<1>1. UNCHANGED <<sessionKey, connected, load, version, pipe, home>>
  BY DEF browser
<1>2. m.op = "event" /\ TranscriptOK(m)
  BY Kinds DEF TranscriptOK
<1>3. CASE wire' = wire
  <2>1. PipeTypes'
    BY <1>1, <1>3, KindsKept DEF PipeTypes
  <2>2. AnswersInv'
    BY <1>1, <1>3, StillInOrder
  <2> QED
    BY <1>1, <1>3, <2>1, <2>2 DEF OfflineInv
<1>4. CASE connected /\ wire' = Append(wire, m)
  <2>1. /\ wire' \in Seq(Answers \cup Events)
        /\ \A k \in DOMAIN wire' : wire'[k] = m \/ \E j \in DOMAIN wire : wire'[k] = wire[j]
    BY <1>4, WireGrows
  <2>2. PipeTypes'
    BY <1>1, <2>1, KindsKept DEF PipeTypes
  <2>3. AnswersInv'
    BY <1>1, <1>2, <2>1, StillInOrder
  <2> QED
    BY <1>1, <1>4, <2>2, <2>3 DEF OfflineInv
<1> QED
  BY <1>3, <1>4 DEF SendEvent

(* What a step of a run may do to its rows, its phase and its counter.     *)
LEMMA RowStored ==
  ASSUME RunTypes, RestTypes, NEW r \in Sent, NEW part \in Parts, Store(r, part)
  PROVE  db' \in [Sessions -> Seq(Stored)] /\ (faults' = faults \/ Fails)
<1>1. r \in Runs /\ home[r] \in Sessions /\ db \in [Sessions -> Seq(Stored)]
  BY SentRuns DEF RunTypes
<1>2. faults' = faults \/ Fails
  BY DEF Store, FaultUnlessCancelled
<1> DEFINE m == [run |-> r, part |-> part]
<1>3. m \in Stored
  BY <1>1 DEF Stored
<1>4. db' = db \/ db' = [db EXCEPT ![home[r]] = Append(@, m)]
  BY DEF Store
<1> HIDE DEF m
<1>5. Append(db[home[r]], m) \in Seq(Stored)
  BY <1>1, <1>3, AppendProperties
<1> QED
  BY <1>1, <1>2, <1>4, <1>5

LEMMA RunStep == ASSUME IInv, NEW r \in Runs, Run(r) PROVE IInv'
<1> DEFINE Kept == UNCHANGED <<sessionKey, connected, browser, pipe, cancelled, lent, home, history,
                               budget>>
           Told == wire' = wire \/ \E m \in Events : SendEvent(m)
           Done == /\ db' \in [Sessions -> Seq(Stored)]
                   /\ phase' \in [Runs -> Phases] /\ deltas' \in [Runs -> Nat]
                   /\ \A q \in Runs : phase'[q] # "none" => q \in Sent
                   /\ faults' = faults \/ Fails
<1>1. /\ Kept
      /\ \/ SaveQuestion(r) \/ HandleDelta(r) \/ HandleDone(r) \/ SaveAnswer(r)
         \/ HandleError(r) \/ RunFails(r)
  BY DEF Run
<1>2. /\ db \in [Sessions -> Seq(Stored)] /\ phase \in [Runs -> Phases]
      /\ deltas \in [Runs -> Nat] /\ \A q \in Runs : phase[q] # "none" => q \in Sent
      /\ RunTypes /\ RestTypes
  BY DEF IInv, RunTypes, Started
<1>3. phase[r] # "none" /\ r \in Sent
  BY <1>1, <1>2 DEF SaveQuestion, HandleDelta, HandleDone, SaveAnswer, HandleError, RunFails, Between
<1>4. ASSUME NEW to \in Phases, phase' = [phase EXCEPT ![r] = to]
      PROVE  phase' \in [Runs -> Phases] /\ \A q \in Runs : phase'[q] # "none" => q \in Sent
  BY <1>2, <1>3, <1>4
<1>5. ASSUME SaveQuestion(r) PROVE Told /\ Done
  <2>1. /\ phase' = [phase EXCEPT ![r] = "asked"] /\ Store(r, "question")
        /\ UNCHANGED <<wire, deltas>>
    BY <1>5 DEF SaveQuestion, Between
  <2> QED
    BY <1>2, <1>3, <1>4, <2>1, RowStored DEF Phases, Parts
<1>6. ASSUME HandleDelta(r) PROVE Told /\ Done
  <2> DEFINE m == [op |-> "event", run |-> r, state |-> "delta", count |-> deltas[r] + 1]
  <2>1. m \in Events
    BY <1>2, <1>3 DEF Events
  <2>2. /\ wire' = wire \/ SendEvent(m)
        /\ deltas' = [deltas EXCEPT ![r] = @ + 1] /\ UNCHANGED <<db, phase, faults>>
    BY <1>6 DEF HandleDelta, WriteEvent
  <2> HIDE DEF m
  <2> QED
    BY <1>2, <2>1, <2>2
<1>7. ASSUME HandleDone(r) PROVE Told /\ Done
  <2> DEFINE m == [op |-> "event", run |-> r, state |-> "final"]
  <2>1. m \in Events
    BY <1>3 DEF Events
  <2>2. /\ wire' = wire \/ SendEvent(m)
        /\ phase' = [phase EXCEPT ![r] = "final"]
        /\ deltas' = [deltas EXCEPT ![r] = 0] /\ UNCHANGED <<db, faults>>
    BY <1>7 DEF HandleDone, WriteEvent, Between
  <2> HIDE DEF m
  <2> QED
    BY <1>2, <1>4, <2>1, <2>2 DEF Phases
<1>8. ASSUME SaveAnswer(r) PROVE Told /\ Done
  <2>1. /\ phase' = [phase EXCEPT ![r] = "ended"] /\ Store(r, "answer")
        /\ UNCHANGED <<wire, deltas>>
    BY <1>8 DEF SaveAnswer, Between
  <2> QED
    BY <1>2, <1>3, <1>4, <2>1, RowStored DEF Phases, Parts
<1>9. ASSUME HandleError(r) PROVE Told /\ Done
  <2> DEFINE m == [op |-> "event", run |-> r, state |-> "error", part |-> "notice"]
  <2>1. m \in Events
    BY <1>3 DEF Events, Parts
  <2>2. /\ wire' = wire \/ SendEvent(m)
        /\ phase' = [phase EXCEPT ![r] = "failing"]
        /\ deltas' = [deltas EXCEPT ![r] = 0] /\ UNCHANGED db
        /\ faults' = faults \/ Fails
    BY <1>9 DEF HandleError, WriteEvent, Between, FaultUnlessCancelled
  <2> HIDE DEF m
  <2> QED
    BY <1>2, <1>4, <2>1, <2>2 DEF Phases
<1>10. ASSUME RunFails(r) PROVE Told /\ Done
  <2> DEFINE m == [op |-> "event", run |-> r, part |-> "failure",
                   state |-> IF r \in cancelled THEN "aborted" ELSE "error"]
  <2>1. m \in Events
    BY <1>3 DEF Events, Parts
  <2>2. /\ SendEvent(m)
        /\ phase' = [phase EXCEPT ![r] = "ended"]
        /\ deltas' = [deltas EXCEPT ![r] = 0] /\ UNCHANGED db
        /\ faults' = faults \/ Fails
    BY <1>10 DEF RunFails, FaultUnlessCancelled
  <2> HIDE DEF m
  <2> QED
    BY <1>2, <1>4, <2>1, <2>2 DEF Phases
<1>11. Told /\ Done
  <2> HIDE DEF Told, Done
  <2> QED
    BY <1>1, <1>5, <1>6, <1>7, <1>8, <1>9, <1>10
<1>12. RunTypes'
  BY <1>1, <1>2, <1>11, KindsKept DEF RunTypes, Started
<1>13. RestTypes'
  <2>1. faults' \in Nat
    BY <1>2, <1>11 DEF RestTypes, Fails
  <2> QED
    BY <1>1, <1>2, <2>1 DEF RestTypes, browser
<1>14. ScreenInv'
  BY <1>1, ScreenKept DEF IInv, browser, history
<1>15. PipeTypes' /\ AnswersInv' /\ OfflineInv'
  <2>1. PICK m \in Events : SendEvent(m) \/ wire' = wire
    <3>1. [op |-> "event", run |-> r, state |-> "final"] \in Events
      BY <1>3 DEF Events
    <3> QED
      BY <1>11, <3>1
  <2> QED
    BY <1>1, <2>1, EventWritten
<1> QED
  BY <1>12, <1>13, <1>14, <1>15 DEF IInv

-------------------------------------------------------------------------------
(* Every step preserves the invariant.                                     *)

LEMMA StepInv == IInv /\ [Next]_vars => IInv'
<1> SUFFICES ASSUME IInv, [Next]_vars PROVE IInv'
  OBVIOUS
<1>1. CASE Next
  <2>1. CASE User
    BY <2>1, LoadChatHistoryStep, AbortRunStep, ClearStep, SendStep, SwitchStep DEF User
  <2>2. CASE Receive \/ Disconnect \/ Hello \/ Handle \/ Respond
    BY <2>2, ReceiveStep, DisconnectStep, HelloStep, HandleStep, RespondStep
  <2>3. CASE \E r \in Runs : Run(r)
    BY <2>3, RunStep
  <2> QED
    BY <1>1, <2>1, <2>2, <2>3 DEF Next
<1>2. CASE UNCHANGED vars
  <2>1. UNCHANGED <<sessionKey, connected, screen, runId, stream, sending, load, version, pipe,
                    wire, db, phase, deltas, cancelled, lent, home, seen, fresh, late, budget, faults>>
    BY <1>2 DEF vars, browser, gateway, history
  <2>2. ScreenInv'
    BY <2>1, ScreenKept DEF IInv
  <2>3. PipeTypes' /\ RunTypes' /\ RestTypes' /\ OfflineInv'
    BY <2>1, KindsKept, RunsKept DEF IInv, PipeTypes, RunTypes, RestTypes, OfflineInv
  <2>4. AnswersInv'
    BY <2>1, StillInOrder DEF IInv
  <2> QED
    BY <2>2, <2>3, <2>4 DEF IInv
<1> QED
  BY <1>1, <1>2

(* The invariant holds in every state, for any sessions and budgets.        *)
THEOREM Invariance == Spec => []IInv
<1>1. Init => IInv
  BY InitInv
<1>2. IInv /\ [Next]_vars => IInv'
  BY StepInv
<1> QED
  BY <1>1, <1>2, PTL DEF Spec

(* The screen, the requests, the answers and events on their way, the rows *)
(* and the runs have the types TypeOK gives them, in every state.          *)
THEOREM TypeCorrect == Spec => []TypeOK
<1>1. IInv => TypeOK
  BY InvTypes
<1> QED
  BY <1>1, Invariance, PTL

(* Whatever comes late, an answer to a load begun under another session,   *)
(* an acknowledgement or an event of a run sent there, puts no message and *)
(* no run of another session on the screen: the only messages of another   *)
(* session there are those the gateway returned for the session selected,  *)
(* when handleChatHistory could not look it up.                            *)
THEOREM ShowsOnlyForThisSession == Spec => []OnlyForThisSession
<1>1. IInv => OnlyForThisSession
  BY DEF IInv, ScreenInv
<1> QED
  BY <1>1, Invariance, PTL

(* What came onto the screen since the last transcript was asked for is    *)
(* not lost when a transcript comes in, that one or an older one, empty,   *)
(* stale or in whichever order.                                            *)
THEOREM NewMessagesAreKept == Spec => []NewMessagesStay
<1>1. IInv => NewMessagesStay
  BY DEF IInv, ScreenInv
<1> QED
  BY <1>1, Invariance, PTL

(* The streamed text is all that has come of the answer of the run shown,  *)
(* although deltas that came while another session was selected were not   *)
(* put together and the stream may have been dropped with a transcript.    *)
THEOREM StreamIsComplete == Spec => []StreamIsTheRuns
<1>1. IInv => StreamIsTheRuns
  BY DEF IInv, ScreenInv
<1> QED
  BY <1>1, Invariance, PTL

-------------------------------------------------------------------------------
(* Why a message is on the screen twice in one way only.                   *)

(* The phases of a run in which a part of it is out, for good: it was sent *)
(* or never will be.                                                       *)
Since == [question |-> Phases \ {"none"}, answer |-> {"final", "failing", "ended"},
          partial |-> {"failing", "ended"}, notice |-> {"failing", "ended"},
          failure |-> {"ended"}]
Out(x, ph) == ph[x.run] \in Since[x.part]

(* What an acknowledgement or an event brings to the screen; a delta the   *)
(* partial answer it becomes when the run fails.                           *)
Carried(m) == IF m.op = "acked" THEN "question"
              ELSE IF m.state = "delta" THEN "partial"
              ELSE IF m.state = "final" THEN "answer" ELSE m.part
Brings(m, x) == m.op \in {"acked", "event"} /\ x.run = m.run /\ x.part = Carried(m)

(* What nothing behind a message brings again.                             *)
Ends(m) == m.op = "event" /\ m.state \in {"aborted", "error"}
Settles(m, x) == \/ Brings(m, x) /\ x.part # "partial"
                 \/ Ends(m) /\ x.run = m.run /\ x.part = "partial"
                 \/ m.op = "transcript" /\ x \in Sigs(m.msgs)
Clean(a, b) == \A x \in Stored : ~(Settles(a, x) /\ Brings(b, x))

Distinct(msgs) == \A k, l \in DOMAIN msgs : k < l => Sig(msgs[k]) # Sig(msgs[l])

(* What the gateway sends: a transcript has a message once, and only what  *)
(* is stored; what is settled is out.                                      *)
Proper(m, ph) ==
  /\ m.op = "transcript" =>
       Distinct(m.msgs) /\ \A x \in Sigs(m.msgs) : x.part \in {"question", "answer"}
  /\ Ends(m) => m.part \in {"notice", "failure"}
  /\ \A x \in Stored : Settles(m, x) => Out(x, ph)

(* What is on its way, the wire before the pipe; in the pipe only its head *)
(* brings anything.                                                        *)
Way(w, p, ph) ==
  /\ \A k \in DOMAIN p : Proper(p[k], ph)
  /\ \A k \in DOMAIN w : Proper(w[k], ph)
  /\ \A i, j \in DOMAIN w : i < j => Clean(w[i], w[j])
  /\ \A i \in DOMAIN w, k \in DOMAIN p : Clean(w[i], p[k])

(* A message is sent once, and its run begins when that is done.           *)
Sends(p, ph) ==
  \A k \in DOMAIN p : p[k].op = "send" =>
     /\ ph[p[k].run] = "none"
     /\ \A i \in DOMAIN p : i < k /\ p[i].op = "send" => p[i].run # p[k].run

(* A question is stored when its run leaves started, its answer at the end. *)
RowOut(x, ph) == \/ x.part = "question" /\ ph[x.run] \notin {"none", "started"}
                 \/ x.part = "answer" /\ ph[x.run] = "ended"
Rows(rows, ph) == Distinct(rows) /\ \A k \in DOMAIN rows : RowOut(rows[k], ph)

(* What is shown is out, and nothing on its way brings it.                 *)
Gone(x, w, p) == /\ \A k \in DOMAIN w : ~Brings(w[k], x)
                 /\ \A k \in DOMAIN p : ~Brings(p[k], x)
Shows(msgs, w, p, ph) == \A x \in Sigs(msgs) : Out(x, ph) /\ Gone(x, w, p)

(* What is streamed is not on the screen as a partial answer already.      *)
PartialInv ==
  Visible => \A k \in DOMAIN screen : ~(screen[k].run = runId /\ screen[k].part = "partial")

(* What came since the load in flight began is late.                       *)
LateInv == load # None => \A k \in DOMAIN screen : k > Len(load.before) => Sig(screen[k]) \in late

WayInv == Way(wire, pipe, phase)
SendsInv == Sends(pipe, phase)
RowsInv == \A s \in Sessions : Rows(db[s], phase)
ShownInv == Shows(screen, wire, pipe, phase)

OnceInv == WayInv /\ SendsInv /\ RowsInv /\ ShownInv /\ PartialInv /\ LateInv
           /\ DoubledOnlyWhenLate

(* The sequences that are read and written, by position.                   *)
LEMMA TailShape ==
  ASSUME NEW X, NEW s \in Seq(X), s # <<>>
  PROVE  /\ 1 \in DOMAIN s /\ Head(s) = s[1] /\ Head(s) \in X
         /\ Tail(s) \in Seq(X)
         /\ \A k \in DOMAIN Tail(s) : k + 1 \in DOMAIN s /\ Tail(s)[k] = s[k + 1]
<1>1. /\ Head(s) \in X /\ Tail(s) \in Seq(X) /\ Len(Tail(s)) = Len(s) - 1
      /\ \A i \in 1 .. Len(Tail(s)) : Tail(s)[i] = s[i + 1]
  BY HeadTailProperties
<1>2. /\ Len(s) \in Nat \ {0} /\ DOMAIN s = 1 .. Len(s)
      /\ DOMAIN Tail(s) = 1 .. Len(Tail(s))
  BY <1>1, LenProperties, EmptySeq
<1>3. Head(s) = s[1]
  BY <1>2
<1> QED
  BY <1>1, <1>2, <1>3

(* What is behind a sequence when a member is appended to it.              *)
LEMMA AppendShape ==
  ASSUME NEW X, NEW s \in Seq(X), NEW m \in X
  PROVE  /\ Append(s, m) \in Seq(X)
         /\ DOMAIN s = 1 .. Len(s) /\ Len(s) \in Nat
         /\ DOMAIN Append(s, m) = 1 .. Len(s) + 1
         /\ \A k \in DOMAIN s : Append(s, m)[k] = s[k]
         /\ Append(s, m)[Len(s) + 1] = m
<1>1. /\ Append(s, m) \in Seq(X) /\ Len(Append(s, m)) = Len(s) + 1
      /\ \A k \in 1 .. Len(s) : Append(s, m)[k] = s[k]
      /\ Append(s, m)[Len(s) + 1] = m
  BY AppendProperties
<1>2. Len(s) \in Nat /\ DOMAIN s = 1 .. Len(s)
  BY LenProperties
<1>3. DOMAIN Append(s, m) = 1 .. Len(s) + 1
  BY <1>1, LenProperties
<1> QED
  BY <1>1, <1>2, <1>3

(* What is behind a member that is put before a sequence.                  *)
LEMMA ConsShape ==
  ASSUME NEW X, NEW s \in Seq(X), NEW m \in X
  PROVE  /\ <<m>> \o s \in Seq(X) /\ (<<m>> \o s)[1] = m
         /\ \A k \in DOMAIN (<<m>> \o s) : k # 1 => k - 1 \in DOMAIN s /\ (<<m>> \o s)[k] = s[k - 1]
         /\ \A k \in DOMAIN (<<m>> \o s) : k \in Nat \ {0}
<1> DEFINE one == <<m>>
<1>1. one \in Seq(X) /\ Len(one) = 1 /\ one[1] = m
  OBVIOUS
<1> HIDE DEF one
<1> DEFINE t == one \o s
<1>2. /\ t \in Seq(X) /\ Len(t) = 1 + Len(s)
      /\ \A k \in 1 .. 1 : t[k] = one[k]
      /\ \A k \in 1 .. Len(s) : t[1 + k] = s[k]
  <2>1. /\ t \in Seq(X) /\ Len(t) = Len(one) + Len(s)
        /\ \A i \in 1 .. Len(one) + Len(s) : t[i] = IF i <= Len(one) THEN one[i]
                                                   ELSE s[i - Len(one)]
    BY <1>1, ConcatProperties
  <2>2. Len(s) \in Nat
    BY LenProperties
  <2> HIDE DEF t
  <2> QED
    BY <1>1, <2>1, <2>2
<1>3. DOMAIN t = 1 .. Len(t) /\ Len(s) \in Nat /\ DOMAIN s = 1 .. Len(s)
  BY <1>2, LenProperties
<1>4. t[1] = m
  BY <1>1, <1>2
<1>5. \A k \in DOMAIN t : k # 1 => k - 1 \in DOMAIN s /\ t[k] = s[k - 1]
  <2> TAKE k \in DOMAIN t
  <2> HAVE k # 1
  <2>1. k - 1 \in 1 .. Len(s) /\ 1 + (k - 1) = k
    BY <1>2, <1>3
  <2> QED
    BY <1>2, <1>3, <2>1
<1>6. \A k \in DOMAIN t : k \in Nat \ {0}
  BY <1>2, <1>3
<1> QED
  BY <1>2, <1>4, <1>5, <1>6 DEF one


(* The names of what is shown.                                             *)
LEMMA SigsAre ==
  ASSUME NEW msgs \in Seq(Shown)
  PROVE  /\ Sigs(msgs) \subseteq Stored
         /\ \A k \in DOMAIN msgs : Sig(msgs[k]) \in Sigs(msgs)
         /\ \A x \in Sigs(msgs) : \E k \in DOMAIN msgs : x = Sig(msgs[k])
<1>1. \A k \in DOMAIN msgs : msgs[k] \in Shown
  BY LenProperties, ElementOfSeq
<1>2. \A k \in DOMAIN msgs : Sig(msgs[k]) \in Stored
  BY <1>1 DEF Shown, Sig, Stored
<1> QED
  BY <1>2 DEF Sigs, ToSet

(* The invariants, of the next state.                                      *)
LEMMA NextInvs ==
  /\ Way(wire, pipe, phase)' <=> Way(wire', pipe', phase')
  /\ Sends(pipe, phase)' <=> Sends(pipe', phase')
  /\ (\A s \in Sessions : Rows(db[s], phase))' <=> \A s \in Sessions : Rows(db'[s], phase')
  /\ Shows(screen, wire, pipe, phase)' <=> Shows(screen', wire', pipe', phase')
<1>1. Way(wire, pipe, phase)' <=> Way(wire', pipe', phase')
  BY DEF Way, Proper, Clean, Settles, Brings, Carried, Ends, Distinct, Sigs, ToSet, Sig, Out
<1>2. Sends(pipe, phase)' <=> Sends(pipe', phase')
  BY DEF Sends
<1>3. (\A s \in Sessions : Rows(db[s], phase))' <=> \A s \in Sessions : Rows(db'[s], phase')
  BY DEF Rows, RowOut, Distinct, Sig
<1>4. Shows(screen, wire, pipe, phase)' <=> Shows(screen', wire', pipe', phase')
  BY DEF Shows, Gone, Brings, Carried, Sigs, ToSet, Sig, Out
<1> QED
  BY <1>1, <1>2, <1>3, <1>4

(* A request brings and settles nothing.                                   *)
LEMMA Idle ==
  ASSUME NEW m, m.op \notin {"acked", "event", "transcript"}, NEW ph
  PROVE  /\ \A x : ~Brings(m, x) /\ ~Settles(m, x)
         /\ Proper(m, ph)
         /\ \A a : Clean(a, m) /\ Clean(m, a)
<1>1. \A x : ~Brings(m, x) /\ ~Settles(m, x)
  BY DEF Brings, Settles, Ends
<1>2. Proper(m, ph)
  BY <1>1 DEF Proper, Ends
<1> QED
  BY <1>1, <1>2 DEF Clean

(* Runs only go on: what is out stays so, and so does what may be stored.  *)
Onwards(a, b) ==
  \/ a = b \/ a = "none"
  \/ a = "started" /\ b # "none"
  \/ a = "asked" /\ b \in {"final", "failing", "ended"}
  \/ a = "final" /\ b \in {"failing", "ended"}
  \/ a = "failing" /\ b = "ended"
GoesOn(ph, next) == \A x \in Stored : /\ Out(x, ph) => Out(x, next)
                                      /\ RowOut(x, ph) => RowOut(x, next)

(* One run goes on.                                                        *)
LEMMA GoingOn ==
  ASSUME NEW ph \in [Runs -> Phases], NEW r \in Runs, NEW to \in Phases, Onwards(ph[r], to)
  PROVE  GoesOn(ph, [ph EXCEPT ![r] = to])
<1> DEFINE next == [ph EXCEPT ![r] = to]
<1>1. \A q \in Runs : Onwards(ph[q], next[q]) /\ ph[q] \in Phases /\ next[q] \in Phases
  BY DEF Onwards
<1>2. \A x \in Stored : x.run \in Runs /\ x.part \in Parts
  BY DEF Stored
<1> HIDE DEF next
<1> DEFINE Later(S) == \A a, b \in Phases : a \in S /\ Onwards(a, b) => b \in S
<1>3. /\ Later(Phases \ {"none"}) /\ Later({"final", "failing", "ended"})
      /\ Later({"failing", "ended"}) /\ Later({"ended"})
  BY DEF Onwards, Phases
<1>4. \A p \in Parts : Later(Since[p])
  BY <1>3 DEF Parts, Since
<1>5. ASSUME NEW x \in Stored, Out(x, ph) PROVE Out(x, next)
  <2> HIDE DEF Later
  <2>1. Later(Since[x.part]) /\ ph[x.run] \in Since[x.part]
    BY <1>2, <1>4, <1>5 DEF Out
  <2> QED
    BY <1>1, <1>2, <2>1 DEF Later, Out
<1>6. \A x \in Stored : RowOut(x, ph) => RowOut(x, next)
  BY <1>1, <1>2 DEF RowOut, Onwards
<1> QED
  BY <1>5, <1>6 DEF GoesOn, next

(* What is on its way stays what the gateway sends while runs go on.       *)
LEMMA ProperStays == ASSUME NEW ph, NEW next, GoesOn(ph, next), NEW m, Proper(m, ph)
                     PROVE  Proper(m, next)
  BY DEF Proper, GoesOn

-------------------------------------------------------------------------------
(* What is on its way, after a step.                                       *)

(* The pipe may take what the wire allows; the wire may give its head.     *)
LEMMA WayGoesOn ==
  ASSUME NEW w \in Seq(Answers \cup Events), NEW p, NEW ph, Way(w, p, ph),
         NEW w2, w2 = w \/ (w # <<>> /\ w2 = Tail(w)),
         NEW p2, NEW ph2, GoesOn(ph, ph2),
         \A k \in DOMAIN p2 : \/ \E j \in DOMAIN p : p2[k] = p[j]
                              \/ Proper(p2[k], ph2) /\ (\A i \in DOMAIN w : Clean(w[i], p2[k]))
  PROVE  Way(w2, p2, ph2)
<1>1. /\ \A k \in DOMAIN p : Proper(p[k], ph2)
      /\ \A k \in DOMAIN w : Proper(w[k], ph2)
  BY ProperStays DEF Way
<1>2. /\ \A k \in DOMAIN p2 : Proper(p2[k], ph2)
      /\ \A k \in DOMAIN p2, i \in DOMAIN w : Clean(w[i], p2[k])
  BY <1>1 DEF Way
<1>3. /\ \A k \in DOMAIN w2 : \E i \in DOMAIN w : w2[k] = w[i]
      /\ \A i, j \in DOMAIN w2 : i < j => Clean(w2[i], w2[j])
  <2>1. CASE w2 = w
    BY <2>1 DEF Way
  <2>2. CASE w # <<>> /\ w2 = Tail(w)
    <3>1. /\ \A k \in DOMAIN w2 : k + 1 \in DOMAIN w /\ w2[k] = w[k + 1]
          /\ w2 \in Seq(Answers \cup Events)
      BY <2>2, TailShape
    <3>2. DOMAIN w2 \subseteq Nat
      BY <3>1, LenProperties
    <3>3. \A i, j \in DOMAIN w2 : i < j => i + 1 < j + 1
      BY <3>2
    <3> QED
      BY <3>1, <3>3 DEF Way
  <2> QED
    BY <2>1, <2>2
<1> QED
  BY <1>1, <1>2, <1>3 DEF Way

(* The wire takes a message that nothing on it has settled.                *)
LEMMA WayCarries ==
  ASSUME NEW w \in Seq(Answers \cup Events), NEW p, NEW ph, Way(w, p, ph),
         NEW p2, NEW ph2, GoesOn(ph, ph2),
         \A k \in DOMAIN p2 : \E j \in DOMAIN p : p2[k] = p[j],
         NEW m \in Answers \cup Events, Proper(m, ph2),
         \A i \in DOMAIN w : Clean(w[i], m),
         \A k \in DOMAIN p2 : Clean(m, p2[k])
  PROVE  Way(Append(w, m), p2, ph2)
<1> DEFINE w2 == Append(w, m)
<1>1. /\ \A k \in DOMAIN p : Proper(p[k], ph2)
      /\ \A k \in DOMAIN w : Proper(w[k], ph2)
  BY ProperStays DEF Way
<1>2. /\ DOMAIN w = 1 .. Len(w) /\ Len(w) \in Nat
      /\ DOMAIN w2 = 1 .. Len(w) + 1
      /\ \A k \in DOMAIN w : w2[k] = w[k]
      /\ w2[Len(w) + 1] = m
  BY AppendShape
<1> HIDE DEF w2
<1>3. \A k \in DOMAIN w2 : (k \in DOMAIN w /\ w2[k] = w[k]) \/ w2[k] = m
  BY <1>2
<1>4. \A k \in DOMAIN w2 : Proper(w2[k], ph2)
  BY <1>1, <1>3
<1>5. ASSUME NEW i \in DOMAIN w2, NEW j \in DOMAIN w2, i < j PROVE Clean(w2[i], w2[j])
  <2>1. i \in DOMAIN w
    BY <1>2, <1>5
  <2>2. w2[i] = w[i] /\ ((j \in DOMAIN w /\ w2[j] = w[j]) \/ w2[j] = m)
    BY <1>2, <1>3, <2>1
  <2> QED
    BY <1>5, <2>1, <2>2 DEF Way
<1>6. \A i \in DOMAIN w2, k \in DOMAIN p2 : Clean(w2[i], p2[k])
  BY <1>3 DEF Way
<1>7. \A k \in DOMAIN p2 : Proper(p2[k], ph2)
  BY <1>1
<1> QED
  BY <1>4, <1>5, <1>6, <1>7 DEF Way, w2

(* The pipe takes a request.                                               *)
LEMMA SendsAsked ==
  ASSUME NEW X, NEW p \in Seq(X), NEW ph, Sends(p, ph), NEW q \in X,
         q.op = "send" => /\ ph[q.run] = "none"
                          /\ \A k \in DOMAIN p : p[k].op = "send" => p[k].run # q.run
  PROVE  Sends(Append(p, q), ph)
<1> DEFINE p2 == Append(p, q)
<1>1. /\ DOMAIN p = 1 .. Len(p) /\ Len(p) \in Nat
      /\ DOMAIN p2 = 1 .. Len(p) + 1
      /\ \A k \in DOMAIN p : p2[k] = p[k]
      /\ p2[Len(p) + 1] = q
  BY AppendShape
<1> HIDE DEF p2
<1>2. ASSUME NEW k \in DOMAIN p2, p2[k].op = "send"
      PROVE  /\ ph[p2[k].run] = "none"
             /\ \A i \in DOMAIN p2 : i < k /\ p2[i].op = "send" => p2[i].run # p2[k].run
  <2>1. \A i \in DOMAIN p2 : i < k => i \in DOMAIN p /\ p2[i] = p[i]
    BY <1>1
  <2>2. CASE k \in DOMAIN p
    BY <1>1, <1>2, <2>1, <2>2 DEF Sends
  <2>3. CASE k = Len(p) + 1
    BY <1>1, <1>2, <2>1, <2>3
  <2> QED
    BY <1>1, <2>2, <2>3
<1> QED
  BY <1>2 DEF Sends, p2

(* The pipe is done with one, whose answer may take its place.             *)
LEMMA SendsServed ==
  ASSUME Sent \subseteq Runs, NEW p \in Seq(Requests \cup Answers), p # <<>>,
         NEW ph \in [Runs -> Phases], Sends(p, ph),
         NEW p2, p2 = Tail(p) \/ \E m \in Answers : p2 = <<m>> \o Tail(p),
         NEW ph2, \/ ph2 = ph
                  \/ Head(p).op = "send" /\ ph2 = [ph EXCEPT ![Head(p).run] = "started"]
  PROVE  Sends(p2, ph2)
<1> DEFINE rest == Tail(p)
<1>1. /\ 1 \in DOMAIN p /\ Head(p) = p[1]
      /\ rest \in Seq(Requests \cup Answers)
      /\ \A k \in DOMAIN rest : k + 1 \in DOMAIN p /\ rest[k] = p[k + 1]
  BY TailShape
<1> HIDE DEF rest
<1>2. DOMAIN rest \subseteq Nat \ {0}
  <2>1. DOMAIN rest = 1 .. Len(rest) /\ Len(rest) \in Nat
    BY <1>1, LenProperties
  <2> QED
    BY <2>1
<1>3. ASSUME NEW k \in DOMAIN rest, rest[k].op = "send"
      PROVE  /\ ph2[rest[k].run] = "none"
             /\ \A i \in DOMAIN rest : i < k /\ rest[i].op = "send" => rest[i].run # rest[k].run
  <2>1. k + 1 \in DOMAIN p /\ rest[k] = p[k + 1] /\ 1 < k + 1
    BY <1>1, <1>2
  <2>2. /\ ph[rest[k].run] = "none"
        /\ \A i \in DOMAIN p : i < k + 1 /\ p[i].op = "send" => p[i].run # rest[k].run
    BY <1>3, <2>1 DEF Sends
  <2>3. \A i \in DOMAIN rest : i < k => i + 1 < k + 1
    BY <1>2
  <2>4. Head(p).op = "send" => Head(p).run # rest[k].run
    BY <1>1, <2>1, <2>2
  <2>5. rest[k].run \in Runs
    <3>1. rest[k] \in Requests \cup Answers
      BY <1>1, LenProperties, ElementOfSeq
    <3> QED
      BY <1>3, <3>1, Kinds
  <2>6. ph2[rest[k].run] = "none"
    BY <2>2, <2>4, <2>5
  <2> QED
    BY <1>1, <2>2, <2>3, <2>6
<1>4. CASE p2 = Tail(p)
  BY <1>3, <1>4 DEF Sends, rest
<1>5. CASE \E m \in Answers : p2 = <<m>> \o Tail(p)
  <2>1. PICK m \in Answers : p2 = <<m>> \o rest
    BY <1>5 DEF rest
  <2>2. m \in Requests \cup Answers /\ m.op # "send"
    BY Kinds
  <2>3. /\ p2[1] = m
        /\ \A k \in DOMAIN p2 : k # 1 => k - 1 \in DOMAIN rest /\ p2[k] = rest[k - 1]
        /\ \A k \in DOMAIN p2 : k \in Nat \ {0}
    BY <1>1, <2>1, <2>2, ConsShape
  <2>4. \A k \in DOMAIN p2 : p2[k].op = "send" => k - 1 \in DOMAIN rest /\ p2[k] = rest[k - 1]
    BY <2>2, <2>3
  <2>5. \A i, k \in DOMAIN p2 : i < k => i - 1 < k - 1
    BY <2>3
  <2> QED
    BY <1>3, <2>4, <2>5 DEF Sends
<1> QED
  BY <1>4, <1>5

-------------------------------------------------------------------------------
(* What is shown, after a step.                                            *)

(* What comes on its way brings nothing that is out.                       *)
LEMMA ShowsStill ==
  ASSUME NEW msgs \in Seq(Shown), NEW w, NEW p, NEW ph, Shows(msgs, w, p, ph),
         NEW w2, NEW p2, NEW ph2, GoesOn(ph, ph2),
         \A k \in DOMAIN p2 : \/ \E j \in DOMAIN p : p2[k] = p[j]
                              \/ \A x \in Stored : Brings(p2[k], x) => ~Out(x, ph),
         \A k \in DOMAIN w2 : \/ \E j \in DOMAIN w : w2[k] = w[j]
                              \/ \E j \in DOMAIN p : w2[k] = p[j]
                              \/ \A x \in Stored : Brings(w2[k], x) => ~Out(x, ph)
  PROVE  Shows(msgs, w2, p2, ph2)
<1> SUFFICES ASSUME NEW x \in Sigs(msgs) PROVE Out(x, ph2) /\ Gone(x, w2, p2)
  BY DEF Shows
<1>1. x \in Stored /\ Out(x, ph) /\ Gone(x, w, p)
  BY SigsAre DEF Shows
<1>2. Out(x, ph2)
  BY <1>1 DEF GoesOn
<1>3. \A k \in DOMAIN p2 : ~Brings(p2[k], x)
  BY <1>1 DEF Gone
<1>4. \A k \in DOMAIN w2 : ~Brings(w2[k], x)
  BY <1>1 DEF Gone
<1> QED
  BY <1>2, <1>3, <1>4 DEF Gone

(* What the head of the wire settles may be shown when it arrives.         *)
LEMMA ShowsArrived ==
  ASSUME NEW msgs \in Seq(Shown), NEW w \in Seq(Answers \cup Events), w # <<>>, NEW p, NEW ph,
         Shows(msgs, w, p, ph), Way(w, p, ph),
         NEW p2, \A k \in DOMAIN p2 : \/ \E j \in DOMAIN p : p2[k] = p[j]
                                      \/ \A x : ~Brings(p2[k], x),
         NEW now \in Seq(Shown),
         \A x \in Sigs(now) : x \in Sigs(msgs) \/ Settles(Head(w), x)
  PROVE  Shows(now, Tail(w), p2, ph)
<1> DEFINE m == Head(w)
           w2 == Tail(w)
<1>1. /\ 1 \in DOMAIN w /\ m = w[1]
      /\ w2 \in Seq(Answers \cup Events)
      /\ \A k \in DOMAIN w2 : k + 1 \in DOMAIN w /\ w2[k] = w[k + 1]
  BY TailShape
<1> HIDE DEF w2
<1>2. \A k \in DOMAIN w2 : 1 < k + 1
  BY <1>1, LenProperties
<1>3. ASSUME NEW x \in Sigs(now)
      PROVE  /\ Out(x, ph)
             /\ \A k \in DOMAIN w2 : ~Brings(w2[k], x)
             /\ \A k \in DOMAIN p : ~Brings(p[k], x)
  <2>1. CASE x \in Sigs(msgs)
    BY <1>1, <2>1 DEF Shows, Gone
  <2>2. CASE Settles(m, x)
    <3> HIDE DEF m
    <3>1. /\ Proper(m, ph)
          /\ \A k \in DOMAIN w2 : Clean(m, w2[k])
          /\ \A k \in DOMAIN p : Clean(m, p[k])
      BY <1>1, <1>2 DEF Way
    <3>2. x \in Stored
      BY <1>3, SigsAre
    <3> QED
      BY <2>2, <3>1, <3>2 DEF Proper, Clean
  <2> QED
    BY <1>3, <2>1, <2>2
<1> SUFFICES ASSUME NEW x \in Sigs(now) PROVE Out(x, ph) /\ Gone(x, w2, p2)
  BY DEF Shows, w2
<1>4. \A k \in DOMAIN p2 : ~Brings(p2[k], x)
  BY <1>3
<1> QED
  BY <1>3, <1>4 DEF Gone

-------------------------------------------------------------------------------
(* What the screen has twice.                                              *)

(* What is not on the screen is appended, each message once.               *)
LEMMA AppendedOnce ==
  ASSUME ScreenInv, LateInv, DoubledOnlyWhenLate,
         NEW ms \in Seq(Shown), Distinct(ms), \A x \in Sigs(ms) : x \notin Sigs(screen),
         AppendAll(ms)
  PROVE  /\ screen' \in Seq(Shown) /\ Sigs(screen') \subseteq Sigs(screen) \cup Sigs(ms)
         /\ \A k \in DOMAIN screen' : \/ \E j \in DOMAIN screen : screen'[k] = screen[j]
                                      \/ \E j \in DOMAIN ms : screen'[k] = ms[j]
         /\ LateInv' /\ DoubledOnlyWhenLate'
<1>1. /\ screen' = screen \o ms
      /\ load # None => late' = late \cup Sigs(ms)
      /\ late \subseteq late'
      /\ load' = load \/ (load # None /\ load' = [load EXCEPT !.shared = FALSE])
  BY DEF AppendAll, Assign
<1>2. screen \in Seq(Shown)
  BY DEF ScreenInv, ScreenTypes
<1>3. /\ screen' \in Seq(Shown) /\ Len(screen') = Len(screen) + Len(ms)
      /\ \A k \in 1 .. Len(screen) : screen'[k] = screen[k]
      /\ \A k \in 1 .. Len(ms) : screen'[Len(screen) + k] = ms[k]
  BY <1>1, <1>2, ConcatElements
<1>4. /\ Len(screen) \in Nat /\ DOMAIN screen = 1 .. Len(screen)
      /\ Len(ms) \in Nat /\ DOMAIN ms = 1 .. Len(ms)
      /\ DOMAIN screen' = 1 .. Len(screen')
  BY <1>2, <1>3, LenProperties
<1>5. \A k \in DOMAIN screen' :
        \/ k \in DOMAIN screen /\ screen'[k] = screen[k]
        \/ k > Len(screen) /\ k - Len(screen) \in DOMAIN ms /\ screen'[k] = ms[k - Len(screen)]
  <2> TAKE k \in DOMAIN screen'
  <2>1. CASE k <= Len(screen)
    BY <2>1, <1>3, <1>4
  <2>2. CASE ~(k <= Len(screen))
    <3>1. k - Len(screen) \in 1 .. Len(ms) /\ Len(screen) + (k - Len(screen)) = k
      BY <2>2, <1>3, <1>4
    <3> QED
      BY <2>2, <3>1, <1>3, <1>4
  <2> QED
    BY <2>1, <2>2
<1>6. /\ \A k \in DOMAIN screen : Sig(screen[k]) \in Sigs(screen)
      /\ \A k \in DOMAIN ms : Sig(ms[k]) \in Sigs(ms)
  BY <1>2, SigsAre
<1>7. Sigs(screen') \subseteq Sigs(screen) \cup Sigs(ms)
  <2>1. \A x \in Sigs(screen') : \E k \in DOMAIN screen' : x = Sig(screen'[k])
    BY <1>3, SigsAre
  <2> QED
    BY <1>5, <1>6, <2>1
<1>8. load' # None => load # None /\ load'.before = load.before
  BY <1>1 DEF ScreenInv, ScreenTypes
<1>9. LateInv'
  <2> SUFFICES ASSUME load' # None, NEW k \in DOMAIN screen', k > Len(load'.before)
               PROVE  Sig(screen'[k]) \in late'
    BY DEF LateInv, Sig
  <2>1. late' = late \cup Sigs(ms) /\ load # None /\ k > Len(load.before)
    BY <1>1, <1>8
  <2> QED
    BY <2>1, <1>5, <1>6 DEF LateInv
<1>10. DoubledOnlyWhenLate'
  <2> SUFFICES ASSUME NEW k \in DOMAIN screen', NEW l \in DOMAIN screen', k < l,
                      Sig(screen'[k]) = Sig(screen'[l])
               PROVE  screen'[k].part = "answer" /\ Sig(screen'[k]) \in late'
    BY DEF DoubledOnlyWhenLate, Sig
  <2>1. CASE l \in DOMAIN screen
    <3>1. k \in DOMAIN screen /\ screen'[k] = screen[k] /\ screen'[l] = screen[l]
      BY <2>1, <1>3, <1>4
    <3> QED
      BY <2>1, <3>1, <1>1 DEF DoubledOnlyWhenLate
  <2>2. CASE l \notin DOMAIN screen
    <3>1. l - Len(screen) \in DOMAIN ms /\ screen'[l] = ms[l - Len(screen)]
      BY <2>2, <1>5
    <3>2. Sig(screen'[l]) \in Sigs(ms)
      BY <3>1, <1>6
    <3>3. k \notin DOMAIN screen
      BY <3>2, <1>3, <1>4, <1>6
    <3>4. k - Len(screen) \in DOMAIN ms /\ screen'[k] = ms[k - Len(screen)]
      BY <3>3, <1>5
    <3>5. k - Len(screen) < l - Len(screen)
      BY <1>4
    <3> QED
      BY <3>1, <3>4, <3>5 DEF Distinct
  <2> QED
    BY <2>1, <2>2
<1> QED
  BY <1>3, <1>5, <1>7, <1>9, <1>10

(* The tail kept behind a transcript is what the transcript has not.       *)
LEMMA PreservedOnce ==
  ASSUME NEW msgs \in Seq(Shown), NEW before \in Seq(Shown), Distinct(msgs),
         NEW k \in DOMAIN PreserveTail(msgs, before), NEW l \in DOMAIN PreserveTail(msgs, before),
         k < l, Sig(PreserveTail(msgs, before)[k]) = Sig(PreserveTail(msgs, before)[l])
  PROVE  \E i, j \in DOMAIN before : /\ i < j /\ Sig(before[i]) = Sig(before[j])
                                     /\ Sig(before[i]) = Sig(PreserveTail(msgs, before)[k])
<1> DEFINE I == {i \in 1 .. Len(before) : Sig(before[i]) \in Sigs(msgs)}
           last == IF I # {} THEN Max(I) ELSE 0
           tail == SubSeq(before, last + 1, Len(before))
           P == PreserveTail(msgs, before)
<1>1. Len(before) \in Nat /\ DOMAIN before = 1 .. Len(before)
      /\ Len(msgs) \in Nat /\ DOMAIN msgs = 1 .. Len(msgs)
  BY LenProperties
<1>2. last \in 0 .. Len(before) /\ \A i \in I : i <= last
  <2>1. I # {} => Max(I) \in I /\ \A i \in I : i <= Max(I)
    BY <1>1, LastPosition
  <2> QED
    BY <1>1, <2>1
<1>3. P = IF msgs = <<>> THEN before
          ELSE IF last = 0 \/ Sig(before[last]) # Sig(Last(msgs)) THEN msgs ELSE msgs \o tail
  BY DEF PreserveTail, SelectLastInSeq
<1> HIDE DEF last
<1>4. /\ tail \in Seq(Shown) /\ Len(tail) = Len(before) - last
      /\ \A i \in 1 .. Len(before) - last : tail[i] = before[last + i]
  BY <1>2, SuffixElements
<1> HIDE DEF tail
<1>5. CASE P = before
  BY <1>5
<1>6. CASE P = msgs
  BY <1>6 DEF Distinct
<1>7. CASE P = msgs \o tail
  <2>1. /\ P \in Seq(Shown) /\ Len(P) = Len(msgs) + Len(tail)
        /\ \A i \in 1 .. Len(msgs) : P[i] = msgs[i]
        /\ \A i \in 1 .. Len(tail) : P[Len(msgs) + i] = tail[i]
    <3> DEFINE both == msgs \o tail
    <3>1. /\ both \in Seq(Shown) /\ Len(both) = Len(msgs) + Len(tail)
          /\ \A i \in 1 .. Len(msgs) : both[i] = msgs[i]
          /\ \A i \in 1 .. Len(tail) : both[Len(msgs) + i] = tail[i]
      <4>1. /\ both \in Seq(Shown) /\ Len(both) = Len(msgs) + Len(tail)
            /\ \A i \in 1 .. Len(msgs) + Len(tail) :
                 both[i] = IF i <= Len(msgs) THEN msgs[i] ELSE tail[i - Len(msgs)]
        BY <1>4, ConcatProperties
      <4>2. Len(tail) \in Nat
        BY <1>4, LenProperties
      <4> HIDE DEF both
      <4> QED
        BY <1>1, <4>1, <4>2
    <3>2. P = both
      BY <1>7
    <3> HIDE DEF both, P
    <3> QED
      BY <3>1, <3>2
  <2>2. DOMAIN P = 1 .. Len(msgs) + Len(tail) /\ Len(tail) \in Nat
    BY <1>1, <1>2, <1>4, <2>1, LenProperties
  <2> HIDE DEF P
  <2>3. /\ k \in 1 .. Len(msgs) + Len(tail) /\ l \in 1 .. Len(msgs) + Len(tail)
        /\ k < l /\ Sig(P[k]) = Sig(P[l])
    BY <2>2 DEF P
  <2> DEFINE at(n) == last + (n - Len(msgs))
  <2>4. \A n \in 1 .. Len(msgs) + Len(tail) : n > Len(msgs) =>
          at(n) \in DOMAIN before /\ at(n) > last /\ P[n] = before[at(n)]
    <3> SUFFICES ASSUME NEW n \in 1 .. Len(msgs) + Len(tail), n > Len(msgs)
                 PROVE  at(n) \in DOMAIN before /\ at(n) > last /\ P[n] = before[at(n)]
      OBVIOUS
    <3>1. n - Len(msgs) \in 1 .. Len(tail) /\ Len(msgs) + (n - Len(msgs)) = n
      BY <1>1, <2>2
    <3>2. P[n] = tail[n - Len(msgs)]
      BY <2>1, <3>1
    <3>3. tail[n - Len(msgs)] = before[at(n)]
      BY <1>4, <3>1
    <3>4. at(n) \in 1 .. Len(before) /\ at(n) > last
      BY <1>1, <1>2, <1>4, <3>1
    <3> QED
      BY <1>1, <3>2, <3>3, <3>4
  <2>5. CASE l <= Len(msgs)
    <3>1. k \in DOMAIN msgs /\ l \in DOMAIN msgs /\ P[k] = msgs[k] /\ P[l] = msgs[l]
      BY <1>1, <2>1, <2>2, <2>3, <2>5
    <3> QED
      BY <2>3, <3>1 DEF Distinct
  <2>6. CASE k <= Len(msgs) /\ l > Len(msgs)
    <3>1. k \in DOMAIN msgs /\ P[k] = msgs[k]
      BY <1>1, <2>1, <2>2, <2>3, <2>6
    <3>2. Sig(P[k]) \in Sigs(msgs)
      BY <3>1, SigsAre
    <3>3. at(l) \in DOMAIN before /\ at(l) > last /\ P[l] = before[at(l)]
      BY <2>3, <2>4, <2>6
    <3> HIDE DEF at
    <3>4. at(l) \in I
      BY <1>1, <2>3, <3>2, <3>3
    <3>5. at(l) \in Nat /\ last \in Nat
      BY <1>1, <1>2, <3>3
    <3> QED
      BY <1>2, <3>3, <3>4, <3>5
  <2>7. CASE k > Len(msgs)
    <3>1. l > Len(msgs) /\ at(k) < at(l)
      BY <1>1, <1>2, <2>2, <2>3, <2>7
    <3>2. /\ at(k) \in DOMAIN before /\ P[k] = before[at(k)]
          /\ at(l) \in DOMAIN before /\ P[l] = before[at(l)]
      BY <2>3, <2>4, <2>7, <3>1
    <3> HIDE DEF at
    <3> QED
      BY <2>3, <3>1, <3>2 DEF P
  <2> QED
    BY <1>1, <2>3, <2>5, <2>6, <2>7
<1> QED
  BY <1>3, <1>5, <1>6, <1>7

(* A transcript: what is on the screen twice then was so before, or is an  *)
(* answer that came while the transcript, which has it, was on its way.    *)
LEMMA AppliedOnce ==
  ASSUME ScreenInv, LateInv, DoubledOnlyWhenLate,
         NEW m \in Answers, m.op = "transcript", Distinct(m.msgs),
         ShouldApply(m.version), ApplyHistory(m.msgs, m.version)
  PROVE  /\ screen' \in Seq(Shown) /\ Sigs(screen') \subseteq Sigs(screen) \cup Sigs(m.msgs)
         /\ LateInv' /\ DoubledOnlyWhenLate'
<1> DEFINE b == load.before
           kept == {k \in Len(b) + 1 .. Len(screen) :
                      ~(Stamped(screen[k]) /\ Sig(screen[k]) \in Sigs(m.msgs))}
           P == PreserveTail(m.msgs, b)
           L == LateTail(m.msgs, b)
           now == P \o L
<1>1. m.msgs \in Seq(Shown)
  BY Kinds
<1>2. load # None /\ screen' = now /\ load' = None /\ late' = late
  BY DEF ShouldApply, ApplyHistory, history
<1>3. /\ b \in Seq(Shown) /\ screen \in Seq(Shown)
      /\ Len(b) <= Len(screen)
      /\ \A k \in DOMAIN b : screen[k] = b[k]
      /\ \A k \in DOMAIN screen : k > Len(b) => Sig(screen[k]) \in late
  BY <1>2 DEF ScreenInv, ScreenTypes, LoadInv, LateInv
<1>4. /\ Len(b) \in Nat /\ DOMAIN b = 1 .. Len(b)
      /\ Len(screen) \in Nat /\ DOMAIN screen = 1 .. Len(screen)
  BY <1>3, LenProperties
<1> HIDE DEF b
<1>5. IsPrefix(b, screen)
  <2>1. \A k \in 1 .. Len(b) : screen[k] = b[k]
    BY <1>3, <1>4
  <2>2. SubSeq(b, 1, Len(b)) = SubSeq(screen, 1, Len(b))
    BY <1>3, <1>4, <2>1
  <2> QED
    BY <1>3, <2>2 DEF IsPrefix
<1>6. L = Pick(screen, kept) /\ kept \in SUBSET (DOMAIN screen)
  BY <1>4, <1>5 DEF LateTail
<1>7. \A q \in kept : /\ q \in DOMAIN screen /\ q > Len(b)
                      /\ Sig(screen[q]) \in Sigs(m.msgs) => screen[q].part = "answer"
  BY <1>4 DEF Stamped
<1> HIDE DEF kept, L
<1>8. PICK f \in [DOMAIN L -> kept] :
         /\ \A k \in DOMAIN L : L[k] = screen[f[k]]
         /\ \A k, l \in DOMAIN L : k < l <=> f[k] < f[l]
  BY <1>3, <1>6, PickOrder
<1>9. L \in Seq(Shown)
  BY <1>3, <1>6, PickOrder
<1>10. /\ P \in Seq(Shown)
       /\ ToSet(P) \subseteq ToSet(m.msgs) \cup ToSet(b)
  BY <1>1, <1>3, TailPreserved
<1>11. /\ now \in Seq(Shown) /\ Len(now) = Len(P) + Len(L)
       /\ \A k \in 1 .. Len(P) : now[k] = P[k]
       /\ \A k \in 1 .. Len(L) : now[Len(P) + k] = L[k]
  <2> HIDE DEF P
  <2> QED
    BY <1>9, <1>10, ConcatElements
<1>12. /\ Len(P) \in Nat /\ DOMAIN P = 1 .. Len(P)
       /\ Len(L) \in Nat /\ DOMAIN L = 1 .. Len(L)
       /\ DOMAIN now = 1 .. Len(P) + Len(L)
  <2> HIDE DEF P, now
  <2> QED
    BY <1>9, <1>10, <1>11, LenProperties
<1> HIDE DEF now
<1>13. \A k \in DOMAIN now : \/ k \in DOMAIN P /\ now[k] = P[k]
                             \/ /\ k > Len(P) /\ k - Len(P) \in DOMAIN L
                                /\ now[k] = screen[f[k - Len(P)]] /\ f[k - Len(P)] \in kept
  <2> HIDE DEF P
  <2> TAKE k \in DOMAIN now
  <2>1. CASE k <= Len(P)
    BY <2>1, <1>11, <1>12
  <2>2. CASE ~(k <= Len(P))
    <3>1. k - Len(P) \in 1 .. Len(L) /\ Len(P) + (k - Len(P)) = k /\ k > Len(P)
      BY <2>2, <1>12
    <3>2. now[k] = L[k - Len(P)]
      BY <3>1, <1>11
    <3> QED
      BY <3>1, <3>2, <1>8, <1>12
  <2> QED
    BY <2>1, <2>2
<1>14. \A k \in DOMAIN P : \/ Sig(P[k]) \in Sigs(m.msgs)
                           \/ \E i \in DOMAIN b : P[k] = b[i]
  <2>1. \A k \in DOMAIN P : P[k] \in ToSet(m.msgs) \cup ToSet(b)
    BY <1>10 DEF ToSet
  <2> HIDE DEF P
  <2> QED
    BY <2>1 DEF ToSet, Sigs
<1>15. \A i \in DOMAIN b : i \in DOMAIN screen /\ b[i] = screen[i] /\ i <= Len(b)
  BY <1>3, <1>4
<1>16. Sigs(now) \subseteq Sigs(screen) \cup Sigs(m.msgs)
  <2>1. \A x \in Sigs(now) : \E k \in DOMAIN now : x = Sig(now[k])
    BY <1>11, SigsAre
  <2>2. \A k \in DOMAIN screen : Sig(screen[k]) \in Sigs(screen)
    BY <1>3, SigsAre
  <2> HIDE DEF P
  <2> QED
    BY <2>1, <2>2, <1>7, <1>13, <1>14, <1>15
<1>17. ASSUME NEW i \in DOMAIN screen, NEW j \in DOMAIN screen, i < j,
              Sig(screen[i]) = Sig(screen[j])
       PROVE  screen[i].part = "answer" /\ Sig(screen[i]) \in late
  BY <1>17 DEF DoubledOnlyWhenLate
<1>18. ASSUME NEW k \in DOMAIN now, NEW l \in DOMAIN now, k < l, Sig(now[k]) = Sig(now[l])
       PROVE  now[k].part = "answer" /\ Sig(now[k]) \in late
  <2>0. \A x, y : Sig(x) = Sig(y) => x.part = y.part
    BY DEF Sig
  <2>1. CASE l \in DOMAIN P
    <3>1. k \in DOMAIN P /\ now[k] = P[k] /\ now[l] = P[l]
      <4> HIDE DEF P
      <4> QED
        BY <1>11, <1>12, <2>1, <1>18
    <3>2. PICK i \in DOMAIN b, j \in DOMAIN b :
             i < j /\ Sig(b[i]) = Sig(b[j]) /\ Sig(b[i]) = Sig(P[k])
      BY <1>1, <1>3, <1>18, <2>1, <3>1, PreservedOnce
    <3> HIDE DEF P
    <3>3. screen[i].part = "answer" /\ Sig(screen[i]) \in late /\ Sig(screen[i]) = Sig(now[k])
      BY <1>15, <1>17, <3>1, <3>2
    <3> QED
      BY <2>0, <3>3
  <2>2. CASE k \in DOMAIN P /\ l \notin DOMAIN P
    <3> HIDE DEF P
    <3> DEFINE q == f[l - Len(P)]
    <3>1. now[l] = screen[q] /\ q \in kept
      BY <1>13, <2>2
    <3> HIDE DEF q
    <3>2. q \in DOMAIN screen /\ q > Len(b) /\ Sig(screen[q]) \in late
      BY <1>3, <1>7, <3>1
    <3>3. now[k] = P[k]
      BY <1>11, <1>12, <2>2
    <3>4. CASE Sig(P[k]) \in Sigs(m.msgs)
      <4>1. screen[q].part = "answer"
        BY <1>7, <1>18, <3>1, <3>3, <3>4
      <4> QED
        BY <1>18, <2>0, <3>1, <3>2, <4>1
    <3>5. CASE \E i \in DOMAIN b : P[k] = b[i]
      <4>1. PICK i \in DOMAIN b : P[k] = b[i]
        BY <3>5
      <4>2. i \in DOMAIN screen /\ now[k] = screen[i] /\ i < q
        BY <1>4, <1>15, <3>2, <3>3, <4>1
      <4> QED
        BY <1>17, <1>18, <3>1, <3>2, <4>2
    <3> QED
      BY <1>14, <2>2, <3>4, <3>5
  <2>3. CASE k \notin DOMAIN P
    <3> HIDE DEF P
    <3> DEFINE i == k - Len(P)
               j == l - Len(P)
    <3>1. l \notin DOMAIN P /\ i < j
      BY <1>12, <1>18, <2>3
    <3>2. /\ i \in DOMAIN L /\ now[k] = screen[f[i]] /\ f[i] \in kept
          /\ j \in DOMAIN L /\ now[l] = screen[f[j]] /\ f[j] \in kept
      BY <1>13, <2>3, <3>1
    <3> HIDE DEF i, j
    <3>3. f[i] < f[j] /\ f[i] \in DOMAIN screen /\ f[j] \in DOMAIN screen
      BY <1>7, <1>8, <3>1, <3>2
    <3> QED
      BY <1>17, <1>18, <3>2, <3>3
  <2> QED
    BY <2>1, <2>2, <2>3
<1>19. DoubledOnlyWhenLate'
  BY <1>2, <1>18 DEF DoubledOnlyWhenLate, Sig
<1>20. LateInv'
  BY <1>2 DEF LateInv
<1> QED
  BY <1>2, <1>11, <1>16, <1>19, <1>20

-------------------------------------------------------------------------------
(* The steps keep this invariant.                                          *)

(* An empty screen shows nothing that could come again.                    *)
LEMMA ShowsNothing == ASSUME NEW w, NEW p, NEW ph PROVE Shows(<<>>, w, p, ph)
  BY DEF Shows, Sigs, ToSet

(* Runs that stand still go on.                                            *)
LEMMA GoesOnStanding == ASSUME NEW ph PROVE GoesOn(ph, ph)
  BY DEF GoesOn

(* At most a request more; the screen stays or is emptied.                 *)
LEMMA AskedOnce ==
  ASSUME IInv, OnceInv, UNCHANGED <<wire, phase, db>>, screen' = screen \/ screen' = <<>>,
         NEW X, pipe \in Seq(X), NEW q \in X, q.op \in {"send", "abort", "reset", "history"},
         pipe' = pipe \/ pipe' = Append(pipe, q),
         q.op = "send" => /\ phase[q.run] = "none"
                          /\ \A k \in DOMAIN pipe : pipe[k].op = "send" => pipe[k].run # q.run,
         UNCHANGED <<runId, stream>> \/ stream' = None,
         LateInv', DoubledOnlyWhenLate'
  PROVE  OnceInv'
<1>1. /\ Way(wire, pipe, phase) /\ Sends(pipe, phase) /\ Shows(screen, wire, pipe, phase)
      /\ \A s \in Sessions : Rows(db[s], phase)
  BY DEF OnceInv, WayInv, SendsInv, ShownInv, RowsInv
<1>2. wire \in Seq(Answers \cup Events) /\ screen \in Seq(Shown)
  BY DEF IInv, PipeTypes, ScreenInv, ScreenTypes
<1>3. \A k \in DOMAIN pipe' : pipe'[k] = q \/ \E j \in DOMAIN pipe : pipe'[k] = pipe[j]
  <2>1. CASE pipe' = Append(pipe, q)
    <3>1. /\ DOMAIN pipe = 1 .. Len(pipe) /\ Len(pipe) \in Nat
          /\ DOMAIN pipe' = 1 .. Len(pipe) + 1
          /\ \A k \in DOMAIN pipe : pipe'[k] = pipe[k]
          /\ pipe'[Len(pipe) + 1] = q
      BY <2>1, AppendShape
    <3> QED
      BY <3>1
  <2> QED
    BY <2>1
<1>4. /\ \A x : ~Brings(q, x) /\ ~Settles(q, x)
      /\ Proper(q, phase) /\ \A a : Clean(a, q)
  BY Idle
<1>5. GoesOn(phase, phase)
  BY GoesOnStanding
<1>6. Way(wire, pipe', phase)
  BY <1>1, <1>2, <1>3, <1>4, <1>5, WayGoesOn
<1>7. Sends(pipe', phase)
  <2>1. Sends(Append(pipe, q), phase)
    BY <1>1, SendsAsked
  <2> QED
    BY <1>1, <2>1
<1>8. Shows(screen', wire, pipe', phase)
  <2>1. Shows(screen, wire, pipe', phase)
    BY <1>1, <1>2, <1>3, <1>4, <1>5, ShowsStill
  <2> QED
    BY <2>1, ShowsNothing
<1>9. WayInv' /\ SendsInv' /\ ShownInv' /\ RowsInv'
  BY <1>1, <1>6, <1>7, <1>8, NextInvs DEF WayInv, SendsInv, ShownInv, RowsInv
<1>10. PartialInv'
  BY DEF OnceInv, PartialInv, Visible
<1> QED
  BY <1>9, <1>10 DEF OnceInv

(* What the screen waits for and what is late stay, or the screen is empty. *)
LEMMA LateStays ==
  ASSUME OnceInv, \/ screen' = <<>>
                  \/ UNCHANGED <<screen, late>> /\ (load' = load \/ load' = None)
                  \/ UNCHANGED <<screen, late>> /\ load'.before = screen /\ screen \in Seq(Shown)
  PROVE  LateInv' /\ DoubledOnlyWhenLate'
<1>1. CASE screen' = <<>>
  BY <1>1 DEF LateInv, DoubledOnlyWhenLate
<1>2. CASE UNCHANGED <<screen, late>>
  <2>1. DoubledOnlyWhenLate'
    BY <1>2 DEF OnceInv, DoubledOnlyWhenLate, Sig
  <2>2. CASE load' = load \/ load' = None
    BY <1>2, <2>1, <2>2 DEF OnceInv, LateInv, Sig
  <2>3. CASE load'.before = screen /\ screen \in Seq(Shown)
    <3>1. \A k \in DOMAIN screen' : ~(k > Len(load'.before))
      BY <1>2, <2>3, LenProperties
    <3> QED
      BY <2>1, <3>1 DEF LateInv
  <2> QED
    BY <1>1, <1>2, <2>2, <2>3
<1> QED
  BY <1>1, <1>2

(* The user: at most a request more, and the screen as it was or empty.    *)
LEMMA UserOnce == IInv /\ OnceInv /\ User => OnceInv'
<1> SUFFICES ASSUME IInv, OnceInv, User PROVE OnceInv'
  OBVIOUS
<1>1. /\ pipe \in Seq(Requests \cup Answers) /\ sessionKey \in Sessions
      /\ runId \in Sent \cup {None} /\ version \in Nat /\ screen \in Seq(Shown)
      /\ \A r \in Runs : phase[r] # "none" => r \in Sent
      /\ home \in Seq(Sessions)
  BY DEF IInv, PipeTypes, RestTypes, ScreenInv, ScreenTypes, RunTypes, Started
<1> DEFINE X(q) == Requests \cup Answers \cup {q}
<1>2. \A q : pipe \in Seq(X(q)) /\ q \in X(q)
  <2> TAKE q
  <2>1. Requests \cup Answers \subseteq X(q)
    OBVIOUS
  <2> HIDE DEF X
  <2>2. pipe \in Seq(X(q))
    BY <1>1, <2>1, SeqMonotonic
  <2> QED
    BY <2>2 DEF X
<1> HIDE DEF X
(* A request that is no message to send.                                   *)
<1>3. ASSUME NEW q, q.op \in {"abort", "reset", "history"},
             pipe' = pipe \/ pipe' = Append(pipe, q),
             UNCHANGED <<wire, phase, db>>, screen' = screen \/ screen' = <<>>,
             UNCHANGED <<runId, stream>> \/ stream' = None,
             LateInv' /\ DoubledOnlyWhenLate'
      PROVE  OnceInv'
  BY <1>2, <1>3, AskedOnce
<1>4. CASE LoadChatHistory
  <2> DEFINE q == [op |-> "history", key |-> sessionKey, version |-> version + 1]
  <2>1. /\ pipe' = Append(pipe, q) /\ q.op = "history" /\ load'.before = screen
        /\ UNCHANGED <<wire, phase, db, screen, runId, stream, late>>
    BY <1>4 DEF LoadChatHistory, Ask, gateway
  <2> HIDE DEF q
  <2>2. LateInv' /\ DoubledOnlyWhenLate'
    BY <1>1, <2>1, LateStays
  <2> QED
    BY <2>1, <2>2, <1>3
<1>5. CASE AbortRun
  <2> DEFINE q == [op |-> "abort", run |-> runId]
  <2>1. /\ pipe' = Append(pipe, q) /\ q.op = "abort"
        /\ UNCHANGED <<wire, phase, db, screen, runId, stream, load, late>>
    BY <1>5 DEF AbortRun, browser, gateway, history
  <2> HIDE DEF q
  <2>2. LateInv' /\ DoubledOnlyWhenLate'
    BY <2>1, LateStays
  <2> QED
    BY <2>1, <2>2, <1>3
<1>6. CASE Clear
  <2> DEFINE q == [op |-> "reset", key |-> sessionKey]
  <2>1. /\ pipe' = Append(pipe, q) /\ q.op = "reset"
        /\ UNCHANGED <<wire, phase, db, screen, runId, stream, load, late>>
    BY <1>6 DEF Clear, browser, gateway, history
  <2> HIDE DEF q
  <2>2. LateInv' /\ DoubledOnlyWhenLate'
    BY <2>1, LateStays
  <2> QED
    BY <2>1, <2>2, <1>3
<1>7. ASSUME NEW s \in Sessions, SwitchChatSession(s) PROVE OnceInv'
  <2> DEFINE q == [op |-> "history", key |-> s, version |-> version + 1]
  <2>1. /\ pipe' = Append(pipe, q) \/ pipe' = pipe
        /\ q.op = "history" /\ screen' = <<>> /\ stream' = None
        /\ UNCHANGED <<wire, phase, db>>
    BY <1>7 DEF SwitchChatSession, Ask, gateway
  <2> HIDE DEF q
  <2>2. LateInv' /\ DoubledOnlyWhenLate'
    BY <2>1, LateStays
  <2> QED
    BY <2>1, <2>2, <1>3
<1>8. ASSUME NEW r \in Runs, Send(r) PROVE OnceInv'
  <2> DEFINE q == [op |-> "send", run |-> r]
  <2>1. /\ pipe' = Append(pipe, q) /\ q.op = "send" /\ q.run = r /\ r = Len(home) + 1
        /\ UNCHANGED <<wire, phase, db, screen, runId, stream, load, late>>
    BY <1>8 DEF Send, gateway, history
  <2> HIDE DEF q
  <2>2. LateInv' /\ DoubledOnlyWhenLate'
    BY <2>1, LateStays
  <2>3. r \notin Sent
    <3>1. Len(home) \in Nat /\ DOMAIN home = 1 .. Len(home)
      BY <1>1, LenProperties
    <3> QED
      BY <2>1, <3>1 DEF Sent
  <2>4. phase[r] = "none"
    BY <1>1, <2>3
  <2>5. \A k \in DOMAIN pipe : pipe[k].op = "send" => pipe[k].run # r
    <3>1. \A k \in DOMAIN pipe : pipe[k] \in Requests \cup Answers
      BY <1>1, LenProperties, ElementOfSeq
    <3> QED
      BY <2>3, <3>1, Kinds
  <2> QED
    BY <2>1, <2>2, <2>4, <2>5, <1>2, AskedOnce
<1> QED
  BY <1>4, <1>5, <1>6, <1>7, <1>8 DEF User

(* Connected again: the run shown is dropped.                              *)
LEMMA HelloOnce == IInv /\ OnceInv /\ Hello => OnceInv'
<1> SUFFICES ASSUME IInv, OnceInv, Hello PROVE OnceInv'
  OBVIOUS
<1>1. /\ stream' = None
      /\ UNCHANGED <<wire, pipe, phase, db, screen, load, late>>
  BY DEF Hello, Forget, gateway, history
<1>2. LateInv' /\ DoubledOnlyWhenLate'
  BY <1>1, LateStays
<1> DEFINE q == [op |-> "reset", key |-> sessionKey]
<1>3. q.op = "reset" /\ q \in Requests \cup Answers /\ pipe \in Seq(Requests \cup Answers)
  BY DEF IInv, RestTypes, PipeTypes, Requests
<1> HIDE DEF q
<1> QED
  BY <1>1, <1>2, <1>3, AskedOnce

(* What was on its way is lost with the connection.                        *)
LEMMA DisconnectOnce == IInv /\ OnceInv /\ Disconnect => OnceInv'
<1> SUFFICES ASSUME IInv, OnceInv, Disconnect PROVE OnceInv'
  OBVIOUS
<1>1. /\ pipe' = <<>> /\ wire' = <<>> /\ load' = None
      /\ UNCHANGED <<phase, db, screen, runId, stream, late>>
  BY DEF Disconnect, history
<1>2. LateInv' /\ DoubledOnlyWhenLate'
  BY <1>1, LateStays
<1>3. PartialInv'
  BY <1>1 DEF OnceInv, PartialInv, Visible
<1>4. Way(wire', pipe', phase') /\ Sends(pipe', phase')
  BY <1>1 DEF Way, Sends
<1>5. \A s \in Sessions : Rows(db'[s], phase')
  BY <1>1 DEF OnceInv, RowsInv
<1>6. Shows(screen', wire', pipe', phase')
  BY <1>1 DEF OnceInv, ShownInv, Shows, Gone
<1> QED
  BY <1>2, <1>3, <1>4, <1>5, <1>6, NextInvs DEF OnceInv, WayInv, SendsInv, RowsInv, ShownInv

(* A request is done, and answered or not.                                 *)
LEMMA ServedOnce ==
  ASSUME IInv, OnceInv, pipe # <<>>,
         UNCHANGED <<wire, screen, runId, stream, load, late>>,
         NEW m \in Answers, pipe' = Tail(pipe) \/ AnswerWith(m),
         Proper(m, phase'), \A x \in Stored : Brings(m, x) => ~Out(x, phase),
         \/ phase' = phase
         \/ Head(pipe).op = "send" /\ phase' = [phase EXCEPT ![Head(pipe).run] = "started"],
         \A s \in Sessions : GoesOn(phase, phase') => Rows(db'[s], phase')
  PROVE  OnceInv'
<1>1. /\ Way(wire, pipe, phase) /\ Sends(pipe, phase) /\ Shows(screen, wire, pipe, phase)
  BY DEF OnceInv, WayInv, SendsInv, ShownInv
<1>2. /\ wire \in Seq(Answers \cup Events) /\ screen \in Seq(Shown)
      /\ pipe \in Seq(Requests \cup Answers) /\ phase \in [Runs -> Phases]
      /\ Sent \subseteq Runs
  BY SentRuns DEF IInv, PipeTypes, ScreenInv, ScreenTypes, RunTypes
<1>3. GoesOn(phase, phase')
  <2>1. CASE phase' = phase
    BY <2>1, GoesOnStanding
  <2>2. CASE Head(pipe).op = "send" /\ phase' = [phase EXCEPT ![Head(pipe).run] = "started"]
    <3>1. 1 \in DOMAIN pipe /\ Head(pipe) = pipe[1] /\ Head(pipe) \in Requests \cup Answers
      BY <1>2, TailShape
    <3>2. Head(pipe).run \in Runs
      BY <1>2, <2>2, <3>1, Kinds
    <3>3. phase[Head(pipe).run] = "none"
      BY <1>1, <2>2, <3>1 DEF Sends
    <3>4. Onwards(phase[Head(pipe).run], "started") /\ "started" \in Phases
      BY <3>3 DEF Onwards, Phases
    <3> QED
      BY <1>2, <2>2, <3>2, <3>4, GoingOn
  <2> QED
    BY <2>1, <2>2
<1>4. \A k \in DOMAIN pipe' : pipe'[k] = m \/ \E j \in DOMAIN pipe : pipe'[k] = pipe[j]
  <2>1. PipeTypes
    BY DEF IInv
  <2>2. CASE pipe' = Tail(pipe)
    BY <2>1, <2>2, PipeShrinks
  <2>3. CASE AnswerWith(m)
    BY <2>1, <2>3, PipeAnswered
  <2> QED
    BY <2>2, <2>3
<1>5. \A i \in DOMAIN wire : Clean(wire[i], m)
  BY <1>1 DEF Way, Proper, Clean
<1>6. Way(wire, pipe', phase')
  BY <1>1, <1>2, <1>3, <1>4, <1>5, WayGoesOn
<1>7. Sends(pipe', phase')
  <2>1. pipe' = Tail(pipe) \/ \E a \in Answers : pipe' = <<a>> \o Tail(pipe)
    BY DEF AnswerWith
  <2> QED
    BY <1>1, <1>2, <2>1, SendsServed
<1>8. Shows(screen, wire, pipe', phase')
  BY <1>1, <1>2, <1>3, <1>4, ShowsStill
<1>9. WayInv' /\ SendsInv' /\ ShownInv' /\ RowsInv'
  BY <1>3, <1>6, <1>7, <1>8, NextInvs DEF WayInv, SendsInv, ShownInv, RowsInv
<1>10. PartialInv'
  BY DEF OnceInv, PartialInv, Visible
<1>11. LateInv' /\ DoubledOnlyWhenLate'
  BY LateStays
<1> QED
  BY <1>9, <1>10, <1>11 DEF OnceInv

(* The rows, turned round, are as distinct, and out.                       *)
LEMMA RowsInTranscript ==
  ASSUME NEW rows \in Seq(Stored), NEW s, NEW ph \in [Runs -> Phases], Rows(rows, ph)
  PROVE  /\ Distinct(Under(Reverse(rows), s))
         /\ \A x \in Sigs(Under(Reverse(rows), s)) :
              x.part \in {"question", "answer"} /\ (x \in Stored => Out(x, ph))
<1> DEFINE n == Len(rows)
           back == Reverse(rows)
           at(k) == (n - k) + 1
<1>1. n \in Nat /\ DOMAIN rows = 1 .. n /\ \A k \in 1 .. n : rows[k] \in Stored
  BY LenProperties, ElementOfSeq
<1>2. back = [k \in 1 .. n |-> rows[at(k)]]
  BY DEF Reverse
<1>3. /\ \A k \in 1 .. n : at(k) \in DOMAIN rows
      /\ \A k, l \in 1 .. n : k < l => at(l) < at(k)
  BY <1>1
<1> HIDE DEF n, back, at
<1>4. DOMAIN back = 1 .. n /\ \A k \in 1 .. n : back[k] = rows[at(k)] /\ rows[at(k)] \in Stored
  BY <1>1, <1>2, <1>3
<1> DEFINE msgs == Under(back, s)
<1>5. msgs = [k \in 1 .. n |-> [run |-> back[k].run, part |-> back[k].part, under |-> s]]
  BY <1>4 DEF Under
<1>6. DOMAIN msgs = 1 .. n /\ \A k \in 1 .. n : Sig(msgs[k]) = Sig(rows[at(k)])
  BY <1>4, <1>5 DEF Sig
<1> HIDE DEF msgs
<1>7. Distinct(msgs)
  BY <1>3, <1>6 DEF Distinct, Rows
<1>8. ASSUME NEW x \in Sigs(msgs)
      PROVE  x.part \in {"question", "answer"} /\ (x \in Stored => Out(x, ph))
  <2>1. PICK k \in 1 .. n : x = Sig(rows[at(k)])
    BY <1>6 DEF Sigs, ToSet
  <2>2. RowOut(rows[at(k)], ph) /\ x.run = rows[at(k)].run /\ x.part = rows[at(k)].part
    BY <1>3, <2>1 DEF Rows, Sig
  <2>3. CASE x.part = "question"
    <3>1. Since[x.part] = Phases \ {"none"}
      BY <2>3 DEF Since
    <3>2. x \in Stored => ph[x.run] \in Phases
      BY DEF Stored
    <3> QED
      BY <2>2, <2>3, <3>1, <3>2 DEF RowOut, Out
  <2>4. CASE x.part = "answer"
    BY <2>2, <2>4 DEF RowOut, Out, Since
  <2> QED
    BY <2>2, <2>3, <2>4 DEF RowOut
<1> QED
  BY <1>7, <1>8 DEF msgs, back

(* The gateway does a request and answers it.                              *)
LEMMA HandleOnce == IInv /\ OnceInv /\ Handle => OnceInv'
<1> SUFFICES ASSUME IInv, OnceInv, Handle PROVE OnceInv'
  OBVIOUS
<1> DEFINE q == Head(pipe)
<1>1. /\ pipe # <<>>
      /\ UNCHANGED <<wire, screen, runId, stream, load, late>>
      /\ \/ q.op = "send" /\ HandleChatSend(q.run)
         \/ q.op = "abort" /\ HandleChatAbort(q.run)
         \/ q.op = "reset" /\ HandleReset(q.key)
         \/ q.op = "history" /\ HandleChatHistory(q.key, q.version)
  BY DEF Handle, browser, history
<1>2. /\ q \in Requests \cup Answers /\ 1 \in DOMAIN pipe /\ q = pipe[1]
      /\ pipe \in Seq(Requests \cup Answers)
  <2>1. pipe \in Seq(Requests \cup Answers)
    BY DEF IInv, PipeTypes
  <2> QED
    BY <1>1, <2>1, TailShape
<1>3. /\ q.op \in {"send", "abort"} => q.run \in Sent /\ q.run \in Runs
      /\ q.op \in {"reset", "history"} => q.key \in Sessions
      /\ q.op = "history" => q.version \in Nat
  BY <1>2, Kinds, SentRuns DEF IInv
<1>4. /\ db \in [Sessions -> Seq(Stored)] /\ phase \in [Runs -> Phases]
      /\ Sends(pipe, phase) /\ \A s \in Sessions : Rows(db[s], phase)
      /\ \A s \in Sessions : db[s] \in Seq(Stored)
  BY DEF IInv, RunTypes, OnceInv, SendsInv, RowsInv
<1>5. ASSUME db' = db
      PROVE  \A s \in Sessions : GoesOn(phase, phase') => Rows(db'[s], phase')
  <2>1. \A s \in Sessions : \A k \in DOMAIN db[s] : db[s][k] \in Stored
    BY <1>4, LenProperties, ElementOfSeq
  <2> QED
    BY <1>4, <1>5, <2>1 DEF Rows, GoesOn
<1>6. ASSUME NEW n, n.op \in {"refused", "cleared"}
      PROVE  Proper(n, phase) /\ \A x \in Stored : Brings(n, x) => ~Out(x, phase)
  BY <1>6, Idle
<1> DEFINE no == [op |-> "refused"]
<1>7. no \in Answers /\ no.op = "refused"
  BY DEF Answers
<1> HIDE DEF q, no
<1>8. CASE q.op = "send" /\ HandleChatSend(q.run)
  <2> DEFINE m == [op |-> "acked", run |-> q.run]
  <2>1. CASE /\ AnswerWith(m) /\ phase' = [phase EXCEPT ![q.run] = "started"] /\ db' = db
    <3>1. m \in Answers
      BY <1>3, <1>8 DEF Answers
    <3>2. \A x : Brings(m, x) <=> x.run = q.run /\ x.part = "question"
      BY DEF Brings, Carried
    <3>3. \A x : Settles(m, x) <=> x.run = q.run /\ x.part = "question"
      BY <3>2 DEF Settles, Ends
    <3>4. phase[q.run] = "none" /\ phase'[q.run] = "started"
      BY <1>2, <1>3, <1>4, <1>8, <2>1 DEF Sends
    <3>5. Since["question"] = Phases \ {"none"} /\ "started" \in Phases
      BY DEF Since, Phases
    <3>6. Proper(m, phase')
      <4>1. \A x \in Stored : Settles(m, x) => Out(x, phase')
        BY <3>3, <3>4, <3>5 DEF Out
      <4> QED
        BY <4>1 DEF Proper, Ends
    <3>7. \A x \in Stored : Brings(m, x) => ~Out(x, phase)
      BY <3>2, <3>4, <3>5 DEF Out
    <3> HIDE DEF m
    <3> QED
      BY <1>1, <1>5, <1>8, <2>1, <3>1, <3>6, <3>7, ServedOnce DEF q
  <2>2. CASE AnswerWith(no) /\ phase' = phase /\ db' = db
    BY <1>1, <1>5, <1>6, <1>7, <2>2, ServedOnce
  <2> QED
    BY <1>8, <2>1, <2>2 DEF HandleChatSend, gateway, no
<1>9. CASE q.op = "abort" /\ HandleChatAbort(q.run)
  <2>1. pipe' = Tail(pipe) /\ phase' = phase /\ db' = db
    BY <1>9 DEF HandleChatAbort
  <2> QED
    BY <1>1, <1>5, <1>6, <1>7, <2>1, ServedOnce
<1>10. CASE q.op = "reset" /\ HandleReset(q.key)
  <2> DEFINE m == [op |-> "cleared"]
  <2>1. m \in Answers /\ m.op = "cleared"
    BY DEF Answers
  <2>2. /\ AnswerWith(m) \/ pipe' = Tail(pipe)
        /\ db' = db \/ db' = [db EXCEPT ![q.key] = <<>>]
        /\ phase' = phase
    BY <1>10 DEF HandleReset
  <2> HIDE DEF m
  <2>3. \A s \in Sessions : GoesOn(phase, phase') => Rows(db'[s], phase')
    <3>1. Rows(<<>>, phase)
      BY DEF Rows, Distinct
    <3>2. \A s \in Sessions : db'[s] = db[s] \/ db'[s] = <<>>
      BY <1>4, <2>2
    <3> QED
      BY <1>4, <2>2, <3>1, <3>2
  <2> QED
    BY <1>1, <1>6, <2>1, <2>2, <2>3, ServedOnce
<1>11. CASE q.op = "history" /\ HandleChatHistory(q.key, q.version)
  <2> DEFINE m(msgs) == [op |-> "transcript", version |-> q.version, msgs |-> msgs]
  <2>1. phase' = phase /\ db' = db
    BY <1>11 DEF HandleChatHistory, gateway
  <2>2. \E msgs \in Seq(Shown) :
           /\ AnswerWith(m(msgs)) /\ Distinct(msgs)
           /\ \A x \in Sigs(msgs) : x.part \in {"question", "answer"}
                                    /\ (x \in Stored => Out(x, phase))
    <3>1. CASE \E s \in Sessions : AnswerWith(m(Under(Reverse(db[s]), s)))
      <4>1. PICK s \in Sessions : AnswerWith(m(Under(Reverse(db[s]), s)))
        BY <3>1
      <4>2. db[s] \in Seq(Stored) /\ Rows(db[s], phase)
        BY <1>4
      <4>3. Under(Reverse(db[s]), s) \in Seq(Shown)
        BY <1>3, <1>11, <4>2, RowsAsTranscript
      <4>4. /\ Distinct(Under(Reverse(db[s]), s))
            /\ \A x \in Sigs(Under(Reverse(db[s]), s)) :
                 x.part \in {"question", "answer"} /\ (x \in Stored => Out(x, phase))
        BY <1>4, <4>2, RowsInTranscript
      <4> QED
        BY <4>1, <4>3, <4>4
    <3>2. CASE AnswerWith(m(<<>>))
      <4>1. <<>> \in Seq(Shown) /\ Distinct(<<>>) /\ Sigs(<<>>) = {}
        BY DEF Distinct, Sigs, ToSet
      <4> QED
        BY <3>2, <4>1
    <3> QED
      BY <1>3, <1>11, <3>1, <3>2 DEF HandleChatHistory
  <2>3. PICK msgs \in Seq(Shown) :
           /\ AnswerWith(m(msgs)) /\ Distinct(msgs)
           /\ \A x \in Sigs(msgs) : x.part \in {"question", "answer"}
                                    /\ (x \in Stored => Out(x, phase))
    BY <2>2
  <2> DEFINE a == m(msgs)
  <2>4. a \in Answers /\ a.op = "transcript" /\ a.msgs = msgs
    BY <1>3, <1>11 DEF Answers
  <2>5. AnswerWith(a)
    BY <2>3
  <2> HIDE DEF m, a
  <2>6. (\A x : ~Brings(a, x)) /\ ~Ends(a) /\ \A x : Settles(a, x) <=> x \in Sigs(msgs)
    BY <2>4 DEF Brings, Settles, Ends
  <2>7. Proper(a, phase)
    BY <2>3, <2>4, <2>6 DEF Proper
  <2> QED
    BY <1>1, <1>5, <2>1, <2>4, <2>5, <2>6, <2>7, ServedOnce
<1> QED
  BY <1>1, <1>8, <1>9, <1>10, <1>11

(* An answer is written to the wire.                                       *)
LEMMA RespondOnce == IInv /\ OnceInv /\ Respond => OnceInv'
<1> SUFFICES ASSUME IInv, OnceInv, Respond PROVE OnceInv'
  OBVIOUS
<1> DEFINE m == Head(pipe)
<1>1. /\ pipe # <<>> /\ m.op \in {"acked", "refused", "cleared", "transcript"}
      /\ wire' = Append(wire, m) /\ pipe' = Tail(pipe)
      /\ UNCHANGED <<screen, runId, stream, load, late, phase, db>>
  BY DEF Respond, browser, gateway, history
<1>2. /\ Way(wire, pipe, phase) /\ Sends(pipe, phase) /\ Shows(screen, wire, pipe, phase)
      /\ \A s \in Sessions : Rows(db[s], phase)
  BY DEF OnceInv, WayInv, SendsInv, ShownInv, RowsInv
<1>3. /\ wire \in Seq(Answers \cup Events) /\ screen \in Seq(Shown)
      /\ pipe \in Seq(Requests \cup Answers) /\ phase \in [Runs -> Phases]
      /\ Sent \subseteq Runs /\ PipeTypes
  BY SentRuns DEF IInv, PipeTypes, ScreenInv, ScreenTypes, RunTypes
<1>4. 1 \in DOMAIN pipe /\ m = pipe[1] /\ m \in Requests \cup Answers
  BY <1>1, <1>3, TailShape
<1>5. m \in Answers
  BY <1>1, <1>4, Kinds
<1> HIDE DEF m
<1>6. /\ \A k \in DOMAIN pipe' : pipe'[k] \notin Answers
      /\ \A k \in DOMAIN pipe' : \E j \in DOMAIN pipe : pipe'[k] = pipe[j]
  BY <1>1, <1>3, PipeShrinks
<1>7. \A k \in DOMAIN pipe' : Clean(m, pipe'[k])
  <2> TAKE k \in DOMAIN pipe'
  <2>1. \A j \in DOMAIN pipe : pipe[j] \in Requests \cup Answers
    BY <1>3, LenProperties, ElementOfSeq
  <2>2. pipe'[k] \in Requests
    BY <1>6, <2>1
  <2>3. pipe'[k].op \notin {"acked", "event", "transcript"}
    BY <2>2, Kinds
  <2> QED
    BY <2>3, Idle
<1>8. GoesOn(phase, phase)
  BY GoesOnStanding
<1>9. Way(wire', pipe', phase)
  <2>1. Proper(m, phase) /\ \A i \in DOMAIN wire : Clean(wire[i], m)
    BY <1>2, <1>4 DEF Way
  <2>2. m \in Answers \cup Events
    BY <1>5
  <2>3. Way(Append(wire, m), pipe', phase)
    BY <1>2, <1>3, <1>6, <1>7, <1>8, <2>1, <2>2, WayCarries
  <2> QED
    BY <1>1, <2>3
<1>10. Sends(pipe', phase)
  BY <1>1, <1>2, <1>3, SendsServed
<1>11. Shows(screen, wire', pipe', phase)
  <2>1. \A k \in DOMAIN wire' : (\E j \in DOMAIN wire : wire'[k] = wire[j])
                               \/ (\E j \in DOMAIN pipe : wire'[k] = pipe[j])
    BY <1>1, <1>3, <1>4, <1>5, WireGrows
  <2> QED
    BY <1>2, <1>3, <1>6, <1>8, <2>1, ShowsStill
<1>12. WayInv' /\ SendsInv' /\ ShownInv' /\ RowsInv'
  BY <1>1, <1>2, <1>9, <1>10, <1>11, NextInvs DEF WayInv, SendsInv, ShownInv, RowsInv
<1>13. PartialInv'
  BY <1>1 DEF OnceInv, PartialInv, Visible
<1>14. LateInv' /\ DoubledOnlyWhenLate'
  BY <1>1, LateStays
<1> QED
  BY <1>12, <1>13, <1>14 DEF OnceInv

(* A run goes on, and may write an event that brings what was not out.     *)
LEMMA WentOnOnce ==
  ASSUME IInv, OnceInv, UNCHANGED <<screen, runId, stream, load, late, pipe>>,
         NEW r \in Runs, NEW to \in Phases, phase[r] # "none", Onwards(phase[r], to),
         phase' = [phase EXCEPT ![r] = to],
         NEW m \in Events,
         \/ wire' = wire
         \/ /\ wire' = Append(wire, m) /\ Proper(m, phase')
            /\ \A x \in Stored : Brings(m, x) => ~Out(x, phase)
            /\ \A x \in Stored : Settles(m, x) => x.part # "question",
         \A s \in Sessions : Rows(db'[s], phase')
  PROVE  OnceInv'
<1>1. /\ Way(wire, pipe, phase) /\ Sends(pipe, phase) /\ Shows(screen, wire, pipe, phase)
  BY DEF OnceInv, WayInv, SendsInv, ShownInv
<1>2. /\ wire \in Seq(Answers \cup Events) /\ screen \in Seq(Shown)
      /\ pipe \in Seq(Requests \cup Answers) /\ phase \in [Runs -> Phases]
      /\ PipeTypes
  BY DEF IInv, PipeTypes, ScreenInv, ScreenTypes, RunTypes
<1>3. GoesOn(phase, phase')
  BY <1>2, GoingOn
<1>4. \A k \in DOMAIN pipe' : \E j \in DOMAIN pipe : pipe'[k] = pipe[j]
  OBVIOUS
<1>5. ASSUME wire' = wire
      PROVE  Way(wire', pipe', phase') /\ Shows(screen, wire', pipe', phase')
  <2>1. Way(wire', pipe', phase')
    BY <1>1, <1>2, <1>3, <1>4, <1>5, WayGoesOn
  <2>2. Shows(screen, wire, pipe, phase')
    <3>1. \A k \in DOMAIN wire : \E j \in DOMAIN wire : wire[k] = wire[j]
      OBVIOUS
    <3>2. \A k \in DOMAIN pipe : \E j \in DOMAIN pipe : pipe[k] = pipe[j]
      OBVIOUS
    <3> QED
      BY <1>1, <1>2, <1>3, <3>1, <3>2, ShowsStill
  <2> QED
    BY <1>5, <2>1, <2>2
<1>6. ASSUME /\ wire' = Append(wire, m) /\ Proper(m, phase')
             /\ \A x \in Stored : Brings(m, x) => ~Out(x, phase)
             /\ \A x \in Stored : Settles(m, x) => x.part # "question"
      PROVE  Way(wire', pipe', phase') /\ Shows(screen, wire', pipe', phase')
  <2>1. \A i \in DOMAIN wire : Clean(wire[i], m)
    BY <1>1, <1>6 DEF Way, Proper, Clean
  <2>2. \A k \in DOMAIN pipe' : Clean(m, pipe'[k])
    <3>1. \A k \in DOMAIN pipe : pipe[k] \in Requests \cup Answers
      BY <1>2, LenProperties, ElementOfSeq
    <3>2. \A a \in Requests \cup Answers : \A x : Brings(a, x) => x.part = "question"
      BY Kinds DEF Brings, Carried
    <3> QED
      BY <1>6, <3>1, <3>2 DEF Clean
  <2>3. Way(wire', pipe', phase')
    <3>1. m \in Answers \cup Events
      OBVIOUS
    <3>2. Way(Append(wire, m), pipe', phase')
      BY <1>1, <1>2, <1>3, <1>4, <1>6, <2>1, <2>2, <3>1, WayCarries
    <3> QED
      BY <1>6, <3>2
  <2>4. Shows(screen, wire', pipe', phase')
    <3>1. \A k \in DOMAIN wire' : wire'[k] = m \/ \E j \in DOMAIN wire : wire'[k] = wire[j]
      BY <1>2, <1>6, WireGrows
    <3>2. \A k \in DOMAIN wire' :
            (\E j \in DOMAIN wire : wire'[k] = wire[j])
            \/ (\E j \in DOMAIN pipe : wire'[k] = pipe[j])
            \/ (\A x \in Stored : Brings(wire'[k], x) => ~Out(x, phase))
      BY <1>6, <3>1
    <3>3. \A k \in DOMAIN pipe' :
            (\E j \in DOMAIN pipe : pipe'[k] = pipe[j])
            \/ (\A x \in Stored : Brings(pipe'[k], x) => ~Out(x, phase))
      BY <1>4
    <3> QED
      BY <1>1, <1>2, <1>3, <3>2, <3>3, ShowsStill
  <2> QED
    BY <2>3, <2>4
<1>7. Way(wire', pipe', phase') /\ Shows(screen, wire', pipe', phase')
  BY <1>5, <1>6
<1>8. Sends(pipe', phase')
  BY <1>1, <1>2 DEF Sends
<1>9. WayInv' /\ SendsInv' /\ ShownInv' /\ RowsInv'
  BY <1>7, <1>8, NextInvs DEF WayInv, SendsInv, ShownInv, RowsInv
<1>10. PartialInv'
  BY DEF OnceInv, PartialInv, Visible
<1>11. LateInv' /\ DoubledOnlyWhenLate'
  BY LateStays
<1> QED
  BY <1>9, <1>10, <1>11 DEF OnceInv

(* What the events of a run bring and settle.                              *)
LEMMA EventSettles ==
  ASSUME NEW r \in Sent, NEW m, m.op = "event", m.run = r
  PROVE  /\ m.state = "delta" =>
              /\ \A x : Brings(m, x) => x.run = r /\ x.part = "partial"
              /\ \A x : ~Settles(m, x)
         /\ m.state = "final" =>
              /\ \A x : Brings(m, x) => x.run = r /\ x.part = "answer"
              /\ \A x : Settles(m, x) => x.run = r /\ x.part = "answer"
         /\ Ends(m) =>
              /\ \A x : Brings(m, x) => x.run = r /\ x.part = m.part
              /\ \A x : Settles(m, x) => x.run = r /\ x.part \in {"partial", m.part}
<1>1. ASSUME m.state = "delta"
      PROVE  /\ \A x : Brings(m, x) => x.run = r /\ x.part = "partial"
             /\ \A x : ~Settles(m, x)
  BY <1>1 DEF Brings, Carried, Settles, Ends
<1>2. ASSUME m.state = "final"
      PROVE  /\ \A x : Brings(m, x) => x.run = r /\ x.part = "answer"
             /\ \A x : Settles(m, x) => x.run = r /\ x.part = "answer"
  BY <1>2 DEF Brings, Carried, Settles, Ends
<1>3. ASSUME Ends(m)
      PROVE  /\ \A x : Brings(m, x) => x.run = r /\ x.part = m.part
             /\ \A x : Settles(m, x) => x.run = r /\ x.part \in {"partial", m.part}
  BY <1>3 DEF Brings, Carried, Settles, Ends
<1> QED
  BY <1>1, <1>2, <1>3

(* A row more, of what was not stored.                                     *)
LEMMA StoredOnce ==
  ASSUME IInv, OnceInv, NEW r \in Sent, NEW part \in Parts, NEW to \in Phases,
         phase' = [phase EXCEPT ![r] = to], Onwards(phase[r], to), Store(r, part),
         ~RowOut([run |-> r, part |-> part], phase), RowOut([run |-> r, part |-> part], phase')
  PROVE  \A s \in Sessions : Rows(db'[s], phase')
<1>1. /\ db \in [Sessions -> Seq(Stored)] /\ phase \in [Runs -> Phases]
      /\ \A s \in Sessions : Rows(db[s], phase)
      /\ r \in Runs /\ home[r] \in Sessions
  BY SentRuns DEF IInv, RunTypes, OnceInv, RowsInv
<1> DEFINE m == [run |-> r, part |-> part]
<1>2. m \in Stored
  BY <1>1 DEF Stored
<1>3. db' = db \/ db' = [db EXCEPT ![home[r]] = Append(@, m)]
  BY DEF Store
<1>4. ~RowOut(m, phase) /\ RowOut(m, phase')
  OBVIOUS
<1> HIDE DEF m
<1>5. GoesOn(phase, phase')
  BY <1>1, GoingOn
<1>6. ASSUME NEW s \in Sessions
      PROVE  /\ db[s] \in Seq(Stored) /\ Rows(db[s], phase')
             /\ Rows(Append(db[s], m), phase')
  <2> DEFINE rows == db[s]
             more == Append(rows, m)
  <2>1. rows \in Seq(Stored) /\ Rows(rows, phase)
    BY <1>1, <1>6
  <2> HIDE DEF rows
  <2>2. /\ DOMAIN rows = 1 .. Len(rows) /\ Len(rows) \in Nat
        /\ DOMAIN more = 1 .. Len(rows) + 1
        /\ \A k \in DOMAIN rows : more[k] = rows[k]
        /\ more[Len(rows) + 1] = m
    BY <1>2, <2>1, AppendShape
  <2> HIDE DEF more
  <2>3. \A k \in DOMAIN rows : rows[k] \in Stored /\ RowOut(rows[k], phase)
    BY <2>1, <2>2, ElementOfSeq DEF Rows
  <2>4. \A k \in DOMAIN rows : RowOut(rows[k], phase')
    BY <1>5, <2>3 DEF GoesOn
  <2>5. \A k \in DOMAIN rows : Sig(rows[k]) # Sig(m)
    BY <1>4, <2>3 DEF Sig, RowOut
  <2>6. Rows(rows, phase')
    BY <2>1, <2>4 DEF Rows
  <2>7. Distinct(more)
    <3> SUFFICES ASSUME NEW k \in DOMAIN more, NEW l \in DOMAIN more, k < l
                 PROVE  Sig(more[k]) # Sig(more[l])
      BY DEF Distinct
    <3>1. k \in DOMAIN rows /\ more[k] = rows[k]
      BY <2>2
    <3>2. CASE l \in DOMAIN rows
      BY <2>1, <2>2, <3>1, <3>2 DEF Rows, Distinct
    <3>3. CASE l = Len(rows) + 1
      BY <2>2, <2>5, <3>1, <3>3
    <3> QED
      BY <2>2, <3>2, <3>3
  <2>8. \A k \in DOMAIN more : RowOut(more[k], phase')
    <3>1. \A k \in DOMAIN more : (k \in DOMAIN rows /\ more[k] = rows[k]) \/ more[k] = m
      BY <2>2
    <3> TAKE k \in DOMAIN more
    <3>2. CASE k \in DOMAIN rows /\ more[k] = rows[k]
      BY <2>4, <3>2
    <3>3. CASE more[k] = m
      BY <1>4, <3>3
    <3> QED
      BY <3>1, <3>2, <3>3
  <2> QED
    BY <2>1, <2>6, <2>7, <2>8 DEF Rows, rows, more
<1>7. \A s \in Sessions : db'[s] = db[s] \/ db'[s] = Append(db[s], m)
  BY <1>1, <1>3
<1> QED
  BY <1>6, <1>7

(* A run stores a message, sends an event or ends.                         *)
LEMMA RunOnce == ASSUME IInv, OnceInv, NEW r \in Runs, Run(r) PROVE OnceInv'
<1>1. /\ UNCHANGED <<screen, runId, stream, load, late, pipe>>
      /\ \/ SaveQuestion(r) \/ HandleDelta(r) \/ HandleDone(r) \/ SaveAnswer(r)
         \/ HandleError(r) \/ RunFails(r)
  BY DEF Run, browser, history
<1>2. /\ db \in [Sessions -> Seq(Stored)] /\ phase \in [Runs -> Phases]
      /\ deltas \in [Runs -> Nat]
      /\ \A q \in Runs : phase[q] # "none" => q \in Sent
      /\ \A s \in Sessions : Rows(db[s], phase)
  BY DEF IInv, RunTypes, Started, OnceInv, RowsInv
<1>3. phase[r] # "none" /\ r \in Sent
  BY <1>1, <1>2 DEF SaveQuestion, HandleDelta, HandleDone, SaveAnswer, HandleError, RunFails, Between
<1>4. ASSUME NEW to \in Phases, Onwards(phase[r], to), phase' = [phase EXCEPT ![r] = to], db' = db
      PROVE  \A s \in Sessions : Rows(db'[s], phase')
  <2>1. GoesOn(phase, phase')
    BY <1>2, <1>4, GoingOn
  <2>2. \A s \in Sessions : \A k \in DOMAIN db[s] : db[s][k] \in Stored
    <3>1. \A s \in Sessions : db[s] \in Seq(Stored)
      BY <1>2
    <3> QED
      BY <3>1, LenProperties, ElementOfSeq
  <2> QED
    BY <1>2, <1>4, <2>1, <2>2 DEF Rows, GoesOn
<1>5. /\ Since["partial"] = {"failing", "ended"} /\ Since["notice"] = {"failing", "ended"}
      /\ Since["failure"] = {"ended"} /\ Since["answer"] = {"final", "failing", "ended"}
  BY DEF Since
(* A step that writes no event.                                            *)
<1>6. ASSUME NEW to \in Phases, Onwards(phase[r], to), phase' = [phase EXCEPT ![r] = to],
             wire' = wire, \A s \in Sessions : Rows(db'[s], phase')
      PROVE  OnceInv'
  <2>1. [op |-> "event", run |-> r, state |-> "final"] \in Events
    BY <1>3 DEF Events
  <2> QED
    BY <1>1, <1>3, <1>6, <2>1, WentOnOnce
(* A step that may write an event.                                         *)
<1>7. ASSUME NEW to \in Phases, Onwards(phase[r], to), phase' = [phase EXCEPT ![r] = to],
             db' = db,
             NEW m \in Events, wire' = wire \/ wire' = Append(wire, m),
             m.op = "event", m.run = r,
             \/ m.state = "delta" /\ phase[r] = "asked"
             \/ m.state = "final" /\ phase[r] = "asked" /\ to = "final"
             \/ Ends(m) /\ m.part = "notice" /\ phase[r] \in {"asked", "final"} /\ to = "failing"
             \/ Ends(m) /\ m.part = "failure" /\ phase[r] # "ended" /\ to = "ended"
      PROVE  OnceInv'
  <2>1. \A s \in Sessions : Rows(db'[s], phase')
    BY <1>4, <1>7
  <2>2. phase'[r] = to
    BY <1>2, <1>7
  <2>3. /\ m.state = "delta" =>
             /\ \A x : Brings(m, x) => x.run = r /\ x.part = "partial"
             /\ \A x : ~Settles(m, x)
        /\ m.state = "final" =>
             /\ \A x : Brings(m, x) => x.run = r /\ x.part = "answer"
             /\ \A x : Settles(m, x) => x.run = r /\ x.part = "answer"
        /\ Ends(m) =>
             /\ \A x : Brings(m, x) => x.run = r /\ x.part = m.part
             /\ \A x : Settles(m, x) => x.run = r /\ x.part \in {"partial", m.part}
    BY <1>3, <1>7, EventSettles
  <2>4. \A x : Brings(m, x) => ~Out(x, phase)
    BY <1>5, <1>7, <2>3 DEF Out
  <2>5. \A x : Settles(m, x) => Out(x, phase') /\ x.part # "question"
    BY <1>5, <1>7, <2>2, <2>3 DEF Out
  <2>6. Proper(m, phase')
    BY <1>7, <2>5 DEF Proper, Ends
  <2> QED
    BY <1>1, <1>3, <1>7, <2>1, <2>4, <2>5, <2>6, WentOnOnce
<1>8. CASE SaveQuestion(r)
  <2>1. /\ phase[r] = "started" /\ phase' = [phase EXCEPT ![r] = "asked"]
        /\ Store(r, "question") /\ wire' = wire
    BY <1>8 DEF SaveQuestion, Between
  <2>2. /\ "asked" \in Phases /\ "question" \in Parts /\ Onwards(phase[r], "asked")
        /\ phase'[r] = "asked"
    BY <1>2, <2>1 DEF Phases, Parts, Onwards
  <2>3. /\ ~RowOut([run |-> r, part |-> "question"], phase)
        /\ RowOut([run |-> r, part |-> "question"], phase')
    BY <2>1, <2>2 DEF RowOut
  <2>4. \A s \in Sessions : Rows(db'[s], phase')
    BY <1>3, <2>1, <2>2, <2>3, StoredOnce
  <2> QED
    BY <1>6, <2>1, <2>2, <2>4
<1>9. CASE SaveAnswer(r)
  <2>1. /\ phase[r] = "final" /\ phase' = [phase EXCEPT ![r] = "ended"]
        /\ Store(r, "answer") /\ wire' = wire
    BY <1>9 DEF SaveAnswer, Between
  <2>2. /\ "ended" \in Phases /\ "answer" \in Parts /\ Onwards(phase[r], "ended")
        /\ phase'[r] = "ended"
    BY <1>2, <2>1 DEF Phases, Parts, Onwards
  <2>3. /\ ~RowOut([run |-> r, part |-> "answer"], phase)
        /\ RowOut([run |-> r, part |-> "answer"], phase')
    BY <2>1, <2>2 DEF RowOut
  <2>4. \A s \in Sessions : Rows(db'[s], phase')
    BY <1>3, <2>1, <2>2, <2>3, StoredOnce
  <2> QED
    BY <1>6, <2>1, <2>2, <2>4
<1>10. CASE HandleDelta(r)
  <2> DEFINE m == [op |-> "event", run |-> r, state |-> "delta", count |-> deltas[r] + 1]
  <2>1. m \in Events /\ m.op = "event" /\ m.run = r /\ m.state = "delta"
    BY <1>2, <1>3 DEF Events
  <2>2. /\ wire' = wire \/ wire' = Append(wire, m)
        /\ phase[r] = "asked" /\ phase' = phase /\ db' = db
    BY <1>10 DEF HandleDelta, WriteEvent, SendEvent
  <2>3. /\ phase' = [phase EXCEPT ![r] = "asked"]
        /\ "asked" \in Phases /\ Onwards(phase[r], "asked")
    BY <1>2, <2>2 DEF Phases, Onwards
  <2> HIDE DEF m
  <2> QED
    BY <1>7, <2>1, <2>2, <2>3
<1>11. CASE HandleDone(r)
  <2> DEFINE m == [op |-> "event", run |-> r, state |-> "final"]
  <2>1. m \in Events /\ m.op = "event" /\ m.run = r /\ m.state = "final"
    BY <1>3 DEF Events
  <2>2. /\ wire' = wire \/ wire' = Append(wire, m)
        /\ phase[r] = "asked" /\ phase' = [phase EXCEPT ![r] = "final"] /\ db' = db
    BY <1>11 DEF HandleDone, Between, WriteEvent, SendEvent
  <2>3. "final" \in Phases /\ Onwards(phase[r], "final")
    BY <2>2 DEF Phases, Onwards
  <2> HIDE DEF m
  <2> QED
    BY <1>7, <2>1, <2>2, <2>3
<1>12. CASE HandleError(r)
  <2> DEFINE m == [op |-> "event", run |-> r, state |-> "error", part |-> "notice"]
  <2>1. m \in Events /\ m.op = "event" /\ m.run = r /\ Ends(m) /\ m.part = "notice"
    BY <1>3 DEF Events, Parts, Ends
  <2>2. /\ wire' = wire \/ wire' = Append(wire, m)
        /\ phase[r] \in {"asked", "final"} /\ phase' = [phase EXCEPT ![r] = "failing"]
        /\ db' = db
    BY <1>12 DEF HandleError, Between, WriteEvent, SendEvent
  <2>3. "failing" \in Phases /\ Onwards(phase[r], "failing")
    BY <2>2 DEF Phases, Onwards
  <2> HIDE DEF m
  <2> QED
    BY <1>7, <2>1, <2>2, <2>3
<1>13. CASE RunFails(r)
  <2> DEFINE m == [op |-> "event", run |-> r, part |-> "failure",
                   state |-> IF r \in cancelled THEN "aborted" ELSE "error"]
  <2>1. m \in Events /\ m.op = "event" /\ m.run = r /\ Ends(m) /\ m.part = "failure"
    BY <1>3 DEF Events, Parts, Ends
  <2>2. /\ wire' = wire \/ wire' = Append(wire, m)
        /\ phase[r] \in {"started", "asked", "failing"}
        /\ phase' = [phase EXCEPT ![r] = "ended"] /\ db' = db
    BY <1>13 DEF RunFails, SendEvent
  <2>3. "ended" \in Phases /\ Onwards(phase[r], "ended") /\ phase[r] # "ended"
    BY <2>2 DEF Phases, Onwards
  <2> HIDE DEF m
  <2> QED
    BY <1>7, <2>1, <2>2, <2>3
<1> QED
  BY <1>1, <1>8, <1>9, <1>10, <1>11, <1>12, <1>13

-------------------------------------------------------------------------------
(* What arrives.                                                           *)

(* One message.                                                            *)
LEMMA OneMessage ==
  ASSUME NEW a \in Shown
  PROVE  /\ <<a>> \in Seq(Shown) /\ Distinct(<<a>>) /\ Sigs(<<a>>) = {Sig(a)}
<1>1. <<a>> \in Seq(Shown) /\ DOMAIN <<a>> = {1} /\ <<a>>[1] = a
  OBVIOUS
<1>2. ToSet(<<a>>) = {a}
  BY DEF ToSet
<1> QED
  BY <1>1, <1>2 DEF Distinct, Sigs

(* A partial answer and what failed behind it.                             *)
LEMMA TwoMessages ==
  ASSUME NEW a \in Shown, NEW b \in Shown, Sig(a) # Sig(b)
  PROVE  /\ <<a, b>> \in Seq(Shown) /\ Distinct(<<a, b>>) /\ Sigs(<<a, b>>) = {Sig(a), Sig(b)}
         /\ Append(<<a>>, b) = <<a, b>>
<1>1. /\ <<a, b>> \in Seq(Shown) /\ DOMAIN <<a, b>> = {1, 2}
      /\ <<a, b>>[1] = a /\ <<a, b>>[2] = b
      /\ Append(<<a>>, b) = <<a, b>>
  <2>1. <<a, b>> \in Seq(Shown)
    OBVIOUS
  <2>2. DOMAIN <<a, b>> = {1, 2}
    OBVIOUS
  <2>3. <<a, b>>[1] = a /\ <<a, b>>[2] = b
    OBVIOUS
  <2>4. Append(<<a>>, b) = <<a, b>>
    <3>1. <<a>> \in Seq(Shown) /\ Len(<<a>>) = 1 /\ <<a>>[1] = a
      OBVIOUS
    <3>2. PICK one \in Seq(Shown) : one = <<a>>
      BY <3>1
    <3>3. PICK two \in Seq(Shown) : two = <<a, b>>
      BY <2>1
    <3>4. Len(one) = 1 /\ one[1] = a
      BY <3>2
    <3>5. Len(two) = 2 /\ two[1] = a /\ two[2] = b
      BY <3>3
    <3>6. PICK t : t = Append(one, b)
      OBVIOUS
    <3>7. /\ t \in Seq(Shown) /\ Len(t) = Len(one) + 1
          /\ \A i \in 1 .. Len(one) : t[i] = one[i]
          /\ t[Len(one) + 1] = b
      BY <3>6, AppendProperties
    <3>8. \A i \in 1 .. Len(t) : t[i] = two[i]
      <4>1. t[1] = a /\ t[2] = b /\ Len(t) = 2
        BY <3>4, <3>7
      <4>2. \A i \in 1 .. 2 : i = 1 \/ i = 2
        OBVIOUS
      <4> QED
        BY <3>5, <4>1, <4>2
    <3>9. t = two
      BY <3>4, <3>5, <3>7, <3>8, SeqEqual
    <3> QED
      BY <3>2, <3>3, <3>6, <3>9
  <2> QED
    BY <2>1, <2>2, <2>3, <2>4
<1>2. ToSet(<<a, b>>) = {a, b}
  BY DEF ToSet
<1>3. Sigs(<<a, b>>) = {Sig(a), Sig(b)}
  BY <1>2 DEF Sigs
<1>4. Distinct(<<a, b>>)
  BY <1>1 DEF Distinct
<1> QED
  BY <1>1, <1>3, <1>4

(* What the head of the wire brings is not on the screen, and is out.      *)
LEMMA NotYetShown ==
  ASSUME IInv, OnceInv, wire # <<>>
  PROVE  /\ \A x \in Sigs(screen) : ~Brings(Head(wire), x)
         /\ Proper(Head(wire), phase)
<1>1. Shows(screen, wire, pipe, phase) /\ Way(wire, pipe, phase)
  BY DEF OnceInv, ShownInv, WayInv
<1>2. wire \in Seq(Answers \cup Events)
  BY DEF IInv, PipeTypes
<1>3. 1 \in DOMAIN wire /\ Head(wire) = wire[1]
  BY <1>2, TailShape
<1> QED
  BY <1>1, <1>3 DEF Shows, Gone, Way

(* A part of the stream that is on the screen already.                     *)
LEMMA PartialOff ==
  ASSUME IInv, OnceInv, Visible, NEW x \in Sigs(screen)
  PROVE  ~(x.run = runId /\ x.part = "partial")
<1>1. PICK k \in DOMAIN screen : x = Sig(screen[k])
  BY SigsAre DEF IInv, ScreenInv, ScreenTypes
<1> QED
  BY <1>1 DEF OnceInv, PartialInv, Sig

(* A message is taken off the wire, and may have another transcript asked  *)
(* for; what it settles may be on the screen then.                         *)
LEMMA ArrivedOnce ==
  ASSUME IInv, OnceInv, wire # <<>>, wire' = Tail(wire), UNCHANGED <<phase, db>>,
         NEW q \in Requests, q.op = "history", pipe' = pipe \/ pipe' = Append(pipe, q),
         screen' \in Seq(Shown),
         \A x \in Sigs(screen') : x \in Sigs(screen) \/ Settles(Head(wire), x),
         Visible' => \A x \in Sigs(screen') : ~(x.run = runId' /\ x.part = "partial"),
         LateInv', DoubledOnlyWhenLate'
  PROVE  OnceInv'
<1>1. /\ Way(wire, pipe, phase) /\ Sends(pipe, phase) /\ Shows(screen, wire, pipe, phase)
      /\ \A s \in Sessions : Rows(db[s], phase)
  BY DEF OnceInv, WayInv, SendsInv, ShownInv, RowsInv
<1>2. /\ wire \in Seq(Answers \cup Events) /\ screen \in Seq(Shown) /\ PipeTypes
      /\ pipe \in Seq(Requests \cup Answers)
  BY DEF IInv, PipeTypes, ScreenInv, ScreenTypes
<1>3. \A k \in DOMAIN pipe' : pipe'[k] = q \/ \E j \in DOMAIN pipe : pipe'[k] = pipe[j]
  BY <1>2, PipeGrows
<1>4. /\ \A x : ~Brings(q, x) /\ ~Settles(q, x)
      /\ Proper(q, phase) /\ \A a : Clean(a, q)
  BY Idle
<1>5. GoesOn(phase, phase)
  BY GoesOnStanding
<1>6. Way(wire', pipe', phase)
  <2>1. \A k \in DOMAIN pipe' : \/ \E j \in DOMAIN pipe : pipe'[k] = pipe[j]
                               \/ /\ Proper(pipe'[k], phase)
                                  /\ \A i \in DOMAIN wire : Clean(wire[i], pipe'[k])
    BY <1>3, <1>4
  <2> QED
    BY <1>1, <1>2, <1>5, <2>1, WayGoesOn
<1>7. Sends(pipe', phase)
  <2>1. q \in Requests \cup Answers
    OBVIOUS
  <2>2. Sends(Append(pipe, q), phase)
    BY <1>1, <1>2, <2>1, SendsAsked
  <2> QED
    BY <1>1, <2>2
<1>8. Shows(screen', wire', pipe', phase)
  <2>1. \A k \in DOMAIN pipe' : (\E j \in DOMAIN pipe : pipe'[k] = pipe[j])
                               \/ (\A x : ~Brings(pipe'[k], x))
    BY <1>3, <1>4
  <2>2. Shows(screen', Tail(wire), pipe', phase)
    BY <1>1, <1>2, <2>1, ShowsArrived
  <2> QED
    BY <2>2
<1>9. WayInv' /\ SendsInv' /\ ShownInv' /\ RowsInv'
  BY <1>1, <1>6, <1>7, <1>8, NextInvs DEF WayInv, SendsInv, ShownInv, RowsInv
<1>10. PartialInv'
  <2>1. \A k \in DOMAIN screen' : Sig(screen'[k]) \in Sigs(screen')
    BY SigsAre
  <2>2. \A k \in DOMAIN screen' : /\ Sig(screen'[k]).run = screen'[k].run
                                 /\ Sig(screen'[k]).part = screen'[k].part
    BY DEF Sig
  <2>3. Visible' => \A k \in DOMAIN screen' :
                      ~(screen'[k].run = runId' /\ screen'[k].part = "partial")
    BY <2>1, <2>2
  <2> QED
    BY <2>3 DEF PartialInv
<1> QED
  BY <1>9, <1>10 DEF OnceInv

(* A request for a transcript, for what asks for none.                     *)
LEMMA NoneAsked == Sessions # {} => \E q \in Requests : q.op = "history"
<1> SUFFICES ASSUME NEW s \in Sessions PROVE \E q \in Requests : q.op = "history"
  OBVIOUS
<1>1. [op |-> "history", key |-> s, version |-> 0] \in Requests
  BY DEF Requests
<1> QED
  BY <1>1

(* Nothing is put on the screen.                                           *)
LEMMA ArrivedQuietly ==
  ASSUME IInv, OnceInv, wire # <<>>, wire' = Tail(wire),
         UNCHANGED <<phase, db, pipe, screen, load, late>>,
         \/ UNCHANGED <<runId, stream>>
         \/ Brings(Head(wire), [run |-> runId', part |-> "partial"])
  PROVE  OnceInv'
<1>1. screen \in Seq(Shown) /\ sessionKey \in Sessions
  BY DEF IInv, ScreenInv, ScreenTypes, RestTypes
<1>2. PICK q \in Requests : q.op = "history"
  BY <1>1, NoneAsked
<1>3. LateInv' /\ DoubledOnlyWhenLate'
  BY LateStays
<1>4. Visible' => \A x \in Sigs(screen') : ~(x.run = runId' /\ x.part = "partial")
  <2> SUFFICES ASSUME Visible', NEW x \in Sigs(screen)
               PROVE  ~(x.run = runId' /\ x.part = "partial")
    OBVIOUS
  <2>1. CASE UNCHANGED <<runId, stream>>
    BY <2>1, PartialOff DEF Visible
  <2>2. CASE Brings(Head(wire), [run |-> runId', part |-> "partial"])
    BY <2>2, NotYetShown DEF Brings
  <2> QED
    BY <2>1, <2>2
<1> QED
  BY <1>1, <1>2, <1>3, <1>4, ArrivedOnce

(* What arrives is put on the screen, or lets what it settles be put.      *)
LEMMA ArrivedOnScreen ==
  ASSUME IInv, OnceInv, wire # <<>>, wire' = Tail(wire), UNCHANGED <<phase, db, pipe>>,
         NEW ms \in Seq(Shown), Distinct(ms),
         \A x \in Sigs(ms) : x \notin Sigs(screen) /\ Settles(Head(wire), x),
         AppendAll(ms),
         \/ stream' \in {None, <<>>}
         \/ UNCHANGED <<runId, stream>> /\ \A x \in Sigs(ms) : x.part # "partial"
  PROVE  OnceInv'
<1>1. screen \in Seq(Shown) /\ sessionKey \in Sessions /\ ScreenInv
  BY DEF IInv, ScreenInv, ScreenTypes, RestTypes
<1>2. PICK q \in Requests : q.op = "history"
  BY <1>1, NoneAsked
<1>3. /\ screen' \in Seq(Shown) /\ Sigs(screen') \subseteq Sigs(screen) \cup Sigs(ms)
      /\ LateInv' /\ DoubledOnlyWhenLate'
  BY <1>1, AppendedOnce DEF OnceInv
<1>4. Visible' => \A x \in Sigs(screen') : ~(x.run = runId' /\ x.part = "partial")
  <2> SUFFICES ASSUME Visible', NEW x \in Sigs(screen')
               PROVE  ~(x.run = runId' /\ x.part = "partial")
    OBVIOUS
  <2>1. UNCHANGED <<runId, stream>> /\ \A y \in Sigs(ms) : y.part # "partial"
    BY DEF Visible
  <2> QED
    BY <1>3, <2>1, PartialOff DEF Visible
<1> QED
  BY <1>1, <1>2, <1>3, <1>4, ArrivedOnce

(* The acknowledgement of a message.                                       *)
LEMMA AcknowledgedOnce ==
  ASSUME IInv, OnceInv, wire # <<>>, wire' = Tail(wire), UNCHANGED <<phase, db>>,
         NEW m \in Answers, m = Head(wire), m.op = "acked", Acknowledged(m.run)
  PROVE  OnceInv'
<1> DEFINE r == m.run
<1>1. r \in Sent /\ r \in Runs /\ home[r] \in Sessions
  BY Kinds, SentRuns DEF IInv
<1>2. pipe' = pipe
  BY DEF Acknowledged
<1>3. CASE sessionKey # home[r]
  BY <1>2, <1>3, ArrivedQuietly DEF Acknowledged
<1>4. CASE sessionKey = home[r]
  <2> DEFINE a == Message(r, "question")
  <2>1. /\ Append1(a) /\ runId' = r
        /\ stream' = IF runId = r /\ stream # None THEN stream ELSE <<>>
    BY <1>4 DEF Acknowledged
  <2>2. a \in Shown /\ Sig(a).run = r /\ Sig(a).part = "question"
    BY <1>1 DEF Message, Shown, Parts, Sig
  <2> HIDE DEF a
  <2>3. AppendAll(<<a>>)
    BY <2>1, <2>2, OneIsAll DEF IInv, ScreenInv, ScreenTypes
  <2>4. /\ <<a>> \in Seq(Shown) /\ Distinct(<<a>>) /\ Sigs(<<a>>) = {Sig(a)}
    BY <2>2, OneMessage
  <2>5. Brings(m, Sig(a)) /\ Settles(m, Sig(a))
    BY <2>2 DEF Brings, Carried, Settles
  <2>6. Sig(a) \notin Sigs(screen)
    BY <2>5, NotYetShown
  <2>7. stream' \in {None, <<>>} \/ UNCHANGED <<runId, stream>>
    BY <2>1
  <2>8. \A x \in Sigs(<<a>>) : x \notin Sigs(screen) /\ Settles(Head(wire), x) /\ x.part # "partial"
    BY <2>2, <2>4, <2>5, <2>6
  <2> QED
    BY <1>2, <2>3, <2>4, <2>7, <2>8, ArrivedOnScreen
<1> QED
  BY <1>3, <1>4

(* What was streamed when the run shown fails.                             *)
LEMMA MaterializedOnce ==
  ASSUME IInv, OnceInv, wire # <<>>, NEW r \in Sent, r \in Runs, home[r] \in Sessions,
         runId \in {None, r}
  PROVE  /\ Materialized = <<>> \/ (runId = r /\ Materialized = <<Message(r, "partial")>>)
         /\ Materialized # <<>> => Sig(Message(r, "partial")) \notin Sigs(screen)
<1>1. ScreenInv /\ RestTypes
  BY DEF IInv
<1>2. CASE Materialized = <<>>
  BY <1>2
<1>3. CASE Materialized # <<>>
  <2>1. Visible /\ Materialized = <<Message(stream[1][1], "partial")>>
    BY <1>3 DEF Materialized
  <2>2. runId \in Sent /\ runId \in Runs /\ stream[1][1] = runId
    BY <1>1, <2>1, StreamOfRun
  <2>3. runId = r
    BY <2>2, BudgetAssumption
  <2>4. Sig(Message(r, "partial")).run = r /\ Sig(Message(r, "partial")).part = "partial"
    BY DEF Sig, Message
  <2> QED
    BY <2>1, <2>2, <2>3, <2>4, PartialOff
<1> QED
  BY <1>2, <1>3

(* An event of a run.                                                      *)
LEMMA EventOnce ==
  ASSUME IInv, OnceInv, wire # <<>>, wire' = Tail(wire), UNCHANGED <<phase, db>>,
         NEW m \in Events, m = Head(wire), Event(m)
  PROVE  OnceInv'
<1> DEFINE r == m.run
           matches == home[r] = sessionKey
           shown == IF runId = None THEN r ELSE runId
           Quiet == UNCHANGED <<screen, load, fresh, late>>
<1>1. /\ r \in Sent /\ r \in Runs /\ home[r] \in Sessions /\ m.op = "event"
      /\ m.state \in {"delta", "final", "aborted", "error"}
  BY Kinds, SentRuns DEF IInv
<1>2. pipe' = pipe
  BY DEF Event
<1>3. Proper(m, phase) /\ \A x \in Sigs(screen) : ~Brings(m, x)
  BY NotYetShown
<1>4. ASSUME NEW part \in Parts
      PROVE  /\ Message(r, part) \in Shown
             /\ Sig(Message(r, part)).run = r /\ Sig(Message(r, part)).part = part
  BY <1>1 DEF Message, Shown, Sig
(* An answer that is appended.                                             *)
<1>5. ASSUME m.state = "final", Append1(Message(r, "answer")),
             UNCHANGED <<runId, stream>> \/ stream' = None
      PROVE  OnceInv'
  <2> DEFINE a == Message(r, "answer")
  <2>1. a \in Shown /\ Sig(a).run = r /\ Sig(a).part = "answer" /\ Append1(a)
    BY <1>4, <1>5 DEF Parts
  <2> HIDE DEF a
  <2>2. AppendAll(<<a>>)
    BY <2>1, OneIsAll DEF IInv, ScreenInv, ScreenTypes
  <2>3. /\ <<a>> \in Seq(Shown) /\ Distinct(<<a>>) /\ Sigs(<<a>>) = {Sig(a)}
    BY <2>1, OneMessage
  <2>4. Brings(m, Sig(a)) /\ Settles(m, Sig(a))
    BY <1>1, <1>5, <2>1 DEF Brings, Carried, Settles
  <2>5. \A x \in Sigs(<<a>>) : x \notin Sigs(screen) /\ Settles(Head(wire), x) /\ x.part # "partial"
    BY <1>3, <2>1, <2>3, <2>4
  <2> QED
    BY <1>2, <1>5, <2>2, <2>3, <2>5, ArrivedOnScreen
<1>6. CASE ~matches /\ runId # r
  <2>1. UNCHANGED <<screen, runId, stream, load, late>>
    BY <1>6 DEF Event
  <2> QED
    BY <1>2, <2>1, ArrivedQuietly
<1>7. CASE ~(~matches /\ runId # r) /\ shown # r
  <2>1. /\ UNCHANGED <<runId, stream>>
        /\ \/ m.state = "final" /\ Append1(Message(r, "answer"))
           \/ Quiet
    BY <1>7 DEF Event
  <2> QED
    BY <1>2, <1>5, <2>1, ArrivedQuietly
<1>8. CASE ~(~matches /\ runId # r) /\ shown = r
  <2>1. runId \in {None, r}
    BY <1>8
  <2>2. CASE m.state = "delta"
    <3>1. Quiet /\ runId' = r
      BY <1>8, <2>2 DEF Event
    <3>2. Brings(m, [run |-> runId', part |-> "partial"])
      BY <1>1, <2>2, <3>1 DEF Brings, Carried
    <3> QED
      BY <1>2, <3>1, <3>2, ArrivedQuietly
  <2>3. CASE m.state = "final"
    <3>1. Append1(Message(r, "answer")) /\ stream' = None
      BY <1>8, <2>3 DEF Event, Forget
    <3> QED
      BY <1>5, <2>3, <3>1
  <2>4. CASE m.state \in {"aborted", "error"}
    <3> DEFINE p == Message(r, "partial")
               f == Message(r, m.part)
    <3>1. m.part \in {"notice", "failure"} /\ Ends(m)
      BY <1>1, <1>3, <2>4 DEF Proper, Ends
    <3>2. /\ p \in Shown /\ Sig(p).run = r /\ Sig(p).part = "partial"
          /\ f \in Shown /\ Sig(f).run = r /\ Sig(f).part = m.part
      BY <1>4, <3>1 DEF Parts
    <3>3. /\ Materialized = <<>> \/ Materialized = <<p>>
          /\ Materialized # <<>> => Sig(p) \notin Sigs(screen)
      BY <1>1, <2>1, MaterializedOnce
    <3>4. PICK ms : /\ AppendAll(ms) /\ stream' = None
                    /\ ms = Materialized \/ ms = Append(Materialized, f) \/ ms = <<>>
      <4>1. CASE m.state = "aborted"
        BY <1>8, <2>4, <4>1 DEF Event, Forget
      <4>2. CASE m.state = "error"
        BY <1>8, <2>4, <4>2 DEF Event, Forget
      <4> QED
        BY <2>4, <4>1, <4>2
    <3> HIDE DEF p, f
    <3>5. Settles(m, Sig(p)) /\ Settles(m, Sig(f)) /\ Brings(m, Sig(f)) /\ Sig(p) # Sig(f)
      BY <1>1, <2>4, <3>1, <3>2 DEF Settles, Brings, Carried, Ends
    <3>6. Sig(f) \notin Sigs(screen)
      BY <1>3, <3>5
    <3>7. /\ <<>> \in Seq(Shown) /\ Distinct(<<>>) /\ Sigs(<<>>) = {}
          /\ Append(<<>>, f) = <<f>>
      BY <3>2 DEF Distinct, Sigs, ToSet
    <3>8. /\ <<p>> \in Seq(Shown) /\ Distinct(<<p>>) /\ Sigs(<<p>>) = {Sig(p)}
          /\ <<f>> \in Seq(Shown) /\ Distinct(<<f>>) /\ Sigs(<<f>>) = {Sig(f)}
          /\ <<p, f>> \in Seq(Shown) /\ Distinct(<<p, f>>) /\ Sigs(<<p, f>>) = {Sig(p), Sig(f)}
          /\ Append(<<p>>, f) = <<p, f>>
      BY <3>2, <3>5, OneMessage, TwoMessages
    <3>9. \/ ms = <<>> \/ ms = <<f>>
          \/ Materialized # <<>> /\ (ms = <<p>> \/ ms = <<p, f>>)
      BY <3>3, <3>4, <3>7, <3>8
    <3>10. /\ ms \in Seq(Shown) /\ Distinct(ms)
           /\ \A x \in Sigs(ms) : x = Sig(f) \/ (x = Sig(p) /\ Materialized # <<>>)
      BY <3>7, <3>8, <3>9
    <3>11. \A x \in Sigs(ms) : x \notin Sigs(screen) /\ Settles(Head(wire), x)
      BY <3>3, <3>5, <3>6, <3>10
    <3> QED
      BY <1>2, <3>4, <3>10, <3>11, ArrivedOnScreen
  <2> QED
    BY <1>1, <2>2, <2>3, <2>4
<1> QED
  BY <1>6, <1>7, <1>8

(* A transcript, applied or not.                                           *)
LEMMA TranscriptOnce ==
  ASSUME IInv, OnceInv, wire # <<>>, wire' = Tail(wire), UNCHANGED <<phase, db, pipe>>,
         NEW m \in Answers, m = Head(wire), m.op = "transcript",
         ApplyHistory(m.msgs, m.version)
  PROVE  OnceInv'
<1>1. CASE ~ShouldApply(m.version)
  <2>1. UNCHANGED <<screen, load, late, runId, stream>>
    BY <1>1 DEF ApplyHistory, browser, history
  <2> QED
    BY <2>1, ArrivedQuietly
<1>2. CASE ShouldApply(m.version)
  <2>1. runId' = runId /\ (stream' = None \/ stream' = stream)
    BY <1>2 DEF ApplyHistory
  <2>2. Distinct(m.msgs) /\ \A x \in Sigs(m.msgs) : x.part \in {"question", "answer"}
    BY NotYetShown DEF Proper
  <2>3. /\ screen' \in Seq(Shown) /\ Sigs(screen') \subseteq Sigs(screen) \cup Sigs(m.msgs)
        /\ LateInv' /\ DoubledOnlyWhenLate'
    <3>1. ScreenInv /\ LateInv /\ DoubledOnlyWhenLate
      BY DEF IInv, OnceInv
    <3> QED
      BY <1>2, <2>2, <3>1, AppliedOnce
  <2>4. \A x \in Sigs(screen') : x \in Sigs(screen) \/ Settles(Head(wire), x)
    BY <2>3 DEF Settles
  <2>5. Visible' => \A x \in Sigs(screen') : ~(x.run = runId' /\ x.part = "partial")
    <3> SUFFICES ASSUME Visible', NEW x \in Sigs(screen')
                 PROVE  ~(x.run = runId' /\ x.part = "partial")
      OBVIOUS
    <3>1. Visible
      BY <2>1 DEF Visible
    <3> QED
      BY <2>1, <2>2, <2>3, <3>1, PartialOff
  <2>6. sessionKey \in Sessions
    BY DEF IInv, RestTypes
  <2>7. PICK q \in Requests : q.op = "history"
    BY <2>6, NoneAsked
  <2> QED
    BY <2>3, <2>4, <2>5, <2>7, ArrivedOnce
<1> QED
  BY <1>1, <1>2

(* The answer to /clear.                                                   *)
LEMMA ClearedOnce ==
  ASSUME IInv, OnceInv, wire # <<>>, wire' = Tail(wire), UNCHANGED <<phase, db>>, Cleared
  PROVE  OnceInv'
<1> DEFINE q == [op |-> "history", key |-> sessionKey, version |-> version + 1]
<1>1. /\ screen' = <<>> /\ stream' = None /\ pipe' = Append(pipe, q)
  BY DEF Cleared, Forget, Ask
<1>2. q \in Requests /\ q.op = "history"
  <2>1. sessionKey \in Sessions /\ version \in Nat
    BY DEF IInv, RestTypes, ScreenInv, ScreenTypes
  <2> QED
    BY <2>1 DEF Requests
<1> HIDE DEF q
<1>3. LateInv' /\ DoubledOnlyWhenLate'
  BY <1>1, LateStays
<1>4. ~Visible'
  BY <1>1 DEF Visible
<1>5. screen' \in Seq(Shown) /\ Sigs(screen') = {}
  BY <1>1 DEF Sigs, ToSet
<1> QED
  BY <1>1, <1>2, <1>3, <1>4, <1>5, ArrivedOnce

(* Whatever arrives.                                                       *)
LEMMA ReceiveOnce == IInv /\ OnceInv /\ Receive => OnceInv'
<1> SUFFICES ASSUME IInv, OnceInv, Receive PROVE OnceInv'
  OBVIOUS
<1> DEFINE m == Head(wire)
<1>1. /\ wire # <<>> /\ wire' = Tail(wire) /\ UNCHANGED <<phase, db>>
      /\ \/ m.op = "acked" /\ Acknowledged(m.run)
         \/ m.op = "event" /\ Event(m)
         \/ m.op = "transcript" /\ ApplyHistory(m.msgs, m.version) /\ pipe' = pipe
         \/ m.op = "cleared" /\ Cleared
         \/ m.op = "refused" /\ UNCHANGED <<screen, runId, stream, load, late, pipe>>
  BY DEF Receive, gateway, history
<1>2. m \in Answers \cup Events /\ (m.op = "event" <=> m \notin Answers)
  <2>1. wire \in Seq(Answers \cup Events)
    BY DEF IInv, PipeTypes
  <2>2. m \in Answers \cup Events
    BY <1>1, <2>1, TailShape
  <2> QED
    BY <2>2, Kinds
<1> HIDE DEF m
<1>3. m = Head(wire)
  BY DEF m
<1>4. CASE m.op = "acked" /\ Acknowledged(m.run)
  BY <1>1, <1>2, <1>3, <1>4, AcknowledgedOnce
<1>5. CASE m.op = "event" /\ Event(m)
  BY <1>1, <1>2, <1>3, <1>5, EventOnce
<1>6. CASE m.op = "transcript" /\ ApplyHistory(m.msgs, m.version) /\ pipe' = pipe
  BY <1>1, <1>2, <1>3, <1>6, TranscriptOnce
<1>7. CASE m.op = "cleared" /\ Cleared
  BY <1>1, <1>7, ClearedOnce
<1>8. CASE m.op = "refused" /\ UNCHANGED <<screen, runId, stream, load, late, pipe>>
  BY <1>1, <1>8, ArrivedQuietly
<1> QED
  BY <1>1, <1>4, <1>5, <1>6, <1>7, <1>8

(* An empty screen, and nothing on its way.                                *)
LEMMA InitOnce == Init => OnceInv
<1> SUFFICES ASSUME Init PROVE OnceInv
  OBVIOUS
<1>1. /\ DOMAIN screen = {} /\ DOMAIN pipe = {} /\ DOMAIN wire = {}
      /\ screen = <<>> /\ stream = None /\ load = None
      /\ \A s \in Sessions : DOMAIN db[s] = {}
  BY DEF Init
<1>2. WayInv /\ SendsInv
  BY <1>1 DEF WayInv, Way, SendsInv, Sends
<1>3. RowsInv
  BY <1>1 DEF RowsInv, Rows, Distinct
<1>4. ShownInv
  BY <1>1, ShowsNothing DEF ShownInv
<1>5. PartialInv /\ LateInv /\ DoubledOnlyWhenLate
  BY <1>1 DEF PartialInv, LateInv, DoubledOnlyWhenLate, Visible
<1> QED
  BY <1>2, <1>3, <1>4, <1>5 DEF OnceInv

(* Every step keeps it, a stutter too.                                     *)
LEMMA StepOnce == IInv /\ OnceInv /\ [Next]_vars => OnceInv'
<1> SUFFICES ASSUME IInv, OnceInv, [Next]_vars PROVE OnceInv'
  OBVIOUS
<1>1. CASE Next
  <2>1. CASE User \/ Receive \/ Disconnect \/ Hello \/ Handle \/ Respond
    BY <2>1, UserOnce, ReceiveOnce, DisconnectOnce, HelloOnce, HandleOnce, RespondOnce
  <2>2. CASE \E r \in Runs : Run(r)
    BY <2>2, RunOnce
  <2> QED
    BY <1>1, <2>1, <2>2 DEF Next
<1>2. CASE UNCHANGED vars
  <2>1. UNCHANGED <<screen, runId, stream, load, late, pipe, wire, phase, db>>
    BY <1>2 DEF vars, browser, gateway, history
  <2>2. WayInv' /\ SendsInv' /\ RowsInv' /\ ShownInv'
    <3>1. /\ Way(wire, pipe, phase) /\ Sends(pipe, phase) /\ Shows(screen, wire, pipe, phase)
          /\ \A s \in Sessions : Rows(db[s], phase)
      BY DEF OnceInv, WayInv, SendsInv, ShownInv, RowsInv
    <3> QED
      BY <2>1, <3>1, NextInvs DEF WayInv, SendsInv, ShownInv, RowsInv
  <2>3. PartialInv'
    BY <2>1 DEF OnceInv, PartialInv, Visible
  <2>4. LateInv' /\ DoubledOnlyWhenLate'
    BY <2>1, LateStays
  <2> QED
    BY <2>2, <2>3, <2>4 DEF OnceInv
<1> QED
  BY <1>1, <1>2

(* However sends, events, transcripts, /clear and lost connections fall    *)
(* together, no message is on the screen twice, but an answer whose event  *)
(* came while a transcript that has it stored was on its way.              *)
THEOREM DoubledOnlyLate == Spec => []DoubledOnlyWhenLate
<1>1. Init => IInv /\ OnceInv
  BY InitInv, InitOnce
<1>2. IInv /\ OnceInv /\ [Next]_vars => (IInv /\ OnceInv)'
  BY StepInv, StepOnce
<1>3. OnceInv => DoubledOnlyWhenLate
  BY DEF OnceInv
<1> QED
  BY <1>1, <1>2, <1>3, PTL DEF Spec

===============================================================================
