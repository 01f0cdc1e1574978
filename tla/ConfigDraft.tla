------------------------------ MODULE ConfigDraft ------------------------------
(***************************************************************************)
(* Configuration edited in the form of several browser tabs, and the       *)
(* gateway methods config.get, config.set and config.apply behind it.      *)
(*                                                                         *)
(* A tab (controllers/config.ts) keeps the last snapshot, a draft, what    *)
(* the draft started from, whether it is dirty, and the hash it is based   *)
(* on.  The gateway (rpc/config.go) keeps overrides of single keys in a    *)
(* table, and the configuration the agent runs with in memory.  Each       *)
(* connection serves one request at a time; every upsert and every reading *)
(* of the table is a step.  A tab is taken from the moment its first       *)
(* config.get was applied; its raw editor is not modelled.                 *)
(* MaxActs, MaxOpen and MaxFaults bound the exploration.                  *)
(***************************************************************************)
EXTENDS Naturals, Sequences, SequencesExt, FiniteSets

CONSTANTS Tabs,
          Keys, Secrets,    \* the known keys, and those shown masked
          Values,           \* what a user may enter
          Default,          \* the value of every key in the YAML file
          Unset,            \* no override
          NoHash,           \* null, for configDraftBaseHash
          MaxActs, MaxOpen, MaxFaults

ASSUME ConfigAssumption == /\ Secrets \subseteq Keys
                           /\ Default \in Values /\ Unset \notin Values
                           /\ MaxActs \in Nat /\ MaxOpen \in Nat /\ MaxFaults \in Nat

VARIABLES
  tab,       \* the config state of each tab
  open,      \* the requests of a tab that have not come back, oldest first
  orphans,   \* requests the gateway still serves after their tab lost its connection
  db,        \* agent_config: the overrides
  runtime,   \* the configuration AgentService runs with
  acts, faults,  \* how much users did, and what went wrong: bounds
  unsaved,   \* history: keys a tab's user edited and no request has taken along
  disturbed  \* history: a set failed half-way, or two were reloaded at once

serverVars == <<db, runtime, disturbed>>
vars == <<tab, open, orphans, serverVars, acts, faults, unsaved>>

-------------------------------------------------------------------------------
(* maskSecret: a masked value can be recognised, but nothing does.         *)
Masked(v) == [masked |-> v]
Stored == Values \cup {Masked(v) : v \in Values}

ASSUME HashAssumption == NoHash \notin [Keys -> Stored]

Overrides == [Keys -> Stored \cup {Unset}]
Hashes == [Keys -> Stored] \cup {NoHash}
Effective(d) == [k \in Keys |-> IF d[k] = Unset THEN Default ELSE d[k]]
MaskSecret(d) == [k \in Keys |-> IF k \in Secrets /\ d[k] \in Values
                                 THEN Masked(d[k]) ELSE d[k]]

(* buildSnapshot: the hash stands for the whole masked configuration, the  *)
(* source configuration holds the overrides alone.                         *)
Hash(d) == MaskSecret(Effective(d))
SourceConfig(d) == MaskSecret(d)

Submits == {"config.set", "config.apply"}

(* data is the form to store, then the overrides read for the reload; or   *)
(* the source configuration of a snapshot.                                 *)
Blank(op) == [op |-> op, stage |-> "sent", discard |-> FALSE, awaitedBy |-> {},
              data |-> [k \in Keys |-> Unset], left |-> {},
              hash |-> NoHash, startHash |-> NoHash, rebased |-> FALSE, took |-> {}]
Done(r) == [Blank(r.op) EXCEPT !.stage = "done", !.took = r.took]

Requests == [op : Submits \cup {"config.get"}, stage : {"sent", "config", "reading", "done", "failed"},
             discard : BOOLEAN, awaitedBy : SUBSET Submits, data : Overrides, left : SUBSET Keys,
             hash : Hashes, startHash : Hashes, rebased : BOOLEAN, took : SUBSET Keys]

TypeOK ==
  /\ \A t \in Tabs :
       /\ tab[t].form \in Overrides /\ tab[t].formOriginal \in Overrides
       /\ tab[t].hash \in Hashes /\ tab[t].startHash \in Hashes
       /\ tab[t].draftBaseHash \in Hashes
       /\ tab[t].dirty \in BOOLEAN /\ tab[t].rebased \in BOOLEAN
       /\ tab[t].busy \subseteq Submits /\ tab[t].loading \in BOOLEAN
       /\ unsaved[t] \subseteq Keys
       /\ \A n \in DOMAIN open[t] :
            /\ open[t][n] \in Requests
            /\ n > 1 => open[t][n].stage = "sent"
            /\ open[t][n].op \in Submits => open[t][n].op \in tab[t].busy
  /\ orphans \subseteq Requests
  /\ db \in Overrides /\ runtime \in [Keys -> Stored]
  /\ acts \in 0 .. MaxActs /\ faults \in 0 .. MaxFaults
  /\ disturbed \in BOOLEAN

Init ==
  /\ db \in [Keys -> Values \cup {Unset}]
  /\ runtime = Effective(db)
  /\ tab = [t \in Tabs |->
              [form |-> SourceConfig(db), formOriginal |-> SourceConfig(db),
               hash |-> Hash(db), startHash |-> Hash(db), draftBaseHash |-> Hash(db),
               dirty |-> FALSE, rebased |-> FALSE, busy |-> {}, loading |-> FALSE]]
  /\ open = [t \in Tabs |-> <<>>] /\ orphans = {}
  /\ acts = 0 /\ faults = 0
  /\ unsaved = [t \in Tabs |-> {}] /\ disturbed = FALSE

Act == acts < MaxActs /\ acts' = acts + 1
Fault == faults < MaxFaults /\ faults' = faults + 1

-------------------------------------------------------------------------------
(* History: a key that is edited again does not count as taken along.      *)
NoLongerTook(queue, keys) ==
  [n \in DOMAIN queue |-> [queue[n] EXCEPT !.took = @ \ keys]]

(* updateConfigFormValue and removeConfigFormValue end in syncConfigDraft. *)
(* An edit counts as unsaved if it is calm: not made while a submit is     *)
(* under way, or before the snapshot that should have followed one.        *)
Edit(t, k, v) ==
  /\ Act
  /\ tab[t].form[k] # v
  /\ LET form == [tab[t].form EXCEPT ![k] = v]
         calm == tab[t].busy = {} /\ tab[t].draftBaseHash # NoHash
     IN /\ tab' = [tab EXCEPT ![t].form = form, ![t].dirty = form # tab[t].formOriginal]
        /\ unsaved' = [unsaved EXCEPT ![t] =
                         (@ \ {k}) \cup IF calm /\ v # tab[t].formOriginal[k] THEN {k} ELSE {}]
  /\ open' = [open EXCEPT ![t] = NoLongerTook(@, {k})]
  /\ UNCHANGED <<orphans, serverVars, faults>>

(* History: the user drops all edits, those under way included.            *)
NothingUnsaved(t) == unsaved' = [unsaved EXCEPT ![t] = {}]
TookNothing(queue) == NoLongerTook(queue, Keys)

(* resetConfigPendingChanges, offered while there are changes.             *)
Reset(t) ==
  /\ Act
  /\ tab[t].form # tab[t].formOriginal
  /\ tab' = [tab EXCEPT ![t].form = tab[t].formOriginal, ![t].dirty = FALSE,
                        ![t].draftBaseHash = tab[t].hash, ![t].rebased = TRUE]
  /\ open' = [open EXCEPT ![t] = TookNothing(@)]
  /\ NothingUnsaved(t)
  /\ UNCHANGED <<orphans, serverVars, faults>>

(* loadConfig, for a tab of the page or the Reload button.                 *)
Load(t, discard) ==
  /\ Act
  /\ Len(open[t]) < MaxOpen
  /\ open' = [open EXCEPT ![t] = Append(@, [Blank("config.get") EXCEPT !.discard = discard])]
  /\ tab' = [tab EXCEPT ![t].loading = TRUE]
  /\ UNCHANGED <<orphans, serverVars, faults, unsaved>>

(* submitConfigChange up to its request, as far as the buttons offer it;   *)
(* keys that are not in the form are not in the request either.            *)
Submit(t, op) ==
  /\ Act
  /\ op \notin tab[t].busy /\ ~tab[t].loading /\ tab[t].form # tab[t].formOriginal
  /\ Len(open[t]) < MaxOpen
  /\ LET base == IF tab[t].draftBaseHash = NoHash THEN tab[t].hash ELSE tab[t].draftBaseHash
         r == [Blank(op) EXCEPT !.data = tab[t].form,
                                !.left = {k \in Keys : tab[t].form[k] # Unset},
                                !.hash = base, !.startHash = tab[t].startHash,
                                !.rebased = tab[t].rebased, !.took = unsaved[t]]
     IN open' = [open EXCEPT ![t] = Append(@, r)]
  /\ tab' = [tab EXCEPT ![t].busy = @ \cup {op}]
  /\ NothingUnsaved(t)
  /\ UNCHANGED <<orphans, serverVars, faults>>

-------------------------------------------------------------------------------
(* Mutant: a snapshot always replaces the draft.                           *)
PreservesNothing(t, r) == FALSE

(* applyConfigSnapshot keeps the draft if it is dirty, unless told not to. *)
PreservesPending(t, r) == tab[t].dirty /\ ~r.discard

(* Mutant: the draft is taken to be based on the snapshot that came last.  *)
KeepRebased(t, r) == [tab[t] EXCEPT !.draftBaseHash = r.hash, !.hash = r.hash]

KeepDraft(t, r) ==
  [tab[t] EXCEPT !.draftBaseHash = IF @ = NoHash THEN tab[t].hash ELSE @, !.hash = r.hash]

ApplySnapshot(t, r) ==
  IF PreservesPending(t, r) THEN KeepDraft(t, r)
  ELSE [tab[t] EXCEPT !.form = r.data, !.formOriginal = r.data, !.dirty = FALSE,
                      !.hash = r.hash, !.draftBaseHash = r.hash,
                      !.startHash = r.hash, !.rebased = FALSE]

(* Mutant: both buttons share one busy flag.                               *)
FinishedBoth(r) == Submits

(* The submit that awaited this load ends with it.                         *)
Finished(r) == r.awaitedBy

Answered(t, op) == open[t] # <<>> /\ Head(open[t]).op = op /\ Head(open[t]).stage = "done"

GetReturns(t) ==
  /\ Answered(t, "config.get")
  /\ LET r == Head(open[t])
     IN /\ tab' = [tab EXCEPT ![t] = [ApplySnapshot(t, r) EXCEPT !.loading = FALSE,
                                                                !.busy = @ \ Finished(r)]]
        /\ IF r.discard
           THEN NothingUnsaved(t) /\ open' = [open EXCEPT ![t] = TookNothing(Tail(@))]
           ELSE UNCHANGED unsaved /\ open' = [open EXCEPT ![t] = Tail(@)]
  /\ UNCHANGED <<orphans, serverVars, acts, faults>>

(* submitConfigChange goes on: the draft counts as saved, and a load that  *)
(* it awaits follows.                                                      *)
SubmitReturns(t, op) ==
  /\ Answered(t, op)
  /\ open' = [open EXCEPT ![t] = Append(Tail(@), [Blank("config.get") EXCEPT !.awaitedBy = {op}])]
  /\ tab' = [tab EXCEPT ![t].dirty = FALSE, ![t].draftBaseHash = NoHash,
                        ![t].rebased = TRUE, ![t].loading = TRUE]
  /\ UNCHANGED <<orphans, serverVars, acts, faults, unsaved>>

(* A submit fails.  One sent after it took the whole form along too.       *)
SubmitFails(t) ==
  /\ open[t] # <<>> /\ Head(open[t]).stage = "failed"
  /\ LET r == Head(open[t])
         rest == Tail(open[t])
         later == {n \in DOMAIN rest : rest[n].op \in Submits}
     IN /\ open' = [open EXCEPT ![t] =
                      [n \in DOMAIN rest |->
                         [rest[n] EXCEPT !.took = @ \cup IF n \in later THEN r.took ELSE {}]]]
        /\ tab' = [tab EXCEPT ![t].busy = @ \ {r.op}]
        /\ unsaved' = IF later # {} THEN unsaved
                      ELSE [unsaved EXCEPT ![t] = @ \cup r.took]
  /\ UNCHANGED <<orphans, serverVars, acts, faults>>

(* The connection of a tab breaks: every promise is rejected, the request  *)
(* the gateway has begun runs to its end, the others are lost.             *)
Begun(r) == \/ r.stage # "sent"
            \/ r.op \in Submits /\ r.left # {k \in Keys : r.data[k] # Unset}
Over(r) == r.stage \in {"done", "failed"}

Disconnect(t) ==
  /\ open[t] # <<>> /\ Fault
  /\ orphans' = orphans \cup {r \in {Head(open[t])} : Begun(r) /\ ~Over(r)}
  /\ open' = [open EXCEPT ![t] = <<>>]
  /\ tab' = [tab EXCEPT ![t].loading = FALSE, ![t].busy = {}]
  /\ unsaved' = [unsaved EXCEPT ![t] = @ \cup UNION {r.took : r \in ToSet(open[t])}]
  /\ UNCHANGED <<serverVars, acts>>

-------------------------------------------------------------------------------
(* The read loop of a connection serves its requests one after the other.  *)
Serving == {Head(open[t]) : t \in {t \in Tabs : open[t] # <<>>}} \cup orphans

Becomes(r, next) ==
  \/ \E t \in Tabs : /\ open[t] # <<>> /\ Head(open[t]) = r
                     /\ open' = [open EXCEPT ![t] = <<next>> \o Tail(@)]
                     /\ UNCHANGED orphans
  \/ /\ r \in orphans
     /\ orphans' = (orphans \ {r}) \cup (IF Over(next) THEN {} ELSE {next})
     /\ UNCHANGED open

(* A key whose row cannot be read is taken as not overridden.              *)
Readings == {[k \in Keys |-> IF k \in unread THEN Unset ELSE db[k]] :
               unread \in IF faults < MaxFaults THEN SUBSET Keys ELSE {{}}}
CountFault(read) == faults' = faults + IF read = db THEN 0 ELSE 1

(* buildSnapshot reads the table for the configuration, then once more for *)
(* the source configuration.                                               *)
ReadConfig(r) ==
  /\ r.op = "config.get" /\ r.stage = "sent"
  /\ \E read \in Readings :
       /\ Becomes(r, [r EXCEPT !.hash = Hash(read), !.stage = "config"])
       /\ CountFault(read)
  /\ UNCHANGED <<tab, serverVars, acts, unsaved>>

ReadSource(r) ==
  /\ r.stage = "config"
  /\ \E read \in Readings :
       /\ Becomes(r, [r EXCEPT !.data = SourceConfig(read), !.stage = "done"])
       /\ CountFault(read)
  /\ UNCHANGED <<tab, serverVars, acts, unsaved>>

(* applyRawConfig upserts key by key, in any order; baseHash is not looked *)
(* at.                                                                     *)
Upsert(r, k) ==
  /\ r.stage = "sent" /\ k \in r.left
  /\ db' = [db EXCEPT ![k] = r.data[k]]
  /\ Becomes(r, [r EXCEPT !.left = @ \ {k}])
  /\ disturbed' = (disturbed \/ \E other \in Serving : other.stage = "reading")
  /\ UNCHANGED <<tab, runtime, acts, faults, unsaved>>

UpsertFails(r) ==
  /\ r.stage = "sent" /\ r.left # {}
  /\ Fault
  /\ Becomes(r, [Done(r) EXCEPT !.stage = "failed"])
  /\ disturbed' = (disturbed \/ Begun(r))
  /\ UNCHANGED <<tab, db, runtime, acts, unsaved>>

(* Mutant: the form is applied instead of what the table holds.           *)
FormValue(r, k, read) == r.data[k]

TableValue(r, k, read) == read

(* applyRuntimeConfig follows the last upsert: it looks the keys up one by *)
(* one and then replaces the configuration in memory.                      *)
AllStored(r) == r.op \in Submits /\ r.stage = "sent" /\ r.left = {}
ToRead(r) == IF AllStored(r) THEN Keys ELSE IF r.stage = "reading" THEN r.left ELSE {}

ReadOverride(r, k) ==
  /\ k \in ToRead(r)
  /\ \E read \in {db[k]} \cup IF faults < MaxFaults THEN {Unset} ELSE {} :
       /\ Becomes(r, [r EXCEPT !.data[k] = TableValue(r, k, read),
                               !.stage = "reading", !.left = ToRead(r) \ {k}])
       /\ faults' = faults + IF read = db[k] THEN 0 ELSE 1
       /\ disturbed' = (disturbed \/ read # db[k])
  /\ UNCHANGED <<tab, db, runtime, acts, unsaved>>

ReloadConfig(r) ==
  /\ r.stage = "reading" /\ r.left = {}
  /\ runtime' = Effective(r.data)
  /\ Becomes(r, Done(r))
  /\ UNCHANGED <<tab, db, disturbed, acts, faults, unsaved>>

-------------------------------------------------------------------------------
User(t) == \/ \E k \in Keys, v \in Values \cup {Unset} : Edit(t, k, v)
           \/ Reset(t)
           \/ \E discard \in BOOLEAN : Load(t, discard)
           \/ \E op \in Submits : Submit(t, op)

Returns(t) == \/ GetReturns(t) \/ SubmitFails(t)
              \/ \E op \in Submits : SubmitReturns(t, op)

Serve(r) == \/ ReadConfig(r) \/ ReadSource(r)
            \/ \E k \in Keys : Upsert(r, k) \/ ReadOverride(r, k)
            \/ UpsertFails(r) \/ ReloadConfig(r)

Next == \/ \E t \in Tabs : User(t) \/ Returns(t) \/ Disconnect(t)
        \/ \E r \in Serving : Serve(r)

Spec == Init /\ [][Next]_vars

-------------------------------------------------------------------------------
(* What the user typed while nothing was being saved counts as a pending   *)
(* change until a submit takes it along or the user drops it: no refresh,  *)
(* failed submit or lost connection makes the draft clean under it.        *)
UnsavedIsDirty ==
  \A t \in Tabs : unsaved[t] # {} => tab[t].dirty

(* config.test.ts, "submits the original draft base hash": a submit names  *)
(* the snapshot its draft started from, however many came since; but for a *)
(* draft that was reset after a refresh, which names the newer snapshot.   *)
SubmitNamesItsStart ==
  \A t \in Tabs : \A r \in ToSet(open[t]) :
    r.op \in Submits /\ ~r.rebased => r.hash = r.startHash

(* The agent runs with the stored configuration when no submit is being    *)
(* served, unless one failed half-way or two were reloaded at once.        *)
RuntimeFollowsDb ==
  (\A r \in Serving : r.op \in Submits => Over(r) \/ ~Begun(r)) /\ ~disturbed
  => runtime = Effective(db)

(* config.test.ts, "drops stale loaded redacted placeholders": what stands *)
(* for a secret in the form never reaches the table.                       *)
SecretsSurvive == \A k \in Secrets : db[k] \in Values \cup {Unset}
===============================================================================
