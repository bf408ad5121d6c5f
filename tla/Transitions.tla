---------------------------- MODULE Transitions ----------------------------
(***************************************************************************)
(* The label "Observed by Page 47" (analysis/drift.py, _transition_origin),*)
(* over what gives it its meaning: the captures of two appearances of one  *)
(* matter, made by the collector and by a backfill, and the rows that the  *)
(* apply step and the backfill leave with the capture each row cites.      *)
(*                                                                         *)
(* Each appearance is an event of its own; its versions are numbers, 0 as  *)
(* long as the city does not list it.  A capture has its place in the      *)
(* manifest as its time: only the order of the times matters, and every    *)
(* line is written after those before it.  A collector run has the place   *)
(* of the line that comes next when it starts as its id; runs that record  *)
(* nothing may share one.  Of the file operations of a capture, which      *)
(* EvidenceStore has, only what a kill or a second writer among them does  *)
(* to the programs that come later is here.                                *)
(***************************************************************************)
EXTENDS Integers, Sequences, FiniteSetsExt

CONSTANTS
  MaxVersion,
  Baseline,       \* comparison.forward_observation_baseline, as a place
  MaxChanges,     \* bound on versions published
  MaxFaults,      \* bound on failed requests and on programs killed
  MaxBackfills    \* bound on backfills

ASSUME TransitionsAssumption ==
  /\ MaxVersion \in Nat \ {0} /\ Baseline \in Nat
  /\ {MaxChanges, MaxFaults, MaxBackfills} \subseteq Nat

Sides == {"earlier", "later"}
Versions == 1..MaxVersion
NoRun == 0              \* collector_run_id is absent
Idle == [id |-> NoRun, known |-> {}, todo |-> {}]
Nothing == [s \in Sides |-> 0]

VARIABLES
  served,         \* what the city serves for each event
  manifest,       \* captures [side, version, run]; version 0 is a failure
  run,            \* the collector's run: its id, the lines it knows, its events
  reader,         \* the backfill, likewise; its id is 1 while one runs
  draft,          \* captures of the rows in the backfill's open transaction
  cited,          \* the capture the row of each appearance cites, 0 for none
  applied,        \* snapshots: captures that are in the record store
  sealed,         \* whether chain and manifest go together
  torn,           \* bodies that are not whole, <<side, version>>
  sent,           \* history: place and run when the collector first saw a version
  changes, faults, backfills

bounds == <<changes, faults, backfills>>
files == <<sealed, torn>>
vars == <<served, manifest, run, reader, draft, cited, applied, files, sent, bounds>>

Now == Len(manifest) + 1

(***************************************************************************)
(* Captures.                                                               *)
(***************************************************************************)

(* store.latest, among the lines a program knows. *)
Latest(side, known) ==
  LET of == {i \in known : manifest[i].side = side}
  IN  IF of = {} THEN 0 ELSE Max(of)

(* Only a response with a validator, a good one, is answered with 304. *)
Unmodified(side, known) ==
  LET last == Latest(side, known)
  IN  last # 0 /\ manifest[last].version = served[side]

(* The capture key is of the response and its fields; the two programs     *)
(* keep different fields, a version therefore has one key in each.         *)
Existing(side, version, id) ==
  {i \in DOMAIN manifest :
     /\ manifest[i].side = side /\ manifest[i].version = version
     /\ (manifest[i].run = NoRun) = (id = NoRun)}

(* Fault: every response is recorded. *)
CapturedAgain(side, version, id) == Append(manifest, [side |-> side, version |-> version, run |-> id])

(* SnapshotStore.capture: the existing record, with its old time, or a new one. *)
Captured(side, version, id) ==
  IF Existing(side, version, id) # {} THEN manifest
  ELSE Append(manifest, [side |-> side, version |-> version, run |-> id])

(* The place of that record. *)
PlaceOf(side, version, id) ==
  IF Existing(side, version, id) # {} THEN Min(Existing(side, version, id)) ELSE Now

(* capture raises for a new one whose body is there and is not whole. *)
New(side, version, id) == Existing(side, version, id) = {}
Refused(side, version, id) == New(side, version, id) /\ <<side, version>> \in torn

(* A program asks for the events one after another.  What its next answer  *)
(* makes it capture is new, if this holds.                                 *)
InTurn(side, program, first) ==
  side \in program.todo /\ (side # first => first \notin program.todo)

Capturing(program, first, id) ==
  \E s \in program.todo :
    /\ InTurn(s, program, first) /\ ~Unmodified(s, program.known)
    /\ New(s, served[s], id) /\ <<s, served[s]>> \notin torn

(* Two programs inside capture may write their lines in one order and      *)
(* their entries of the chain in the other.                                *)
Beside(capturing) == sealed' = sealed \/ (capturing /\ sealed' = FALSE)

(* Killed inside capture: the body is not whole, or the line is not, or it *)
(* is and lacks its entry of the chain.                                    *)
CutShort(side, id) ==
  \/ /\ \A i \in DOMAIN manifest : manifest[i].side # side \/ manifest[i].version # served[side]
     /\ torn' = torn \cup {<<side, served[side]>>}
     /\ UNCHANGED <<manifest, sealed>>
  \/ sealed' = FALSE /\ UNCHANGED <<manifest, torn>>
  \/ sealed' = FALSE /\ manifest' = Captured(side, served[side], id) /\ UNCHANGED torn

(***************************************************************************)
(* The collector.                                                          *)
(***************************************************************************)

(* run_once: SnapshotStore() raises where chain and manifest differ.  The  *)
(* id is the time of the start; the page read next lists the events.       *)
StartRun ==
  /\ run = Idle
  /\ sealed
  /\ run' = [id |-> Now, known |-> DOMAIN manifest, todo |-> {s \in Sides : served[s] # 0}]
  /\ UNCHANGED <<served, manifest, reader, draft, cited, applied, files, sent, bounds>>

(* The events are sorted by their ids; that of the later one is higher.    *)
Asked(side) ==
  /\ InTurn(side, run, "earlier")
  /\ run' = [run EXCEPT !.todo = @ \ {side}]

(* The collector is told what the city serves, by a capture or by a 304 to *)
(* anybody's capture.                                                      *)
Seen(side) ==
  sent' = [sent EXCEPT ![side][served[side]] =
             IF @.at = 0 THEN [at |-> Now, run |-> run.id] ELSE @]

NotModified(side) ==
  /\ Asked(side)
  /\ Unmodified(side, run.known)
  /\ Seen(side)
  /\ UNCHANGED <<served, manifest, reader, draft, cited, applied, files, bounds>>

Receive(side) ==
  /\ Asked(side)
  /\ ~Unmodified(side, run.known)
  /\ ~Refused(side, served[side], run.id)
  /\ manifest' = Captured(side, served[side], run.id)
  /\ Beside(New(side, served[side], run.id) /\ Capturing(reader, "later", NoRun))
  /\ Seen(side)
  /\ UNCHANGED <<served, reader, draft, cited, applied, torn, bounds>>

(* A failure is recorded, and leaves the next request without a validator. *)
RequestFails(side) ==
  /\ faults < MaxFaults /\ faults' = faults + 1
  /\ Asked(side)
  /\ manifest' = Captured(side, 0, run.id)
  /\ UNCHANGED <<served, reader, draft, cited, applied, files, sent, changes, backfills>>

EndRun ==
  /\ run.id # NoRun /\ run.todo = {}
  /\ run' = Idle
  /\ UNCHANGED <<served, manifest, reader, draft, cited, applied, files, sent, bounds>>

(* The exception of a capture that is refused ends the run. *)
RunRefused ==
  /\ \E s \in Sides : /\ InTurn(s, run, "earlier") /\ ~Unmodified(s, run.known)
                      /\ Refused(s, served[s], run.id)
  /\ run' = Idle
  /\ UNCHANGED <<served, manifest, reader, draft, cited, applied, files, sent, bounds>>

(* Killed between two requests, *)
KillRun ==
  /\ faults < MaxFaults /\ faults' = faults + 1
  /\ run.id # NoRun
  /\ run' = Idle
  /\ UNCHANGED <<served, manifest, reader, draft, cited, applied, files, sent, changes,
                 backfills>>

(* or inside capture.  A failure's body is left out: nothing needs it. *)
KillRunCapturing(side) ==
  /\ faults < MaxFaults /\ faults' = faults + 1
  /\ InTurn(side, run, "earlier") /\ ~Unmodified(side, run.known)
  /\ New(side, served[side], run.id) /\ <<side, served[side]>> \notin torn
  /\ CutShort(side, run.id)
  /\ run' = Idle
  /\ IF manifest' = manifest THEN UNCHANGED sent ELSE Seen(side)
  /\ UNCHANGED <<served, reader, draft, cited, applied, changes, backfills>>

(***************************************************************************)
(* The backfill, which takes no lock before its first row: one event after *)
(* another, and one commit.                                                *)
(***************************************************************************)

StartBackfill ==
  /\ backfills < MaxBackfills /\ backfills' = backfills + 1
  /\ reader = Idle
  /\ sealed
  /\ reader' = [id |-> 1, known |-> DOMAIN manifest, todo |-> {s \in Sides : served[s] # 0}]
  /\ UNCHANGED <<served, manifest, run, draft, cited, applied, files, sent, changes, faults>>

(* read_event_detail, by descending id: the row cites the capture, after a *)
(* 304 the latest one, whoever made it.                                    *)
ReadDetail(side) ==
  /\ InTurn(side, reader, "later")
  /\ reader' = [reader EXCEPT !.todo = @ \ {side}]
  /\ IF Unmodified(side, reader.known)
     THEN /\ draft' = [draft EXCEPT ![side] = Latest(side, reader.known)]
          /\ UNCHANGED <<manifest, sealed>>
     ELSE /\ ~Refused(side, served[side], NoRun)
          /\ draft' = [draft EXCEPT ![side] = PlaceOf(side, served[side], NoRun)]
          /\ manifest' = Captured(side, served[side], NoRun)
          /\ Beside(New(side, served[side], NoRun) /\ Capturing(run, "earlier", run.id))
  /\ UNCHANGED <<served, run, cited, applied, torn, sent, bounds>>

(* add_snapshot and the rows, when all is read. *)
CommitBackfill ==
  /\ reader # Idle /\ reader.todo = {}
  /\ cited' = [s \in Sides |-> IF draft[s] = 0 THEN cited[s] ELSE draft[s]]
  /\ applied' = applied \cup {draft[s] : s \in {x \in Sides : draft[x] # 0}}
  /\ draft' = Nothing
  /\ reader' = Idle
  /\ UNCHANGED <<served, manifest, run, files, sent, bounds>>

BackfillRefused ==
  /\ \E s \in Sides : /\ InTurn(s, reader, "later") /\ ~Unmodified(s, reader.known)
                      /\ Refused(s, served[s], NoRun)
  /\ reader' = Idle
  /\ draft' = Nothing
  /\ UNCHANGED <<served, manifest, run, cited, applied, files, sent, bounds>>

KillBackfill ==
  /\ faults < MaxFaults /\ faults' = faults + 1
  /\ reader # Idle
  /\ reader' = Idle
  /\ draft' = Nothing
  /\ UNCHANGED <<served, manifest, run, cited, applied, files, sent, changes, backfills>>

KillBackfillCapturing(side) ==
  /\ faults < MaxFaults /\ faults' = faults + 1
  /\ InTurn(side, reader, "later") /\ ~Unmodified(side, reader.known)
  /\ New(side, served[side], NoRun) /\ <<side, served[side]>> \notin torn
  /\ CutShort(side, NoRun)
  /\ reader' = Idle
  /\ draft' = Nothing
  /\ UNCHANGED <<served, run, cited, applied, sent, changes, backfills>>

(***************************************************************************)
(* apply_captured_events: the good captures that are not in the record     *)
(* store, in the order of the manifest, in one transaction.  The row cites *)
(* the capture merged last (_merge_row).                                   *)
(***************************************************************************)
Unapplied == {i \in DOMAIN manifest : manifest[i].version # 0} \ applied

MergedRow(side) ==
  LET of == {i \in Unapplied : manifest[i].side = side}
  IN  IF of = {} THEN cited[side] ELSE Max(of)

Apply ==
  /\ run = Idle           \* the scheduled run is one program after another
  /\ sealed               \* SnapshotStore()
  /\ draft = Nothing      \* the backfill's transaction holds the database
  /\ Unapplied # {}
  /\ cited' = [s \in Sides |-> MergedRow(s)]
  /\ applied' = applied \cup Unapplied
  /\ UNCHANGED <<served, manifest, run, reader, draft, files, sent, bounds>>

(***************************************************************************)
(* The label.                                                              *)
(***************************************************************************)

(* is_forward_capture. *)
Forward(c) == manifest[c].run # NoRun

(* Fault: an answer in the second in which the run began does not count. *)
ObservedLater(previous, current) ==
  /\ Forward(current) /\ previous # current
  /\ current > Baseline /\ current > previous /\ manifest[current].run < current
  /\ \/ previous <= Baseline
     \/ /\ Forward(previous)
        /\ manifest[previous].run <= previous
        /\ manifest[previous].run < manifest[current].run

(* _transition_origin is "observed_by_page47". *)
Observed(previous, current) ==
  /\ Forward(current) /\ previous # current
  /\ current > Baseline /\ current > previous /\ manifest[current].run <= current
  /\ \/ previous <= Baseline
     \/ /\ Forward(previous)
        /\ manifest[previous].run <= previous
        /\ manifest[previous].run < manifest[current].run

(* _source of the two rows: what _title_observation hands to it. *)
Labelled ==
  /\ cited["earlier"] # 0 /\ cited["later"] # 0
  /\ Observed(cited["earlier"], cited["later"])

(* The city lists an event, or replaces what it says of it. *)
Publish(side, v) ==
  /\ changes < MaxChanges /\ changes' = changes + 1
  /\ v # served[side]
  /\ served' = [served EXCEPT ![side] = v]
  /\ UNCHANGED <<manifest, run, reader, draft, cited, applied, files, sent, faults, backfills>>

Init ==
  /\ served \in {[s \in Sides |-> 1], [s \in Sides |-> IF s = "earlier" THEN 1 ELSE 0]}
  /\ manifest = <<>>
  /\ run = Idle /\ reader = Idle /\ draft = Nothing
  /\ cited = Nothing /\ applied = {}
  /\ sealed = TRUE /\ torn = {}
  /\ sent = [s \in Sides |-> [v \in Versions |-> [at |-> 0, run |-> NoRun]]]
  /\ changes = 0 /\ faults = 0 /\ backfills = 0

Collecting ==
  \/ StartRun \/ EndRun
  \/ \E s \in Sides : NotModified(s) \/ Receive(s)

Next ==
  \/ Collecting \/ Apply
  \/ RunRefused \/ KillRun \/ \E s \in Sides : RequestFails(s) \/ KillRunCapturing(s)
  \/ StartBackfill \/ CommitBackfill \/ \E s \in Sides : ReadDetail(s)
  \/ BackfillRefused \/ KillBackfill \/ \E s \in Sides : KillBackfillCapturing(s)
  \/ \E s \in Sides, v \in Versions : Publish(s, v)

Spec == Init /\ [][Next]_vars

(* cron runs the collector and the apply step again and again, and a       *)
(* backfill that was started comes to its end.  The apply step needs more  *)
(* than weak fairness: it finds the collector between two runs.            *)
FairSpec ==
  /\ Spec
  /\ WF_vars(Collecting) /\ SF_vars(Apply)
  /\ WF_vars((\E s \in Sides : ReadDetail(s)) \/ CommitBackfill)

(***************************************************************************)
(* Properties.                                                             *)
(***************************************************************************)

(* The types of the store, the rows and the programs' memory. *)
TypeOK ==
  /\ served \in [Sides -> 0..MaxVersion]
  /\ manifest \in Seq([side : Sides, version : 0..MaxVersion, run : Nat])
  /\ \A r \in {run, reader} :
       r.id \in 0..Now /\ r.known \subseteq DOMAIN manifest /\ r.todo \subseteq Sides
  /\ draft \in [Sides -> 0..Len(manifest)] /\ cited \in [Sides -> 0..Len(manifest)]
  /\ applied \subseteq DOMAIN manifest
  /\ sealed \in BOOLEAN /\ torn \subseteq Sides \X Versions
  /\ sent \in [Sides -> [Versions -> [at : Nat, run : Nat]]]
  /\ changes \in 0..MaxChanges /\ faults \in 0..MaxFaults /\ backfills \in 0..MaxBackfills

(* "Page 47 captured the earlier and later public versions itself"         *)
(* (README.md 89), in this order: where the label stands on two captures   *)
(* after the baseline, the collector made both, and had not seen the later *)
(* version, not even in a 304, before a run after the one that captured    *)
(* the earlier; or a backfill had captured the later version before, so    *)
(* that a 304 could tell the collector of it.                              *)
ObservedIsNew ==
  Labelled /\ cited["earlier"] > Baseline =>
    LET p == cited["earlier"]
        c == cited["later"]
        first == sent["later"][manifest[c].version]
    IN  /\ Forward(p) /\ Forward(c)
        /\ \/ first.at > p /\ first.run > manifest[p].run
           \/ \E i \in 1..(c - 1) :
                /\ manifest[i].side = "later" /\ manifest[i].version = manifest[c].version
                /\ ~Forward(i)

(* "Both sides of the transition must carry ... qualifying collector-run   *)
(* provenance after the configured production baseline" (README.md 98).    *)
(* The code takes an earlier side from before it, by whatever program.     *)
BothAfterBaseline == Labelled => \A s \in Sides : Forward(cited[s]) /\ cited[s] > Baseline

(* What the collector is in a position to witness, by that rule: it has    *)
(* captured the earlier version after the baseline, and it still stands;   *)
(* since then the later event is listed, and no capture of it is older,    *)
(* of the same run or another program's.                                   *)
Witnessed ==
  LET p == cited["earlier"]
  IN  /\ p > Baseline /\ Forward(p)
      /\ served["later"] # 0
      /\ \A i \in DOMAIN manifest :
           \/ manifest[i].side = "earlier" /\ (manifest[i].version = 0 \/ i <= p)
           \/ /\ manifest[i].side = "later" /\ Forward(i) /\ i > p
              /\ manifest[i].run > manifest[p].run

(* What a kill or a second writer inside capture leaves, none of which the *)
(* code repairs.                                                           *)
Damaged == ~sealed \/ torn # {}

(* A later appearance that the collector is in a position to witness gets  *)
(* the label, whatever fails, is killed or is applied late, unless another *)
(* capture comes between, or the store is damaged.                         *)
WitnessedIsLabelled == Witnessed ~> (Labelled \/ ~Witnessed \/ Damaged)
=============================================================================
