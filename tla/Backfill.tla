------------------------------ MODULE Backfill ------------------------------
(***************************************************************************)
(* scripts/backfill.py (records/runner.py): the historical collection,     *)
(* which reads the pages of matters and events and the details of the      *)
(* watched events into the record store, in one long transaction, beside   *)
(* the collector and the apply step of the scheduled run.                  *)
(*                                                                         *)
(* The source numbers the versions of an event; a version stands for what  *)
(* its list entry and its detail say.  A row of the store is reduced to    *)
(* the versions its values were taken from, 0 for none.  A matter has one  *)
(* version.  The manifest holds the captures of event details that were    *)
(* answered with JSON, by either writer; their keys differ between the     *)
(* two, since the fields do.  Pages and failures are captured too; of      *)
(* these, and of the file operations of any capture (EvidenceStore), only  *)
(* what a kill or the other writer among them leaves is here.  Agendas are *)
(* in Records.                                                             *)
(***************************************************************************)
EXTENDS Integers, Sequences, FiniteSetsExt

CONSTANTS
  Events,         \* event ids
  Watched,        \* those of a watched body
  First,          \* those listed at the beginning
  MaxVersion,
  Undated,        \* versions whose date is null
  Itemless,       \* versions whose items cannot be read at all
  Paperless,      \* versions with an item whose attachments cannot be read
  PageSize,       \* backfill.event_page_size and matter_page_size
  MaxPages,       \* backfill.max_event_pages and max_matter_pages
  MaxDetails,     \* backfill.max_detail_events
  MinRepeated,    \* backfill.minimum_repeated_matters
  Matters,        \* matter ids
  FirstMatters,   \* those listed at the beginning
  MaxChanges,     \* bound on changes of the source
  MaxFaults,      \* bound on failed requests, programs killed, captures at a time
  MaxRuns         \* bound on backfills

ASSUME BackfillAssumption ==
  /\ Events \subseteq Nat /\ IsFiniteSet(Events)
  /\ Watched \subseteq Events /\ First \subseteq Events
  /\ {MaxVersion, PageSize, MaxPages} \subseteq Nat \ {0}
  /\ Matters \subseteq Nat /\ IsFiniteSet(Matters) /\ FirstMatters \subseteq Matters
  /\ {MaxDetails, MinRepeated, MaxChanges, MaxFaults, MaxRuns} \subseteq Nat

Versions == 1..MaxVersion
Whole == Versions \ (Itemless \cup Paperless)

Rows == [date : {0} \cup Versions,      \* events.event_date
         items : {0} \cup Versions,     \* the detail the appearances are from
         itemDate : {0} \cup Versions,  \* appearances.event_date
         papers : {0} \cup Versions]    \* the detail the attachments are from

VARIABLES
  listed, served,   \* the source: what it lists, the version of each event
  matters, changes, \* the matters it lists; the number of its changes
  manifest,         \* captures [event, version] in the order of their lines
  sealed,           \* whether manifest and chain go together
  torn,             \* bodies that are not whole: <<event, version>>, or Page
  db,               \* what is committed: rows, applied captures, matters
  pc, page,         \* place in run_backfill; pages or details already read
  seen, candidates, issues,
  draft,            \* the tables as the open transaction sees them
  known,            \* the captures the backfill knows of: self.records
  matterStart, mattersOnly,
  aim,              \* history: what the source served when the run started
  withdrawn,        \* history: what each list has lost before it was read
  lastRun,          \* the status of the newest row of collection_runs
  applying, loaded, head,   \* apply step: its place, captures read, first to do
  runs, faults

source == <<listed, served, matters, changes>>
run == <<pc, page, seen, candidates, issues, draft, known, matterStart, mattersOnly,
         aim, withdrawn>>
options == <<matterStart, mattersOnly, aim, withdrawn>>
files == <<sealed, torn>>
apply == <<applying, loaded, head>>
vars == <<source, manifest, files, db, run, lastRun, apply, runs, faults>>

Captures(e) == {p \in DOMAIN manifest : manifest[p].event = e}

Empty ==
  [rows |-> [e \in Events |-> [date |-> 0, items |-> 0, itemDate |-> 0, papers |-> 0]],
   applied |-> {}, matters |-> {}]

(***************************************************************************)
(* The rows.  A null never replaces a value (_merge_row).                  *)
(***************************************************************************)
Null == 0
Kept(old, value) == IF value = Null THEN old ELSE value

(* event_observation: the date that version v states. *)
Date(v) == IF v \in Undated THEN Null ELSE v

(* value_from_detail_or_list: the detail's value, or else the list entry's. *)
ItemDate(u, v) == IF Date(v) = Null THEN Date(u) ELSE Date(v)

(* appearance_observation, of a detail v and a list entry u. *)
Item(u, v) == [from |-> v, date |-> ItemDate(u, v)]

(* upsert_matter.  A matter has one version: a page adds the rows it lists.  *)
MatterSeen(t, ms) == [t EXCEPT !.matters = @ \cup ms]

(* upsert_event *)
EventSeen(row, v) == [row EXCEPT !.date = Kept(@, Date(v))]

(* upsert_appearance *)
ItemsSeen(row, item) ==
  [row EXCEPT !.items = item.from, !.itemDate = Kept(@, item.date)]

(* attachment_observation, upsert_attachment, after the item's own row: one  *)
(* that cannot be read leaves the row of its item behind.                    *)
PapersSeen(row, v) == IF v \in Paperless THEN row ELSE [row EXCEPT !.papers = v]

(* The detail v of an event whose list entry was version u. *)
DetailSeen(row, u, v) ==
  LET event == EventSeen(row, v)
  IN  IF v \in Itemless THEN event ELSE PapersSeen(ItemsSeen(event, Item(u, v)), v)

(* The details of the captures ps of an event, in the order of their lines,  *)
(* each its own list entry: a value is of the last of them that states one.  *)
Stated(old, ps, silent) ==
  LET stating == {p \in ps : manifest[p].version \notin silent}
  IN  IF stating = {} THEN old ELSE manifest[Max(stating)].version

CapturesSeen(row, ps) ==
  [date |-> Stated(row.date, ps, Undated),
   items |-> Stated(row.items, ps, Itemless),
   itemDate |-> Stated(row.itemDate, ps, Itemless \cup Undated),
   papers |-> Stated(row.papers, ps, Itemless \cup Paperless)]

(***************************************************************************)
(* The source: matters by ascending id, events by descending id.           *)
(***************************************************************************)
Slice(n) == (n * PageSize + 1)..((n + 1) * PageSize)    \* the places on page n

Place(e) == Cardinality({x \in listed : x >= e})         \* of a listed event

EventPage(n) == {e \in listed : Place(e) \in Slice(n)}

MatterPlace(m) == Cardinality({x \in matters : x <= m})

(* matter_observation of each record of a page: with one version, its id. *)
MatterPage(n) == {m \in matters : MatterPlace(m) \in Slice(n)}

(* The order in which the events of a page are taken. *)
Descending(ids) ==
  CHOOSE s \in [1..Cardinality(ids) -> ids] : \A i, j \in DOMAIN s : i < j => s[i] > s[j]

Replace(e) ==
  /\ e \in listed /\ served[e] < MaxVersion
  /\ served' = [served EXCEPT ![e] = @ + 1]
  /\ UNCHANGED <<listed, matters, withdrawn>>

PublishOrWithdraw(e) ==
  /\ listed' = IF e \in listed THEN listed \ {e} ELSE listed \cup {e}
  /\ withdrawn' = IF e \in listed /\ pc \in {"matters", "events"}
                  THEN [withdrawn EXCEPT !.events = @ + 1] ELSE withdrawn
  /\ UNCHANGED <<served, matters>>

PublishOrWithdrawMatter(m) ==
  /\ matters' = IF m \in matters THEN matters \ {m} ELSE matters \cup {m}
  /\ withdrawn' = IF m \in matters /\ pc = "matters"
                  THEN [withdrawn EXCEPT !.matters = @ + 1] ELSE withdrawn
  /\ UNCHANGED <<listed, served>>

Change ==
  /\ changes < MaxChanges
  /\ changes' = changes + 1
  /\ \/ \E e \in Events : Replace(e) \/ PublishOrWithdraw(e)
     \/ \E m \in Matters : PublishOrWithdrawMatter(m)
  /\ UNCHANGED <<manifest, files, db, pc, page, seen, candidates, issues, draft, known,
                 matterStart, mattersOnly, aim, lastRun, apply, runs, faults>>

(***************************************************************************)
(* Captures.                                                               *)
(***************************************************************************)

(* candidates[: max_detail_events] *)
Attempts == Min({Len(candidates), MaxDetails})
Candidate == candidates[page + 1]

(* What the backfill knows to be the version that the event now has.  A 304 *)
(* stands for the latest of these; without one the answer is captured.      *)
Same(e) == {p \in Captures(e) \cap known : manifest[p].version = served[e]}

Uncaptured(e) == \A p \in Captures(e) : manifest[p].version # served[e]

(* The body of a page, or of a failure.                                     *)
Page == <<0, 0>>

(* Every answer is captured, so that the backfill can be inside capture.    *)
Capturing == pc \in {"matters", "events"} \/ (pc = "details" /\ page < Attempts)

(* Killed inside capture, of a page or of the detail of one of es: the body *)
(* is not whole, or the line is not, or it is and lacks its entry of the    *)
(* chain.                                                                   *)
CutShort(es) ==
  \/ /\ torn' \in {torn \cup {b} :
          b \in {Page} \cup {<<e, served[e]>> : e \in {x \in es : Uncaptured(x)}}}
     /\ UNCHANGED <<manifest, sealed>>
  \/ sealed' = FALSE /\ UNCHANGED <<manifest, torn>>
  \/ /\ sealed' = FALSE
     /\ \E e \in es : manifest' = Append(manifest, [event |-> e, version |-> served[e]])
     /\ UNCHANGED torn

(* The collector, in a run that found the store sound, captures a detail    *)
(* that its store does not hold.                                            *)
Collect(e) ==
  /\ e \in listed /\ Uncaptured(e) /\ <<e, served[e]>> \notin torn
  /\ manifest' = Append(manifest, [event |-> e, version |-> served[e]])
  /\ UNCHANGED <<source, files, db, run, lastRun, apply, runs, faults>>

(* It and the backfill are inside capture at a time, of whatever: the lines *)
(* come in one order and their entries of the chain in the other.           *)
CaptureBeside ==
  /\ faults < MaxFaults
  /\ faults' = faults + 1
  /\ Capturing
  /\ sealed' = FALSE
  /\ UNCHANGED <<source, manifest, torn, db, run, lastRun, apply, runs>>

KillCollector ==
  /\ faults < MaxFaults
  /\ faults' = faults + 1
  /\ CutShort({e \in listed : Uncaptured(e) /\ <<e, served[e]>> \notin torn})
  /\ UNCHANGED <<source, db, run, lastRun, apply, runs>>

(***************************************************************************)
(* run_backfill.                                                           *)
(***************************************************************************)
(* SnapshotStore(root), which raises where chain and manifest differ;       *)
(* --matter-start-page, --matters-only.                                     *)
Start ==
  /\ pc = "idle" /\ runs < MaxRuns
  /\ sealed
  /\ pc' = "matters"
  /\ \E start \in 0..(MaxPages - 1) :
       /\ page' = start /\ matterStart' = start
       /\ aim' = [listed |-> listed, served |-> served,
                  matters |-> {m \in matters : MatterPlace(m) > start * PageSize}]
  /\ mattersOnly' \in BOOLEAN
  /\ known' = DOMAIN manifest
  /\ withdrawn' = [matters |-> 0, events |-> 0]
  /\ runs' = runs + 1
  /\ UNCHANGED <<source, manifest, files, db, seen, candidates, issues, draft, lastRun,
                 apply, faults>>

(* Fault: a run that keeps its rows until the end and takes no lock. *)
NotLocked == FALSE

(* Every answer is recorded, the first one included: from then on the run   *)
(* holds the lock on the database file, and nothing else commits.           *)
Locked ==
  pc \in {"events", "details"} \/ (pc = "matters" /\ page # matterStart)

Tables == IF Locked THEN draft ELSE db

(* Fault: the limit on pages is taken for the end of the listing. *)
ContinueToLimit(rows, next) ==
  LET last == Cardinality(rows) < PageSize \/ page + 1 = MaxPages
  IN  /\ page' = IF last THEN 0 ELSE page + 1
      /\ pc' = IF last THEN next ELSE pc
      /\ UNCHANGED issues

(* A listing ends with a page that is not full, or with the limit. *)
Continue(rows, next) ==
  LET over == Cardinality(rows) < PageSize
      limit == page + 1 = MaxPages
  IN  /\ page' = IF over \/ limit THEN 0 ELSE page + 1
      /\ pc' = IF over \/ limit THEN next ELSE pc
      /\ issues' = (issues \/ (limit /\ ~over))

(* An answer that cannot be used ends it, too. *)
PageFails(next) ==
  /\ faults < MaxFaults
  /\ faults' = faults + 1
  /\ issues' = TRUE
  /\ page' = 0
  /\ pc' = next

AfterMatters == IF mattersOnly THEN "details" ELSE "events"

(* upsert_matter for each matter of the page. *)
ReadMatterPage ==
  /\ pc = "matters"
  /\ draft' = MatterSeen(Tables, MatterPage(page))
  /\ Continue(MatterPage(page), AfterMatters)
  /\ UNCHANGED <<source, manifest, files, db, seen, candidates, known, options, lastRun,
                 apply, runs, faults>>

MatterPageFails ==
  /\ pc = "matters"
  /\ PageFails(AfterMatters)
  /\ draft' = Tables
  /\ UNCHANGED <<source, manifest, files, db, seen, candidates, known, options, lastRun,
                 apply, runs>>

(* An event is taken once, where the list shows it first; those of other    *)
(* bodies are passed over.                                                  *)
ReadEventPage ==
  /\ pc = "events"
  /\ LET rows == EventPage(page)
         new == Descending((rows \cap Watched) \ seen)
     IN  /\ seen' = seen \cup rows
         /\ candidates' = candidates
              \o [i \in DOMAIN new |-> [event |-> new[i], version |-> served[new[i]]]]
         /\ draft' = [draft EXCEPT !.rows = [e \in Events |->
              IF e \in (rows \cap Watched) \ seen THEN EventSeen(@[e], served[e]) ELSE @[e]]]
         /\ Continue(rows, "details")
  /\ UNCHANGED <<source, manifest, files, db, known, options, lastRun, apply, runs, faults>>

EventPageFails ==
  /\ pc = "events"
  /\ PageFails("details")
  /\ UNCHANGED <<source, manifest, files, db, seen, candidates, draft, known, options,
                 lastRun, apply, runs>>

(* Fault: the capture is recorded in a transaction of its own. *)
ReadDetailMarkingFirst ==
  /\ pc = "details" /\ page < Attempts
  /\ Candidate.event \in listed
  /\ <<Candidate.event, served[Candidate.event]>> \notin torn
  /\ LET e == Candidate.event
         v == served[e]
         p == IF Same(e) = {} THEN Len(manifest) + 1 ELSE Max(Same(e))
     IN  /\ manifest' = IF Same(e) = {}
                        THEN Append(manifest, [event |-> e, version |-> v]) ELSE manifest
         /\ known' = known \cup {p}
         /\ draft' = [draft EXCEPT !.rows[e] = DetailSeen(@, Candidate.version, v)]
         /\ db' = [db EXCEPT !.applied = @ \cup {p}]
         /\ issues' = (issues \/ v \notin Whole)
  /\ page' = page + 1
  /\ UNCHANGED <<source, files, pc, seen, candidates, options, lastRun, apply, runs, faults>>

(* The capture counts as applied whatever becomes of its items.              *)
ReadDetail ==
  /\ pc = "details" /\ page < Attempts
  /\ Candidate.event \in listed
  /\ <<Candidate.event, served[Candidate.event]>> \notin torn
  /\ LET e == Candidate.event
         v == served[e]
         p == IF Same(e) = {} THEN Len(manifest) + 1 ELSE Max(Same(e))
     IN  /\ manifest' = IF Same(e) = {}
                        THEN Append(manifest, [event |-> e, version |-> v]) ELSE manifest
         /\ known' = known \cup {p}
         /\ draft' = [draft EXCEPT
                        !.rows[e] = DetailSeen(@, Candidate.version, v),
                        !.applied = @ \cup {p}]
         /\ issues' = (issues \/ v \notin Whole)
  /\ page' = page + 1
  /\ UNCHANGED <<source, files, db, pc, seen, candidates, options, lastRun, apply, runs,
                 faults>>

(* Withdrawn meanwhile, or no usable answer. *)
DetailFails ==
  /\ pc = "details" /\ page < Attempts
  /\ \/ Candidate.event \notin listed /\ UNCHANGED faults
     \/ faults < MaxFaults /\ faults' = faults + 1
  /\ issues' = TRUE
  /\ page' = page + 1
  /\ UNCHANGED <<source, manifest, files, db, pc, seen, candidates, draft, known, options,
                 lastRun, apply, runs>>

(* commit_and_counts *)
CommitData ==
  /\ pc = "details" /\ page = Attempts
  /\ db' = draft
  /\ issues' = (issues \/ Len(candidates) > MaxDetails)
  /\ pc' = "record"
  /\ UNCHANGED <<source, manifest, files, page, seen, candidates, draft, known, options,
                 lastRun, apply, runs, faults>>

Forgotten ==
  /\ pc' = "idle" /\ page' = 0 /\ seen' = {} /\ candidates' = <<>>
  /\ issues' = FALSE /\ known' = {} /\ draft' = Empty
  /\ UNCHANGED options

(* Matters that appear in several events, counted after the commit. *)
Repeated == Cardinality({e \in Events : db.rows[e].items # 0})

Status == IF issues \/ Repeated < MinRepeated THEN "incomplete" ELSE "complete"

(* add_collection_run *)
SaveRun(status) == lastRun' = status

(* The row of the run, in a transaction of its own. *)
RecordRun ==
  /\ pc = "record"
  /\ SaveRun(Status)
  /\ Forgotten
  /\ UNCHANGED <<source, manifest, files, db, apply, runs, faults>>

(* Killed, or an exception: the open transaction is lost. *)
Die ==
  /\ pc # "idle" /\ faults < MaxFaults
  /\ faults' = faults + 1
  /\ Forgotten
  /\ UNCHANGED <<source, manifest, files, db, lastRun, apply, runs>>

DieCapturing ==
  /\ Capturing /\ faults < MaxFaults
  /\ faults' = faults + 1
  /\ CutShort(IF pc # "details" THEN {}
              ELSE {e \in listed \cap {Candidate.event} :
                      Same(e) = {} /\ <<e, served[e]>> \notin torn})
  /\ Forgotten
  /\ UNCHANGED <<source, db, lastRun, apply, runs>>

(* capture raises where the body is there already and is not whole.  A page *)
(* need not be the one whose body is.                                       *)
Refused ==
  /\ \/ pc \in {"matters", "events"} /\ Page \in torn
     \/ /\ pc = "details" /\ page < Attempts /\ Candidate.event \in listed
        /\ <<Candidate.event, served[Candidate.event]>> \in torn
  /\ Forgotten
  /\ UNCHANGED <<source, manifest, files, db, lastRun, apply, runs, faults>>

(***************************************************************************)
(* apply_captured_events: reads the store, finds the captures that are not *)
(* applied, and writes as soon as it may.                                  *)
(***************************************************************************)
Unapplied(n) == {p \in 1..n : p \notin db.applied}

Load ==
  /\ applying = "no"
  /\ sealed            \* SnapshotStore(), as in Start
  /\ applying' = "write"
  /\ loaded' = Len(manifest)
  /\ head' = IF Unapplied(Len(manifest)) = {} THEN 0 ELSE Min(Unapplied(Len(manifest)))
  /\ UNCHANGED <<source, manifest, files, db, run, lastRun, runs, faults>>

EndApply == applying' = "no" /\ loaded' = 0 /\ head' = 0

NothingToApply ==
  /\ applying = "write" /\ head = 0
  /\ EndApply
  /\ UNCHANGED <<source, manifest, files, db, run, lastRun, runs, faults>>

(* The first capture was found unapplied before the lock was taken. *)
CommitApply ==
  /\ applying = "write" /\ head # 0 /\ ~Locked
  /\ LET todo == Unapplied(loaded) \cup {head}
     IN  db' = [db EXCEPT
                  !.rows = [e \in Events |-> CapturesSeen(@[e], todo \cap Captures(e))],
                  !.applied = @ \cup {p \in todo : manifest[p].version \in Whole}]
  /\ EndApply
  /\ UNCHANGED <<source, manifest, files, run, lastRun, runs, faults>>

(* "database is locked", after thirty seconds. *)
ApplyTimesOut ==
  /\ applying = "write" /\ head # 0 /\ Locked
  /\ EndApply
  /\ UNCHANGED <<source, manifest, files, db, run, lastRun, runs, faults>>

(***************************************************************************)
(* The specification.                                                      *)
(***************************************************************************)
Init ==
  /\ listed = First /\ served = [e \in Events |-> 1]
  /\ matters = FirstMatters /\ changes = 0
  /\ manifest = <<>> /\ sealed = TRUE /\ torn = {}
  /\ db = Empty /\ draft = Empty
  /\ pc = "idle" /\ page = 0 /\ seen = {} /\ candidates = <<>> /\ issues = FALSE
  /\ known = {} /\ matterStart = 0 /\ mattersOnly = FALSE
  /\ aim = [listed |-> {}, served |-> served, matters |-> {}]
  /\ withdrawn = [matters |-> 0, events |-> 0] /\ lastRun = "none"
  /\ applying = "no" /\ loaded = 0 /\ head = 0
  /\ runs = 0 /\ faults = 0

Backfilling ==
  \/ ReadMatterPage \/ MatterPageFails \/ ReadEventPage \/ EventPageFails
  \/ ReadDetail \/ DetailFails \/ CommitData \/ RecordRun \/ Refused

Applying == Load \/ NothingToApply \/ CommitApply \/ ApplyTimesOut

Next ==
  \/ Change \/ (\E e \in Events : Collect(e)) \/ CaptureBeside \/ KillCollector
  \/ Start \/ Backfilling \/ Die \/ DieCapturing
  \/ Applying

Spec == Init /\ [][Next]_vars

(* A backfill goes on of itself, and the scheduled run applies again and     *)
(* again.  Nothing obliges anybody to start a backfill.                      *)
FairSpec == Spec /\ WF_vars(Backfilling) /\ WF_vars(Applying)

(***************************************************************************)
(* Properties.                                                             *)
(***************************************************************************)
TypeOK ==
  /\ listed \subseteq Events /\ served \in [Events -> Versions] /\ matters \subseteq Matters
  /\ sealed \in BOOLEAN /\ torn \subseteq {Page} \cup (Events \X Versions)
  /\ manifest \in Seq([event : Events, version : Versions])
  /\ \A t \in {db, draft} :
       /\ t.rows \in [Events -> Rows]
       /\ t.applied \subseteq DOMAIN manifest
       /\ t.matters \subseteq Matters
  /\ pc \in {"idle", "matters", "events", "details", "record"}
  /\ page \in 0..Max({MaxPages, MaxDetails}) /\ seen \subseteq Events
  /\ candidates \in Seq([event : Watched, version : Versions])
  /\ known \subseteq DOMAIN manifest
  /\ lastRun \in {"none", "complete", "incomplete"}
  /\ loaded \in 0..Len(manifest) /\ head \in 0..loaded

(* The detail of the event, as it was when the run began or newer, with its  *)
(* attachments and the date of its event.                                    *)
Stored(e) ==
  LET row == db'.rows[e]
  IN  /\ row.items >= aim.served[e] /\ row.papers = row.items
      /\ row.items \notin Undated => row.itemDate = row.date

(* A run without issues has stored what the source listed when it began, the *)
(* matters from the page it started with and the watched events, but for one *)
(* at most for each that was withdrawn before the listing was read: itself,  *)
(* or the one that moves from the next page to one read before.              *)
CompleteMeansStored ==
  [][CommitData /\ ~issues' =>
       /\ Cardinality(aim.matters \ db'.matters) <= withdrawn.matters
       /\ ~mattersOnly => Cardinality({e \in aim.listed \cap Watched : ~Stored(e)})
                             <= withdrawn.events]_vars

(* Whatever commits in between, a backfill does not put an older detail in   *)
(* place of a newer one.                                                     *)
NothingGoesBack ==
  [][CommitData => \A e \in Events : db'.rows[e].items >= db.rows[e].items]_vars

(* An older capture is still to be applied over a newer detail: a backfill   *)
(* stores what it reads, and leaves what the collector captured before.      *)
Overtaken(e) ==
  \E p \in Captures(e) :
    /\ p = head \/ p \notin db.applied
    /\ manifest[p].version < db.rows[e].items

(* What a kill or the other writer inside capture leaves: the apply step     *)
(* refuses the store, or the collector before it meets the body each time.   *)
Damaged == ~sealed \/ torn # {}

(* What was captured is stored in the end and stays, by whoever captured it, *)
(* even when that was a backfill that died, or the apply step could not get  *)
(* the lock; unless the store is damaged, which nothing repairs, or an older *)
(* capture is applied after a newer one, which puts the old detail back for  *)
(* good.                                                                     *)
EventuallyStored ==
  \A e \in Events : []~Overtaken(e) =>
    \A v \in Whole :
      (\E p \in Captures(e) : manifest[p].version = v)
        ~> (db.rows[e].items >= v \/ Damaged)
=============================================================================
