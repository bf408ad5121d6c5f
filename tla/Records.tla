------------------------------ MODULE Records ------------------------------
(***************************************************************************)
(* The record database of one city (src/src/page47/records/store.py) and   *)
(* the three pipeline steps that fill it from the captures of the evidence *)
(* store: apply_captured_events, apply_pdf_placements and                  *)
(* read_captured_attachments.                                              *)
(*                                                                         *)
(* A step loads the manifest once, so it works on a prefix of it.  The     *)
(* first two write in one transaction, draft, that a killed process loses; *)
(* the readings are committed one by one.  The position of a capture in    *)
(* the manifest stands for its capture time, and a title for every column  *)
(* that _merge_row merges: a null never overwrites a value.                *)
(***************************************************************************)
EXTENDS Naturals, Sequences, FiniteSets, FiniteSetsExt, SequencesExt

CONSTANTS
  Events, Items, Attachments,  \* Ids.
  Home,           \* The event of an item.
  Versions,       \* What a capture may hold.
  Captures,       \* What may be captured.
  Unparsable,     \* Event versions without usable items.
  RowOnly,        \* Those of them that do describe their event.
  Stored,         \* Per event version, the items whose appearance is stored.
  Raised,         \* The items that raise, before that or at an attachment.
  Title,          \* The title an event version gives an item.
  NoTitle,        \* None.
  Files,          \* The attachments stored for an item.
  WithFile,       \* The event versions that name an agenda file.
  Unreadable,     \* Agenda versions that are no readable PDF.
  NotPdf,         \* Attachment versions that do not begin as a PDF does.
  Classify,       \* classify_item: the placement an agenda gives a title.
  Value,          \* The consent value an event version gives an item.
  NoValue,        \* None.
  Mapping,        \* api_placement_mapping: what the calibrated values mean.
  MaxCaptures     \* Bound: the captures of the manifest.

Titles == {Title[v][i] : v \in Versions, i \in Items} \ {NoTitle}
Targets == {<<"event", e>> : e \in Events} \cup {<<"agenda", e>> : e \in Events}
             \cup {<<"attachment", a>> : a \in Attachments}
Values == {Value[v][i] : v \in Versions, i \in Items} \ {NoValue}
Placements == {"consent", "regular", "cannot_determine"}

ASSUME HomeType == Home \in [Items -> Events]
ASSUME CapturesType == Captures \subseteq [target : Targets, status : {"ok", "failed"}, body : Versions]
ASSUME VersionSets ==
  /\ Unparsable \cup WithFile \cup Unreadable \cup NotPdf \subseteq Versions
  /\ RowOnly \subseteq Unparsable
ASSUME ItemsOfVersions == Stored \in [Versions -> SUBSET Items] /\ Raised \in [Versions -> SUBSET Items]
ASSUME TitleType == DOMAIN Title = Versions /\ \A v \in Versions : DOMAIN Title[v] = Items
ASSUME FilesType == Files \in [Versions -> [Items -> SUBSET Attachments]]
ASSUME ClassifyType == Classify \in [Versions -> [Titles -> Placements]]
ASSUME ValueType == DOMAIN Value = Versions /\ \A v \in Versions : DOMAIN Value[v] = Items
ASSUME MappingType == DOMAIN Mapping \subseteq Values /\ \A x \in DOMAIN Mapping : Mapping[x] \in {"consent", "regular"}
ASSUME MaxCapturesType == MaxCaptures \in Nat

VARIABLES
  city,           \* Its calibration: "pdf" (Seattle) or "api" (Denver).
  manifest,       \* The captures, oldest first.
  db,             \* The committed tables.
  draft,          \* The tables as the open transaction sees them.
  pc,             \* "idle", "applying", "placing" or "reading".
  loaded,         \* How many captures the step has loaded.
  pos,            \* The capture it is at.
  covered         \* History: the captures loaded by a committed apply step.

vars == <<city, manifest, db, draft, pc, loaded, pos, covered>>

(* pdf_reader_enabled, api_placement_mapping: how a city is calibrated.     *)
Calibrations == {"pdf", "api"}

(* The schema, reduced to the columns that the three steps work on. *)
Tables ==
  [title     : [Items -> Titles \cup {NoTitle}],
   titleFrom : [Items -> Nat],
   value     : [Items -> Values \cup {NoValue}],
   valueFrom : [Items -> Nat],
   seen      : [Items -> Nat],
   placement : [Items -> Placements \cup {"none"}],
   placeFrom : [Items -> Nat],
   agendas   : SUBSET Events,
   first     : [Attachments -> Nat],
   hash      : [Attachments -> Nat],
   links     : SUBSET (Items \X Attachments),
   applied   : SUBSET Nat,
   failed    : SUBSET Nat,
   reading   : [Attachments -> Nat]]

Empty ==
  [title     |-> [i \in Items |-> NoTitle],   \* title_as_presented
   titleFrom |-> [i \in Items |-> 0],         \* its provenance
   value     |-> [i \in Items |-> NoValue],   \* consent_value
   valueFrom |-> [i \in Items |-> 0],         \* its provenance
   seen      |-> [i \in Items |-> 0],         \* observed_at, 0 without a row
   placement |-> [i \in Items |-> "none"],    \* pdf_placement
   placeFrom |-> [i \in Items |-> 0],         \* its provenance
   agendas   |-> {},                          \* events with an agenda_file
   first     |-> [a \in Attachments |-> 0],   \* first_observed_by_us
   hash      |-> [a \in Attachments |-> 0],   \* the capture of content_hash
   links     |-> {},                          \* appearance_attachments
   applied   |-> {},                          \* snapshots
   failed    |-> {},                          \* the captures of parse_failures
   reading   |-> [a \in Attachments |-> 0]]   \* the capture that was read

(* latest: the last capture of a target among those loaded, of any status. *)
Latest(t) ==
  LET ks == {k \in 1..loaded : manifest[k].target = t}
  IN  IF ks = {} THEN 0 ELSE Max(ks)

Good(k) == manifest[k].status = "ok"

(* agenda_snapshot and agenda_capture of an event. *)
Agenda(e) == Latest(<<"agenda", e>>)
Readable(g) == Good(g) /\ manifest[g].body \notin Unreadable

(* content_capture: a hash only when the latest capture is a good one. *)
Content(a) ==
  LET k == Latest(<<"attachment", a>>)
  IN  IF k # 0 /\ Good(k) THEN k ELSE 0

PlacementOf(g, title) ==
  IF Readable(g) THEN Classify[manifest[g].body][title] ELSE "cannot_determine"

ItemsOf(e) == {i \in Items : Home[i] = e}

(* _merge_row: the rows in S get the new values, where there are any, and  *)
(* these the capture k for provenance.                                     *)
Merge(old, S, new, none) == [x \in DOMAIN old |-> IF x \in S /\ new[x] # none THEN new[x] ELSE old[x]]
Mark(old, S, k) == [x \in DOMAIN old |-> IF x \in S THEN k ELSE old[x]]

(* Fault: a null takes over the provenance of the value it leaves alone. *)
CiteNulls(old, S, new, none, k) == Mark(old, S, k)

Cite(old, S, new, none, k) == Mark(old, {x \in S : new[x] # none}, k)

(***************************************************************************)
(* apply_captured_events.                                                  *)
(***************************************************************************)

Begin(step) ==
  /\ pc = "idle"
  /\ pc' = step
  /\ loaded' = Len(manifest)
  /\ pos' = 1
  /\ draft' = db
  /\ UNCHANGED <<city, manifest, db, covered>>

Applicable(k) == manifest[k].target[1] = "event" /\ Good(k) /\ k \notin draft.applied

(* Fault: the oldest observation is not kept. *)
FirstObservedLast(old, as) == Mark(old, as, pos)

(* upsert_attachment keeps the earlier of the two observations. *)
FirstObserved(old, as) ==
  Mark(old, {a \in as : old[a] = 0 \/ pos < old[a]}, pos)

(* upsert_appearance_attachment: a row stays, whatever a later agenda lists.*)
Linked(old, items, v) == old \cup {l \in items \X Attachments : l[2] \in Files[v][l[1]]}

(* add_parse_failure: the same failure again adds no row, none is removed.  *)
AddFailures(old, ks) == old \cup ks

(* Fault: an item placed once is not placed again. *)
PlacedOnce(d, g, all, v) ==
  {i \in all : g # 0 /\ d.placement[i] = "none" /\ (Readable(g) => Title[v][i] # NoTitle)}

(* The items placed: those with a title, or all of them if the latest      *)
(* agenda cannot be read.                                                  *)
Placed(d, g, all, v) == {i \in all : g # 0 /\ (Readable(g) => Title[v][i] # NoTitle)}

(* Fault: an item that raises does not keep its capture from being applied.*)
CompleteAnyway(v, e) == TRUE

Complete(v, e) == Raised[v] \cap ItemsOf(e) = {}

(* The rows written for the event's items: appearances, attachments,       *)
(* placements by the latest agenda, and the failures.                      *)
ApplyItems(d, e, v) ==
  LET all == Stored[v] \cap ItemsOf(e)
      files == UNION {Files[v][i] : i \in all}
      g == Agenda(e)
      placed == Placed(d, g, all, v)
  IN  [d EXCEPT
        !.title = Merge(@, all, Title[v], NoTitle),
        !.titleFrom = Cite(@, all, Title[v], NoTitle, pos),
        !.value = Merge(@, all, Value[v], NoValue),
        !.valueFrom = Cite(@, all, Value[v], NoValue, pos),
        !.seen = Mark(@, all, pos),
        !.placement = [i \in Items |-> IF i \in placed THEN PlacementOf(g, Title[v][i]) ELSE @[i]],
        !.placeFrom = Mark(@, placed, g),
        !.agendas = IF v \in WithFile THEN @ \cup {e} ELSE @,
        !.first = FirstObserved(@, files),
        !.hash = Merge(@, files, [a \in Attachments |-> Content(a)], 0),
        !.links = Linked(@, all, v),
        !.applied = IF Complete(v, e) THEN @ \cup {pos} ELSE @,
        !.failed = AddFailures(@, (IF Complete(v, e) THEN {} ELSE {pos})
                                    \cup (IF g # 0 /\ ~Readable(g) THEN {g} ELSE {}))]

(* The event's row is written before its items are looked at.              *)
ApplyRow(d, e, v) ==
  [d EXCEPT !.agendas = IF v \in RowOnly \cap WithFile THEN @ \cup {e} ELSE @,
            !.failed = AddFailures(@, {pos})]

ApplyCapture ==
  /\ pc = "applying"
  /\ pos <= loaded
  /\ draft' = IF ~Applicable(pos) THEN draft
              ELSE IF manifest[pos].body \in Unparsable
              THEN ApplyRow(draft, manifest[pos].target[2], manifest[pos].body)
              ELSE ApplyItems(draft, manifest[pos].target[2], manifest[pos].body)
  /\ pos' = pos + 1
  /\ UNCHANGED <<city, manifest, db, pc, loaded, covered>>

CommitApply ==
  /\ pc = "applying"
  /\ pos > loaded
  /\ db' = draft
  /\ covered' = loaded
  /\ pc' = "idle"
  /\ UNCHANGED <<city, manifest, draft, loaded, pos>>

(***************************************************************************)
(* apply_pdf_placements, in one transaction: every titled appearance of an *)
(* event that names an agenda file, by the latest agenda; or, in a city     *)
(* whose values are calibrated, every appearance with one of these values.  *)
(***************************************************************************)

(* event_agendas, those with a capture. *)
WithAgenda(d) == {e \in d.agendas : Agenda(e) # 0}

(* matter_appearance_titles *)
Titled(d, e) == {i \in ItemsOf(e) : d.title[i] # NoTitle}

CommitPlacing ==
  /\ pc = "placing" /\ city = "pdf"
  /\ LET placed == UNION {Titled(draft, e) : e \in WithAgenda(draft)}
     IN  db' = [draft EXCEPT
                 !.placement = [i \in Items |-> IF i \in placed
                                  THEN PlacementOf(Agenda(Home[i]), draft.title[i]) ELSE @[i]],
                 !.placeFrom = [i \in Items |-> IF i \in placed THEN Agenda(Home[i]) ELSE @[i]],
                 !.failed = AddFailures(@, {g \in {Agenda(e) : e \in WithAgenda(draft)} : ~Readable(g)})]
  /\ pc' = "idle"
  /\ UNCHANGED <<city, manifest, draft, loaded, pos, covered>>

(* consent_placement_inputs, those that have a meaning. *)
Valued(d) == {i \in Items : d.value[i] \in DOMAIN Mapping}

(* apply_api_placements: over the agenda's placement from the apply step; a *)
(* value without a meaning leaves what there was.                           *)
CommitMapping ==
  /\ pc = "placing" /\ city = "api"
  /\ LET placed == Valued(draft)
     IN  db' = [draft EXCEPT
                 !.placement = [i \in Items |-> IF i \in placed THEN Mapping[draft.value[i]] ELSE @[i]],
                 !.placeFrom = [i \in Items |-> IF i \in placed THEN draft.valueFrom[i] ELSE @[i]]]
  /\ pc' = "idle"
  /\ UNCHANGED <<city, manifest, draft, loaded, pos, covered>>

(***************************************************************************)
(* read_captured_attachments: each reading is committed on its own.        *)
(***************************************************************************)

(* Fault: an attachment is read once. *)
ReadOnce(a) == db.reading[a] # 0

(* attachment_reading_hash: the bytes that the reading is of. *)
ReadingHash(a) == IF db.reading[a] = 0 THEN {} ELSE {manifest[db.reading[a]].body}

Read(a) == manifest[pos].body \in ReadingHash(a)

(* upsert_attachment_reading: one row for an attachment, no column null.    *)
PutReading(a) == db' = [db EXCEPT !.reading[a] = pos]

(* body_is_pdf: a page of the source's, answered with 200, is passed over. *)
Pdf(k) == manifest[k].target[1] = "attachment" /\ Good(k) /\ manifest[k].body \notin NotPdf

ReadCapture ==
  /\ pc = "reading"
  /\ pos <= loaded
  /\ LET t == manifest[pos].target
     IN  IF Pdf(pos) /\ ~Read(t[2])
         THEN PutReading(t[2])
         ELSE UNCHANGED db
  /\ pos' = pos + 1
  /\ UNCHANGED <<city, manifest, draft, pc, loaded, covered>>

FinishReading ==
  /\ pc = "reading"
  /\ pos > loaded
  /\ pc' = "idle"
  /\ UNCHANGED <<city, manifest, db, draft, loaded, pos, covered>>

(***************************************************************************)

(* The collector appends a capture it does not have. *)
Collect(c) ==
  /\ Len(manifest) < MaxCaptures
  /\ c \notin ToSet(manifest)
  /\ manifest' = Append(manifest, c)
  /\ UNCHANGED <<city, db, draft, pc, loaded, pos, covered>>

(* A step is killed, or SQLite raises: its open transaction is lost. *)
Die ==
  /\ pc # "idle"
  /\ pc' = "idle"
  /\ UNCHANGED <<city, manifest, db, draft, loaded, pos, covered>>

Init ==
  /\ city \in Calibrations
  /\ manifest = <<>>
  /\ db = Empty
  /\ draft = Empty
  /\ pc = "idle"
  /\ loaded = 0
  /\ pos = 1
  /\ covered = 0

Next ==
  \/ \E c \in Captures : Collect(c)
  \/ Begin("applying")
  \/ ApplyCapture
  \/ CommitApply
  \/ Begin("placing")
  \/ CommitPlacing
  \/ CommitMapping
  \/ Begin("reading")
  \/ ReadCapture
  \/ FinishReading
  \/ Die

Spec == Init /\ [][Next]_vars

(***************************************************************************)
(* Properties.                                                             *)
(***************************************************************************)

(* The types of the tables, committed and in the open transaction. *)
TypeOK ==
  /\ city \in Calibrations
  /\ manifest \in Seq(Captures)
  /\ db \in Tables
  /\ draft \in Tables
  /\ pc \in {"idle", "applying", "placing", "reading"}
  /\ loaded \in 0..Len(manifest)
  /\ pos \in 1..(loaded + 1)
  /\ covered \in 0..Len(manifest)

(* What a capture states of an item or an attachment. *)
States(k, i) ==
  /\ manifest[k].target = <<"event", Home[i]>> /\ Good(k)
  /\ manifest[k].body \notin Unparsable
  /\ i \in Stored[manifest[k].body]
Names(k, a) == \E i \in Items : States(k, i) /\ a \in Files[manifest[k].body][i]

(* Each stored title and placement is what the capture cited for it says,  *)
(* be it an agenda, by the title stored beside it, or an event capture, by  *)
(* its calibrated value, though titles, values and agendas change, and are  *)
(* applied, at different times.                                             *)
PlacementHasSource(i) ==
  LET k == db.placeFrom[i]
      ByAgenda ==
        /\ manifest[k].target = <<"agenda", Home[i]>>
        /\ IF Readable(k)
           THEN db.title[i] # NoTitle /\ db.placement[i] = PlacementOf(k, db.title[i])
           ELSE db.placement[i] = "cannot_determine"
      ByValue ==
        /\ city = "api" /\ States(k, i)
        /\ Value[manifest[k].body][i] \in DOMAIN Mapping
        /\ db.placement[i] = Mapping[Value[manifest[k].body][i]]
  IN  k \in 1..Len(manifest) /\ (ByAgenda \/ ByValue)

ValuesHaveSources ==
  \A i \in Items :
    /\ db.title[i] # NoTitle =>
         /\ db.titleFrom[i] \in 1..Len(manifest)
         /\ States(db.titleFrom[i], i)
         /\ Title[manifest[db.titleFrom[i]].body][i] = db.title[i]
    /\ db.placement[i] # "none" => PlacementHasSource(i)

(* first_observed_by_us is the time of the earliest capture that named the *)
(* attachment, however often captures with failures are applied again.     *)
FirstObservedIsEarliest ==
  \A a \in Attachments :
    /\ db.first[a] # 0 => db.first[a] \in 1..covered /\ Names(db.first[a], a)
    /\ \A k \in 1..covered : Names(k, a) => db.first[a] # 0 /\ db.first[a] <= k

(* An item that cannot be read loses no data silently: every event capture *)
(* that a committed apply step loaded is applied in full, or stands among  *)
(* the parse failures and will be tried again.                             *)
NothingDropped ==
  \A k \in 1..covered :
    manifest[k].target[1] = "event" /\ Good(k) =>
      LET v == manifest[k].body
          items == (Stored[v] \cup Raised[v]) \cap ItemsOf(manifest[k].target[2])
      IN  \/ /\ k \in db.applied
             /\ v \notin Unparsable
             /\ \A i \in items : i \in Stored[v] \ Raised[v] /\ db.seen[i] # 0
             /\ \A i \in items, a \in Attachments : a \in Files[v][i] => <<i, a>> \in db.links
          \/ k \in db.failed \ db.applied

Titling(i) == {k \in 1..covered : States(k, i) /\ Title[manifest[k].body][i] # NoTitle}

(* A record is as new as the captures applied: a title that is not the     *)
(* newest observed comes from a capture with a failure, one that is        *)
(* applied again in every run.                                             *)
OnlyFailuresAreReplayed ==
  \A i \in Items : Titling(i) # {} =>
    db.titleFrom[i] = Max(Titling(i)) \/ db.titleFrom[i] \in db.failed \ db.applied

(* When a reading run ends, the reading of each attachment is of the last  *)
(* PDF it loaded for it, whatever a killed run left: never of bytes that    *)
(* are no PDF, and of an older PDF only while no newer one was captured.    *)
ReadingsAreNewest ==
  pc = "reading" /\ pos > loaded =>
    \A a \in Attachments :
      LET pdfs == {k \in 1..loaded : Pdf(k) /\ manifest[k].target[2] = a}
      IN  ReadingHash(a) = IF pdfs = {} THEN {} ELSE {manifest[Max(pdfs)].body}
=============================================================================
