# Page 47 in TLA+

Page 47 (`src/src/page47`) watches the public records of a city council: it
captures the pages of a legislative API as evidence, applies them to a record
database, lets agents review how a matter was presented from meeting to meeting,
and emails the residents who watch a body and an area. These modules model the
parts of that program where processes, crashes and shared files meet, check them
with TLC, and prove the main safety results with TLAPS.

Paths below are relative to `src/`.

## 1. The system

| Part | State it keeps | Operations | Who else touches it |
|---|---|---|---|
| Evidence store `src/page47/snapshotter/store.py` | `bodies/<hash>.body`, `manifest.jsonl`, `manifest-chain.jsonl`, `runs.jsonl`, `changes.jsonl`; each process's copy of the manifest | open (load, build or verify the chain), `capture`, `latest`, `body`, `append_run`, `append_change` | collector and backfill write, web service and every later pipeline step open it; nothing locks it |
| HTTP client `snapshotter/http.py`, `client.py` | none | conditional GET with the etag of the latest capture | collector, backfill |
| Collector `snapshotter/runner.py` | the run's summary and issues (locals of `run_once`) | `run_once`: event pages, details, agendas, attachments, change log, run log | store |
| Scheduled pipeline `deploy/run_snapshotter.sh` | `flock` file | every 15 minutes: snapshot both cities, apply events, read attachments, apply placements, back up, notify | everything below |
| Backup `snapshotter/backup.py` | objects in a bucket | `backup_evidence`: verify, then upload what changed | store |
| Record store `records/store.py` | SQLite tables of events, matters, appearances, attachments, readings, findings, watches, notifications, runs | upserts that merge rows and provenance, queries | every part below |
| Captured events `records/captured_events.py` | applied snapshot keys | `apply_captured_events` | store, record store |
| Backfill `records/runner.py`, `scripts/backfill.py`, `scripts/capture_record_attachments.py` | issues of a run | pages of matters and events, details of watched events, missing documents; without the lock | store, record store |
| Attachment readings `scripts/read_captured_attachments.py`, `scripts/extract_documents.py`, `substance/` | reading and extraction rows | the text of each captured attachment; a model's reading of the candidates among them | store, record store, model service |
| Placements `records/placement_runner.py`, `records/pdf_consent.py`, `findings/placement.py` | placement columns | fill in consent or discussion placement | store, record store |
| Analysis `analysis/drift.py`, `case.py`, `norms.py`, `signature.py` | none | compare appearances of a matter | record store |
| Policy and investigation `analysis/policy.py`, `analysis/investigation.py`, `agents/` | run and finding rows | agents' reports, vetoes, the saved review | record store, model service |
| Managed runtime `runtime/` | none | the request with a case and its documents; the agents, elsewhere | web service |
| Web service `web/service.py`, `web/app.py`, `web/limits.py` | in-flight investigations, request counts | watches, ledger, investigate, each behind a limiter | record store, store |
| Address matching `address/matcher.py` | geocoder cache files | `census_lookup`, `match_case_to_area` | delivery, web service |
| Email delivery `notifications/delivery.py`, `scripts/notify_finding(s).py` | notification rows | `deliver_finding` for every publishable review and active watch | record store, email provider |
| Evaluation, preflight, configuration, front end, operations scripts | none that is shared | offline scoring, probes, pages, deployment | - |

The hard behaviour lies in files written in several steps without a lock, in
work that is committed after its effect, in state read early and used late, and
in the pipeline's rule that one failing step ends the run. `PROJECT.json` lists
each hazard at its line, with the properties about it.

What makes each part correct, in a sentence: the store is an append-only log of
bytes that exist; a run that calls itself complete is; the tables say what the
captures they cite say, and nothing read is lost; a backup can be restored; a
review rests on what its agents were given and on documents of one version; a
transition called observed was; an email is warranted, and sent once; a limiter
allows what it promises.

## 2. The modules

Every module models code under `src/page47` (and `scripts`, `deploy`); the `map`
of `PROJECT.json` gives the lines of each definition. A definition whose comment
begins with "Fault:" is a plausible mistake that a property has to notice; no
specification uses it.

### EvidenceLog, EvidenceStore: `snapshotter/store.py`

| Model | Code |
|---|---|
| `bodyFile`, `manifest`, `chain`, `chainExists` | `bodies/<hash>.body`, `manifest.jsonl`, `manifest-chain.jsonl` and whether it exists |
| `records[p]`, `pc[p]`, `capturing[w]` | `self.records` of process `p`, its place in the constructor or in `capture`, the response in hand |
| `LoadRecords`, `EnsureChain`, `TruncateChain`, `WriteChain`, `VerifyManifest`, `VerifyChain` | `__init__`, `_ensure_integrity_chain`, `_write_integrity_entries`, `verify_integrity` |
| `BeginCapture`, `CreateBody`, `WriteBody`, `AppendManifest`, `AppendChain` | `capture`, `_append_integrity_entry` |
| `Exit` | the process ends or is killed, anywhere |
| `builders` | history: the processes that wrote the chain file anew |

Every file operation is a step. `Path.write_bytes` and `write_text` are two steps
(the file is created or truncated, then filled); the append of one line is one
`write` and one step. SHA-256 is injective: a body is its own hash, and a chain
hash is the sequence of the records hashed into it. A record is reduced to its
capture key and the process whose time and run id it carries, which are not part
of the key. `WriteChain` writes from the start of the file, over what others have
appended since it was truncated.

`EvidenceLog` is what the store promises, without files or processes: an
append-only log without duplicates, whose entries cite bytes already held, and a
seal at most one entry behind. `EvidenceStore!ImplementsLog` maps the manifest to
the log, the length of the chain to the seal and the whole body files to the bytes
held. Both are promised as long as no reader has built the chain
(`BuiltByWriters`): `SnapshotStore()` of a web service that opens the store between
the collector's first manifest line and its first entry does.

### Collector: `snapshotter/runner.py`, `http.py`, `client.py`

| Model | Code |
|---|---|
| `served` | what the source has served at each URL, oldest first |
| `manifest`, `changes`, `again`, `lastRun` | the captures, the lines of `changes.jsonl` without their time, those of them that stand there more than once, the status in `runs.jsonl` |
| `sealed`, `torn` | whether chain and manifest go together; the bodies that are not whole |
| `todo`, `found`, `detail`, `before`, `after`, `issues` | the loops of `run_once`: URLs still to be requested, `event_map`, the event in hand, the captures to be compared, the local `issues` |
| `Start`, `ReadPage`, `CannotRead`, `ReadEvent`, `ReadDocument`, `SkipDocument`, `FetchFails`, `Compare`, `Finish` | `run_once` with `parse_response`, `capture_unparsed` and `binary_capture`, then `compare_event`, `compare_document` and `append_change`, at the end `append_run` |
| `Publish`, `Die` | the source changes between two requests; the run is killed there or raises |
| `DieCapturing`, `Refuse` | the run is killed inside `capture`; `capture` raises for a body that is not whole |

A version of a target stands for its bytes and for what the code reads in them:
`Listed` includes the date, body and cancellation filters, `Attached` the
attachments of an event, `Unlinked` the documents without a usable URL. A capture
keeps what makes its `capture_key`; capture times and the URL requested are left out.
Its file operations are in EvidenceStore; here is what a kill among them leaves to
later runs: a body that is not whole, which a capture of the same bytes refuses, or a
manifest without the last entry of its chain, which `Start` refuses unless there is no
chain yet. A 304 is given
when the validators of the latest capture name what is served. The lines of
`changes.jsonl` for a changed URL, the heartbeat file and the counters of the
summary are left out.

### Records: `records/store.py`, `captured_events.py`, `placement_runner.py`, `scripts/read_captured_attachments.py`

| Model | Code |
|---|---|
| `db`, `draft` | the committed tables, and as the open transaction sees them |
| `manifest`, `loaded` | the captures; how many the step read when it opened the store |
| `ApplyCapture`, `ApplyRow`, `ApplyItems`, `CommitApply` | the loop of `apply_captured_events`; the row of an event, which is written before its items are read; its other upserts; its commit |
| `CommitPlacing` | `apply_pdf_placements`, one transaction |
| `ReadCapture`, `FinishReading` | `read_captured_attachments`, one commit for each reading; `Pdf` is its `body_is_pdf`, without which a capture is passed over |
| `Merge`, `Cite` | `_merge_row`: a null never overwrites a value, nor its provenance |
| `Collect`, `Die` | a capture arrives, also while a step runs (the capture scripts take no lock); the step is killed and its open transaction lost |

The position of a capture in the manifest stands for its capture time and, in the
provenance columns, for its snapshot key. One title stands for the columns of an
appearance that `_merge_row` merges. Every item has a matter and one event. An
agenda is found by its target; the lookup by URL is left out. `classify_item` is
a function of agenda and title. `city` is the calibration of the city: "pdf", whose
placements are read in agendas, or "api", whose placements `CommitMapping` takes from
the consent values on record by a mapping. Only one step runs at a time, because of
the pipeline's lock.

### Backfill: `records/runner.py`, `scripts/backfill.py`

| Model | Code |
|---|---|
| `listed`, `served`, `matters` | the events and the matters that the city lists; the version of each event |
| `draft`, `db` | the tables in the backfill's one open transaction, and as committed |
| `pc`, `page`, `seen`, `candidates`, `issues` | the loops of `run_backfill`, its events and its issues |
| `known` | the captures in the backfill's own copy of the manifest |
| `sealed`, `torn` | whether chain and manifest go together; the bodies that are not whole |
| `ReadMatterPage`, `ReadEventPage`, `ReadDetail`, `MatterPageFails`, `EventPageFails`, `DetailFails` | one request each, with what is stored of it |
| `CommitData`, `RecordRun` | `commit_and_counts`; the row of the run, in a transaction of its own |
| `Load`, `CommitApply`, `ApplyTimesOut` | the apply step of the scheduled run, which opens the store and waits for SQLite's lock |
| `Change`, `Collect` | the city, which adds, replaces and withdraws; the collector |
| `Die`, `DieCapturing`, `KillCollector` | a backfill killed between two steps; either program killed inside `capture` |
| `CaptureBeside`, `Refused` | both inside `capture` at a time, sealing their lines in turn; `capture` raises for a body that is not whole |
| `withdrawn` | history: the matters and events withdrawn before the run had read the list they were on |

A page is the set of ids at its places in the list: matters by ascending id, events by
descending id (`MatterPlace`, `Place`), so that a withdrawn one moves the later ones a place up. A row
is reduced to the versions that its date, its items and its documents are from; what the
apply step leaves in it (`CapturesSeen`) is, of each value, that of the last capture which
states one. A version may be without a date (`Undated`), with items that cannot be read
(`Itemless`) or with attachments that cannot (`Paperless`).

### Pipeline: `deploy/run_snapshotter.sh`, `snapshotter/backup.py`

| Model | Code |
|---|---|
| `shell`, `child`, `at` | the script of each scheduled run, the program it started last, and its place in `Plan`, the list of commands |
| `manifest`, `chain`, `pending`, `unreadable` | the stores of the cities, by the numbers of their lines; a line without an entry; captures with an item that cannot be read |
| `done`, `collected` | up to where each program has come in each store; what the run's collectors left behind |
| `remote`, `uploading` | the bucket; the place in `backup_evidence` |
| `Start`, `Launch`, `LaunchRefused`, `ReportSuccess` | `flock`, the next command, a store that does not open, the last line |
| `Collect`, `CollectorEnds`, `ApplyEnds`, `ApplyCountsFailures`, `ReadOrPlaceEnds`, `NotifyEnds`, `Backup` | the programs, as far as the script can tell |
| `Visit`, `VisitorWrites`, `VisitorSeals`, `Leave` | a backfill or a capture script, which takes no lock |
| `KillShell`, `ProgramFails`, `VisitorDies` | kills; a child outlives its shell and keeps the descriptor of the lock |

### Documents: `capture_record_attachments.py`, `extract_documents.py`, `read_captured_attachments.py`, `runtime/`, `analysis/case.py`

| Model | Code |
|---|---|
| `served`, `revision` | the bytes of each attachment at the city; the event's JSON, which names them |
| `manifest`, `recorded`, `reading`, `extraction` | captures; `attachments.content_hash`; the rows of `attachment_readings` and `document_extractions` |
| `cron`, `view`, `pos` | the scheduled run: collect, apply, read |
| `script`, `known`, `got` | `capture_record_attachments.py`, which writes all hashes at its end |
| `reader`, `shelf`, `drawn` | `extract_documents.py`, with the captures of its start and the reading in hand |
| `request`, `page`, `anchors`, `sent` | a review: the rows as `load_matter_case` reads them one by one, the bytes of `request_from_case` |
| `Receive`, `AnswerManaged`, `AnswerLocally`, `cited`, `Review` | `context_from_request`; what the agents cite, managed or in the service; `_validate_agent_evidence` against `_evidence_catalog` |
| `readTo`, `clean`, `silent`, `overtaken` | history: which captures the readings had covered, for the last run and for the rows in hand; bytes replaced without an announcement; hashes the script put back |

### Transitions: `analysis/drift.py`, `_transition_origin`

`manifest` holds the captures of two appearances of a matter, each with the
collector's run that made it or none; `cited` the capture that the row of each
appearance cites. The collector (`StartRun`, `NotModified`, `Receive`,
`RequestFails`, `EndRun`), a backfill (`StartBackfill`, `ReadDetail`,
`CommitBackfill`) and the apply step (`Apply`) change them as `capture` and
`_merge_row` do; `Labelled` is `_transition_origin`'s "observed by Page 47".
A place in the manifest stands for a time. `sent` is history: when the collector first
saw a version, in a capture of its own or in a 304 to anybody's. Both programs may be
killed between two requests (`KillRun`, `KillBackfill`) or inside `capture`
(`KillRunCapturing`, `KillBackfillCapturing`), and may seal their lines in turn
(`Beside`); what that leaves (`sealed`, `torn`) is refused by whoever opens the store
(`StartRun`, `StartBackfill`, `Apply`) or captures the same bytes (`RunRefused`,
`BackfillRefused`).

### WatchRequests: `web/app.py`, `web/limits.py`, `address/matcher.py`

| Model | Code |
|---|---|
| `requests`, `clock`, `now` | `_requests` of the limiter; `monotonic()` as each thread read it; the time |
| `body`, `meta` | the two cache files of an address: absent, empty or filled |
| `Arrive`, `Accept`, `Refuse` | `enforce_limit`, `retry_after` under its lock |
| `LookAtBody` to `WriteMeta` | `_cached_json`, file by file, by threads that do not wait for one another |
| `RejectInput`, `Lookup`, `End` | `create_watch` |
| `Restart` | the service is restarted; its counts are gone, its files are not |

### Delivery: `notifications/delivery.py`, `scripts/notify_findings.py`, `scripts/notify_finding.py`

| Model | Code |
|---|---|
| `saved`, `publishable` | the findings table by `updated_at`; the rows with `publish` set and an alertable state |
| `created`, `active`, `ledger` | the watches table by `created_at`, the watches still active, the notifications table |
| `matching` | the pairs for which a selected body and the area of the address are confirmed by the records as they are now |
| `inbox`, `uncertain` | the emails the provider accepted; those whose acceptance never reached the table |
| `pc`, `todo`, `pending` | a notifier's place, the reviews and watches it read and has not finished |
| `StartScheduled`, `StartManual`, `OpenFinding`, `Consider`, `Judge`, `ReadReview`, `Accept`, `LoseAnswer`, `Refuse`, `RenderFails`, `SaveSent`, `SaveSkipped`, `SaveFailed` | the two scripts and `deliver_finding`, commit by commit |
| `CreateWatch`, `StopWatch`, `SaveFinding` | `create_watch`, `deactivate_watch`, `save_finding` |
| `BeginMatch`, `EndMatch` | records that arrive: a merged row keeps its latest values only, so that a body or a text that matched may be gone |
| `contested`, `unmatched`, `withdrawn` | history: pairs that two notifiers had in hand at once; notifiers whose pair ceased to match, or whose review was withdrawn, after they had looked |

`Judge` loads the case and matches it, `ReadReview` is `_finding_for_delivery`, which
reads the review again before the email; between the two, and between each of them and
the email, others act. `RowLimit` is the 200 of `finding_rows(city, 200)`.

### Drift, Review: `analysis/drift.py`, `signature.py`, `policy.py`, `investigation.py`, `web/service.py`

`Drift` holds the pure part: `TitleDirection` and `PlacementDirection` for two
appearances, `StateOf` for what observations add up to, `Compared` for a pair of
adjacent appearances, `Sources` for what a report may cite (items, agendas, papers, the
record that lists a paper, and the matter's own), `Explained` for the
pairs a change of substance explains. A facet stands for a subject, action, object
or quantity; a title names some facets and a paper has some. Ratios are compared by
their cross products. The origin of a transition is in `Transitions`, the wording is
left out, and a paper without facets counts as one without words.

| Model | Code |
|---|---|
| `history` | the successive states of the matter's records; its last element is what `load_matter_case` returns now |
| `inFlight`, `pc` | `_investigations_in_flight` for the matter, each request's place in `WebService.investigate` |
| `asked`, `loaded` | the state of the records given to the agents, and the one their answer is reviewed against |
| `finding`, `heard` | the `findings` row; history: what its skeptic accepted and of which case |
| `Request`, `LoadCase`, `Answer`, `Save`, `Fail` | `investigate`, `load_matter_case`, the answer (with `Managed`, `review_graph_payload` and its second load), `_complete_review` with `_save_outcome`, `_save_failed_run` |
| `Heard`, `Sound`, `Vetoes`, `Publishes`, `Decision` | `_agent_reports`, `_validate_agent_reports`, `deterministic_vetoes`, `apply_evidence_policy`, `_complete_review` |
| `RecordsChange`, `Restart` | the pipeline commits new records; the service is restarted |

The agents are an input: readers report any notes out of `Notes` about the case they
were given, and the skeptic accepts any of the ids. The rejections and their reasons,
the brief, the norms and the run history are left out.

### How they fit

`EvidenceStore`'s manifest is the `manifest` of `Collector` and of `Records`, one
step for each capture; `EvidenceLog` is the interface between them: what a later
step loads is a prefix of an append-only log. `Records` and `Delivery` share the
database file but no table that both write; what `Records` commits reaches
`Delivery` as `BeginMatch`, `EndMatch` and `SaveFinding`. `Review` stands between them: what
`Records` commits is its `RecordsChange`, and its `Save` is the `SaveFinding` of
`Delivery`.

`Pipeline` gives the others what they assume: `OneProgramAtATime` is the single writer
of `EvidenceStore` (`StoresAreLogs` in section 4 says with what else), the single step
of `Records` and the single scheduled notifier of `Delivery`. `Backfill`, `Documents`
and `Transitions` each compose the collector, the apply step and the programs without
the lock for one question, with only as much of each as that question needs; what they
share is said the same way in all of them (`Captured` of `Documents` and `Transitions`
is `Store` of `Collector`, without the fields).

## 3. The runs

| Run | Question | Bounds |
|---|---|---|
| `store_runs` | Can kills anywhere, or a reader beside them, from an empty store on, break the chain, lose a cited body, or wrongly refuse the collector? Do the files implement the log? | one writer and one reader, three keys, two of them with the same bytes |
| `collector_runs` | Has a "complete" run captured what it received? Do logged changes describe what happened, and which are logged again? Does each document have its event? Is what stays published captured? | two pages, two events sharing an attachment, two replacements, one failure or kill, inside `capture` too |
| `records_runs` | Do values have the sources they cite? Is nothing dropped, and nothing old put back? | every sequence of four captures out of twelve, the steps in any order, kills, both calibrations |
| `backfill` | Has a run without issues stored what the city listed? Does it put back anything older? Is what was captured stored in the end? | two events and three matters on pages of one, two pages at most, one detail a run, two changes of the source, one fault (a kill inside `capture` or two captures at a time among them), one backfill beside the collector and the apply step |
| `pipeline_runs` | Does one program work at a time? Can a backup be restored? Is the success line true? Is everything processed in the end? | two runs, two cities, two captures, one fault |
| `documents` | Are what a request holds and what a review accepts of one version? What was an extraction drawn from? Does the record catch up? | one attachment with two versions, the later one shorter, two announcements, two programs by hand, one fault |
| `transitions` | Is a transition labelled as observed new to the collector, and one it can witness labelled? | two versions, two changes, one fault (as in `backfill`), one backfill, the first capture before the baseline |
| `transitions_documented` (violated) | Does an observed transition have two captures of the collector's, both after the baseline? | as `transitions` |
| `review_local` | While records change, does a finding rest on what its skeptic was shown, never go back, and keep each concern about its last titles that nothing explains? | two requests, every case of up to two of five kinds of appearance, one change of the records, three notes |
| `review_managed` (violated) | Does the first of these hold with the managed runtime? | one request |
| `delivery_runs` | Who may get two emails? Is "sent" true, and final? Is each email warranted? Is every review delivered that nothing blocks? | a scheduled notifier and one started by hand, one watch, two reviews, one of them unsendable, room for one row, two saves, one fault |
| `watch_requests` | Does the limiter allow what it says and promise what it keeps? What is a cached answer worth? | two threads, two clients with room for one, one address, a window of two ticks, one restart |

Why the bounds are enough. The store's keys are handled one at a time; three keys
over two bodies give a shared body, a body of its own, a repeated capture, and a
record in front of and behind any other; a reader may open the store at every place in
the writer's first captures, where alone it can build the chain. Two replacements let a target go A, B, A,
the shortest history in which an old record is found again; one failure before
or after each is enough to hide or invent a change, since only the latest capture
is compared. Two pages and a full one exercise the paging, two events the sharing
of an attachment and the order of targets; in `backfill` the second event is one
page, and one detail, beyond the first, and a withdrawal moves it back; so it is with
the second matter. Four captures let
a bad capture, a newer event and two agendas, or two versions of an attachment and a
failure, follow in every order. Two scheduled runs are enough for one to find the
child of the other, and two cities for one to fail in front of the other. One
attachment and two versions give every pairing of a hash, a reading, bytes and an
extraction; no program compares two attachments. Two reviews, of which the unsendable one
may be the newer or the older, let a run continue after, or end at, either, and with
room for one row either drops out of sight; two saves publish and withdraw one, or publish both; one watch is enough, since
what two notifiers contest is a pair. One change of the records is enough for a review to
meet a case other than the one its agents saw, and three appearances make two pairs
that share a source; the five kinds of appearance give titles that name nothing, all
or half of a paper, every direction and an explained pair beside one that is not.
Room for one client makes every second one an eviction; two threads race at each
lock and file. Emails are counted to two, where the question is whether there was a
second one. `MaxPublished`, `MaxFaults`, `MaxSaves`,
`MaxCaptures`, `MaxAppearances`, `MaxChanges`, `MaxRevisions`, `MaxUses`, `MaxRuns`,
`MaxFetches`, `MaxRestarts`, `MaxTime` and `MaxBackfills` bound the
environment, never the program.

Deadlock is checked except where a kill inside `capture` is among the faults
(`collector_runs`, `backfill`, `transitions`): a store it damaged is refused by every
later run, and with the environment's bounds used up nothing is left to happen.
Elsewhere cron always starts the next run, and the program goes on.

### What the violated runs show

`transitions_documented` checks README.md 98-102: both sides of an observed transition
carry collector-run provenance after the baseline. `drift.py` 255 labels one as soon as the
earlier side was captured before the baseline, by whatever program, and
`docs/audits/forward-observation.md` 8 denies it just there. A test has the code's rule
(`tests/test_analysis.py` 236).

`review_managed` checks a sentence of the repository, quoted under `findings`: the
case is loaded again after the managed agents answered, and an id such as
`record-title_changed` names a comparison of whichever case is loaded. A record that
arrived during the call puts a comparison into the finding that the skeptic never
saw. `review_local` and the theorem `FindingsWereShown` say that this cannot happen
when the agents run in the service.

### Where a property is weaker than one might expect

The properties state what the code does promise. These are the places where a
reader may expect more, and the conditions that the properties carry for them.

- Two writers. `capture` tests for a body file before `write_bytes` truncates it.
  `scripts/backfill.py` and `capture_record_attachments.py` take no lock, so that
  bytes already recorded can be emptied for a while, or damaged if that process is
  then killed; `CitedBodiesWhole` is checked with one writer. Two writers can also seal
  their lines in turn, so that no program opens the store again (`Wrecked` of `Pipeline`,
  `CaptureBeside` of `Backfill`, `Beside` of `Transitions`).
- Readers. One that opens the store between its first line and its first entry builds
  the chain, and the writer, whose entry is on its way, may add a second first one.
  What the reader got is sound; what is said of the chain holds as long as that has not
  happened (`BuiltByWriters`).
- Kills inside `capture`. A body that is not whole is refused for good by whoever
  captures the same bytes, a manifest without its last entry by whoever opens the store.
  Nothing repairs either, and the liveness properties end there (`Damaged`).
- A, B, A. A document that returns to an earlier version is an "existing" capture, and
  `latest()` stays at the replaced one, where README.md 178 has each change visible as a
  new captured version; and the change back is logged by every later run.
  `EventuallyCaptured` says that it was captured once, `ContentChangesAreReal` that what is
  logged happened, `RepeatsComeBack` that no other change is logged again.
- Replays. A capture with one unreadable item is applied again by each run, over newer
  captures: `OnlyFailuresAreReplayed` names it as the only reason for an older title.
- Backfill. It stores what it reads now; a capture of the collector's that is not
  applied yet is applied over it later (`Overtaken` in `EventuallyStored`). A matter
  or event that is withdrawn between two pages moves the next one out of sight: a run
  that says "complete" may miss one for each (`withdrawn`).
- Documents. The recorded hash is brought up to date only when the event's JSON
  changes (`silent`), and the capture script writes hashes as old as its start
  (`overtaken`); until then `request_from_case` refuses the matter. A review checks the
  pages cited of the latest bytes against the page count of the reading; a reading
  step that has not got through the new captures (`clean`, `settled`) lets a page pass
  that does not exist. A failed extraction is not tried again without `--force`
  (`scripts/extract_documents.py` 126). In the run both versions are PDFs; with
  `NotPdf = {2}` and `Candidates = {1}` its four properties hold as well.
- Observed transitions. With an earlier side from before the baseline the code accepts what
  the documents exclude (`transitions_documented`); `ObservedIsNew` speaks of the labels
  with both sides after it, where the collector is to have seen nothing of the later
  version before. It could have been told of it by a 304 to a backfill's capture, which
  the code cannot know: that is its last disjunct. `WitnessedIsLabelled` holds by the
  documented rule, and for as long as no other capture comes between.
- Vetoes. A veto looks for the sources of an explained pair, and neighbouring pairs share
  one: a concern about the last titles goes with the pair before them, which the docstring
  of `deterministic_vetoes` (`policy.py` 131) rules out (`TitleConcernsStand`).
- Emails. A match that ends, or a review that is withdrawn, after the last look of the
  notifier is not noticed (`unmatched`, `withdrawn`). Two notifiers that have one pair in
  hand at once may send twice, and one may overwrite the other's record (`contested`).
  A review whose email cannot be rendered ends each run before the older ones, and so does
  one that is no longer among the 200 newest (`Blocked`), where
  `scripts/notify_findings.py` 2 promises all of them.
- The limiter. Evicting a client forgets what it used up, and a clock read before the
  lock puts times out of order (`excused` of `AtMostMaximum`).
- The cache. A restart between its two files leaves an address that every later lookup
  fails on (`BrokenNeedsRestart`); two lookups at once may pair one's answer with the
  other's time (`crowded` of `HitsAreWhole`).
- The pipeline. One city whose store cannot be opened, or with a capture that cannot be
  read, stops the others (`Hopeless` of `EventuallyProcessed`).
- Watches. A notifier reads the watches once: one stopped meanwhile may still get an
  email, which `web/service.py` 310 rules out. The last check shown for a watch looks
  for a status, "completed", that no run has (`web/service.py` 287).

### Fairness

`Delivery!FairSpec`: weak fairness of the scheduled notifier's own steps, since
cron starts the script every fifteen minutes and nothing it does waits for another
process. Residents, reviews and the manual notifier have none. `EveryReviewDelivered`
assumes finitely many faults (`MaxFaults`).

`Collector!FairSpec` and `Documents!FairSpec`: weak fairness of the steps of the
scheduled run, for the same reason. Failures and kills are finitely many, and the
source need not do anything. The scripts started by hand and the reviews have none.

In `Collector`, `Backfill` and `Transitions` a kill may leave a store that is refused; the
leads-to properties end with `Damaged` then.

`Pipeline!FairSpec`: weak fairness of the scheduled runs, and of a writer without the
lock that is between its line and its entry. `Backfill!FairSpec`: weak fairness of a
backfill that was started, and of the apply step; nobody is obliged to start one.

`Transitions!FairSpec`: weak fairness of the collector and of a started backfill, and
strong fairness of `Apply`. `Apply` is enabled only between two collector runs, and
each scheduled run applies after it collects: the script gives it its turn again and
again, but not at any one moment for good.

`EvidenceStore`, `Records`, `Review` and `WatchRequests` state no liveness: a store
that a crash damaged stays refused until someone repairs it, an unreadable capture
stays unapplied, and nothing obliges a resident to ask again.

## 4. The proofs

`EvidenceStoreProofs` proves, for any sets of readers, keys and bodies, any
`BodyOf` and any seed:

| Theorem | Says |
|---|---|
| `TypeCorrect` | the type invariant |
| `ChainIsSound` | `ChainFollowsManifest` |
| `EvidenceReadable` | `CitedBodiesWhole` |
| `CapturesDeduplicated` | `RecordedOnce` |
| `WriterStopsOnlyForDamage` | `StopsOnlyForDamage` |
| `ReadersSeeSealedEvidence` | `OpenedMeansSealed` |
| `StoreImplementsLog` | `Spec => Log!Spec` |
| `NothingIsRemoved` | `FilesOnlyGrow` |
| `BytesStayWhole` | `BytesImmutable` |

Assumptions: those of `EvidenceStore` on its constants, and one more. `OneWriter`
is the lock of `run_snapshotter.sh`, which `OneProgramAtATime` of `Pipeline` is about;
with two writers `BytesStayWhole` is false. Readers may open the store at any time, from
the empty directory on.

None of the safety properties is inductive. The inductive invariant is `TypeInv /\ StoreInv`,
where `StoreInv` is `EvidenceInv`, which no reader can disturb, and `SealInv`, which holds
as long as none has built the chain. They add what the code relies on without saying so:

- `MemoryFollowsManifest`: what a process loaded is a prefix of the manifest; for
  the writer it is all of it. Checking duplicates in memory is
  sound for this reason only.
- `CaptureInOrder`: at each place in `capture`, which of body and manifest line
  exist already, and that the key in hand is new.
- `RebuiltFromNothing`: a chain is rebuilt only when there is none, so that the
  truncation never removes an entry; and `ChainInStep`: how long the chain is at each
  place of the writer, and no shorter than what a process that opened the store has loaded.

Each step of the program preserves it (one lemma for each action); a crash does,
since it only forgets memory; each theorem is then a consequence. The refinement
maps `WriteBody` to `Hold`, `AppendManifest` to `Record`, `AppendChain` and a
first `WriteChain` to `Seal`, and everything else to a stutter, up to the step with which
a reader builds the chain.

`DeliveryProofs` proves, for any finite sets of watches and reviews, any number of
notifiers and any bounds:

| Theorem | Says |
|---|---|
| `TypeCorrect` | the type invariant |
| `SentWasAccepted` | `SentMeansAccepted` |
| `EmailsWarranted` | `EmailsAreWarranted` |
| `SecondEmailsExplained` | `DuplicateNeedsLostRecord` |
| `SentStaysSent` | `SentIsFinal` |

- The type invariant needs `InHand`: a notifier at a pair has that pair at the head
  of its two lists.
- `SentMeansAccepted` needs `AcceptedHeld`: whoever is about to record a delivery
  holds a pair whose email was accepted. No other notifier can undo that, since an
  inbox only grows.
- `EmailsAreWarranted` needs `HeldWatchesMade` and `SendingWarranted`: past each of its
  two readings, what a notifier read holds still, or has ended since; a review that was
  withdrawn, or a match that ended, before it looked does not get past.
- The other two need `ContestsKnown`: two notifiers with the same pair in hand are on
  record. Of every other pair `HandledUnsent` holds (in hand it is not recorded as sent, the
  check of `notification_sent` being still true), and `EmailsAccounted`: an accepted email
  is recorded, about to be recorded, or lost.

`ReviewProofs` proves, for any facets and titles, any records that are well-formed,
any notes of readers and any skeptic, any number of requests and any bounds:

| Theorem | Says |
|---|---|
| `TypeCorrect` | the type invariant |
| `DirectionsReverse` | `ReversalIsOpposite` |
| `FindingsWereShown` | `AcceptedWasShown`, without `Managed` |
| `TitleConcernsUpheld` | `TitleConcernsStand` |
| `VetoesWithhold` | `VetoesOnlyWithhold` |
| `FindingsMoveOn` | `FindingsNeverGoBack` |
| `OriginTypes` | `TypeOK` of `Transitions` |
| `ObservedByPage47` | `ObservedIsNew` of `Transitions` |

- `DirectionsReverse` rests on two lemmas about `Drift`, without a state: of two titles
  at most one covers less than the other, and so each direction is the opposite of
  its reverse.
- `HistoryKept` says that a recorded state of the matter stays as it was. With it, what
  holds of a finding when it is saved holds until the next one is.
- `FindingsWereShown` needs `SameCase`: a request is reviewed against the case its agents
  were given. Of the six results only this one needs `~Managed`, and `review_managed`
  shows that it does.
- `FindingsMoveOn` needs `LockInv`: one request at a time is not idle, and what it was
  given is no older than what the finding was reviewed against.
- `TitleConcernsUpheld` rests on `Drift`: an explained pair has a later title that covers
  more, so that a concern about it is not one of its own; and on which pairs share a source
  with the last one.
- `VetoesWithhold` needs that what was heard is finite, so that removing observations
  cannot raise their number.

The last two are about `Transitions`, of which the module has an instance, `Origin`, with
variables of its own, and suppose what `Transitions` assumes of its constants: any
baseline, any number of versions, failures, kills and backfills. `ObservedIsNew` rests on
two facts that `_transition_origin` does not look at. `Citing`: a row, committed or still
in the draft of a backfill, cites a good capture of its own event. `FirstSent`: what
the collector captured it was sent then for the first time, unless another program had
captured that version before, because an answer with the bytes of a capture it knows adds
no line, and because a 304 tells it of a captured version only. The id of the run that made
a capture then says when the collector first saw that version, and not only when it was
last told.

`CollectorProofs` proves, for any finite sets of events and attachments whose ids are
numbers, any versions and what they list, and any number of pages, replacements,
failures and kills:

| Theorem | Says |
|---|---|
| `CollectorInvariant` | `CollectorInv`, the inductive invariant |
| `TypeCorrect` | the type invariant |
| `ChangesHappened` | `ContentChangesAreReal` |
| `DocumentsAreExplained` | `DocumentsHaveEvents` |
| `CompleteIsTrue` | `CompleteMeansCaptured` |
| `FillTypesOK` | `TypeOK` of `Backfill` |
| `BackfillOnlyAdvances` | `NothingGoesBack` of `Backfill` |
| `BackfillIsComplete` | `CompleteMeansStored` of `Backfill` |

The invariant has a part for each thing that `run_once` keeps in step:

- `QueueInv`: pages are queued in order and before anything else, the documents of an
  event before the other events. So a document in hand is one of the event in hand.
- `CaptureInv`: what was captured had been served. A 304 is captured only when the
  latest capture is of no use, so that what counts as parsed was parsed.
- `ChangeInv`: of the two captures about to be compared, the source served the later
  one later, whatever it has replaced since.
- `PaperInv`: each queued document is named by a capture of the event in hand.
- `CallInv`: as long as no issue was noted, everything that what was received calls for
  is settled or queued. "complete" is reported with an empty queue and no issue; this
  is the whole of `CompleteIsTrue`, and it needs the other four. A kill, inside `capture`
  or not, empties the queue, and the run reports nothing.

The last three are about `Backfill`, of which the module has an instance, `Fill`, and
suppose what `Backfill` assumes of its constants; where both specifications have a
variable of the same name, those theorems mean the one of `Backfill`. They hold for any
events and matters, any sizes and limits of pages, any versions, whole or not, and
whatever the city changes, the collector captures, the apply step commits and fails
meanwhile. `FillInv` has these parts:

- `NothingNewer`: no capture, row, candidate or recorded aim is newer than what the city
  serves. Versions only rise, so that whatever is read now is no older than anything
  read before.
- `NothingOlder`: from the first answer that a backfill records it holds the lock, so
  that nothing else commits, and no row of its draft is older than the committed one.
  This is `BackfillOnlyAdvances`; without the lock (the mutant `NotLocked`) the apply
  step could commit a newer detail in between.
- `MattersRead` and `EventsRead`: of the matters from the page the run started with, and of
  the events, that were listed when it began, those are `Lost` that were not read and are not
  on the places still to be read. As long as no issue was noted they are no more than
  were withdrawn. A publication loses none (`LosesNothing`), a withdrawal one at most,
  itself or the one that moves to the last place read (`LosesOne`), the reading of a page
  none (`ReadsPage`); and a page that is not full has the last of the list on it. All this is
  said once of both lists, for an order of the ids, `Upwards` or `Downwards`, and the `Rank`
  of an id in it; the ids of a list are in one-to-one correspondence with their places
  (`RankOf`, `RankTaken`).
- `DetailsRead`: the details read so far are stored whole, and no older than the entry
  of the list that called for them. An event may be called for once only, but the proof
  does not need it: a detail that is read again is no older.

"complete" is then true because the details end where the candidates do: a list that is
cut off at `max_detail_events` is an issue.

`RecordsProofs` proves, for any events, items, attachments and captures, both
calibrations, and steps that run, end or die in any order:

| Theorem | Says |
|---|---|
| `RecordsInvariant` | `RecordsInv`, the inductive invariant |
| `TypeCorrect` | the type invariant |
| `ValuesAreSourced` | `ValuesHaveSources` |
| `FirstObservations` | `FirstObservedIsEarliest` |
| `EventsAccounted` | `NothingDropped` |
| `OldTitlesExplained` | `OnlyFailuresAreReplayed` |
| `ReadingsKept` | `ReadingsAreNewest` |

- What is promised of the committed tables (`Kept`) holds of the open transaction, too,
  over the captures that it has got to; so a kill loses nothing and a commit may come
  at any time.
- `Sourced` is about values as well as titles and placements: `CommitMapping` takes
  placements from values, and a placement can have no better source than its value.
- `Accounted` says of a capture that was not applied in full that it is `Hopeless`: it
  does not parse, or an item of it cannot be read, and so it fails in every later run.
  `OldTitlesExplained` needs this, since a capture that failed once and succeeded
  later would put back an older title for good.
- `ReadSoFar`: the reading step commits after each attachment, and what an earlier,
  killed run left is right for the captures before its place.

`ReadingsKept` is about PDFs: `ReadSoFar` passes over whatever else was captured.

TLC had confirmed this invariant over every sequence of four captures.

`DocumentsProofs` proves, for any number of attachments and versions, any pages, and
any interleaving of the source, the scheduled run, both scripts and the requests:

| Theorem | Says |
|---|---|
| `DocumentsInvariant` | `DocumentsInv`, the inductive invariant |
| `TypeCorrect` | the type invariant |
| `RequestsMatch` | `RequestsAreOneVersion` |
| `PagesExist` | `CitationsHavePages` |
| `DrawnFromTheirText` | `ExtractionsAreOfTheirReading` |

- `InOrder`: the captures of an attachment follow its versions, whoever made them, since
  both programs that fetch it append what is served now.
- `RunInv`: a reading is of bytes that are held, and of no earlier ones than the
  captures that a finished reading step had gone through. During a step this holds
  up to its place only.
- `ServiceInv` carries this into a request: what was settled when a row was loaded,
  that row is no earlier than. `PagesExist` needs that and the case in which
  nothing was settled, which `CitationsHavePages` names.

`PipelineProofs` proves, for any number of runs, any list of cities, with and without a
bucket, and any number of captures, kills and failures:

| Theorem | Says |
|---|---|
| `ProgramsExclude` | `OneProgramAtATime` |
| `BackupsAreRestorable` | `BackupsLast` |
| `SuccessLineIsTrue` | `SuccessIsComplete` |
| `OneWriterKeepsStores` | where no program captures a city beside its collector (`Apart`): each chain is that of its manifest, or of all but its last line, and a store that no program opens again (`Wrecked`) is the work of a fault |
| `StoresAreLogs` | under the same condition, every step is, for each store, one step of `EvidenceLog` or none |

The only assumption on the cities is that none of them is `Nobody`. `NothingAhead`
says that what a program loaded is no longer than the manifest; `BackupInv`, that the
part of a chain that a backup verified, here and in the bucket, is still that part when
it is uploaded, though another process may have added to it; `ScriptInv`, that the
commands a run has behind it have processed what its collectors left. The last one
rests on `ProgramsExclude`: nobody else collects for the run. Command `i` of the
script is program `(i - 1) \div n` for city `(i - 1) % n`; that this visits every
pair in order is the lemma `Division`. Bounds on the number of captures are a sum over
the cities, which is induction over data: that part of `TypeOK` is left to TLC.

`Apart` is a condition on how the scripts are used, which nothing in the code enforces:
`backfill.py` and `capture_record_attachments.py` take no lock. It is needed: without
it TLC finds two processes that seal their lines in turn, with no fault. With it,
`SerialInv` says that whoever has a store open to capture finds it as it left it: intact,
or one entry short with that line in hand. Two such processes are excluded by
`ProgramsExclude` and `Apart` together (`OneWriter`), and a killed one leaves a store
that the next one does not open. Steps of the log are shown, not its initial state:
the bytes, which `Pipeline` leaves out, are held from the start.

`WatchRequestsProofs` proves, for any threads, clients and addresses, any limit, window
and memory:

| Theorem | Says |
|---|---|
| `TypeCorrect` | the type invariant, and that at most `MaxKeys` clients are remembered |
| `LimitHolds` | `AtMostMaximum` |
| `RetryAfterHolds` | `RetryAfterIsHonest` |
| `BrokenEntriesNeedRestart` | `BrokenNeedsRestart` |
| `HitsReturnWhole` | `HitsAreWhole` |

- `LimitHolds` needs `KeepsWindow`: of a client that is not excused, what the limiter
  remembers are the last of all its requests, and those before had left the window of
  the latest clock reading. With it, counting what is remembered counts the window.
- `RetryAfterHolds` needs `PromiseInv`: nothing but an accepted request of its own or
  its eviction moves the first timestamp of a client that was told to wait.
- `BrokenEntriesNeedRestart` needs `WrittenInOrder` (an incomplete entry has a thread
  that is about to complete it), `HitsReturnWhole` needs `OneFetch`, which goes on
  holding after a restart, since a broken entry is never fetched again.
- `TypeCorrect` shows that the key to evict, the one whose last request is oldest,
  exists whenever one has to go.

`TypeOK`, `RecordedOnce`, `FilesOnlyGrow`, `BytesImmutable`, `VetoesOnlyWithhold` and
`ReversalIsOpposite`, and the inductive invariants, are stated by theorems and are in no
run's configuration; TLC had agreed with each before it was proved.

TLC had confirmed `OriginInv`, `FillInv` and `SerialInv`, too, on the instances of the runs.

Every safety invariant and every action property that a passing run checks is stated by a
theorem, but for `RepeatsComeBack`. Model-checked only: that one, the bounds in `TypeOK` of
`Pipeline`, and every liveness property. Liveness stays with TLC, as does what a recursive definition
computes for every input: the provers do not reach either. Where a proof needs
induction over numbers, it takes the first number with a property (`Least` and
`FirstOf`, from the well-foundedness of the naturals); the maximum of a set of
captures and the sorting of ids are found in this way.

## 5. Not modelled, and why

The agents' answers, PDF parsing and text extraction, geocoding and email
rendering are inputs or functions, not models. Pages, templates, configuration
and the command-line tooling have no state that others share; the preflight writes
a report once. Norms and the offline evaluation are sequential statistics on fixed
data. Of modelled parts these are left out: the two logs of the collector in a
backup, its heartbeat and the counters of its summary, the structural fingerprint and
the issues' texts of a backfill, the rejections, the brief and the run history of a
review, the ledger and the lists of the web service.

A module of its own would add little for these; what can still be done, in this
order:

1. The rejections, the brief and the run history in `Review`.
2. The files of `EvidenceStore`, with their torn lines, as the stores of `Pipeline`.

What can happen today and is not covered is in the `hazards` of `PROJECT.json`, with
the reason.
