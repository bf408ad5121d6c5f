----------------------------- MODULE Documents ------------------------------
(***************************************************************************)
(* The attachments of a matter on their way from the city's server to a    *)
(* review.  Four programs work on them at their own pace: the scheduled    *)
(* run (collector, apply step, reading step), which holds the run lock;    *)
(* capture_record_attachments.py and extract_documents.py, which are       *)
(* started by hand and hold none; and the web service, which loads the     *)
(* case row by row, has its agents read the captured bytes, in the managed *)
(* runtime or in its own process, and checks the pages that they cite.     *)
(*                                                                         *)
(* A version number stands for an attachment's bytes, and so for their     *)
(* hash; the source only moves on to later versions (a version put back is *)
(* in Collector).  An event's detail names all attachments and changes     *)
(* when the city announces new bytes.  A failed download is version 0.     *)
(***************************************************************************)
EXTENDS Integers, Sequences, FiniteSetsExt

CONSTANTS
  Attachments,    \* attachment ids, in the order of their numbers
  MaxVersion,
  Candidates,     \* versions whose text the triage selects
  NotPdf,         \* versions that are no PDF
  PageCount,      \* the pages of a version
  MaxRevisions,   \* bound on changes of the event's detail
  MaxFaults,      \* bound on failed downloads and killed programs
  MaxUses         \* bound on runs by hand and requests

ASSUME DocumentsAssumption ==
  /\ IsFiniteSet(Attachments)
  /\ Attachments = 1..Cardinality(Attachments) /\ Attachments # {}
  /\ {MaxVersion, MaxRevisions} \subseteq Nat \ {0} /\ {MaxFaults, MaxUses} \subseteq Nat
  /\ Candidates \cup NotPdf \subseteq 1..MaxVersion
  /\ Candidates \cap NotPdf = {}
  /\ PageCount \in [1..MaxVersion -> Nat]

Versions == 1..MaxVersion
Last == Cardinality(Attachments)
MaxPages == Max({PageCount[v] : v \in Versions})

VARIABLES
  served, revision,  \* the source: bytes of each attachment, the event's detail
  manifest,          \* captures [of, version, by], of an attachment or of the detail
  applied,           \* the revision in the record store
  recorded,          \* attachments.content_hash
  reading,           \* attachment_readings: the version read
  extraction,        \* document_extractions: [of, from, status]
  cron, view, pos,   \* scheduled run: its step, captures loaded, place in them
  readTo,            \* history: captures covered by the readings; 0 during a run
  script, known, got,  \* capture script: place, captures loaded, its captures
  reader, shelf, drawn, \* extract script: place, captures loaded, its reading
  request, page, anchors, clean, sent,  \* web request: place, rows read, bytes
  cited,             \* what its agents cite: a page of a version of an attachment
  silent,            \* history: the newest bytes were not announced
  overtaken,         \* history: the capture script put back an older hash
  uses, faults

source == <<served, revision, silent>>
tables == <<applied, recorded, reading, extraction>>
run == <<cron, view, pos, readTo>>
byHand == <<script, known, got>>
extracting == <<reader, shelf, drawn>>
web == <<request, page, anchors, clean, sent, cited>>
vars == <<source, manifest, tables, run, byHand, extracting, web, overtaken, uses, faults>>

Detail == 0

(* store.latest, over the first n captures: the version, or None. *)
None == -1
LatestAt(of, n) ==
  LET ps == {p \in 1..n : manifest[p].of = of}
  IN  IF ps = {} THEN None ELSE manifest[Max(ps)].version

Latest(of) == LatestAt(of, Len(manifest))

(* The place of the last good capture among the first n; 0 without one. *)
GoodAt(a, n) ==
  Max({0} \cup {p \in 1..n : manifest[p].of = a /\ manifest[p].version # 0})

(* The readings have caught up with all good captures of these bytes. *)
Settled(a, v) ==
  \E p \in 1..readTo : manifest[p].of = a /\ manifest[p].version = v

Failing == faults < MaxFaults /\ faults' = faults + 1

(***************************************************************************)
(* Rows of the record store.                                               *)
(***************************************************************************)
(* attachment_sources: what an applied detail has listed. *)
AttachmentSources == IF applied = None THEN {} ELSE Attachments

(* record_attachment_content *)
RecordContent(old, hash) == IF hash = 0 THEN old ELSE hash

(* attachment_reading *)
ReadingRow(a) ==
  [version |-> reading[a], status |-> IF reading[a] \in Candidates THEN "candidate" ELSE "absent"]

(* document_extraction_hash *)
ExtractionHash(a) == extraction[a].of

(* upsert_document_extraction: none of its columns is ever null. *)
PutExtraction(a, row) == extraction' = [extraction EXCEPT ![a] = row]

(***************************************************************************)
(* The source.                                                             *)
(***************************************************************************)
Replace(a, announced) ==
  /\ served[a] < MaxVersion /\ (announced => revision < MaxRevisions)
  /\ served' = [served EXCEPT ![a] = @ + 1]
  /\ revision' = IF announced THEN revision + 1 ELSE revision
  /\ silent' = IF announced THEN silent \ {a} ELSE silent \cup {a}
  /\ UNCHANGED <<manifest, tables, run, byHand, extracting, web, overtaken, uses, faults>>

(***************************************************************************)
(* The scheduled run.                                                      *)
(***************************************************************************)
Idle == cron' = "idle" /\ view' = 0 /\ pos' = 0

(* The collector: the detail first, then each attachment. *)
CollectDetail ==
  /\ cron = "idle"
  /\ manifest' = IF LatestAt(Detail, Len(manifest)) = revision THEN manifest
                 ELSE Append(manifest, [of |-> Detail, version |-> revision, by |-> "run"])
  /\ cron' = "collect" /\ view' = Len(manifest') /\ pos' = 1
  /\ UNCHANGED <<source, tables, readTo, byHand, extracting, web, overtaken, uses, faults>>

(* What the program `by` makes of an answer when it has n captures loaded: a *)
(* capture, unless it gets a 304 or has made that capture before, the        *)
(* capture of a failure included; the latest one then stays what it is.      *)
Captured(a, v, n, by) ==
  LET capture == [of |-> a, version |-> v, by |-> by]
  IN  manifest' = IF v = LatestAt(a, n) \/ (\E p \in 1..n : manifest[p] = capture)
                  THEN manifest ELSE Append(manifest, capture)

Fetched(a, n, by) ==
  \/ Captured(a, served[a], n, by) /\ UNCHANGED faults
  \/ Captured(a, 0, n, by) /\ Failing

CollectPaper ==
  /\ cron = "collect" /\ pos <= Last
  /\ Fetched(pos, view, "run")
  /\ pos' = pos + 1
  /\ UNCHANGED <<source, tables, cron, view, readTo, byHand, extracting, web, overtaken, uses>>

LoadApply ==
  /\ cron = "collect" /\ pos > Last
  /\ cron' = "apply" /\ view' = Len(manifest)
  /\ UNCHANGED <<source, manifest, tables, pos, readTo, byHand, extracting, web,
                 overtaken, uses, faults>>


(* content_capture: the latest capture, if it is a good one. *)
Content(a) == IF LatestAt(a, view) \in Versions THEN LatestAt(a, view) ELSE recorded[a]

(* A detail that is not applied yet brings the hashes up to date. *)
CommitApply ==
  /\ cron = "apply"
  /\ LET newest == LatestAt(Detail, view)
     IN  /\ applied' = newest
         /\ recorded' = IF newest = applied THEN recorded
                        ELSE [a \in Attachments |-> Content(a)]
  /\ cron' = "read" /\ view' = Len(manifest) /\ pos' = 1
  /\ readTo' = 0
  /\ UNCHANGED <<source, manifest, reading, extraction, byHand, extracting, web,
                 overtaken, uses, faults>>

(* Fault: only what has no reading is read. *)
ReadCaptureOnce ==
  /\ cron = "read" /\ pos <= view
  /\ LET p == manifest[pos]
     IN  reading' = IF p.of # Detail /\ p.version \in Versions \ NotPdf /\ reading[p.of] = 0
                    THEN [reading EXCEPT ![p.of] = p.version] ELSE reading
  /\ pos' = pos + 1
  /\ UNCHANGED <<source, manifest, applied, recorded, extraction, cron, view, readTo,
                 byHand, extracting, web, overtaken, uses, faults>>

(* Every good capture in turn, old ones included; each reading committed. *)
ReadCapture ==
  /\ cron = "read" /\ pos <= view
  /\ LET p == manifest[pos]
     IN  reading' = IF p.of # Detail /\ p.version \in Versions \ NotPdf
                    THEN [reading EXCEPT ![p.of] = p.version] ELSE reading
  /\ pos' = pos + 1
  /\ UNCHANGED <<source, manifest, applied, recorded, extraction, cron, view, readTo,
                 byHand, extracting, web, overtaken, uses, faults>>

FinishRun ==
  /\ cron = "read" /\ pos > view
  /\ readTo' = view
  /\ Idle
  /\ UNCHANGED <<source, manifest, tables, byHand, extracting, web, overtaken, uses, faults>>

KillRun ==
  /\ cron # "idle" /\ Failing
  /\ Idle
  /\ UNCHANGED <<source, manifest, tables, readTo, byHand, extracting, web, overtaken, uses>>

(***************************************************************************)
(* capture_record_attachments.py: the list is read, the bytes are fetched, *)
(* and all hashes are written in one transaction at the end.               *)
(***************************************************************************)
StartScript ==
  /\ script = 0 /\ AttachmentSources # {} /\ uses < MaxUses
  /\ uses' = uses + 1
  /\ script' = 1 /\ known' = Len(manifest)
  /\ UNCHANGED <<source, manifest, tables, run, got, extracting, web, overtaken, faults>>

(* _capture *)
CapturePaper ==
  /\ script \in Attachments
  /\ Fetched(script, known, "hand")
  /\ got' = [got EXCEPT ![script] = IF faults' = faults THEN served[script] ELSE 0]
  /\ script' = script + 1
  /\ UNCHANGED <<source, tables, run, known, extracting, web, overtaken, uses>>

EndScript == script' = 0 /\ known' = 0 /\ got' = [a \in Attachments |-> 0]

(* record_attachment_content of each good capture. *)
RecordContents ==
  /\ script > Last
  /\ recorded' = [a \in Attachments |-> RecordContent(recorded[a], got[a])]
  /\ overtaken' = overtaken \cup {a \in Attachments : recorded'[a] < recorded[a]}
  /\ EndScript
  /\ UNCHANGED <<source, manifest, applied, reading, extraction, run, extracting, web,
                 uses, faults>>

KillScript ==
  /\ script # 0 /\ Failing
  /\ EndScript
  /\ UNCHANGED <<source, manifest, tables, run, extracting, web, overtaken, uses>>

(***************************************************************************)
(* extract_documents.py: for each attachment the last good capture there   *)
(* was at the start, with the reading there is now.                        *)
(***************************************************************************)
NoReading == [of |-> 0, from |-> 0, settled |-> FALSE]

StartReader ==
  /\ reader = 0 /\ uses < MaxUses
  /\ uses' = uses + 1
  /\ reader' = 1 /\ shelf' = Len(manifest)
  /\ UNCHANGED <<source, manifest, tables, run, byHand, drawn, web, overtaken, faults>>

(* A candidate is sent to the model, unless its bytes have been already. *)
TakeReading ==
  /\ reader \in Attachments /\ drawn = NoReading
  /\ LET p == GoodAt(reader, shelf)
         row == ReadingRow(reader)
         wanted == /\ p # 0 /\ row.status = "candidate"
                   /\ ExtractionHash(reader) # manifest[p].version
     IN  IF wanted
         THEN /\ drawn' = [of |-> manifest[p].version, from |-> row.version,
                           settled |-> Settled(reader, manifest[p].version)]
              /\ UNCHANGED reader
         ELSE reader' = reader + 1 /\ UNCHANGED drawn
  /\ UNCHANGED <<source, manifest, tables, run, byHand, shelf, web, overtaken, uses, faults>>

(* Fault: the row gets the hash of the latest capture, not of the one drawn. *)
ExtractLabelled ==
  /\ drawn # NoReading
  /\ PutExtraction(reader,
       [of |-> manifest[GoodAt(reader, Len(manifest))].version, from |-> drawn.from,
        settled |-> drawn.settled, status |-> "read"])
  /\ drawn' = NoReading /\ reader' = reader + 1
  /\ UNCHANGED <<source, manifest, applied, recorded, reading, run, byHand, shelf, web,
                 overtaken, uses, faults>>

(* extract_document: what is no PDF cannot be drawn; a model may fail, too.  *)
Outcomes == IF drawn.of \in NotPdf THEN {"failed"} ELSE {"read", "failed"}

(* A failure leaves a row like any answer does. *)
Extract ==
  /\ drawn # NoReading
  /\ \E status \in Outcomes :
       PutExtraction(reader,
         [of |-> drawn.of, from |-> drawn.from, settled |-> drawn.settled, status |-> status])
  /\ drawn' = NoReading /\ reader' = reader + 1
  /\ UNCHANGED <<source, manifest, applied, recorded, reading, run, byHand, shelf, web,
                 overtaken, uses, faults>>

(* At the end, or killed. *)
EndReader ==
  /\ reader > Last \/ (reader # 0 /\ faults < MaxFaults)
  /\ faults' = IF reader > Last THEN faults ELSE faults + 1
  /\ reader' = 0 /\ shelf' = 0 /\ drawn' = NoReading
  /\ UNCHANGED <<source, manifest, tables, run, byHand, web, overtaken, uses>>

(***************************************************************************)
(* A review: load_matter_case; managed, request_from_case and in the       *)
(* runtime context_from_request; the agents; the check of what they cite.  *)
(***************************************************************************)
NoRows == [a \in Attachments |-> 0]
NoCitation == [of |-> 0, version |-> 0, page |-> 0]

(* The attachments' rows, in one SELECT. *)
LoadRows ==
  /\ request = "none" /\ applied # None /\ uses < MaxUses
  /\ uses' = uses + 1
  /\ request' = "readings" /\ page' = recorded
  /\ UNCHANGED <<source, manifest, tables, run, byHand, extracting, anchors, clean, sent,
                 cited, overtaken, faults>>

(* The reading of each attachment, in a SELECT of its own; and once more for *)
(* review_graph_payload, when the managed agents have answered.              *)
LoadReading(a) ==
  /\ request \in {"readings", "answered"}
  /\ a = Cardinality(DOMAIN anchors) + 1 /\ a \in Attachments
  /\ anchors' = Append(anchors, reading[a])
  /\ clean' = Append(clean, {v \in Versions : Settled(a, v)})
  /\ UNCHANGED <<source, manifest, tables, run, byHand, extracting, request, page, sent,
                 cited, overtaken, uses, faults>>

Loaded == Len(anchors) = Last

(* document_capture: the latest bytes, unless they are a failure or no PDF. *)
Documents == {a \in Attachments : Latest(a) \in Versions \ NotPdf}

(* A hash in the record, other than that of the bytes, is refused. *)
Matches(a) == page[a] \in {0, Latest(a)}

Send ==
  /\ request = "readings" /\ Loaded
  /\ request' = IF \A a \in Documents : Matches(a) THEN "sent" ELSE "refused"
  /\ sent' = [a \in Attachments |-> IF a \in Documents THEN Latest(a) ELSE 0]
  /\ UNCHANGED <<source, manifest, tables, run, byHand, extracting, page, anchors, clean,
                 cited, overtaken, uses, faults>>

(* _decode_documents: the runtime compares bytes and record once more. *)
Decoded == \A a \in Attachments : sent[a] # 0 => page[a] \in {0, sent[a]}

(* case_from_structural_payload: the rows as sent; it raises at a text that  *)
(* is empty, which the record store takes.                                   *)
Rebuilt == request' \in {"received", "refused"}

Receive ==
  /\ request = "sent" /\ Decoded
  /\ Rebuilt
  /\ UNCHANGED <<source, manifest, tables, run, byHand, extracting, page, anchors, clean,
                 sent, cited, overtaken, uses, faults>>

(* A reader may cite the bytes it was shown, or those of the reading, and    *)
(* write any number for the page.  Two captures of the same bytes are one.   *)
Cite(a, shown) ==
  /\ shown \in Versions
  /\ \E version \in {shown, anchors[a]} \ {0}, number \in 1..MaxPages :
       cited' = [of |-> a, version |-> version, page |-> number]

(* The managed agents work on what the request holds. *)
AnswerManaged ==
  /\ request = "received"
  /\ \E a \in Attachments : Cite(a, sent[a])
  /\ request' = "answered" /\ anchors' = <<>> /\ clean' = <<>>
  /\ UNCHANGED <<source, manifest, tables, run, byHand, extracting, page, sent, overtaken,
                 uses, faults>>

(* read_attachment_document, in the service: the bytes of the moment, whose  *)
(* hash nothing compares.                                                    *)
AnswerLocally ==
  /\ request = "readings" /\ Loaded
  /\ \E a \in Documents : Cite(a, Latest(a))
  /\ request' = "answered"
  /\ UNCHANGED <<source, manifest, tables, run, byHand, extracting, page, anchors, clean,
                 sent, overtaken, uses, faults>>

(* Fault: the number of a page is not checked. *)
AnyPage(a) == Versions \X (1..MaxPages)

(* _evidence_catalog: the bytes of the reading, and the latest bytes with    *)
(* the page count of the reading.                                            *)
PageSources(a) ==
  IF anchors[a] = 0 THEN {}
  ELSE ({anchors[a]} \cup {v \in {Latest(a)} : a \in Documents}) \X (1..PageCount[anchors[a]])

(* _validate_agent_evidence *)
Review ==
  /\ request = "answered" /\ Loaded
  /\ request' = IF <<cited.version, cited.page>> \in PageSources(cited.of)
                THEN "accepted" ELSE "refused"
  /\ UNCHANGED <<source, manifest, tables, run, byHand, extracting, page, anchors, clean,
                 sent, cited, overtaken, uses, faults>>

(* The answer of the service, after whatever was raised. *)
EndRequest ==
  /\ request # "none"
  /\ request' = "none" /\ page' = NoRows /\ anchors' = <<>> /\ clean' = <<>>
  /\ sent' = NoRows /\ cited' = NoCitation
  /\ UNCHANGED <<source, manifest, tables, run, byHand, extracting, overtaken, uses, faults>>

(***************************************************************************)
(* The specification.                                                      *)
(***************************************************************************)
Init ==
  /\ served = [a \in Attachments |-> 1] /\ revision = 1 /\ silent = {}
  /\ manifest = <<>>
  /\ applied = None /\ recorded = NoRows /\ reading = NoRows
  /\ extraction = [a \in Attachments |->
                     [of |-> 0, from |-> 0, settled |-> FALSE, status |-> "none"]]
  /\ cron = "idle" /\ view = 0 /\ pos = 0 /\ readTo = 0
  /\ script = 0 /\ known = 0 /\ got = NoRows
  /\ reader = 0 /\ shelf = 0 /\ drawn = NoReading
  /\ request = "none" /\ page = NoRows /\ anchors = <<>> /\ clean = <<>> /\ sent = NoRows
  /\ cited = NoCitation
  /\ overtaken = {}
  /\ uses = 0 /\ faults = 0

ScheduledRun ==
  CollectDetail \/ CollectPaper \/ LoadApply \/ CommitApply \/ ReadCapture \/ FinishRun

Next ==
  \/ \E a \in Attachments, announced \in BOOLEAN : Replace(a, announced)
  \/ ScheduledRun \/ KillRun
  \/ StartScript \/ CapturePaper \/ RecordContents \/ KillScript
  \/ StartReader \/ TakeReading \/ Extract \/ EndReader
  \/ LoadRows \/ (\E a \in Attachments : LoadReading(a)) \/ Send \/ Receive
  \/ AnswerManaged \/ AnswerLocally \/ Review \/ EndRequest

Spec == Init /\ [][Next]_vars

(* Only the scheduled run is started again and again. *)
FairSpec == Spec /\ WF_vars(ScheduledRun)

(***************************************************************************)
(* Properties.                                                             *)
(***************************************************************************)
TypeOK ==
  /\ served \in [Attachments -> Versions] /\ revision \in 1..MaxRevisions
  /\ manifest \in Seq([of : Attachments \cup {Detail}, version : Nat, by : {"run", "hand"}])
  /\ applied \in {None} \cup 1..MaxRevisions
  /\ {recorded, reading, page, sent, got} \subseteq [Attachments -> {0} \cup Versions]
  /\ cron \in {"idle", "collect", "apply", "read"}
  /\ {view, readTo, known, shelf} \subseteq 0..Len(manifest)
  /\ {script, reader} \subseteq 0..(Last + 1)
  /\ request \in {"none", "readings", "sent", "received", "answered", "accepted", "refused"}
  /\ cited \in [of : {0} \cup Attachments, version : {0} \cup Versions, page : 0..MaxPages]

(* The runtime gets bytes that are those of the record, with a reading that  *)
(* is not of later bytes; and of earlier ones only when the case was loaded  *)
(* before a reading step had got through the captures of these bytes.  The   *)
(* bytes are looked up after the rows, and the step that reads new bytes     *)
(* reads the old ones again first, each time.                                *)
RequestsAreOneVersion ==
  request = "sent" =>
    \A a \in Attachments : sent[a] # 0 =>
      /\ page[a] \in {0, sent[a]}
      /\ anchors[a] <= sent[a]
      /\ anchors[a] # sent[a] => sent[a] \notin clean[a]

(* A page that a review accepts exists in the bytes it is cited for, though  *)
(* the check takes the page count of the reading for that of the latest      *)
(* bytes; unless the case was loaded before a reading step had got through   *)
(* the captures of these bytes.                                              *)
CitationsHavePages ==
  request = "accepted" /\ cited.version \in clean[cited.of] =>
    cited.page <= PageCount[cited.version]

(* The script pairs the captures of its start with the readings of the       *)
(* moment.  A document is drawn at the pages where its own text was read, or *)
(* that of a later version, unless the reading step had not got through the  *)
(* captures.  A row whose hash matches is not drawn again.                   *)
ExtractionsAreOfTheirReading ==
  \A a \in Attachments :
    LET row == extraction[a]
    IN  row.status = "read" /\ row.from < row.of => ~row.settled

=============================================================================
