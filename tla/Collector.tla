----------------------------- MODULE Collector -----------------------------
(***************************************************************************)
(* The collector of one city: run_once (src/src/page47/snapshotter/        *)
(* runner.py), its conditional requests (http.py, client.py) and what it   *)
(* leaves in the evidence store: captures, the change log and the run log. *)
(* Of the file operations of a capture, which EvidenceStore has, only what *)
(* a kill among them does to later runs is here.                           *)
(*                                                                         *)
(* The source serves a version of every target and may replace it at any   *)
(* time.  A version stands for the bytes of a response and for what the    *)
(* code reads in them: the events a page lists that pass the filters, the  *)
(* attachments an event names, the publication time it states.             *)
(***************************************************************************)
EXTENDS Naturals, Sequences, FiniteSets, SequencesExt

CONSTANTS
  Events,         \* Event ids.
  Attachments,    \* Attachment ids.
  MaxPages,       \* api.max_pages of the city's configuration.
  Versions,       \* What a target may serve.
  NoVersion,      \* Nothing received.
  Usable,         \* The versions that parse (pages, events) or are PDFs.
  Flawed,         \* Usable ones with an entry that has no id.
  Full,           \* Page versions with page_size rows: more pages follow.
  Listed,         \* The selected events of a page version.
  Attached,       \* The attachments of an event version.
  Unlinked,       \* The documents an event version has no usable URL for.
  Published,      \* The publication time an event version states.
  Described,      \* What an event version says of its attachments.
  Tagged,         \* The targets served with an ETag or Last-Modified.
  Failures,       \* Responses other than 200 and 304, and no response.
  First,          \* What the source serves at first.
  MaxPublished,   \* Bound: replacements by the source.
  MaxFaults       \* Bound: failed requests and runs that die.

Pages == {<<"page", n>> : n \in 0..(MaxPages - 1)}
Details == {<<"event", e>> : e \in Events}
Documents == {<<"agenda", e>> : e \in Events} \cup {<<"attachment", a>> : a \in Attachments}
Targets == Pages \cup Details \cup Documents

ASSUME IdsAreNumbers ==
  /\ Events \subseteq Nat /\ Attachments \subseteq Nat
  /\ IsFiniteSet(Events) /\ IsFiniteSet(Attachments)
ASSUME Bounds == MaxPublished \in Nat /\ MaxFaults \in Nat
ASSUME MaxPagesType == MaxPages \in Nat \ {0}
ASSUME NoVersionIsNone == NoVersion \notin Versions
ASSUME VersionSets == Usable \subseteq Versions /\ Flawed \subseteq Usable /\ Full \subseteq Usable
ASSUME Readings ==
  /\ Listed \in [Versions -> SUBSET Events]
  /\ Attached \in [Versions -> SUBSET Attachments]
  /\ Unlinked \in [Versions -> SUBSET Documents]
ASSUME SourceType == Tagged \subseteq Targets /\ First \in [Targets -> Versions]

VARIABLES
  served,         \* Per target, the versions the source has served.
  manifest,       \* The captures, oldest first.
  changes,        \* The lines of changes.jsonl, but for their observed_at.
  again,          \* Those of them that stand there more than once.
  sealed,         \* Whether the chain goes with the manifest.
  torn,           \* Bodies in the store that are not whole, by their target.
  lastRun,        \* How the last run ended, "running" until it does.
  pc,             \* "idle", "fetching" or "comparing".
  todo,           \* The targets the run is going to request.
  found,          \* event_map: the events listed so far.
  detail,         \* The version of the event in hand.
  before, after,  \* The two captures to be compared.
  issues,         \* Whether the run has noted an issue.
  received,       \* History: the version last received in this run.
  publications, faults           \* The bounded counters.

vars == <<served, manifest, changes, again, sealed, torn, lastRun, pc, todo, found,
          detail, before, after, issues, received, publications, faults>>
logged == <<changes, again>>
files == <<sealed, torn>>
compared == <<before, after>>
bounded == <<publications, faults>>

Kind(t) == t[1]
Source(t) == served[t][Len(served[t])]

(* What identifies a capture (its capture_key); capture times are left out.*)
Capture(t, status, body, fields) ==
  [target |-> t, status |-> status, body |-> body, fields |-> fields]

NoCapture(t) == Capture(t, "none", NoVersion, "none")

(* latest: the last capture of a target in the manifest, failures included.*)
Latest(t) ==
  LET positions == {i \in 1..Len(manifest) : manifest[i].target = t}
  IN  IF positions = {} THEN NoCapture(t)
      ELSE manifest[CHOOSE i \in positions : \A j \in positions : j <= i]

New(c) == \A i \in 1..Len(manifest) : manifest[i] # c
Body(c) == <<c.target, c.body>>

(* Fault: the existing record is looked for by its target. *)
StoreOnce(c) ==
  manifest' = IF Latest(c.target).status = c.status THEN manifest ELSE Append(manifest, c)

(* capture returns the existing record of the same key, wherever it is; it *)
(* raises if the store has the body already and it is not whole.           *)
Store(c) ==
  /\ New(c) => Body(c) \notin torn
  /\ manifest' = IF New(c) THEN Append(manifest, c) ELSE manifest

(* The validators sent are those of the latest capture; the source answers *)
(* 304 when they name what it serves.                                      *)
Unmodified(t) ==
  /\ t \in Tagged
  /\ Latest(t).status \in {"ok", "unmodified"}
  /\ Latest(t).body = Source(t)

Sorted(ids) ==
  CHOOSE s \in [1..Cardinality(ids) -> ids] : \A i, j \in DOMAIN s : i < j => s[i] < s[j]
TargetsOf(kind, ids) == [i \in 1..Cardinality(ids) |-> <<kind, Sorted(ids)[i]>>]

(* The documents of event e that have a usable URL: its agenda, then those *)
(* of its attachments by id.                                               *)
Ordered(e, attachments, unusable) ==
  (IF <<"agenda", e>> \in unusable THEN <<>> ELSE <<<<"agenda", e>>>>)
  \o TargetsOf("attachment", {a \in attachments : <<"attachment", a>> \notin unusable})

(* What event e names at version v, and what of it can be requested.       *)
Papers(e, v) == Ordered(e, Attached[v], {})

Linked(e, v) == Ordered(e, Attached[v], Unlinked[v])

Target == Head(todo)
Fetching(targets) == pc = "fetching" /\ todo # <<>> /\ Target \in targets

Receive(v) == received' = [received EXCEPT ![Target] = v]

(***************************************************************************)
(* A run.                                                                  *)
(***************************************************************************)

(* SnapshotStore() raises where chain and manifest differ. *)
Start ==
  /\ pc = "idle"
  /\ sealed
  /\ pc' = "fetching"
  /\ lastRun' = "running"
  /\ todo' = [n \in 1..MaxPages |-> <<"page", n - 1>>]
  /\ found' = {}
  /\ issues' = FALSE
  /\ received' = [t \in Targets |-> NoVersion]
  /\ UNCHANGED <<served, manifest, logged, files, detail, compared, bounded>>

(* After the last page, or one that is not full, come the events found. *)
NextPage(last, events) ==
  todo' = IF last \/ Len(todo) = 1 THEN TargetsOf("event", events) ELSE Tail(todo)

ReadPage ==
  /\ Fetching(Pages)
  /\ Source(Target) \in Usable
  /\ IF Unmodified(Target) THEN UNCHANGED manifest
     ELSE Store(Capture(Target, "ok", Source(Target), "parsed"))
  /\ Receive(Source(Target))
  /\ found' = found \cup Listed[Source(Target)]
  /\ NextPage(Source(Target) \notin Full, found')
  /\ issues' = (issues \/ Source(Target) \in Flawed)
  /\ UNCHANGED <<served, logged, files, lastRun, pc, detail, compared, bounded>>

(* parse_response and the ValueError handlers: a response that is not      *)
(* usable is captured as unparsed and noted, and the run goes on with the  *)
(* next page or event.  After a 304 it is the empty 304 that is captured.  *)
CannotRead ==
  /\ Fetching(Pages \cup Details)
  /\ Source(Target) \notin Usable
  /\ Store(Capture(Target, IF Unmodified(Target) THEN "unmodified" ELSE "ok",
                   Source(Target), "unparsed"))
  /\ Receive(Source(Target))
  /\ issues' = TRUE
  /\ IF Target \in Pages THEN NextPage(FALSE, found) ELSE todo' = Tail(todo)
  /\ UNCHANGED <<served, logged, files, lastRun, pc, found, detail, compared, bounded>>

(* Fault: a failed download is not noted. *)
FetchFailsSilently(f) ==
  /\ Fetching(Targets)
  /\ faults < MaxFaults
  /\ faults' = faults + 1
  /\ Store(Capture(Target, "failed", f, "unparsed"))
  /\ Receive(NoVersion)
  /\ issues' = (issues \/ Target \notin Documents)
  /\ IF Target \in Pages THEN NextPage(FALSE, found) ELSE todo' = Tail(todo)
  /\ UNCHANGED <<served, logged, files, lastRun, pc, found, detail, compared,
                 publications>>

(* Any other status, or no answer at all, is captured and noted too. *)
FetchFails(f) ==
  /\ Fetching(Targets)
  /\ faults < MaxFaults
  /\ faults' = faults + 1
  /\ Store(Capture(Target, "failed", f, "unparsed"))
  /\ Receive(NoVersion)
  /\ issues' = TRUE
  /\ IF Target \in Pages THEN NextPage(FALSE, found) ELSE todo' = Tail(todo)
  /\ UNCHANGED <<served, logged, files, lastRun, pc, found, detail, compared,
                 publications>>

(* Compare the capture c of the target in hand with the latest before it.  *)
CompareWithLatest(c) ==
  /\ before' = Latest(c.target)
  /\ after' = c
  /\ pc' = "comparing"

(* Fault: an event is captured only the first time it is seen. *)
ReadEventOnce ==
  /\ Fetching(Details)
  /\ Source(Target) \in Usable
  /\ LET v == Source(Target)
         c == Capture(Target, "ok", v, "parsed")
     IN  /\ IF Latest(Target).status # "none" THEN UNCHANGED <<manifest, pc, compared>>
            ELSE Store(c) /\ CompareWithLatest(c)
         /\ Receive(v)
         /\ detail' = v
         /\ todo' = Linked(Target[2], v) \o Tail(todo)
         /\ issues' = (issues \/ v \in Flawed \/ Linked(Target[2], v) # Papers(Target[2], v))
  /\ UNCHANGED <<served, logged, files, lastRun, found, bounded>>

(* An event: its detail is captured, unless unmodified, and its documents  *)
(* come next.                                                              *)
ReadEvent ==
  /\ Fetching(Details)
  /\ Source(Target) \in Usable
  /\ LET v == Source(Target)
         c == Capture(Target, "ok", v, "parsed")
     IN  /\ IF Unmodified(Target) THEN UNCHANGED <<manifest, pc, compared>>
            ELSE Store(c) /\ CompareWithLatest(c)
         /\ Receive(v)
         /\ detail' = v
         /\ todo' = Linked(Target[2], v) \o Tail(todo)
         /\ issues' = (issues \/ v \in Flawed \/ Linked(Target[2], v) # Papers(Target[2], v))
  /\ UNCHANGED <<served, logged, files, lastRun, found, bounded>>

(* The fields captured with a document come from the event in hand. *)
Fields(t) == IF Kind(t) = "agenda" THEN Published[detail] ELSE Described[detail]

(* Fault: a document that has been captured is not captured again. *)
ReadDocumentOnce ==
  /\ Fetching(Documents)
  /\ Source(Target) \in Usable
  /\ LET c == Capture(Target, "ok", Source(Target), Fields(Target))
     IN  IF Unmodified(Target) \/ Latest(Target).status = "ok"
         THEN UNCHANGED <<manifest, pc, compared>>
         ELSE Store(c) /\ CompareWithLatest(c)
  /\ Receive(Source(Target))
  /\ todo' = Tail(todo)
  /\ UNCHANGED <<served, logged, files, lastRun, found, detail, issues, bounded>>

(* An agenda or attachment that is a PDF. *)
ReadDocument ==
  /\ Fetching(Documents)
  /\ Source(Target) \in Usable
  /\ LET c == Capture(Target, "ok", Source(Target), Fields(Target))
     IN  IF Unmodified(Target) THEN UNCHANGED <<manifest, pc, compared>>
         ELSE Store(c) /\ CompareWithLatest(c)
  /\ Receive(Source(Target))
  /\ todo' = Tail(todo)
  /\ UNCHANGED <<served, logged, files, lastRun, found, detail, issues, bounded>>

(* One that is not a PDF is dropped: an issue for an agenda only. *)
SkipDocument ==
  /\ Fetching(Documents)
  /\ Source(Target) \notin Usable
  /\ Receive(Source(Target))
  /\ todo' = Tail(todo)
  /\ issues' = (issues \/ Kind(Target) = "agenda")
  /\ UNCHANGED <<served, manifest, logged, files, lastRun, pc, found, detail, compared, bounded>>

Line(kind, t, old, new) == [kind |-> kind, target |-> t, old |-> old, new |-> new]

(* The attachment ids and the publication time a capture holds, if any. *)
Ids(c) == IF c.fields = "parsed" THEN Attached[c.body] ELSE {}

(* compare_event: b is the earlier capture. *)
EventChanges(b, a) ==
  {Line("appeared", a.target, NoVersion, id) : id \in Ids(a) \ Ids(b)}
  \cup {Line("vanished", a.target, id, NoVersion) : id \in Ids(b) \ Ids(a)}
  \cup (IF b.fields = "parsed" /\ Published[b.body] # Published[a.body]
        THEN {Line("moved", a.target, Published[b.body], Published[a.body])} ELSE {})

(* Fault: the two captures are taken for each other. *)
DocumentChangesBackwards(b, a) ==
  IF b.status = "ok" /\ b.body # a.body
  THEN {Line("content", a.target, a.body, b.body)} ELSE {}

(* compare_document: only captures with a content hash are compared. *)
DocumentChanges(b, a) ==
  IF b.status = "ok" /\ b.body # a.body
  THEN {Line("content", a.target, b.body, a.body)} ELSE {}

(* compare_event or compare_document, and append_change for each change. *)
Compare ==
  /\ pc = "comparing"
  /\ LET lines == IF before.status = "none" THEN {}
                  ELSE IF after.target \in Details THEN EventChanges(before, after)
                  ELSE DocumentChanges(before, after)
     IN  changes' = changes \cup lines /\ again' = again \cup (changes \cap lines)
  /\ pc' = "fetching"
  /\ UNCHANGED <<served, manifest, files, lastRun, todo, found, detail, compared, issues,
                 received, bounded>>

(* append_run *)
Finish ==
  /\ pc = "fetching"
  /\ todo = <<>>
  /\ lastRun' = IF issues THEN "complete_with_issues" ELSE "complete"
  /\ pc' = "idle"
  /\ UNCHANGED <<served, manifest, logged, files, todo, found, detail, compared, issues,
                 received, bounded>>

(* What is captured of the response in hand, if it is, or of a failure.    *)
Response ==
  IF Source(Target) \notin Usable
  THEN Capture(Target, IF Unmodified(Target) THEN "unmodified" ELSE "ok", Source(Target), "unparsed")
  ELSE Capture(Target, "ok", Source(Target),
               IF Target \in Documents THEN Fields(Target) ELSE "parsed")

Responses ==
  {Capture(Target, "failed", f, "unparsed") : f \in Failures}
  \cup (IF IF Source(Target) \in Usable THEN Unmodified(Target) ELSE Target \in Documents
        THEN {} ELSE {Response})

(* A run is killed inside capture: while it writes a body, or after, with  *)
(* the manifest's line not whole, or not yet followed by the entry of the  *)
(* chain, which SnapshotStore() makes up for only where there is no chain. *)
DieCapturing ==
  /\ Fetching(Targets)
  /\ faults < MaxFaults
  /\ faults' = faults + 1
  /\ \E c \in Responses :
       /\ New(c) /\ Body(c) \notin torn
       /\ \/ /\ \A i \in 1..Len(manifest) : Body(manifest[i]) # Body(c)
             /\ torn' = torn \cup {Body(c)}
             /\ UNCHANGED <<manifest, sealed>>
          \/ sealed' = FALSE /\ UNCHANGED <<manifest, torn>>
          \/ sealed' \in {FALSE, manifest = <<>>} /\ Store(c) /\ UNCHANGED torn
  /\ pc' = "idle"
  /\ todo' = <<>>
  /\ UNCHANGED <<served, logged, lastRun, found, detail, compared, issues, received,
                 publications>>

(* capture raises for a body that is not whole, and the run ends with it.  *)
Refuse ==
  /\ Fetching(Targets)
  /\ \E c \in Responses : New(c) /\ Body(c) \in torn
  /\ pc' = "idle"
  /\ todo' = <<>>
  /\ UNCHANGED <<served, manifest, logged, files, lastRun, found, detail, compared,
                 issues, received, bounded>>

(* The run dies between two steps: killed, or on an exception run_once     *)
(* does not catch.                                                         *)
Die ==
  /\ pc # "idle"
  /\ faults < MaxFaults
  /\ faults' = faults + 1
  /\ pc' = "idle"
  /\ todo' = <<>>
  /\ UNCHANGED <<served, manifest, logged, files, lastRun, found, detail, compared, issues,
                 received, publications>>

(***************************************************************************)
(* The source replaces what a target serves.                               *)
(***************************************************************************)

Publish(t, v) ==
  /\ Source(t) # v
  /\ publications < MaxPublished
  /\ publications' = publications + 1
  /\ served' = [served EXCEPT ![t] = Append(@, v)]
  /\ UNCHANGED <<manifest, logged, files, lastRun, pc, todo, found, detail, compared,
                 issues, received, faults>>

Init ==
  /\ served = [t \in Targets |-> <<First[t]>>]
  /\ manifest = <<>>
  /\ changes = {} /\ again = {}
  /\ sealed = TRUE /\ torn = {}
  /\ lastRun = "none"
  /\ pc = "idle"
  /\ todo = <<>>
  /\ found = {}
  /\ detail = NoVersion
  /\ before = NoCapture(<<"page", 0>>)
  /\ after = NoCapture(<<"page", 0>>)
  /\ issues = FALSE
  /\ received = [t \in Targets |-> NoVersion]
  /\ publications = 0
  /\ faults = 0

(* The collector's own steps, with no request failing. *)
Step ==
  \/ Start
  \/ ReadPage
  \/ CannotRead
  \/ ReadEvent
  \/ ReadDocument
  \/ SkipDocument
  \/ Compare
  \/ Finish

Next ==
  \/ Step
  \/ \E f \in Failures : FetchFails(f)
  \/ Die
  \/ DieCapturing
  \/ Refuse
  \/ \E t \in Targets, v \in Versions : Publish(t, v)

Spec == Init /\ [][Next]_vars

(* cron starts the collector every fifteen minutes; requests fail and runs *)
(* are killed finitely often; the source need not do anything.             *)
FairSpec == Spec /\ WF_vars(Step)

(***************************************************************************)
(* Properties.                                                             *)
(***************************************************************************)

Captures ==
  [target : Targets, status : {"none", "ok", "unmodified", "failed"},
   body : Versions \cup Failures \cup {NoVersion},
   fields : {"none", "parsed", "unparsed"} \cup {Published[v] : v \in Versions}
              \cup {Described[v] : v \in Versions}]

(* The types of the store's files and of the run's memory. *)
TypeOK ==
  /\ served \in [Targets -> Seq(Versions)]
  /\ manifest \in Seq(Captures)
  /\ \A c \in changes : c.kind \in {"appeared", "vanished", "moved", "content"} /\ c.target \in Targets
  /\ again \subseteq changes
  /\ sealed \in BOOLEAN
  /\ torn \subseteq Targets \X (Versions \cup Failures)
  /\ lastRun \in {"none", "running", "complete", "complete_with_issues"}
  /\ pc \in {"idle", "fetching", "comparing"}
  /\ todo \in Seq(Targets)
  /\ found \subseteq Events
  /\ detail \in Versions \cup {NoVersion}
  /\ before \in Captures /\ after \in Captures
  /\ issues \in BOOLEAN
  /\ received \in [Targets -> Versions \cup {NoVersion}]
  /\ publications \in 0..MaxPublished /\ faults \in 0..MaxFaults

CapturedAs(t, v) ==
  \E i \in 1..Len(manifest) :
    manifest[i].target = t /\ manifest[i].status = "ok" /\ manifest[i].body = v

(* What a run has to look at, given what it received. *)
CalledPages ==
  {<<"page", n>> : n \in {m \in 0..(MaxPages - 1) :
     \A k \in 0..(m - 1) : received[<<"page", k>>] \notin Usable \ Full}}
CalledEvents ==
  UNION {Listed[received[p]] : p \in {q \in CalledPages : received[q] \in Usable}}
CalledDocuments ==
  UNION {ToSet(Papers(e, received[<<"event", e>>])) :
           e \in {x \in CalledEvents : received[<<"event", x>>] \in Usable}}
Called == CalledPages \cup {<<"event", e>> : e \in CalledEvents} \cup CalledDocuments

(* A run that reports "complete" has in its store the very version it      *)
(* received of everything the pages and events it received call for; only  *)
(* an attachment that is no PDF may be missing.  Whatever 304s, failures   *)
(* and earlier captures of the target there were.                          *)
CompleteMeansCaptured ==
  lastRun = "complete" => \A t \in Called :
    \/ CapturedAs(t, received[t])
    \/ t \in Documents /\ Kind(t) = "attachment" /\ received[t] \in Versions \ Usable

(* A content change in the log happened: the source served the old version *)
(* before it served the new one, though the comparison is with a capture   *)
(* that may be runs old, and the new capture may be an old one found again.*)
ContentChangesAreReal ==
  \A c \in changes : c.kind = "content" =>
    \E i, j \in 1..Len(served[c.target]) :
      i < j /\ served[c.target][i] = c.old /\ served[c.target][j] = c.new

(* A content change logged again, by whatever run, is one that happened    *)
(* again or was taken back: the source served the new version, then the    *)
(* old one, then the new one.  A change back to a version that has been    *)
(* captured is logged in every run, since capture adds no record and the   *)
(* latest stays the old version; no other change is.                       *)
RepeatsComeBack ==
  \A c \in again : c.kind = "content" =>
    \E i, j, k \in 1..Len(served[c.target]) :
      /\ i < j /\ j < k
      /\ served[c.target][i] = c.new /\ served[c.target][j] = c.old /\ served[c.target][k] = c.new

(* Every document kept is explained by an earlier capture of an event that *)
(* names it with the very publication time or description kept with it.    *)
DocumentsHaveEvents ==
  \A i \in 1..Len(manifest) :
    LET d == manifest[i]
    IN  d.target \in Documents /\ d.status = "ok" =>
          \E j \in 1..(i - 1) :
            /\ manifest[j].target \in Details /\ manifest[j].fields = "parsed"
            /\ \/ /\ d.target = <<"agenda", manifest[j].target[2]>>
                  /\ d.fields = Published[manifest[j].body]
               \/ /\ d.target \in {<<"attachment", a>> : a \in Attached[manifest[j].body]}
                  /\ d.fields = Described[manifest[j].body]

(* What the source calls for now, through its first page. *)
Wanted(t) ==
  /\ Source(<<"page", 0>>) \in Usable
  /\ \E e \in Listed[Source(<<"page", 0>>)] :
       \/ t = <<"event", e>>
       \/ /\ Source(<<"event", e>>) \in Usable
          /\ t \in ToSet(Linked(e, Source(<<"event", e>>)))

(* It serves a usable version of one of those that has not been captured.  *)
Missing(t) == Wanted(t) /\ Source(t) \in Usable /\ ~CapturedAs(t, Source(t))

(* What a kill inside capture leaves, none of which the code repairs.      *)
Damaged == ~sealed \/ torn # {}

(* "Capture public meeting records before the source can overwrite them"   *)
(* (snapshotter/__init__.py 1), as far as polling can: with finitely many  *)
(* replacements and failures, what is called for and stays in place has    *)
(* been captured in the end, unless a run was killed inside capture.       *)
(* Captured once is enough: a version that comes back adds no capture,     *)
(* where README.md 178 has every changed document visible as a new one.    *)
EventuallyCaptured ==
  \A t \in Details \cup Documents : Missing(t) ~> (~Missing(t) \/ Damaged)
=============================================================================
