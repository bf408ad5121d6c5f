------------------------------ MODULE Delivery ------------------------------
(***************************************************************************)
(* Email delivery of saved reviews for one city: deliver_finding           *)
(* (src/src/page47/notifications/delivery.py), the scheduled script that   *)
(* calls it for every publishable review (scripts/notify_findings.py), the *)
(* manual script that calls it for one (scripts/notify_finding.py), and    *)
(* what goes on around them: residents starting and stopping watches,      *)
(* reviews being saved again, records arriving that begin or end a match.  *)
(*                                                                         *)
(* The SQLite tables are shared and every commit is a step.  The email     *)
(* provider may accept a message, refuse it, or accept it and have its     *)
(* answer lost.  A notifier may be killed between any two steps.           *)
(***************************************************************************)
EXTENDS Naturals, Sequences, FiniteSets

CONSTANTS
  Watches,        \* Watch ids; each create_watch draws a new one.
  Findings,       \* Finding ids: one for each reviewed matter.
  Scheduled,      \* Notifiers run by the deploy script (one, under flock).
  Manual,         \* Notifiers started by hand, under no lock.
  Unsendable,     \* Findings whose email cannot be rendered.
  RowLimit,       \* The 200 of finding_rows(city, 200).
  MaxSaves,       \* Bound: how often reviews are saved.
  MaxFaults       \* Bound: crashes, lost answers and failed calls.

Notifiers == Scheduled \cup Manual

ASSUME TablesFinite == IsFiniteSet(Watches) /\ IsFiniteSet(Findings)
ASSUME NotifiersDisjoint == Scheduled \cap Manual = {}
ASSUME UnsendableType == Unsendable \subseteq Findings
ASSUME LimitsType == RowLimit \in Nat \ {0} /\ MaxSaves \in Nat /\ MaxFaults \in Nat

VARIABLES
  saved,          \* The findings table: updated_at, 0 without a row.
  publishable,    \* The findings with publish set and an alertable state.
  created,        \* The watches table: created_at, 0 without a row.
  active,         \* The watches still active.
  matching,       \* The pairs whose body is selected and area confirmed.
  ledger,         \* The notifications table: the status of each pair.
  inbox,          \* How many emails the provider accepted for each pair.
  pc,             \* Where each notifier is.
  todo,           \* The findings a notifier has yet to finish.
  pending,        \* The watches deliver_finding read and has yet to handle.
  saves, faults,  \* The bounded counters.
  uncertain,      \* History: pairs whose acceptance was never recorded.
  contested,      \* History: pairs that two notifiers had in hand at once.
  unmatched,      \* History: notifiers whose pair ceased to match once judged.
  withdrawn       \* History: notifiers whose review was withdrawn once read.

notifier == <<pc, todo, pending>>
residents == <<created, active>>
reviews == <<saved, publishable, saves>>
histories == <<contested, unmatched, withdrawn>>
vars == <<saved, publishable, created, active, matching, ledger, inbox, pc, todo,
          pending, saves, faults, uncertain, contested, unmatched, withdrawn>>

Rows == {f \in Findings : saved[f] # 0}
Made == {w \in Watches : created[w] # 0}

(* ORDER BY updated_at DESC of finding_rows, and ORDER BY created_at of    *)
(* watch_rows: the only listing of S in that order.                        *)
NewestFirst(S) ==
  {s \in [1..Cardinality(S) -> S] :
     \A i, j \in 1..Cardinality(S) : i < j => saved[s[j]] < saved[s[i]]}
OldestFirst(S) ==
  {s \in [1..Cardinality(S) -> S] :
     \A i, j \in 1..Cardinality(S) : i < j => created[s[i]] < created[s[j]]}

Finding(n) == Head(todo[n])
Watch(n) == Head(pending[n])
Pair(n) == <<Watch(n), Finding(n)>>

(* finding_rows(city, 200) finds a review among the newest rows only. *)
Findable(f) == f \in Rows /\ Cardinality({g \in Rows : saved[f] < saved[g]}) < RowLimit

Goto(n, place) == pc' = [pc EXCEPT ![n] = place]

(* The notifier's process ends, by return, exception or kill. *)
Stopped(n) ==
  /\ Goto(n, "idle")
  /\ todo' = [todo EXCEPT ![n] = <<>>]
  /\ pending' = [pending EXCEPT ![n] = <<>>]

Fault == faults < MaxFaults /\ faults' = faults + 1

Record(n, status) == ledger' = [ledger EXCEPT ![Pair(n)] = status]

Send(n) == inbox' = [inbox EXCEPT ![Pair(n)] = IF @ < 2 THEN @ + 1 ELSE @]

(***************************************************************************)
(* The notifiers.                                                          *)
(***************************************************************************)

(* notify_findings.py reads the reviews once, newest first. *)
StartScheduled(n) ==
  /\ n \in Scheduled
  /\ pc[n] = "idle"
  /\ \E fs \in NewestFirst(publishable) : todo' = [todo EXCEPT ![n] = fs]
  /\ Goto(n, "findings")
  /\ UNCHANGED <<pending, residents, reviews, matching, ledger, inbox, faults, uncertain,
                 histories>>

(* notify_finding.py is given one review, publishable or not. *)
StartManual(n, f) ==
  /\ n \in Manual
  /\ pc[n] = "idle"
  /\ f \in Rows
  /\ todo' = [todo EXCEPT ![n] = <<f>>]
  /\ Goto(n, "findings")
  /\ UNCHANGED <<pending, residents, reviews, matching, ledger, inbox, faults, uncertain,
                 histories>>

FinishRun(n) ==
  /\ pc[n] = "findings"
  /\ todo[n] = <<>>
  /\ Stopped(n)
  /\ UNCHANGED <<residents, reviews, matching, ledger, inbox, faults, uncertain,
                 histories>>

(* deliver_finding reads the active watches once, and raises when the      *)
(* review is not among the newest.                                         *)
OpenFinding(n) ==
  /\ pc[n] = "findings"
  /\ todo[n] # <<>>
  /\ \/ /\ Findable(Finding(n))
        /\ \E ws \in OldestFirst(active) : pending' = [pending EXCEPT ![n] = ws]
        /\ Goto(n, "watches")
        /\ UNCHANGED todo
     \/ /\ ~Findable(Finding(n))
        /\ Stopped(n)
  /\ UNCHANGED <<residents, reviews, matching, ledger, inbox, faults, uncertain,
                 histories>>

CloseFinding(n) ==
  /\ pc[n] = "watches"
  /\ pending[n] = <<>>
  /\ todo' = [todo EXCEPT ![n] = Tail(@)]
  /\ Goto(n, "findings")
  /\ UNCHANGED <<pending, residents, reviews, matching, ledger, inbox, faults, uncertain,
                 histories>>

(* Where a notifier has a pair in hand, between notification_sent and the  *)
(* commit that records what became of it.                                  *)
PairPlaces == {"considering", "matched", "skipping", "sending", "accepted", "raised"}

(* Whether another notifier has the pair in hand that n takes up. *)
Contest(n) ==
  contested' = IF \E m \in Notifiers \ {n} : pc[m] \in PairPlaces /\ Pair(m) = Pair(n)
               THEN contested \cup {Pair(n)} ELSE contested

(* Fault: a pair is handled whether or not it was sent before. *)
ConsiderAgain(n) ==
  /\ pc[n] = "watches"
  /\ pending[n] # <<>>
  /\ Goto(n, "considering")
  /\ Contest(n)
  /\ UNCHANGED <<todo, pending, residents, reviews, matching, ledger, inbox, faults, uncertain,
                 unmatched, withdrawn>>

(* Fault: a pair that failed or was skipped is never looked at again. *)
ConsiderOnce(n) ==
  /\ pc[n] = "watches"
  /\ pending[n] # <<>>
  /\ \/ /\ ledger[Pair(n)] # "none"
        /\ pending' = [pending EXCEPT ![n] = Tail(@)]
        /\ UNCHANGED <<pc, contested>>
     \/ /\ ledger[Pair(n)] = "none"
        /\ Goto(n, "considering")
        /\ Contest(n)
        /\ UNCHANGED pending
  /\ UNCHANGED <<todo, residents, reviews, matching, ledger, inbox, faults, uncertain, unmatched,
                 withdrawn>>

(* notification_sent *)
NotificationSent(n) == ledger[Pair(n)] = "sent"

(* A watch that has a "sent" row is passed over; any other is considered,  *)
(* failed and skipped ones again.                                          *)
Consider(n) ==
  /\ pc[n] = "watches"
  /\ pending[n] # <<>>
  /\ \/ /\ NotificationSent(n)
        /\ pending' = [pending EXCEPT ![n] = Tail(@)]
        /\ UNCHANGED <<pc, contested>>
     \/ /\ ~NotificationSent(n)
        /\ Goto(n, "considering")
        /\ Contest(n)
        /\ UNCHANGED pending
  /\ UNCHANGED <<todo, residents, reviews, matching, ledger, inbox, faults, uncertain, unmatched,
                 withdrawn>>

(* The matter's case is loaded and its bodies and area are matched with    *)
(* the watch.                                                              *)
Judge(n) ==
  /\ pc[n] = "considering"
  /\ Goto(n, IF Pair(n) \in matching THEN "matched" ELSE "skipping")
  /\ unmatched' = unmatched \ {n}
  /\ UNCHANGED <<todo, pending, residents, reviews, matching, ledger, inbox, faults, uncertain,
                 contested, withdrawn>>

(* Fault: the review is not read again before it is sent. *)
ReadNothing(n) ==
  /\ pc[n] = "matched"
  /\ Goto(n, "sending")
  /\ withdrawn' = withdrawn \ {n}
  /\ UNCHANGED <<todo, pending, residents, reviews, matching, ledger, inbox, faults, uncertain,
                 contested, unmatched>>

(* _finding_for_delivery reads the review again, and raises when it is not *)
(* among the newest or was withdrawn meanwhile.                            *)
ReadReview(n) ==
  /\ pc[n] = "matched"
  /\ \/ /\ Findable(Finding(n)) /\ Finding(n) \in publishable
        /\ Goto(n, "sending")
        /\ UNCHANGED <<todo, pending>>
     \/ /\ ~(Findable(Finding(n)) /\ Finding(n) \in publishable)
        /\ Stopped(n)
  /\ withdrawn' = withdrawn \ {n}
  /\ UNCHANGED <<residents, reviews, matching, ledger, inbox, faults, uncertain, contested,
                 unmatched>>

(* Loading the case or geocoding the address raises, before the try block. *)
JudgeFails(n) ==
  /\ pc[n] = "considering"
  /\ Fault
  /\ Stopped(n)
  /\ UNCHANGED <<residents, reviews, matching, ledger, inbox, uncertain, histories>>

(* A watch that does not match is recorded as skipped, over any other row. *)
SaveSkipped(n) ==
  /\ pc[n] = "skipping"
  /\ Record(n, "skipped")
  /\ pending' = [pending EXCEPT ![n] = Tail(@)]
  /\ Goto(n, "watches")
  /\ UNCHANGED <<todo, residents, reviews, matching, inbox, faults, uncertain,
                 histories>>

(* The provider accepts the email and answers. *)
Accept(n) ==
  /\ pc[n] = "sending"
  /\ Finding(n) \notin Unsendable
  /\ Send(n)
  /\ Goto(n, "accepted")
  /\ UNCHANGED <<todo, pending, residents, reviews, matching, ledger, faults, uncertain,
                 histories>>

(* The provider accepts the email and its answer is lost or unreadable. *)
LoseAnswer(n) ==
  /\ pc[n] = "sending"
  /\ Finding(n) \notin Unsendable
  /\ Fault
  /\ Send(n)
  /\ uncertain' = uncertain \cup {Pair(n)}
  /\ Goto(n, "raised")
  /\ UNCHANGED <<todo, pending, residents, reviews, matching, ledger, histories>>

(* Nothing is sent: the parameters or the provider raise. *)
Refuse(n) ==
  /\ pc[n] = "sending"
  /\ Fault
  /\ Goto(n, "raised")
  /\ UNCHANGED <<todo, pending, residents, reviews, matching, ledger, inbox, uncertain, histories>>

(* Rendering raises every time: the brief lacks a part the email needs or  *)
(* holds a word from the list of prohibited ones.                          *)
RenderFails(n) ==
  /\ pc[n] = "sending"
  /\ Finding(n) \in Unsendable
  /\ Goto(n, "raised")
  /\ UNCHANGED <<todo, pending, residents, reviews, matching, ledger, inbox, faults, uncertain,
                 histories>>

SaveSent(n) ==
  /\ pc[n] = "accepted"
  /\ Record(n, "sent")
  /\ pending' = [pending EXCEPT ![n] = Tail(@)]
  /\ Goto(n, "watches")
  /\ UNCHANGED <<todo, residents, reviews, matching, inbox, faults, uncertain,
                 histories>>

(* Fault: an exception is recorded as a delivery. *)
SaveFailedAsSent(n) ==
  /\ pc[n] = "raised"
  /\ Record(n, "sent")
  /\ Stopped(n)
  /\ UNCHANGED <<residents, reviews, matching, inbox, faults, uncertain,
                 histories>>

(* "failed" is committed and the exception raised again: the run is over. *)
SaveFailed(n) ==
  /\ pc[n] = "raised"
  /\ Record(n, "failed")
  /\ Stopped(n)
  /\ UNCHANGED <<residents, reviews, matching, inbox, faults, uncertain,
                 histories>>

Crash(n) ==
  /\ pc[n] # "idle"
  /\ Fault
  /\ uncertain' = IF pc[n] = "accepted" THEN uncertain \cup {Pair(n)} ELSE uncertain
  /\ Stopped(n)
  /\ UNCHANGED <<residents, reviews, matching, ledger, inbox, histories>>

(***************************************************************************)
(* Around them.                                                            *)
(***************************************************************************)

(* create_watch inserts an active watch. *)
CreateWatch(w) ==
  /\ w \notin Made
  /\ created' = [created EXCEPT ![w] = Cardinality(Made) + 1]
  /\ active' = active \cup {w}
  /\ UNCHANGED <<notifier, reviews, matching, ledger, inbox, faults, uncertain,
                 histories>>

(* deactivate_watch *)
StopWatch(w) ==
  /\ w \in active
  /\ active' = active \ {w}
  /\ UNCHANGED <<notifier, created, reviews, matching, ledger, inbox, faults, uncertain,
                 histories>>

(* An investigation saves its review: INSERT OR REPLACE under the matter's *)
(* finding id, as the most recently updated row.                           *)
SaveFinding(f, publish) ==
  /\ saves < MaxSaves
  /\ saves' = saves + 1
  /\ saved' = [saved EXCEPT ![f] = saves + 1]
  /\ publishable' = IF publish THEN publishable \cup {f} ELSE publishable \ {f}
  /\ withdrawn' = IF publish THEN withdrawn
                  ELSE withdrawn \cup {n \in Notifiers : pc[n] = "sending" /\ Finding(n) = f}
  /\ UNCHANGED <<notifier, residents, matching, ledger, inbox, faults, uncertain, contested,
                 unmatched>>

(* Records applied meanwhile show a selected body or the watch's area. *)
BeginMatch(w, f) ==
  /\ <<w, f>> \notin matching
  /\ matching' = matching \cup {<<w, f>>}
  /\ UNCHANGED <<notifier, residents, reviews, ledger, inbox, faults, uncertain,
                 histories>>

(* Records applied meanwhile rename the body or change the texts in which   *)
(* the watch's area was found: a merged row keeps only its latest values.  *)
EndMatch(w, f) ==
  /\ <<w, f>> \in matching
  /\ matching' = matching \ {<<w, f>>}
  /\ unmatched' = unmatched \cup
       {n \in Notifiers : pc[n] \in {"matched", "sending"} /\ Pair(n) = <<w, f>>}
  /\ UNCHANGED <<notifier, residents, reviews, ledger, inbox, faults, uncertain, contested,
                 withdrawn>>

Init ==
  /\ saved = [f \in Findings |-> 0]
  /\ publishable = {}
  /\ created = [w \in Watches |-> 0]
  /\ active = {}
  /\ matching = {}
  /\ ledger = [p \in Watches \X Findings |-> "none"]
  /\ inbox = [p \in Watches \X Findings |-> 0]
  /\ pc = [n \in Notifiers |-> "idle"]
  /\ todo = [n \in Notifiers |-> <<>>]
  /\ pending = [n \in Notifiers |-> <<>>]
  /\ saves = 0
  /\ faults = 0
  /\ uncertain = {}
  /\ contested = {}
  /\ unmatched = {}
  /\ withdrawn = {}

(* A notifier's own steps, with nothing going wrong around it. *)
Step(n) ==
  \/ StartScheduled(n)
  \/ FinishRun(n)
  \/ OpenFinding(n)
  \/ CloseFinding(n)
  \/ Consider(n)
  \/ Judge(n)
  \/ ReadReview(n)
  \/ SaveSkipped(n)
  \/ Accept(n)
  \/ RenderFails(n)
  \/ SaveSent(n)
  \/ SaveFailed(n)

(* All it may do. *)
Move(n) ==
  \/ Step(n)
  \/ \E f \in Findings : StartManual(n, f)
  \/ JudgeFails(n)
  \/ LoseAnswer(n)
  \/ Refuse(n)
  \/ Crash(n)

Next ==
  \/ \E n \in Notifiers : Move(n)
  \/ \E w \in Watches : CreateWatch(w) \/ StopWatch(w)
  \/ \E f \in Findings, publish \in BOOLEAN : SaveFinding(f, publish)
  \/ \E w \in Watches, f \in Findings : BeginMatch(w, f) \/ EndMatch(w, f)

Spec == Init /\ [][Next]_vars

(* cron starts the script again and again and the host runs it; faults are *)
(* finitely many, and nothing obliges residents or reviewers to act.       *)
FairSpec == Spec /\ \A n \in Scheduled : WF_vars(Step(n))

(***************************************************************************)
(* Properties.                                                             *)
(***************************************************************************)

Places == {"idle", "findings", "watches"} \cup PairPlaces

(* The types of the tables and of the notifiers' memory. *)
TypeOK ==
  /\ saved \in [Findings -> 0..saves]
  /\ publishable \subseteq Rows
  /\ created \in [Watches -> Nat]
  /\ active \subseteq Made
  /\ matching \subseteq Watches \X Findings
  /\ ledger \in [Watches \X Findings -> {"none", "skipped", "failed", "sent"}]
  /\ inbox \in [Watches \X Findings -> 0..2]
  /\ pc \in [Notifiers -> Places]
  /\ todo \in [Notifiers -> Seq(Findings)]
  /\ pending \in [Notifiers -> Seq(Watches)]
  /\ saves \in 0..MaxSaves /\ faults \in 0..MaxFaults
  /\ uncertain \subseteq Watches \X Findings /\ contested \subseteq Watches \X Findings
  /\ unmatched \subseteq Notifiers /\ withdrawn \subseteq Notifiers

(* A pair is recorded as sent only when the provider accepted its email,   *)
(* however notifiers interleave and wherever they are killed: "sent" hides *)
(* the pair from every later run, so a wrong one loses the email for good. *)
SentMeansAccepted ==
  \A p \in Watches \X Findings : ledger[p] = "sent" => inbox[p] > 0

(* Every email was warranted when its notifier looked: the watch matched   *)
(* when the notifier judged it, or still does, and the review was          *)
(* publishable when the notifier read it again after that, or still is.    *)
(* A review withdrawn, or a match ended, any earlier in the run than that  *)
(* is not emailed, by hand or on schedule (delivery.py 363-417).           *)
EmailsAreWarranted ==
  [][\A w \in Watches, f \in Findings : inbox'[<<w, f>>] # inbox[<<w, f>>] =>
       \E n \in Notifiers :
         /\ pc[n] = "sending" /\ Pair(n) = <<w, f>> /\ w \in Made
         /\ <<w, f>> \in matching \/ n \in unmatched
         /\ f \in publishable \/ n \in withdrawn]_inbox

(* A second email for a pair needs a first one whose acceptance never      *)
(* reached the ledger (the notifier was killed before the commit, or the   *)
(* provider's answer was lost), or two notifiers that had the pair in hand *)
(* at once, which the script's lock prevents and notify_finding.py, run    *)
(* by hand without it, does not.                                           *)
DuplicateNeedsLostRecord ==
  \A p \in Watches \X Findings : inbox[p] > 1 => p \in uncertain \cup contested

(* "sent" is never overwritten, unless two notifiers had the pair in hand  *)
(* at once: the check of notification_sent and the later save of "skipped" *)
(* or "failed" are separate commits, with nothing but the script's lock    *)
(* between them.                                                           *)
SentIsFinal ==
  [][\A p \in (Watches \X Findings) \ contested' :
       ledger[p] = "sent" => ledger'[p] = "sent"]_ledger

(* A pair that should have an email: an active watch that matches a        *)
(* publishable review.                                                     *)
Deliverable(w, f) == w \in active /\ f \in publishable /\ <<w, f>> \in matching

(* What ends every scheduled run before it comes to review f: f has        *)
(* dropped out of the newest rows, though the script lists 10000 of them   *)
(* and deliver_finding finds 200; or a newer publishable review that       *)
(* matches somebody's watch cannot be rendered, raises each time and is    *)
(* never recorded as sent.                                                 *)
Blocked(f) ==
  \/ ~Findable(f)
  \/ \E g \in Unsendable \cap publishable, v \in active :
       saved[f] < saved[g] /\ <<v, g>> \in matching

(* "Deliver all saved publishable reviews that have not already been sent" *)
(* (notify_findings.py 2) holds with exactly these exceptions: once faults *)
(* have stopped, every pair that stays deliverable is emailed, "failed"    *)
(* and "skipped" ones included, if its email can be rendered and nothing   *)
(* newer blocks it.  (So a failure in another city's turn of the same run  *)
(* would, which is outside this module.)                                   *)
EveryReviewDelivered ==
  \A w \in Watches, f \in Findings \ Unsendable :
    Deliverable(w, f) /\ ~Blocked(f) ~>
      (inbox[<<w, f>>] > 0 \/ ~Deliverable(w, f) \/ Blocked(f))
=============================================================================
