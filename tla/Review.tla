------------------------------- MODULE Review -------------------------------
(***************************************************************************)
(* The review of one matter: the web service's investigate, the agents'    *)
(* answer, _complete_review with its vetoes and its policy, and the saved  *)
(* finding (web/service.py, analysis/investigation.py, policy.py), while   *)
(* the pipeline goes on changing the records of the matter.                *)
(*                                                                         *)
(* With Managed the agents run in the managed runtime: the case sent to    *)
(* them is loaded before the call, and the case their answer is reviewed   *)
(* against after it.  Without it both are the same.                        *)
(*                                                                         *)
(* The list of rejected observations with their reasons, the brief that is *)
(* rebuilt from the accepted ones, the norms and the run history are left  *)
(* out.  A later appearance is the only kind that arrives.                 *)
(***************************************************************************)
EXTENDS Drift

CONSTANTS
  Threads,            \* Requests the web service handles at a time.
  Managed,            \* Whether the agents run in the managed runtime.
  MinimumSupported,   \* minimum_supported_observations of policy.yaml.
  Notes,              \* What readers may report: see Reported.
  Kinds,              \* Appearances as they get recorded.
  InitialCases,       \* The matter as the service starts.
  MaxAppearances, MaxChanges

ASSUME ReviewConstants ==
  /\ Managed \in BOOLEAN
  /\ MinimumSupported \in Nat \ {0}
  /\ IsFiniteSet(Notes)
  /\ Notes \subseteq [role : {"archivist", "process", "substance"}, id : STRING,
                     direction : Direction, back : Nat,
                     cites : {"item", "agenda", "paper", "listing", "matter"}]
  /\ Kinds \subseteq Appearance
  /\ InitialCases \subseteq Seq(Appearance)
  /\ MaxAppearances \in Nat /\ MaxChanges \in Nat

VARIABLES
  history,     \* The successive states of the matter's records.
  inFlight,    \* Whether the matter is in _investigations_in_flight.
  pc,          \* Where each request is.
  asked,       \* The state of the matter its agents were given.
  loaded,      \* The state of the matter its answer is reviewed against.
  finding,     \* The findings row of the matter.
  heard        \* History: what the finding's skeptic accepted, and of which case.

requests == <<inFlight, pc, asked, loaded>>
vars == <<history, requests, finding, heard>>

(***************************************************************************)
(* The agents' answer.                                                     *)
(***************************************************************************)

(* The note n of a reader, about the case c: it cites the matter, or what  *)
(* is on record of the n.back-th appearance from the end.                  *)
Reported(n, c) ==
  LET i == Len(c) - n.back
  IN  [role |-> n.role, id |-> n.id, direction |-> n.direction,
       link |-> CASE n.cites = "item" -> ItemLink(c, i)
                  [] n.cites = "agenda" -> AgendaLink(c, i)
                  [] n.cites = "paper" -> PaperLink(c, i)
                  [] n.cites = "listing" -> ListingLink(c, i)
                  [] n.cites = "matter" -> MatterLink]

(* The notes readers of the case c may make. *)
Readings(c) ==
  {r \in {Reported(n, c) : n \in {n \in Notes : n.back < Len(c)}} : r.link \in Sources(c)}

(* The ids by which a skeptic may name what it was given. *)
Names(notes, c) == {r.id : r \in notes} \cup {o.id[2] : o \in Structural(c)}

(* _agent_reports: notes get their reader's name, the last comparison is   *)
(* added, and an accepted id counts if it means one observation only.      *)
Heard(notes, ids, c) ==
  LET all == {[id |-> <<r.role, r.id>>, direction |-> r.direction, links |-> {r.link}] : r \in notes}
               \cup Structural(c)
  IN  {o \in all : o.id[2] \in ids /\ \A other \in all : other.id[2] = o.id[2] => other = o}

(* The checks of _validate_agent_reports and _agent_reports, each of which *)
(* raises: sources of the case, a document for a change of substance, no   *)
(* id twice or reserved, no unknown id.                                    *)
Sound(notes, ids, c) ==
  /\ \A r \in notes : r.link \in Sources(c) /\ (r.role = "substance" => r.link[2] = "paper")
  /\ \A r, s \in notes : r.role = s.role /\ r.id = s.id => r = s
  /\ \A r \in notes, o \in Structural(c) : r.id # o.id[2]
  /\ ids \subseteq Names(notes, c)

(***************************************************************************)
(* Vetoes and policy.                                                      *)
(***************************************************************************)

(* The sources of the comparisons that a change of substance explains. *)
ExplainedLinks(c) ==
  UNION {o.links : o \in UNION {Compared(c, i) : i \in {i \in Pairs(c) : Explained(c, i)}}}

(* deterministic_vetoes *)
Vetoes(c, accepted) ==
  {o \in accepted : o.direction = "less_clear" /\ o.links \cap ExplainedLinks(c) # {}}

(* apply_evidence_policy *)
Publishes(observations) ==
  Cardinality(observations) >= MinimumSupported /\ StateOf(observations) # "cannot_determine"

(* _complete_review, for what the skeptic accepted. *)
Decision(accepted, basis) ==
  LET upheld == accepted \ Vetoes(history[basis], accepted)
  IN  [basis |-> basis, accepted |-> upheld,
       state |-> StateOf(upheld), publish |-> Publishes(upheld)]

NoFinding == [basis |-> 0, accepted |-> {}, state |-> "cannot_determine", publish |-> FALSE]

(***************************************************************************)
(* Requests.                                                               *)
(***************************************************************************)

Goto(p, place) == pc' = [pc EXCEPT ![p] = place]

(* A request ends: the key is discarded, whatever happened. *)
Ended(p) ==
  /\ Goto(p, "idle")
  /\ inFlight' = FALSE
  /\ asked' = [asked EXCEPT ![p] = 0]
  /\ loaded' = [loaded EXCEPT ![p] = 0]

(* Fault: the key of a matter is not looked for. *)
RequestUnlocked(p) ==
  /\ pc[p] = "idle"
  /\ inFlight' = TRUE
  /\ Goto(p, "loading")
  /\ UNCHANGED <<history, asked, loaded, finding, heard>>

(* A request for a matter under investigation is refused. *)
Request(p) ==
  /\ pc[p] = "idle"
  /\ ~inFlight
  /\ inFlight' = TRUE
  /\ Goto(p, "loading")
  /\ UNCHANGED <<history, asked, loaded, finding, heard>>

LoadCase(p) ==
  /\ pc[p] = "loading"
  /\ asked' = [asked EXCEPT ![p] = Len(history)]
  /\ Goto(p, "asking")
  /\ UNCHANGED <<history, inFlight, loaded, finding, heard>>

(* Fault: the answer is reviewed against the matter as it is now. *)
AnswerReloading(p) ==
  /\ pc[p] = "asking"
  /\ loaded' = [loaded EXCEPT ![p] = Len(history)]
  /\ Goto(p, "reviewing")
  /\ UNCHANGED <<history, inFlight, asked, finding, heard>>

(* investigate_matter reviews an answer against the case its graph was      *)
(* given; review_graph_payload loads the case again.                       *)
Reviewed(p) == IF Managed THEN Len(history) ELSE asked[p]

(* The graph returns. *)
Answer(p) ==
  /\ pc[p] = "asking"
  /\ loaded' = [loaded EXCEPT ![p] = Reviewed(p)]
  /\ Goto(p, "reviewing")
  /\ UNCHANGED <<history, inFlight, asked, finding, heard>>

(* _complete_review and _save_outcome.  The readers and the skeptic worked *)
(* on the case they were given.                                            *)
Save(p) ==
  /\ pc[p] = "reviewing"
  /\ LET given == history[asked[p]]
         case == history[loaded[p]]
     IN  \E notes \in SUBSET Readings(given) :
           \E ids \in SUBSET Names(notes, given) :
             /\ Sound(notes, ids, case)
             /\ finding' = Decision(Heard(notes, ids, case), loaded[p])
             /\ heard' = [asked |-> asked[p], accepted |-> Heard(notes, ids, case)]
  /\ Ended(p)
  /\ UNCHANGED history

(* Loading, the model service, a report or a brief raises: a failed run is *)
(* recorded, and the finding stays.                                        *)
Fail(p) ==
  /\ pc[p] # "idle"
  /\ Ended(p)
  /\ UNCHANGED <<history, finding, heard>>

(* The service is restarted: requests and keys are gone. *)
Restart ==
  /\ inFlight' = FALSE
  /\ pc' = [p \in Threads |-> "idle"]
  /\ asked' = [p \in Threads |-> 0]
  /\ loaded' = [p \in Threads |-> 0]
  /\ UNCHANGED <<history, finding, heard>>

(* The pipeline records a later appearance, or more about an earlier one.  *)
RecordsChange ==
  /\ Len(history) <= MaxChanges
  /\ LET case == history[Len(history)]
     IN  \E a \in Kinds :
           \/ /\ Len(case) < MaxAppearances
              /\ history' = Append(history, Append(case, a))
           \/ \E i \in DOMAIN case :
                /\ a # case[i]
                /\ history' = Append(history, [case EXCEPT ![i] = a])
  /\ UNCHANGED <<requests, finding, heard>>

Init ==
  /\ \E case \in InitialCases : history = <<case>>
  /\ inFlight = FALSE
  /\ pc = [p \in Threads |-> "idle"]
  /\ asked = [p \in Threads |-> 0]
  /\ loaded = [p \in Threads |-> 0]
  /\ finding = NoFinding
  /\ heard = [asked |-> 0, accepted |-> {}]

Next ==
  \/ \E p \in Threads :
       Request(p) \/ LoadCase(p) \/ Answer(p) \/ Save(p) \/ Fail(p)
  \/ Restart
  \/ RecordsChange

Spec == Init /\ [][Next]_vars

(***************************************************************************)
(* Properties.                                                             *)
(***************************************************************************)

TypeOK ==
  /\ history \in Seq(Seq(Appearance)) /\ history # <<>>
  /\ inFlight \in BOOLEAN
  /\ pc \in [Threads -> {"idle", "loading", "asking", "reviewing"}]
  /\ asked \in [Threads -> 0..Len(history)]
  /\ loaded \in [Threads -> 0..Len(history)]
  /\ finding.basis \in 0..Len(history)
  /\ finding.state \in {"clearer", "less_clear", "mixed", "unchanged", "cannot_determine"}
  /\ finding.publish \in BOOLEAN
  /\ finding.accepted \subseteq heard.accepted
  /\ heard.asked \in 0..Len(history)

(* "Brief Writer: Skeptic-approved observations only" (architecture.md     *)
(* 114): a comparison that a finding rests on is one its skeptic was       *)
(* shown, whatever was recorded while the agents were at work.             *)
AcceptedWasShown ==
  \A o \in finding.accepted : o.id[1] = "record" => o \in Structural(history[heard.asked])

(* The last two titles on record as a concern: the later says less.        *)
TitleConcerns(c) ==
  IF Pairs(c) = {} THEN {} ELSE {o \in TitleObservations(c, Len(c) - 1) : o.direction = "less_clear"}

(* "It only fires when the document anchors show a material substance      *)
(* change and the later title represents the later substance better"       *)
(* (policy.py 131): that the last title says less than the one before it,  *)
(* which excludes the latter, is never taken from a finding on account of  *)
(* these two.  The code does take it on account of the pair before them,   *)
(* with which it shares a source.                                          *)
TitleConcernsStand ==
  LET case == history[finding.basis]
  IN  finding.basis > 0 =>
        \A o \in heard.accepted \cap TitleConcerns(case) :
          o \in finding.accepted \/ (Len(case) > 2 /\ Explained(case, Len(case) - 2))

(* A veto withholds: it never publishes what the skeptic's observations    *)
(* alone would not have published, and raises no concern of its own.       *)
VetoesOnlyWithhold ==
  /\ finding.publish => Publishes(heard.accepted)
  /\ finding.state \in {"less_clear", "mixed"} => StateOf(heard.accepted) \in {"less_clear", "mixed"}

(* With the key held for as long as an investigation lasts, a finding is   *)
(* never replaced by one about an earlier state of the records.            *)
FindingsNeverGoBack == [][finding'.basis >= finding.basis]_finding

(* Comparing two appearances the other way round gives the opposite        *)
(* direction, so that a city's order of presenting them decides nothing.   *)
Opposite(direction) ==
  CASE direction = "clearer" -> "less_clear"
    [] direction = "less_clear" -> "clearer"
    [] OTHER -> "neutral"

ReversalIsOpposite ==
  LET case == history[Len(history)]
  IN  \A i, j \in DOMAIN case :
        /\ TitleDirection(case[j], case[i]) = Opposite(TitleDirection(case[i], case[j]))
        /\ case[i].placement # "unknown" /\ case[j].placement # "unknown" =>
             PlacementDirection(case[j], case[i]) = Opposite(PlacementDirection(case[i], case[j]))
=============================================================================
