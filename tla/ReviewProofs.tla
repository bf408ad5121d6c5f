---------------------------- MODULE ReviewProofs ----------------------------
(***************************************************************************)
(* What holds of comparisons, and of the reviews of a matter, for any      *)
(* records, readers' notes, skeptics, number of requests and bounds.  Only *)
(* that a finding rests on what its skeptic was shown needs the agents to  *)
(* run in the service itself.  At the end, what the label that a reader    *)
(* sees on a comparison says of the captures behind it.                    *)
(***************************************************************************)
EXTENDS Review, TLAPS, FiniteSetTheorems, NaturalsInduction, WellFoundedInduction

(***************************************************************************)
(* Comparisons.                                                            *)
(***************************************************************************)

(* A title names finitely many facets of finitely many.                    *)
LEMMA CoverageType ==
  ASSUME NEW a \in Appearance
  PROVE  Matched(a) \in Nat /\ Total(a) \in Nat
<1>1. a.facets \subseteq Facets
  BY DEF Appearance
<1>2. IsFiniteSet(a.facets) /\ IsFiniteSet(Named(a) \cap a.facets)
  BY <1>1, FacetsFinite, FS_Subset
<1>3. QED
  BY <1>2, FS_CardinalityType DEF Matched, Total

(* Of two titles at most one covers less than the other.                   *)
LEMMA CoversLessOneWay ==
  ASSUME NEW a \in Appearance, NEW b \in Appearance
  PROVE  ~(CoversLess(a, b) /\ CoversLess(b, a))
<1>1. Matched(a) \in Nat /\ Total(a) \in Nat /\ Matched(b) \in Nat /\ Total(b) \in Nat
  BY CoverageType
<1> DEFINE m == Matched(a) * Total(b)
           n == Matched(b) * Total(a)
<1>2. m \in Int /\ n \in Int
  BY <1>1
<1>3. CASE Total(a) > 0 /\ Total(b) > 0
  <2>1. (CoversLess(a, b) <=> m < n) /\ (CoversLess(b, a) <=> n < m)
    BY <1>3 DEF CoversLess
  <2> HIDE DEF m, n
  <2>2. QED
    BY <1>2, <2>1
<1>4. CASE ~(Total(a) > 0 /\ Total(b) > 0)
  BY <1>1, <1>4 DEF CoversLess
<1>5. QED
  BY <1>3, <1>4

(* Comparing two titles, or two placements, the other way round gives the  *)
(* opposite direction.                                                     *)
LEMMA TitleReversed ==
  ASSUME NEW a \in Appearance, NEW b \in Appearance
  PROVE  TitleDirection(b, a) = Opposite(TitleDirection(a, b))
BY CoversLessOneWay DEF TitleDirection, Opposite

LEMMA PlacementReversed ==
  ASSUME NEW a \in Appearance, NEW b \in Appearance,
         a.placement # "unknown", b.placement # "unknown"
  PROVE  PlacementDirection(b, a) = Opposite(PlacementDirection(a, b))
<1>1. a.placement \in {"consent", "regular"} /\ b.placement \in {"consent", "regular"}
  BY DEF Appearance
<1>2. QED
  BY <1>1 DEF PlacementDirection, Opposite

(***************************************************************************)
(* Type correctness.                                                       *)
(***************************************************************************)

(* A request has a state of the records in hand once it loaded one, and is *)
(* reviewed against no earlier one than the agents were given.             *)
InHand ==
  \A p \in Threads :
    /\ pc[p] \in {"asking", "reviewing"} => asked[p] > 0
    /\ pc[p] = "reviewing" => loaded[p] >= asked[p]

TypeInv == TypeOK /\ InHand

LEMMA TypeInit == Init => TypeInv
<1> SUFFICES ASSUME Init PROVE TypeInv
  OBVIOUS
<1>1. history \in Seq(Seq(Appearance)) /\ history # <<>> /\ Len(history) = 1
  <2>1. PICK case \in InitialCases : history = <<case>>
    BY DEF Init
  <2>2. case \in Seq(Appearance)
    BY ReviewConstants
  <2>3. QED
    BY <2>1, <2>2
<1>2. finding.basis = 0 /\ finding.state = "cannot_determine" /\ finding.publish = FALSE
        /\ finding.accepted = {} /\ heard.asked = 0
  BY DEF Init, NoFinding
<1>3. 0..Len(history) = 0..1 /\ 0 \in 0..1
  BY <1>1
<1>4. pc \in [Threads -> {"idle", "loading", "asking", "reviewing"}]
  BY DEF Init
<1>5. asked \in [Threads -> 0..1]
  BY <1>3 DEF Init
<1>6. loaded \in [Threads -> 0..1]
  BY <1>3 DEF Init
<1>7. inFlight \in BOOLEAN
  BY DEF Init
<1>8. TypeOK
  BY <1>1, <1>2, <1>3, <1>4, <1>5, <1>6, <1>7 DEF TypeOK
<1>9. InHand
  BY DEF Init, InHand
<1>10. QED
  BY <1>8, <1>9 DEF TypeInv

(* The last of the recorded states is a case. *)
LEMMA CaseType ==
  ASSUME TypeInv, NEW v \in 1..Len(history)
  PROVE  history[v] \in Seq(Appearance)
BY DEF TypeInv, TypeOK

LEMMA StateType ==
  ASSUME NEW S
  PROVE  /\ StateOf(S) \in {"clearer", "unchanged", "less_clear", "mixed", "cannot_determine"}
         /\ Publishes(S) \in BOOLEAN
BY DEF StateOf, Publishes

(* What saving a review does, for some notes and accepted ids.             *)
LEMMA SaveEffect ==
  ASSUME TypeInv, NEW p \in Threads, Save(p)
  PROVE  /\ asked[p] \in 1..Len(history)
         /\ loaded[p] \in 1..Len(history)
         /\ loaded[p] >= asked[p]
         /\ UNCHANGED history
         /\ Ended(p)
         /\ heard'.asked = asked[p]
         /\ finding' = Decision(heard'.accepted, loaded[p])
         /\ \E notes \in SUBSET Readings(history[asked[p]]) : \E ids :
              heard'.accepted = Heard(notes, ids, history[loaded[p]])
<1>1. pc[p] = "reviewing" /\ UNCHANGED history /\ Ended(p)
  BY DEF Save
<1>2. asked[p] > 0 /\ loaded[p] >= asked[p] /\ asked[p] \in 0..Len(history) /\ loaded[p] \in 0..Len(history)
  BY <1>1 DEF TypeInv, TypeOK, InHand
<1>3. Len(history) \in Nat
  BY DEF TypeInv, TypeOK
<1>4. PICK notes \in SUBSET Readings(history[asked[p]]) :
        \E ids \in SUBSET Names(notes, history[asked[p]]) :
          /\ finding' = Decision(Heard(notes, ids, history[loaded[p]]), loaded[p])
          /\ heard' = [asked |-> asked[p], accepted |-> Heard(notes, ids, history[loaded[p]])]
  BY DEF Save
<1>5. PICK ids \in SUBSET Names(notes, history[asked[p]]) :
        /\ finding' = Decision(Heard(notes, ids, history[loaded[p]]), loaded[p])
        /\ heard' = [asked |-> asked[p], accepted |-> Heard(notes, ids, history[loaded[p]])]
  BY <1>4
<1>6. heard'.asked = asked[p] /\ heard'.accepted = Heard(notes, ids, history[loaded[p]])
  BY <1>5
<1>7. QED
  BY <1>1, <1>2, <1>3, <1>5, <1>6

(* Records that change make a new state of the matter after the others.    *)
LEMMA ChangeEffect ==
  ASSUME TypeInv, RecordsChange
  PROVE  /\ \E case \in Seq(Appearance) : history' = Append(history, case)
         /\ history' \in Seq(Seq(Appearance))
         /\ Len(history') = Len(history) + 1
         /\ UNCHANGED <<requests, finding, heard>>
<1>1. history \in Seq(Seq(Appearance)) /\ Len(history) \in 1..Len(history)
  BY DEF TypeInv, TypeOK
<1> DEFINE case == history[Len(history)]
<1>2. case \in Seq(Appearance)
  BY <1>1
<1> HIDE DEF case
<1>3. \A a \in Kinds : Append(case, a) \in Seq(Appearance)
  BY <1>2, ReviewConstants
<1>4. \A a \in Kinds : \A i \in DOMAIN case : [case EXCEPT ![i] = a] \in Seq(Appearance)
  BY <1>2, ReviewConstants
<1>5. \E new \in Seq(Appearance) : history' = Append(history, new)
  BY <1>3, <1>4 DEF RecordsChange, case
<1>6. QED
  BY <1>1, <1>5 DEF RecordsChange

(* A request that ends leaves the others as they are. *)
LEMMA EndedType ==
  ASSUME TypeInv, NEW p \in Threads, Ended(p), UNCHANGED history
  PROVE  /\ inFlight' \in BOOLEAN
         /\ pc' \in [Threads -> {"idle", "loading", "asking", "reviewing"}]
         /\ asked' \in [Threads -> 0..Len(history')]
         /\ loaded' \in [Threads -> 0..Len(history')]
         /\ InHand'
<1>1. /\ pc \in [Threads -> {"idle", "loading", "asking", "reviewing"}]
      /\ asked \in [Threads -> 0..Len(history)]
      /\ loaded \in [Threads -> 0..Len(history)]
      /\ 0 \in 0..Len(history) /\ Len(history') = Len(history)
  BY DEF TypeInv, TypeOK
<1>2. pc' \in [Threads -> {"idle", "loading", "asking", "reviewing"}] /\ inFlight' \in BOOLEAN
  BY <1>1 DEF Ended, Goto
<1>3. asked' \in [Threads -> 0..Len(history')]
  BY <1>1 DEF Ended
<1>4. loaded' \in [Threads -> 0..Len(history')]
  BY <1>1 DEF Ended
<1>5. InHand'
  <2> SUFFICES ASSUME NEW q \in Threads
               PROVE  /\ pc'[q] \in {"asking", "reviewing"} => asked'[q] > 0
                      /\ pc'[q] = "reviewing" => loaded'[q] >= asked'[q]
    BY DEF InHand
  <2>1. CASE q = p
    BY <1>1, <2>1 DEF Ended, Goto
  <2>2. CASE q # p
    BY <1>1, <2>2 DEF Ended, Goto, TypeInv, InHand
  <2>3. QED
    BY <2>1, <2>2
<1>6. QED
  BY <1>2, <1>3, <1>4, <1>5

(* Each step of a request or of the records, and its effect on the types.  *)
LEMMA TypeStep == TypeInv /\ [Next]_vars => TypeInv'
<1> SUFFICES ASSUME TypeInv, [Next]_vars PROVE TypeInv'
  OBVIOUS
<1>1. /\ history \in Seq(Seq(Appearance)) /\ history # <<>> /\ Len(history) \in Nat \ {0}
      /\ inFlight \in BOOLEAN
      /\ pc \in [Threads -> {"idle", "loading", "asking", "reviewing"}]
      /\ asked \in [Threads -> 0..Len(history)]
      /\ loaded \in [Threads -> 0..Len(history)]
  BY DEF TypeInv, TypeOK
<1>2. ASSUME NEW p \in Threads, Request(p) PROVE TypeInv'
  BY <1>1, <1>2 DEF Request, Goto, TypeInv, TypeOK, InHand
<1>3. ASSUME NEW p \in Threads, LoadCase(p) PROVE TypeInv'
  BY <1>1, <1>3 DEF LoadCase, Goto, TypeInv, TypeOK, InHand
<1>4. ASSUME NEW p \in Threads, Answer(p) PROVE TypeInv'
  BY <1>1, <1>4 DEF Answer, Reviewed, Goto, TypeInv, TypeOK, InHand
<1>5. ASSUME NEW p \in Threads, Save(p) PROVE TypeInv'
  <2>1. /\ asked[p] \in 1..Len(history) /\ loaded[p] \in 1..Len(history)
        /\ UNCHANGED history /\ Ended(p) /\ heard'.asked = asked[p]
        /\ finding' = Decision(heard'.accepted, loaded[p])
    BY <1>5, SaveEffect
  <2>2. /\ finding'.basis = loaded[p]
        /\ finding'.accepted \subseteq heard'.accepted
        /\ finding'.state \in {"clearer", "unchanged", "less_clear", "mixed", "cannot_determine"}
        /\ finding'.publish \in BOOLEAN
    BY <2>1, StateType DEF Decision
  <2>3. QED
    BY <1>1, <2>1, <2>2, EndedType DEF TypeInv, TypeOK
<1>6. ASSUME NEW p \in Threads, Fail(p) PROVE TypeInv'
  <2>1. Ended(p) /\ UNCHANGED <<history, finding, heard>>
    BY <1>6 DEF Fail
  <2>2. QED
    BY <1>1, <2>1, EndedType DEF TypeInv, TypeOK
<1>7. CASE Restart
  <2>1. /\ history' = history /\ finding' = finding /\ heard' = heard
        /\ inFlight' = FALSE
        /\ 0 \in 0..Len(history)
    BY <1>1, <1>7 DEF Restart
  <2>2. pc' \in [Threads -> {"idle", "loading", "asking", "reviewing"}]
    BY <1>7 DEF Restart
  <2>3. asked' \in [Threads -> 0..Len(history)]
    BY <1>7, <2>1 DEF Restart
  <2>4. loaded' \in [Threads -> 0..Len(history)]
    BY <1>7, <2>1 DEF Restart
  <2>5. InHand'
    BY <1>7 DEF Restart, InHand
  <2>6. QED
    BY <1>1, <2>1, <2>2, <2>3, <2>4, <2>5 DEF TypeInv, TypeOK
<1>8. CASE RecordsChange
  <2>1. /\ history' \in Seq(Seq(Appearance)) /\ Len(history') = Len(history) + 1
        /\ UNCHANGED <<requests, finding, heard>>
    BY <1>8, ChangeEffect
  <2>2. 0..Len(history) \subseteq 0..Len(history') /\ history' # <<>>
    BY <1>1, <2>1
  <2>3. asked' \in [Threads -> 0..Len(history')] /\ loaded' \in [Threads -> 0..Len(history')]
    BY <1>1, <2>1, <2>2 DEF requests
  <2>4. QED
    BY <1>1, <2>1, <2>2, <2>3 DEF requests, TypeInv, TypeOK, InHand
<1>9. CASE UNCHANGED vars
  BY <1>9 DEF vars, requests, TypeInv, TypeOK, InHand
<1>10. QED
  BY <1>2, <1>3, <1>4, <1>5, <1>6, <1>7, <1>8, <1>9 DEF Next

(* The types hold of every review. *)
THEOREM TypeCorrect == Spec => []TypeOK
<1>1. TypeInv => TypeOK
  BY DEF TypeInv
<1>2. QED
  BY <1>1, TypeInit, TypeStep, PTL DEF Spec

(***************************************************************************)
(* Directions.                                                             *)
(***************************************************************************)

(* In every state of the matter, the direction of a change is the opposite *)
(* of that of the change back.                                             *)
THEOREM DirectionsReverse == Spec => []ReversalIsOpposite
<1>1. ASSUME TypeInv PROVE ReversalIsOpposite
  <2>1. history \in Seq(Seq(Appearance)) /\ Len(history) \in 1..Len(history)
    BY <1>1 DEF TypeInv, TypeOK
  <2>2. history[Len(history)] \in Seq(Appearance)
    BY <2>1
  <2>3. \A i \in DOMAIN history[Len(history)] : history[Len(history)][i] \in Appearance
    BY <2>2
  <2>4. QED
    BY <2>3, TitleReversed, PlacementReversed DEF ReversalIsOpposite
<1>2. QED
  BY <1>1, TypeInit, TypeStep, PTL DEF Spec

(***************************************************************************)
(* What a finding rests on.                                                *)
(***************************************************************************)

(* A case of the past stays as it was. *)
LEMMA HistoryKept ==
  ASSUME TypeInv, [Next]_vars, NEW v \in 1..Len(history)
  PROVE  history'[v] = history[v]
<1>1. CASE RecordsChange
  <2>1. PICK case \in Seq(Appearance) : history' = Append(history, case)
    BY <1>1, ChangeEffect
  <2>2. history \in Seq(Seq(Appearance))
    BY DEF TypeInv, TypeOK
  <2>3. QED
    BY <2>1, <2>2
<1>2. CASE ~RecordsChange
  BY <1>2 DEF Next, vars, Request, LoadCase, Answer, Save, Fail, Restart
<1>3. QED
  BY <1>1, <1>2

(* A finding and what was heard change by a save only. *)
LEMMA FindingStep ==
  ASSUME [Next]_vars
  PROVE  (\E p \in Threads : Save(p)) \/ UNCHANGED <<finding, heard>>
BY DEF Next, vars, Request, LoadCase, Answer, Fail, Restart, RecordsChange

(* The observations the agents' notes make, apart from the comparison.     *)
LEMMA HeardSources ==
  ASSUME NEW notes, NEW ids, NEW c, NEW o \in Heard(notes, ids, c), o.id[1] = "record",
         \A r \in notes : r.role # "record"
  PROVE  o \in Structural(c)
<1>1. CASE o \in Structural(c)
  BY <1>1
<1>2. CASE o \in {[id |-> <<r.role, r.id>>, direction |-> r.direction, links |-> {r.link}] : r \in notes}
  <2>1. PICK r \in notes : o = [id |-> <<r.role, r.id>>, direction |-> r.direction, links |-> {r.link}]
    BY <1>2
  <2>2. o.id[1] = r.role
    BY <2>1
  <2>3. QED
    BY <2>2
<1>3. QED
  BY <1>1, <1>2 DEF Heard

(* What a skeptic accepted of a comparison belongs to the case its answer  *)
(* is reviewed against.                                                    *)
LEMMA SaveHears ==
  ASSUME TypeInv, NEW p \in Threads, Save(p),
         NEW o \in heard'.accepted, o.id[1] = "record"
  PROVE  o \in Structural(history[loaded[p]])
<1>1. PICK notes \in SUBSET Readings(history[asked[p]]) :
        \E ids : heard'.accepted = Heard(notes, ids, history[loaded[p]])
  BY SaveEffect
<1>2. PICK ids : heard'.accepted = Heard(notes, ids, history[loaded[p]])
  BY <1>1
<1>3. \A r \in notes : r.role # "record"
  <2>1. \A n \in Notes : n.role \in {"archivist", "process", "substance"}
    BY ReviewConstants
  <2>2. \A n \in Notes : Reported(n, history[asked[p]]).role = n.role
    BY DEF Reported
  <2>3. QED
    BY <2>1, <2>2 DEF Readings
<1>4. QED
  BY <1>2, <1>3, HeardSources

(* Where the agents run in the service, both cases are the same one. *)
SameCase == \A p \in Threads : pc[p] = "reviewing" => loaded[p] = asked[p]

HeardCase == finding.accepted # {} => heard.asked > 0

ShownInv == SameCase /\ HeardCase /\ AcceptedWasShown

LEMMA ShownInit == Init => ShownInv
BY DEF Init, ShownInv, SameCase, HeardCase, AcceptedWasShown, NoFinding

LEMMA SameCaseStep ==
  ASSUME ~Managed, TypeInv, [Next]_vars, SameCase
  PROVE  SameCase'
<1> SUFFICES ASSUME NEW q \in Threads PROVE pc'[q] = "reviewing" => loaded'[q] = asked'[q]
  BY DEF SameCase
<1>1. /\ pc \in [Threads -> {"idle", "loading", "asking", "reviewing"}]
      /\ asked \in [Threads -> 0..Len(history)]
      /\ loaded \in [Threads -> 0..Len(history)]
  BY DEF TypeInv, TypeOK
<1>2. ASSUME NEW p \in Threads, Ended(p) PROVE pc'[q] = "reviewing" => loaded'[q] = asked'[q]
  <2>1. CASE q = p
    BY <1>1, <1>2, <2>1 DEF Ended, Goto
  <2>2. CASE q # p
    BY <1>1, <1>2, <2>2 DEF Ended, Goto, SameCase
  <2>3. QED
    BY <2>1, <2>2
<1>3. ASSUME NEW p \in Threads, Request(p) PROVE pc'[q] = "reviewing" => loaded'[q] = asked'[q]
  BY <1>1, <1>3 DEF Request, Goto, SameCase
<1>4. ASSUME NEW p \in Threads, LoadCase(p) PROVE pc'[q] = "reviewing" => loaded'[q] = asked'[q]
  BY <1>1, <1>4 DEF LoadCase, Goto, SameCase
<1>5. ASSUME NEW p \in Threads, Answer(p) PROVE pc'[q] = "reviewing" => loaded'[q] = asked'[q]
  BY <1>1, <1>5 DEF Answer, Reviewed, Goto, SameCase
<1>6. CASE Restart
  BY <1>6 DEF Restart
<1>7. CASE RecordsChange
  BY <1>7 DEF RecordsChange, requests, SameCase
<1>8. CASE UNCHANGED vars
  BY <1>8 DEF vars, requests, SameCase
<1>9. QED
  BY <1>2, <1>3, <1>4, <1>5, <1>6, <1>7, <1>8 DEF Next, Save, Fail

LEMMA ShownStep ==
  ASSUME ~Managed, TypeInv, [Next]_vars, ShownInv
  PROVE  ShownInv'
<1>1. SameCase'
  BY SameCaseStep DEF ShownInv
<1>2. ASSUME NEW p \in Threads, Save(p) PROVE HeardCase' /\ AcceptedWasShown'
  <2>1. /\ asked[p] \in 1..Len(history) /\ heard'.asked = asked[p] /\ UNCHANGED history
        /\ finding' = Decision(heard'.accepted, loaded[p])
    BY <1>2, SaveEffect
  <2>2. finding'.accepted \subseteq heard'.accepted
    BY <2>1 DEF Decision
  <2>3. loaded[p] = asked[p]
    BY <1>2 DEF Save, ShownInv, SameCase
  <2>4. \A o \in heard'.accepted : o.id[1] = "record" => o \in Structural(history[asked[p]])
    BY <1>2, <2>3, SaveHears
  <2>5. HeardCase'
    BY <2>1 DEF HeardCase
  <2>6. AcceptedWasShown'
    BY <2>1, <2>2, <2>4 DEF AcceptedWasShown
  <2>7. QED
    BY <2>5, <2>6
<1>3. CASE UNCHANGED <<finding, heard>>
  <2>1. HeardCase'
    BY <1>3 DEF ShownInv, HeardCase
  <2>2. ASSUME NEW o \in finding.accepted PROVE history'[heard.asked] = history[heard.asked]
    <3>1. heard.asked \in 1..Len(history)
      BY <2>2 DEF ShownInv, HeardCase, TypeInv, TypeOK
    <3>2. QED
      BY <3>1, HistoryKept
  <2>3. ASSUME NEW o \in finding'.accepted, o.id[1] = "record"
        PROVE  o \in Structural(history'[heard'.asked])
    <3>1. o \in finding.accepted /\ heard'.asked = heard.asked
      BY <1>3
    <3>2. o \in Structural(history[heard.asked])
      BY <2>3, <3>1 DEF ShownInv, AcceptedWasShown
    <3>3. history'[heard'.asked] = history[heard.asked]
      BY <2>2, <3>1
    <3>4. QED
      BY <3>2, <3>3
  <2>4. AcceptedWasShown'
    BY <2>3 DEF AcceptedWasShown
  <2>5. QED
    BY <1>1, <2>1, <2>4 DEF ShownInv
<1>4. QED
  BY <1>1, <1>2, <1>3, FindingStep DEF ShownInv

(* A finding rests on comparisons its skeptic was shown, where the agents  *)
(* run in the service.                                                     *)
THEOREM FindingsWereShown == ASSUME ~Managed PROVE Spec => []AcceptedWasShown
<1>1. Init => TypeInv /\ ShownInv
  BY TypeInit, ShownInit
<1>2. TypeInv /\ ShownInv /\ [Next]_vars => (TypeInv /\ ShownInv)'
  BY TypeStep, ShownStep
<1>3. TypeInv /\ ShownInv => AcceptedWasShown
  BY DEF ShownInv
<1>4. QED
  BY <1>1, <1>2, <1>3, PTL DEF Spec

(***************************************************************************)
(* What vetoes do.                                                         *)
(***************************************************************************)

(* A comparison of items shares sources with the pairs beside it only.     *)
LEMMA SharedSource ==
  ASSUME NEW c \in Seq(Appearance), NEW j \in Nat, NEW i \in Pairs(c),
         NEW o \in Compared(c, i), ItemLink(c, j) \in o.links
  PROVE  i = j \/ i + 1 = j
<1>1. i \in Nat
  BY DEF Pairs
<1>2. CASE o \in TitleObservations(c, i)
  <2>1. o.links = {ItemLink(c, i), ItemLink(c, i + 1)}
    BY <1>2 DEF TitleObservations
  <2>2. QED
    BY <2>1 DEF ItemLink
<1>3. CASE o \in PlacementObservations(c, i)
  <2>1. o.links = {AgendaLink(c, i), AgendaLink(c, i + 1)}
    BY <1>3 DEF PlacementObservations
  <2>2. QED
    BY <2>1 DEF ItemLink, AgendaLink
<1>4. QED
  BY <1>2, <1>3 DEF Compared

(* A title that says less of its paper is no better title of it.           *)
LEMMA ConcernStands ==
  ASSUME NEW c \in Seq(Appearance), NEW all, NEW o \in all \cap TitleConcerns(c)
  PROVE  o \notin Vetoes(c, all) \/ (Len(c) > 2 /\ Explained(c, Len(c) - 2))
<1>1. SUFFICES ASSUME o \in Vetoes(c, all)
               PROVE  Len(c) > 2 /\ Explained(c, Len(c) - 2)
  OBVIOUS
<1>2. PICK n : n = Len(c)
  OBVIOUS
<1>3. /\ n \in Nat /\ Pairs(c) = 1..(n - 1) /\ n - 1 \in 1..(n - 1)
      /\ o \in TitleObservations(c, n - 1) /\ o.direction = "less_clear"
  BY <1>2 DEF TitleConcerns, Pairs
<1>4. /\ o.links = {ItemLink(c, n - 1), ItemLink(c, (n - 1) + 1)}
      /\ TitleDirection(c[n - 1], c[(n - 1) + 1]) = "less_clear"
  BY <1>3 DEF TitleObservations
<1>5. c[n - 1] \in Appearance /\ c[n] \in Appearance /\ (n - 1) + 1 = n
  BY <1>2, <1>3
<1>6. CoversLess(c[n], c[n - 1])
  BY <1>4, <1>5 DEF TitleDirection
<1>7. ~Explained(c, n - 1)
  BY <1>5, <1>6, CoversLessOneWay DEF Explained
<1>8. PICK i \in Pairs(c) : Explained(c, i) /\ \E e \in Compared(c, i) : e.links \cap o.links # {}
  <2>1. PICK l \in o.links : l \in ExplainedLinks(c)
    BY <1>1 DEF Vetoes
  <2>2. PICK i \in Pairs(c) : Explained(c, i) /\ \E e \in Compared(c, i) : l \in e.links
    BY <2>1 DEF ExplainedLinks
  <2>3. QED
    BY <2>1, <2>2
<1>9. PICK e \in Compared(c, i) : ItemLink(c, n - 1) \in e.links \/ ItemLink(c, n) \in e.links
  BY <1>4, <1>5, <1>8
<1>10. n - 1 \in Nat /\ i \in 1..(n - 1)
  BY <1>3
<1>11. i = n - 1 \/ i + 1 = n - 1 \/ i = n \/ i + 1 = n
  BY <1>3, <1>9, <1>10, SharedSource
<1>12. i = n - 2 /\ n > 2
  BY <1>3, <1>7, <1>8, <1>10, <1>11
<1>13. QED
  BY <1>2, <1>8, <1>12

LEMMA ConcernsInit == Init => TitleConcernsStand
BY DEF Init, NoFinding, TitleConcernsStand

LEMMA ConcernsStep ==
  ASSUME TypeInv, [Next]_vars, TitleConcernsStand
  PROVE  TitleConcernsStand'
<1>1. ASSUME NEW p \in Threads, Save(p) PROVE TitleConcernsStand'
  <2>1. /\ loaded[p] \in 1..Len(history) /\ history' = history
        /\ finding' = Decision(heard'.accepted, loaded[p])
    BY <1>1, SaveEffect
  <2>2. PICK c : c = history[loaded[p]]
    OBVIOUS
  <2>3. c \in Seq(Appearance)
    BY <2>1, <2>2 DEF TypeInv, TypeOK
  <2>4. /\ finding'.basis = loaded[p]
        /\ finding'.accepted = heard'.accepted \ Vetoes(c, heard'.accepted)
    BY <2>1, <2>2 DEF Decision
  <2>5. \A o \in heard'.accepted \cap TitleConcerns(c) :
          o \in finding'.accepted \/ (Len(c) > 2 /\ Explained(c, Len(c) - 2))
    BY <2>3, <2>4, ConcernStands
  <2>6. history'[finding'.basis] = c
    BY <2>1, <2>2, <2>4
  <2>7. QED
    BY <2>5, <2>6 DEF TitleConcernsStand
<1>2. CASE UNCHANGED <<finding, heard>>
  <2>1. CASE finding.basis > 0
    <3>1. finding.basis \in 1..Len(history)
      BY <2>1 DEF TypeInv, TypeOK
    <3>2. history'[finding'.basis] = history[finding.basis]
      BY <1>2, <3>1, HistoryKept
    <3>3. QED
      BY <1>2, <2>1, <3>2 DEF TitleConcernsStand
  <2>2. CASE ~(finding.basis > 0)
    BY <1>2, <2>2 DEF TitleConcernsStand
  <2>3. QED
    BY <2>1, <2>2
<1>3. QED
  BY <1>1, <1>2, FindingStep

(* deterministic_vetoes (policy.py 125) takes from a finding no comparison *)
(* of the last two titles by which the later says less, unless a source    *)
(* is shared with an explained pair before: its own pair never explains it.*)
THEOREM TitleConcernsUpheld == Spec => []TitleConcernsStand
<1>1. Init => TypeInv /\ TitleConcernsStand
  BY TypeInit, ConcernsInit
<1>2. TypeInv /\ TitleConcernsStand /\ [Next]_vars => (TypeInv /\ TitleConcernsStand)'
  BY TypeStep, ConcernsStep
<1>3. QED
  BY <1>1, <1>2, PTL DEF Spec

(* Of finitely many observations, those that are left determine no more.   *)
LEMMA Withholding ==
  ASSUME NEW all, IsFiniteSet(all), NEW upheld \in SUBSET all
  PROVE  /\ Publishes(upheld) => Publishes(all)
         /\ StateOf(upheld) \in {"less_clear", "mixed"} => StateOf(all) \in {"less_clear", "mixed"}
<1>1. /\ IsFiniteSet(upheld) /\ Cardinality(upheld) \in Nat /\ Cardinality(all) \in Nat
      /\ Cardinality(upheld) <= Cardinality(all)
  BY FS_Subset, FS_CardinalityType
<1>2. MinimumSupported \in Nat
  BY ReviewConstants
<1>3. StateOf(upheld) # "cannot_determine" => StateOf(all) # "cannot_determine"
  BY <1>1 DEF StateOf
<1>4. StateOf(upheld) \in {"less_clear", "mixed"} => StateOf(all) \in {"less_clear", "mixed"}
  BY DEF StateOf
<1>5. QED
  BY <1>1, <1>2, <1>3, <1>4 DEF Publishes

(* What a function gives for finitely many arguments is finite. *)
LEMMA ImageFinite ==
  ASSUME NEW S, IsFiniteSet(S), NEW f, DOMAIN f = S
  PROVE  IsFiniteSet({f[x] : x \in S})
<1> DEFINE T == {f[x] : x \in S}
           g == [x \in S |-> f[x]]
<1>1. g \in [S -> T] /\ \A t \in T : \E x \in S : g[x] = t
  OBVIOUS
<1>2. g \in Surjection(S, T)
  BY <1>1 DEF Surjection
<1>3. QED
  BY <1>2, FS_Surjection

(* There are finitely many observations to hear. *)
LEMMA HeardFinite ==
  ASSUME NEW c, NEW d, NEW notes \in SUBSET Readings(c), NEW ids
  PROVE  IsFiniteSet(Heard(notes, ids, d))
<1> DEFINE report == [n \in Notes |-> Reported(n, c)]
           note == [r \in notes |-> [id |-> <<r.role, r.id>>, direction |-> r.direction, links |-> {r.link}]]
           reports == {report[n] : n \in Notes}
           observed == {note[r] : r \in notes}
<1>1. IsFiniteSet(reports)
  BY ReviewConstants, ImageFinite
<1>2. notes \subseteq reports
  BY DEF Readings
<1>3. IsFiniteSet(notes)
  BY <1>1, <1>2, FS_Subset
<1>4. IsFiniteSet(observed)
  BY <1>3, ImageFinite
<1>5. IsFiniteSet(Structural(d))
  <2>1. \A i : IsFiniteSet(TitleObservations(d, i))
    BY FS_EmptySet, FS_Singleton DEF TitleObservations
  <2>2. \A i : IsFiniteSet(PlacementObservations(d, i))
    BY FS_EmptySet, FS_Singleton DEF PlacementObservations
  <2>3. IsFiniteSet(Compared(d, Len(d) - 1))
    BY <2>1, <2>2, FS_Union DEF Compared
  <2>4. QED
    BY <2>3, FS_EmptySet DEF Structural
<1>6. Heard(notes, ids, d) \subseteq observed \cup Structural(d)
  BY DEF Heard
<1>7. IsFiniteSet(observed \cup Structural(d))
  BY <1>4, <1>5, FS_Union
<1>8. QED
  BY <1>6, <1>7, FS_Subset

HeardInv == IsFiniteSet(heard.accepted) /\ VetoesOnlyWithhold

LEMMA HeardInit == Init => HeardInv
BY FS_EmptySet DEF Init, NoFinding, HeardInv, VetoesOnlyWithhold

LEMMA HeardStep ==
  ASSUME TypeInv, [Next]_vars, HeardInv
  PROVE  HeardInv'
<1>1. ASSUME NEW p \in Threads, Save(p) PROVE HeardInv'
  <2>1. finding' = Decision(heard'.accepted, loaded[p])
    BY <1>1, SaveEffect
  <2>2. IsFiniteSet(heard'.accepted)
    <3>1. PICK notes \in SUBSET Readings(history[asked[p]]) :
            \E ids : heard'.accepted = Heard(notes, ids, history[loaded[p]])
      BY <1>1, SaveEffect
    <3>2. PICK ids : heard'.accepted = Heard(notes, ids, history[loaded[p]])
      BY <3>1
    <3>3. QED
      BY <3>2, HeardFinite
  <2> DEFINE upheld == heard'.accepted \ Vetoes(history[loaded[p]], heard'.accepted)
  <2>3. finding'.publish = Publishes(upheld) /\ finding'.state = StateOf(upheld)
    BY <2>1 DEF Decision
  <2>4. upheld \in SUBSET heard'.accepted
    OBVIOUS
  <2> HIDE DEF upheld
  <2>5. VetoesOnlyWithhold'
    BY <2>2, <2>3, <2>4, Withholding DEF VetoesOnlyWithhold
  <2>6. QED
    BY <2>2, <2>5 DEF HeardInv
<1>2. CASE UNCHANGED <<finding, heard>>
  BY <1>2 DEF HeardInv, VetoesOnlyWithhold
<1>3. QED
  BY <1>1, <1>2, FindingStep

(* A veto never publishes, and never raises a concern. *)
THEOREM VetoesWithhold == Spec => []VetoesOnlyWithhold
<1>1. Init => TypeInv /\ HeardInv
  BY TypeInit, HeardInit
<1>2. TypeInv /\ HeardInv /\ [Next]_vars => (TypeInv /\ HeardInv)'
  BY TypeStep, HeardStep
<1>3. HeardInv => VetoesOnlyWithhold
  BY DEF HeardInv
<1>4. QED
  BY <1>1, <1>2, <1>3, PTL DEF Spec

(***************************************************************************)
(* The lock of a matter.                                                   *)
(***************************************************************************)

(* One request at a time holds the key, and what it was given is no older  *)
(* than what the finding was reviewed against.                             *)
LockInv ==
  /\ \A p \in Threads : pc[p] # "idle" => inFlight
  /\ \A p, q \in Threads : pc[p] # "idle" /\ pc[q] # "idle" => p = q
  /\ \A p \in Threads : pc[p] \in {"asking", "reviewing"} => asked[p] >= finding.basis

LEMMA LockInit == Init => LockInv
BY DEF Init, LockInv

(* Whoever ends leaves every request idle. *)
LEMMA EndedLock ==
  ASSUME TypeInv, LockInv, NEW p \in Threads, pc[p] # "idle", Ended(p)
  PROVE  LockInv'
<1>1. pc \in [Threads -> {"idle", "loading", "asking", "reviewing"}]
  BY DEF TypeInv, TypeOK
<1>2. \A q \in Threads : pc'[q] = "idle"
  BY <1>1 DEF Ended, Goto, LockInv
<1>3. QED
  BY <1>2 DEF LockInv

LEMMA LockStep ==
  ASSUME TypeInv, [Next]_vars, LockInv
  PROVE  LockInv'
<1>1. /\ pc \in [Threads -> {"idle", "loading", "asking", "reviewing"}]
      /\ asked \in [Threads -> 0..Len(history)]
      /\ Len(history) \in Nat /\ finding.basis \in 0..Len(history)
  BY DEF TypeInv, TypeOK
<1>2. ASSUME NEW p \in Threads, Request(p) PROVE LockInv'
  BY <1>1, <1>2 DEF Request, Goto, LockInv
<1>3. ASSUME NEW p \in Threads, LoadCase(p) PROVE LockInv'
  <2>1. \A q \in Threads : pc'[q] # "idle" => pc[q] # "idle"
    BY <1>1, <1>3 DEF LoadCase, Goto
  <2>2. \A q \in Threads : pc'[q] \in {"asking", "reviewing"} => asked'[q] >= finding'.basis
    BY <1>1, <1>3 DEF LoadCase, Goto, LockInv
  <2>3. inFlight' = inFlight
    BY <1>3 DEF LoadCase
  <2>4. QED
    BY <2>1, <2>2, <2>3 DEF LockInv
<1>4. ASSUME NEW p \in Threads, Answer(p) PROVE LockInv'
  BY <1>1, <1>4 DEF Answer, Goto, LockInv
<1>5. ASSUME NEW p \in Threads, Save(p) PROVE LockInv'
  <2>1. pc[p] = "reviewing" /\ Ended(p)
    BY <1>5 DEF Save
  <2>2. QED
    BY <2>1, EndedLock
<1>6. ASSUME NEW p \in Threads, Fail(p) PROVE LockInv'
  <2>1. pc[p] # "idle" /\ Ended(p)
    BY <1>6 DEF Fail
  <2>2. QED
    BY <2>1, EndedLock
<1>7. CASE Restart
  BY <1>7 DEF Restart, LockInv
<1>8. CASE RecordsChange
  BY <1>8 DEF RecordsChange, requests, LockInv
<1>9. CASE UNCHANGED vars
  BY <1>9 DEF vars, requests, LockInv
<1>10. QED
  BY <1>2, <1>3, <1>4, <1>5, <1>6, <1>7, <1>8, <1>9 DEF Next

(* A finding is never replaced by one about older records, whichever       *)
(* requests come and go, and wherever the agents run.                      *)
THEOREM FindingsMoveOn == Spec => FindingsNeverGoBack
<1>1. ASSUME TypeInv, LockInv, [Next]_vars PROVE [finding'.basis >= finding.basis]_finding
  <2>1. ASSUME NEW p \in Threads, Save(p) PROVE finding'.basis >= finding.basis
    <3>1. loaded[p] \in 1..Len(history) /\ asked[p] \in 1..Len(history) /\ loaded[p] >= asked[p]
          /\ finding' = Decision(heard'.accepted, loaded[p])
      BY <1>1, <2>1, SaveEffect
    <3>2. finding'.basis = loaded[p]
      BY <3>1 DEF Decision
    <3>3. asked[p] >= finding.basis
      BY <1>1, <2>1 DEF Save, LockInv
    <3>4. Len(history) \in Nat /\ finding.basis \in 0..Len(history)
      BY <1>1 DEF TypeInv, TypeOK
    <3>5. QED
      BY <3>1, <3>2, <3>3, <3>4
  <2>2. QED
    BY <1>1, <2>1, FindingStep
<1>2. Init => TypeInv /\ LockInv
  BY TypeInit, LockInit
<1>3. TypeInv /\ LockInv /\ [Next]_vars => (TypeInv /\ LockInv)'
  BY TypeStep, LockStep
<1>4. QED
  BY <1>1, <1>2, <1>3, PTL DEF Spec, FindingsNeverGoBack

(***************************************************************************)
(* The label "Observed by Page 47" of two appearances (Transitions), here  *)
(* under the name Origin; MaxChanges bounds its changes too.               *)
(***************************************************************************)
CONSTANTS MaxVersion, Baseline, MaxFaults, MaxBackfills

VARIABLES
  served, manifest, run, reader, draft, cited, applied, sealed, torn, sent, changes, faults,
  backfills

Origin == INSTANCE Transitions

(* A program under way has an id, and asks only for events that are listed. *)
Programs == [id : Nat, known : SUBSET Nat, todo : SUBSET Origin!Sides]

Asking ==
  /\ run \in Programs /\ reader \in Programs
  /\ run.todo # {} => run.id # Origin!NoRun
  /\ \A r \in {run, reader} : \A s \in r.todo : served[s] # 0

Record == [side : Origin!Sides, version : 0..MaxVersion, run : Nat]

CapturesOf(s) == {i \in DOMAIN manifest : manifest[i].side = s /\ manifest[i].version # 0}

(* A row, committed or not, cites a good capture of its own event. *)
Citing == \A f \in {draft, cited} : \A s \in Origin!Sides : f[s] = 0 \/ f[s] \in CapturesOf(s)

(* A capture by another program, of this version. *)
Foreign(m, i, s, v) ==
  i \in DOMAIN m /\ m[i].side = s /\ m[i].version = v /\ m[i].run = Origin!NoRun

(* What the collector captured it was sent, then for the first time unless *)
(* another program had captured it before; and it was sent nothing that is *)
(* not captured.                                                           *)
FirstSent ==
  /\ \A i \in DOMAIN manifest :
       LET c == manifest[i]
           first == sent[c.side][c.version]
       IN  c.version # 0 /\ c.run # Origin!NoRun
             => /\ first.at # 0
                /\ \/ first = [at |-> i, run |-> c.run]
                   \/ \E j \in 1..(i - 1) : Foreign(manifest, j, c.side, c.version)
  /\ \A s \in Origin!Sides, v \in Origin!Versions :
       sent[s][v].at # 0
         => \E i \in DOMAIN manifest : manifest[i].side = s /\ manifest[i].version = v

OriginInv == Origin!TypeOK /\ Asking /\ Citing /\ FirstSent

(* A nonempty set of numbers has a least member.                           *)
LEMMA Least ==
  ASSUME NEW S \in SUBSET Nat, S # {}
  PROVE  \E m \in S : \A n \in S : m <= n
<1> DEFINE R == {ss \in Nat \X Nat : ss[1] < ss[2]}
<1>1. IsWellFoundedOn(R, Nat)
  BY NatLessThanWellFounded DEF OpToRel
<1> HIDE DEF R
<1>2. PICK m \in S : \A n \in S : <<n, m>> \notin R
  BY <1>1, WFMin
<1>3. \A n \in S : ~(n < m)
  BY <1>2 DEF R
<1>4. QED
  BY <1>3

(* Likewise, of a bounded set.                                            *)
LEMMA Greatest ==
  ASSUME NEW n \in Nat, NEW S \in SUBSET (1..n), S # {}
  PROVE  \E m \in S : \A i \in S : i <= m
<1> DEFINE B == {b \in Nat : \A i \in S : i <= b}
<1>1. n \in B
  OBVIOUS
<1>2. PICK b \in B : \A k \in B : b <= k
  BY <1>1, Least
<1>3. b \in S
  <2> SUFFICES ASSUME b \notin S
               PROVE  FALSE
    OBVIOUS
  <2>1. PICK i \in S : TRUE
    OBVIOUS
  <2>2. \A j \in S : j <= b - 1
    BY <1>2
  <2>3. b - 1 \in Nat
    BY <1>2, <2>1, <2>2
  <2>4. b - 1 \in B
    BY <2>2, <2>3
  <2>5. QED
    BY <1>2, <2>4
<1>4. QED
  BY <1>2, <1>3

(* The first and the last of a set of captures are captures of the set. *)
LEMMA Ends ==
  ASSUME NEW n \in Nat, NEW S \in SUBSET (1..n), S # {}
  PROVE  Origin!Min(S) \in S /\ Origin!Max(S) \in S
<1>1. \E m \in S : \A i \in S : m <= i
  BY Least
<1>2. Origin!Min(S) \in S
  BY <1>1 DEF Origin!Min
<1>3. PICK m \in S : \A i \in S : i <= m
  BY Greatest
<1>4. \A i \in S : m >= i
  BY <1>3
<1>5. Origin!Max(S) \in S
  BY <1>4 DEF Origin!Max
<1>6. QED
  BY <1>2, <1>5

(* The invariant holds as the service starts.                              *)
LEMMA OriginInit == ASSUME Origin!TransitionsAssumption, Origin!Init PROVE OriginInv
<1>1. served \in [Origin!Sides -> 0..MaxVersion]
  BY DEF Origin!Init, Origin!TransitionsAssumption, Origin!Sides
<1>2. manifest = <<>> /\ DOMAIN manifest = {}
  BY DEF Origin!Init
<1>3. Origin!TypeOK
  BY <1>1, <1>2 DEF Origin!Init, Origin!TypeOK, Origin!TransitionsAssumption, Origin!Idle,
     Origin!Nothing, Origin!Now, Origin!NoRun
<1>4. Asking
  BY DEF Origin!Init, Asking, Programs, Origin!Idle, Origin!NoRun
<1>5. Citing
  BY DEF Origin!Init, Citing, Origin!Nothing
<1>6. FirstSent
  BY <1>2 DEF Origin!Init, FirstSent
<1>7. QED
  BY <1>3, <1>4, <1>5, <1>6 DEF OriginInv

(* At most one more capture.                                               *)
Grown(c) ==
  \/ UNCHANGED manifest
  \/ manifest' = Append(manifest, c)

(* What the manifest holds.                                                *)
LEMMA ManifestType ==
  ASSUME OriginInv
  PROVE  /\ manifest \in Seq(Record) /\ Len(manifest) \in Nat
         /\ DOMAIN manifest = 1..Len(manifest) /\ DOMAIN manifest \in SUBSET Nat
         /\ \A i \in DOMAIN manifest : manifest[i] \in Record
<1>1. manifest \in Seq(Record)
  BY DEF OriginInv, Origin!TypeOK, Record
<1> HIDE DEF Record
<1>2. QED
  BY <1>1

(* What is in bounds stays so when the manifest grows.                     *)
LEMMA GrownType ==
  ASSUME OriginInv, manifest' \in Seq(Record), Len(manifest') \in Nat,
         Len(manifest') >= Len(manifest)
  PROVE  /\ manifest' \in Seq([side : Origin!Sides, version : 0..MaxVersion, run : Nat])
         /\ DOMAIN manifest \subseteq DOMAIN manifest'
         /\ 0..Len(manifest) \subseteq 0..Len(manifest')
         /\ 0..Origin!Now \subseteq (0..Origin!Now)'
<1>1. manifest' \in Seq([side : Origin!Sides, version : 0..MaxVersion, run : Nat])
  BY DEF Record
<1>2. DOMAIN manifest = 1..Len(manifest) /\ DOMAIN manifest' = 1..Len(manifest')
  BY ManifestType
<1>3. 0..Origin!Now \subseteq (0..Origin!Now)'
  BY ManifestType DEF Origin!Now
<1>4. QED
  BY <1>1, <1>2, <1>3, ManifestType

(* What a request leaves in the manifest: the captures there were, and at  *)
(* most one more; the record it is told of is a capture of what it got.    *)
LEMMA CaptureEffect ==
  ASSUME OriginInv, NEW s \in Origin!Sides, NEW v \in 0..MaxVersion, NEW id \in Nat,
         manifest' = Origin!Captured(s, v, id)
  PROVE  /\ Grown([side |-> s, version |-> v, run |-> id])
         /\ Len(manifest') \in Nat /\ Len(manifest') >= Len(manifest)
         /\ \A i \in DOMAIN manifest : i \in DOMAIN manifest' /\ manifest'[i] = manifest[i]
         /\ manifest' \in Seq(Record)
         /\ LET p == Origin!PlaceOf(s, v, id)
            IN  p \in DOMAIN manifest' /\ manifest'[p].side = s /\ manifest'[p].version = v
<1> DEFINE c == [side |-> s, version |-> v, run |-> id]
<1>1. manifest \in Seq(Record) /\ Len(manifest) \in Nat /\ DOMAIN manifest = 1..Len(manifest)
  BY ManifestType
<1>2. c \in Record
  BY DEF Record
<1>3. CASE Origin!Existing(s, v, id) # {}
  <2>1. Origin!Existing(s, v, id) \in SUBSET (1..Len(manifest))
    BY <1>1 DEF Origin!Existing
  <2>2. Origin!Min(Origin!Existing(s, v, id)) \in Origin!Existing(s, v, id)
    BY <1>1, <1>3, <2>1, Ends
  <2>3. manifest' = manifest
    BY <1>3 DEF Origin!Captured
  <2>4. Origin!PlaceOf(s, v, id) \in Origin!Existing(s, v, id)
    BY <1>3, <2>2 DEF Origin!PlaceOf
  <2>5. Grown(c)
    BY <2>3 DEF Grown
  <2>6. \A i \in Origin!Existing(s, v, id) :
          i \in DOMAIN manifest /\ manifest[i].side = s /\ manifest[i].version = v
    BY DEF Origin!Existing
  <2>7. QED
    BY <1>1, <2>3, <2>4, <2>5, <2>6
<1>4. CASE Origin!Existing(s, v, id) = {}
  <2>1. manifest' = Append(manifest, c)
    BY <1>4 DEF Origin!Captured
  <2> HIDE DEF c
  <2>2. manifest' \in Seq(Record) /\ Len(manifest') = Len(manifest) + 1
    BY <1>1, <1>2, <2>1
  <2>3. manifest'[Len(manifest) + 1] = c /\ DOMAIN manifest' = 1..(Len(manifest) + 1)
    BY <1>1, <1>2, <2>1
  <2>4. \A i \in DOMAIN manifest : manifest'[i] = manifest[i]
    BY <1>1, <1>2, <2>1
  <2>5. Origin!PlaceOf(s, v, id) = Len(manifest) + 1
    BY <1>4 DEF Origin!PlaceOf, Origin!Now
  <2>6. Grown(c)
    BY <2>1 DEF Grown
  <2>7. c.side = s /\ c.version = v
    BY DEF c
  <2>8. /\ Len(manifest') \in Nat /\ Len(manifest') >= Len(manifest)
        /\ \A i \in DOMAIN manifest : i \in DOMAIN manifest'
        /\ Len(manifest) + 1 \in DOMAIN manifest'
    BY <1>1, <2>2, <2>3
  <2>9. QED
    BY <2>2, <2>3, <2>4, <2>5, <2>6, <2>7, <2>8 DEF c
<1>5. QED
  BY <1>3, <1>4

(***************************************************************************)
(* The steps.                                                              *)
(***************************************************************************)

(* A step that leaves the captures and the rows' citations alone.          *)
LEMMA CitingKept ==
  ASSUME OriginInv, NEW s \in Origin!Sides, NEW p \in CapturesOf(s),
         \A i \in DOMAIN manifest : i \in DOMAIN manifest' /\ manifest'[i] = manifest[i]
  PROVE  p \in CapturesOf(s)'
BY DEF CapturesOf

(* A capture the collector did not make says nothing of what it was sent;  *)
(* nor does a failure.                                                     *)
LEMMA FirstSentKept ==
  ASSUME OriginInv, NEW c \in Record,
         Grown(c), c.version = 0 \/ c.run = Origin!NoRun, UNCHANGED sent
  PROVE  FirstSent'
<1>1. CASE UNCHANGED manifest
  BY <1>1 DEF OriginInv, FirstSent, Foreign
<1>2. CASE manifest' = Append(manifest, c)
  <2>1. manifest \in Seq(Record) /\ DOMAIN manifest = 1..Len(manifest) /\ Len(manifest) \in Nat
    BY ManifestType
  <2>2. DOMAIN manifest' = DOMAIN manifest \cup {Len(manifest) + 1}
    BY <1>2, <2>1
  <2>3. \A i \in DOMAIN manifest : manifest'[i] = manifest[i]
    BY <1>2, <2>1
  <2>4. manifest'[Len(manifest) + 1] = c
    BY <1>2, <2>1
  <2>5. FirstSent
    BY DEF OriginInv
  <2>6. \A j, s, v : Foreign(manifest, j, s, v) => Foreign(manifest', j, s, v)
    BY <2>2, <2>3 DEF Foreign
  <2>7. QED
    BY <2>2, <2>3, <2>4, <2>5, <2>6 DEF FirstSent
<1>3. QED
  BY <1>1, <1>2 DEF Grown

(* What the collector captures it had not captured before: it had not been *)
(* sent it either, or another program had captured it.                     *)
LEMMA FirstSentReceive ==
  ASSUME OriginInv, NEW s \in run.todo,
         manifest' = Origin!Captured(s, served[s], run.id), Origin!Seen(s)
  PROVE  FirstSent'
<1> DEFINE v == served[s]
           c == [side |-> s, version |-> v, run |-> run.id]
           M == DOMAIN manifest
           n == Len(manifest) + 1
<1>1. s \in Origin!Sides /\ run.id \in Nat /\ run.id # Origin!NoRun /\ v # 0
  BY DEF OriginInv, Asking, Programs
<1>2. v \in Origin!Versions
  BY <1>1 DEF OriginInv, Origin!TypeOK, Origin!Versions
<1>3. sent' = [sent EXCEPT ![s][v] =
                 IF @.at = 0 THEN [at |-> Origin!Now, run |-> run.id] ELSE @]
  BY DEF Origin!Seen
<1>4. /\ manifest \in Seq(Record) /\ M = 1..Len(manifest) /\ Len(manifest) \in Nat
      /\ sent \in [Origin!Sides -> [Origin!Versions -> [at : Nat, run : Nat]]]
  BY ManifestType DEF OriginInv, Origin!TypeOK
<1>5. FirstSent
  BY DEF OriginInv
<1>6. \A t \in Origin!Sides, w \in Origin!Versions :
        /\ t # s \/ w # v => sent'[t][w] = sent[t][w]
        /\ sent[t][w].at # 0 => sent'[t][w] = sent[t][w]
        /\ sent[s][v].at = 0 => sent'[s][v] = [at |-> n, run |-> run.id]
  BY <1>1, <1>2, <1>3, <1>4 DEF Origin!Now
<1>7. sent'[s][v].at # 0
  <2>1. n # 0
    BY <1>4
  <2> HIDE DEF n
  <2>2. CASE sent[s][v].at = 0
    BY <1>1, <1>2, <1>6, <2>1, <2>2
  <2>3. CASE sent[s][v].at # 0
    BY <1>1, <1>2, <1>6, <2>3
  <2>4. QED
    BY <2>2, <2>3
<1> HIDE DEF v
<1>8. CASE Origin!Existing(s, v, run.id) # {}
  <2>1. UNCHANGED manifest
    BY <1>8 DEF Origin!Captured, v
  <2>2. PICK i \in M : /\ manifest[i].side = s /\ manifest[i].version = v
                       /\ manifest[i].run # Origin!NoRun
    BY <1>1, <1>8 DEF Origin!Existing
  <2>3. sent[s][v].at # 0
    BY <1>1, <1>5, <2>2 DEF FirstSent
  <2>4. sent' = sent
    BY <1>1, <1>2, <1>3, <1>4, <2>3
  <2>5. QED
    BY <1>5, <2>1, <2>4 DEF FirstSent, Foreign
<1>9. CASE Origin!Existing(s, v, run.id) = {}
  <2>1. manifest' = Append(manifest, c)
    BY <1>9 DEF Origin!Captured, v
  <2>2. c \in Record
    BY <1>1, <1>2 DEF Origin!Versions, Record
  <2>3. DOMAIN manifest' = M \cup {n} /\ manifest'[n] = c /\ n \notin M
    BY <1>4, <2>1, <2>2
  <2>4. \A i \in M : manifest'[i] = manifest[i]
    BY <1>4, <2>1, <2>2
  <2>5. \A i \in M : manifest[i].side = s /\ manifest[i].version = v
                        => Foreign(manifest, i, s, v) /\ i \in 1..(n - 1)
    BY <1>1, <1>4, <1>9 DEF Origin!Existing, Foreign
  <2>6. \A j, t, w : Foreign(manifest, j, t, w) => Foreign(manifest', j, t, w)
    BY <2>3, <2>4 DEF Foreign
  <2>7. ASSUME NEW i \in DOMAIN manifest', manifest'[i].version # 0,
               manifest'[i].run # Origin!NoRun
        PROVE  LET o == manifest'[i]
                   first == sent'[o.side][o.version]
               IN  /\ first.at # 0
                   /\ \/ first = [at |-> i, run |-> o.run]
                      \/ \E j \in 1..(i - 1) : Foreign(manifest', j, o.side, o.version)
    <3>1. CASE i = n
      <4>1. c.side = s /\ c.version = v /\ c.run = run.id
        OBVIOUS
      <4>2. CASE sent[s][v].at = 0
        BY <1>1, <1>2, <1>6, <1>7, <2>3, <3>1, <4>1, <4>2
      <4>3. CASE sent[s][v].at # 0
        <5>1. PICK j \in M : manifest[j].side = s /\ manifest[j].version = v
          BY <1>1, <1>2, <1>5, <4>3 DEF FirstSent
        <5>2. j \in 1..(i - 1) /\ Foreign(manifest', j, s, v)
          BY <2>5, <2>6, <3>1, <5>1
        <5>3. QED
          BY <1>7, <2>3, <3>1, <4>1, <5>2
      <4>4. QED
        BY <4>2, <4>3
    <3>2. CASE i \in M
      <4> DEFINE o == manifest[i]
      <4>1. manifest'[i] = o /\ o.version # 0 /\ o.run # Origin!NoRun
        BY <2>4, <2>7, <3>2
      <4>2. o.side \in Origin!Sides /\ o.version \in Origin!Versions
        <5>1. o \in Record
          BY <3>2, ManifestType
        <5>2. QED
          BY <4>1, <5>1 DEF Origin!Versions, Record
      <4>3. /\ sent[o.side][o.version].at # 0
            /\ \/ sent[o.side][o.version] = [at |-> i, run |-> o.run]
               \/ \E j \in 1..(i - 1) : Foreign(manifest, j, o.side, o.version)
        BY <1>5, <3>2, <4>1 DEF FirstSent
      <4>4. sent'[o.side][o.version] = sent[o.side][o.version]
        BY <1>6, <4>2, <4>3
      <4> HIDE DEF o
      <4>5. QED
        BY <2>6, <4>1, <4>3, <4>4
    <3>3. QED
      BY <2>3, <3>1, <3>2
  <2>8. ASSUME NEW t \in Origin!Sides, NEW w \in Origin!Versions, sent'[t][w].at # 0
        PROVE  \E i \in DOMAIN manifest' : manifest'[i].side = t /\ manifest'[i].version = w
    <3>1. CASE t = s /\ w = v
      <4>1. c.side = s /\ c.version = v
        OBVIOUS
      <4>2. QED
        BY <2>3, <3>1, <4>1
    <3>2. CASE t # s \/ w # v
      <4>1. sent'[t][w] = sent[t][w]
        BY <1>6, <3>2
      <4>2. PICK i \in M : manifest[i].side = t /\ manifest[i].version = w
        BY <1>5, <2>8, <4>1 DEF FirstSent
      <4>3. QED
        BY <2>3, <2>4, <4>2
    <3>3. QED
      BY <3>1, <3>2
  <2>9. QED
    BY <2>7, <2>8 DEF FirstSent
<1>10. QED
  BY <1>8, <1>9

(* A 304 tells the collector of what somebody has captured.                *)
LEMMA FirstSentTold ==
  ASSUME OriginInv, NEW s \in run.todo, Origin!Seen(s), UNCHANGED manifest,
         NEW i \in DOMAIN manifest, manifest[i].side = s, manifest[i].version = served[s]
  PROVE  FirstSent'
<1> DEFINE v == served[s]
<1>1. s \in Origin!Sides /\ v # 0 /\ run.id \in Nat
  BY DEF OriginInv, Asking, Programs
<1>2. v \in Origin!Versions
  BY <1>1 DEF OriginInv, Origin!TypeOK, Origin!Versions
<1>3. sent \in [Origin!Sides -> [Origin!Versions -> [at : Nat, run : Nat]]]
  BY DEF OriginInv, Origin!TypeOK
<1>4. sent' = [sent EXCEPT ![s][v] =
                 IF @.at = 0 THEN [at |-> Origin!Now, run |-> run.id] ELSE @]
  BY DEF Origin!Seen
<1> HIDE DEF v
<1>5. \A t \in Origin!Sides, w \in Origin!Versions :
        /\ t # s \/ w # v => sent'[t][w] = sent[t][w]
        /\ sent[t][w].at # 0 => sent'[t][w] = sent[t][w]
  BY <1>1, <1>2, <1>3, <1>4
<1>6. FirstSent
  BY DEF OriginInv
<1>7. ASSUME NEW j \in DOMAIN manifest, manifest[j].version # 0,
             manifest[j].run # Origin!NoRun
      PROVE  sent'[manifest[j].side][manifest[j].version]
               = sent[manifest[j].side][manifest[j].version]
  <2>1. manifest[j].side \in Origin!Sides /\ manifest[j].version \in Origin!Versions
    <3>1. manifest[j] \in Record
      BY ManifestType
    <3>2. QED
      BY <1>7, <3>1 DEF Origin!Versions, Record
  <2>2. sent[manifest[j].side][manifest[j].version].at # 0
    BY <1>6, <1>7 DEF FirstSent
  <2>3. QED
    BY <1>5, <2>1, <2>2
<1>8. \A t \in Origin!Sides, w \in Origin!Versions :
        sent'[t][w].at # 0
          => \E j \in DOMAIN manifest : manifest[j].side = t /\ manifest[j].version = w
  <2> SUFFICES ASSUME NEW t \in Origin!Sides, NEW w \in Origin!Versions, sent'[t][w].at # 0
               PROVE  \E j \in DOMAIN manifest : manifest[j].side = t /\ manifest[j].version = w
    OBVIOUS
  <2>1. CASE t = s /\ w = v
    BY <2>1 DEF v
  <2>2. CASE t # s \/ w # v
    BY <1>5, <1>6, <2>2 DEF FirstSent
  <2>3. QED
    BY <2>1, <2>2
<1>9. QED
  BY <1>6, <1>7, <1>8 DEF FirstSent, Foreign

(* What a program starts with.                                             *)
LEMMA StartEffect ==
  ASSUME OriginInv
  PROVE  LET t == {s \in Origin!Sides : served[s] # 0}
         IN  /\ t \in SUBSET Origin!Sides /\ \A s \in t : served[s] # 0
             /\ DOMAIN manifest \in SUBSET Nat /\ DOMAIN manifest = 1..Len(manifest)
             /\ Origin!Now \in Nat \ {0} /\ Len(manifest) \in Nat
BY ManifestType DEF Origin!Now

(* What the collector knows it was sent keeps its type.                    *)
LEMMA SeenType ==
  ASSUME OriginInv, NEW s \in run.todo, Origin!Seen(s)
  PROVE  sent' \in [Origin!Sides -> [Origin!Versions -> [at : Nat, run : Nat]]]
<1>1. s \in Origin!Sides /\ served[s] # 0 /\ run.id \in Nat
  BY DEF OriginInv, Asking, Programs
<1>2. served[s] \in Origin!Versions
  BY <1>1 DEF OriginInv, Origin!TypeOK, Origin!Versions
<1>3. sent \in [Origin!Sides -> [Origin!Versions -> [at : Nat, run : Nat]]]
  BY DEF OriginInv, Origin!TypeOK
<1>4. [at |-> Origin!Now, run |-> run.id] \in [at : Nat, run : Nat]
  BY <1>1, StartEffect
<1>5. sent' = [sent EXCEPT ![s][served[s]] =
                 IF @.at = 0 THEN [at |-> Origin!Now, run |-> run.id] ELSE @]
  BY DEF Origin!Seen
<1> DEFINE new == IF sent[s][served[s]].at = 0 THEN [at |-> Origin!Now, run |-> run.id]
                  ELSE sent[s][served[s]]
<1>6. new \in [at : Nat, run : Nat]
  BY <1>1, <1>2, <1>3, <1>4
<1>7. sent' = [sent EXCEPT ![s] = [sent[s] EXCEPT ![served[s]] = new]]
  BY <1>1, <1>2, <1>3, <1>5
<1> HIDE DEF new
<1>8. QED
  BY <1>1, <1>2, <1>3, <1>6, <1>7

(* What a kill inside capture leaves.                                      *)
LEMMA CutEffect ==
  ASSUME OriginInv, NEW s \in Origin!Sides, served[s] # 0, NEW id \in Nat,
         Origin!CutShort(s, id), sealed \in BOOLEAN
  PROVE  /\ manifest' = manifest \/ manifest' = Origin!Captured(s, served[s], id)
         /\ sealed' \in BOOLEAN /\ torn' \subseteq Origin!Sides \X Origin!Versions
<1>1. served[s] \in Origin!Versions
  BY DEF OriginInv, Origin!TypeOK, Origin!Versions
<1>2. torn \subseteq Origin!Sides \X Origin!Versions
  BY DEF OriginInv, Origin!TypeOK
<1>3. /\ manifest' = manifest \/ manifest' = Origin!Captured(s, served[s], id)
      /\ sealed' = sealed \/ sealed' = FALSE
      /\ torn' = torn \/ torn' = torn \cup {<<s, served[s]>>}
  BY Zenon DEF Origin!CutShort
<1>4. sealed' \in BOOLEAN
  BY <1>3, Zenon
<1>5. torn' \subseteq Origin!Sides \X Origin!Versions
  BY <1>1, <1>2, <1>3
<1>6. QED
  BY <1>3, <1>4, <1>5

(* The parts of the invariant that an action leaves alone.                 *)
LEMMA CapturesKept ==
  ASSUME OriginInv, UNCHANGED manifest
  PROVE  /\ \A s \in Origin!Sides : CapturesOf(s)' = CapturesOf(s)
         /\ UNCHANGED sent => FirstSent'
         /\ UNCHANGED <<draft, cited>> => Citing'
<1>1. \A s \in Origin!Sides : CapturesOf(s)' = CapturesOf(s)
  BY DEF CapturesOf
<1>2. UNCHANGED sent => FirstSent'
  BY DEF OriginInv, FirstSent, Foreign
<1>3. UNCHANGED <<draft, cited>> => Citing'
  BY <1>1 DEF OriginInv, Citing
<1>4. QED
  BY <1>1, <1>2, <1>3

(* A program that is not under way.                                       *)
LEMMA IdleType ==
  ASSUME OriginInv
  PROVE  /\ Origin!Idle.id = 0 /\ Origin!Idle.known = {} /\ Origin!Idle.todo = {}
         /\ 0 \in 0..Origin!Now /\ 0 \in 0..Len(manifest)
         /\ 1 \in 0..Origin!Now /\ Origin!Now \in 0..Origin!Now
BY ManifestType DEF Origin!Idle, Origin!NoRun, Origin!Now

(* The types hold where only a program's memory has changed.               *)
LEMMA TypeKept ==
  ASSUME OriginInv, UNCHANGED <<manifest, sealed, torn, sent>>,
         served' \in [Origin!Sides -> 0..MaxVersion],
         draft' \in [Origin!Sides -> 0..Len(manifest)],
         cited' \in [Origin!Sides -> 0..Len(manifest)], applied' \subseteq DOMAIN manifest,
         changes' \in 0..MaxChanges, faults' \in 0..MaxFaults, backfills' \in 0..MaxBackfills,
         \A r \in {run', reader'} : /\ r.id \in 0..Origin!Now /\ r.known \subseteq DOMAIN manifest
                                    /\ r.todo \subseteq Origin!Sides
  PROVE  Origin!TypeOK'
<1>1. sealed' \in BOOLEAN
  BY Zenon DEF OriginInv, Origin!TypeOK
<1>2. (Origin!Now)' = Origin!Now
  BY DEF Origin!Now
<1>3. QED
  BY <1>1, <1>2 DEF OriginInv, Origin!TypeOK

(* A 304 stands for a good capture of the event.                           *)
LEMMA LatestType ==
  ASSUME OriginInv, NEW s \in Origin!Sides, NEW known \in SUBSET DOMAIN manifest,
         Origin!Unmodified(s, known), served[s] # 0
  PROVE  /\ Origin!Latest(s, known) \in CapturesOf(s)
         /\ manifest[Origin!Latest(s, known)].version = served[s]
<1> DEFINE of == {i \in known : manifest[i].side = s}
<1>1. of # {} /\ Origin!Latest(s, known) = Origin!Max(of)
  BY DEF Origin!Unmodified, Origin!Latest
<1>2. of \in SUBSET (1..Len(manifest)) /\ Len(manifest) \in Nat
  BY ManifestType
<1>3. Origin!Max(of) \in of
  BY <1>1, <1>2, Ends
<1>4. manifest[Origin!Latest(s, known)].version = served[s]
  BY DEF Origin!Unmodified
<1>5. QED
  BY <1>1, <1>2, <1>3, <1>4, ManifestType DEF CapturesOf

(* Each program's actions keep the invariant.                              *)
LEMMA CollectorStep ==
  ASSUME Origin!TransitionsAssumption, OriginInv, Origin!Collecting
  PROVE  OriginInv'
<1>1. CASE Origin!StartRun
  <2>1. run' = [id |-> Origin!Now, known |-> DOMAIN manifest,
                todo |-> {s \in Origin!Sides : served[s] # 0}]
    BY <1>1 DEF Origin!StartRun
  <2>2. UNCHANGED <<served, manifest, reader, draft, cited, applied, sealed, torn, sent, changes,
                    faults, backfills>>
    BY <1>1 DEF Origin!StartRun, Origin!bounds, Origin!files
  <2>3. Asking'
    BY <2>1, <2>2, StartEffect DEF OriginInv, Asking, Programs, Origin!NoRun
  <2>4. Origin!TypeOK'
    BY <2>1, <2>2, StartEffect DEF OriginInv, Origin!TypeOK, Origin!Now
  <2>5. QED
    BY <2>2, <2>3, <2>4, CapturesKept DEF OriginInv
<1>2. CASE Origin!EndRun
  <2>1. /\ run' = Origin!Idle
        /\ UNCHANGED <<served, manifest, reader, draft, cited, applied, sealed, torn, sent,
                       changes, faults, backfills>>
    BY <1>2 DEF Origin!EndRun, Origin!bounds, Origin!files
  <2>3. Asking'
    BY <2>1 DEF OriginInv, Asking, Programs, Origin!Idle, Origin!NoRun
  <2>4. Origin!TypeOK'
    BY <2>1, IdleType, TypeKept DEF OriginInv, Origin!TypeOK
  <2>5. QED
    BY <2>1, <2>3, <2>4, CapturesKept DEF OriginInv
<1>3. CASE \E s \in Origin!Sides : Origin!NotModified(s)
  <2>1. PICK s \in Origin!Sides : Origin!NotModified(s)
    BY <1>3
  <2>2. /\ run' = [run EXCEPT !.todo = @ \ {s}] /\ s \in run.todo
        /\ Origin!Unmodified(s, run.known) /\ Origin!Seen(s)
        /\ UNCHANGED <<served, manifest, reader, draft, cited, applied, sealed, torn,
                       changes, faults, backfills>>
    BY <2>1 DEF Origin!NotModified, Origin!Asked, Origin!InTurn, Origin!bounds, Origin!files
  <2>3. Asking'
    BY <2>2 DEF OriginInv, Asking, Programs
  <2>4. run.known \in SUBSET DOMAIN manifest /\ served[s] # 0
    BY <2>2 DEF OriginInv, Origin!TypeOK, Asking
  <2>5. PICK i \in DOMAIN manifest : manifest[i].side = s /\ manifest[i].version = served[s]
    BY <2>2, <2>4, LatestType DEF CapturesOf
  <2>6. FirstSent'
    BY <2>2, <2>5, FirstSentTold
  <2>7. sent' \in [Origin!Sides -> [Origin!Versions -> [at : Nat, run : Nat]]]
    BY <2>2, SeenType
  <2>8. Origin!TypeOK'
    BY <2>2, <2>7 DEF OriginInv, Origin!TypeOK, Origin!Now, Asking, Programs
  <2>9. QED
    BY <2>2, <2>3, <2>6, <2>8, CapturesKept DEF OriginInv
<1>4. CASE \E s \in Origin!Sides : Origin!Receive(s)
  <2>1. PICK s \in Origin!Sides : Origin!Receive(s)
    BY <1>4
  <2>2. /\ run' = [run EXCEPT !.todo = @ \ {s}] /\ s \in run.todo
        /\ UNCHANGED <<served, reader, draft, cited, applied, torn, changes, faults,
                       backfills>>
        /\ manifest' = Origin!Captured(s, served[s], run.id)
        /\ Origin!Seen(s)
    BY <2>1 DEF Origin!Receive, Origin!Asked, Origin!InTurn, Origin!bounds
  <2>0. sealed' \in BOOLEAN
    BY <2>1 DEF OriginInv, Origin!TypeOK, Origin!Receive, Origin!Beside
  <2>3. Asking'
    BY <2>2 DEF OriginInv, Asking, Programs
  <2>4. served[s] \in 0..MaxVersion /\ run.id \in Nat
    BY DEF OriginInv, Origin!TypeOK, Asking, Programs
  <2>5. /\ Len(manifest') \in Nat /\ Len(manifest') >= Len(manifest)
        /\ \A i \in DOMAIN manifest : i \in DOMAIN manifest' /\ manifest'[i] = manifest[i]
        /\ manifest' \in Seq(Record)
    BY <2>2, <2>4, CaptureEffect
  <2>6. FirstSent'
    BY <2>2, FirstSentReceive
  <2>7. Citing'
    BY <2>2, <2>5, CitingKept DEF OriginInv, Citing
  <2>8. sent' \in [Origin!Sides -> [Origin!Versions -> [at : Nat, run : Nat]]]
    BY <2>2, SeenType
  <2>9. Origin!TypeOK'
    <3>1. /\ manifest' \in Seq([side : Origin!Sides, version : 0..MaxVersion, run : Nat])
          /\ DOMAIN manifest \subseteq DOMAIN manifest'
          /\ 0..Len(manifest) \subseteq 0..Len(manifest')
          /\ 0..Origin!Now \subseteq (0..Origin!Now)'
      BY <2>5, GrownType
    <3>2. run'.id = run.id /\ run'.known = run.known /\ run'.todo \subseteq run.todo
      BY <2>2 DEF OriginInv, Asking, Programs
    <3>3. QED
      BY <2>0, <2>2, <2>8, <3>1, <3>2 DEF OriginInv, Origin!TypeOK
  <2>10. QED
    BY <2>3, <2>6, <2>7, <2>9 DEF OriginInv
<1>5. QED
  BY <1>1, <1>2, <1>3, <1>4 DEF Origin!Collecting

(* Likewise: a failed request, or a collector that is refused or killed.   *)
LEMMA FailStep ==
  ASSUME Origin!TransitionsAssumption, OriginInv,
         \/ Origin!RunRefused \/ Origin!KillRun
         \/ \E s \in Origin!Sides : Origin!RequestFails(s) \/ Origin!KillRunCapturing(s)
  PROVE  OriginInv'
<1>0. faults' \in 0..MaxFaults
  <2>1. UNCHANGED faults \/ (faults < MaxFaults /\ faults' = faults + 1)
    BY Zenon DEF Origin!RunRefused, Origin!bounds, Origin!KillRun, Origin!RequestFails,
       Origin!KillRunCapturing
  <2>2. QED
    BY <2>1 DEF OriginInv, Origin!TypeOK, Origin!TransitionsAssumption
<1>1. CASE Origin!RunRefused \/ Origin!KillRun
  <2>1. /\ run' = Origin!Idle
        /\ UNCHANGED <<served, manifest, reader, draft, cited, applied, sealed, torn, sent,
                       changes, backfills>>
    BY <1>1 DEF Origin!RunRefused, Origin!KillRun, Origin!bounds, Origin!files
  <2>3. Asking'
    BY <2>1 DEF OriginInv, Asking, Programs, Origin!Idle, Origin!NoRun
  <2>4. Origin!TypeOK'
    BY <1>0, <2>1, IdleType, TypeKept DEF OriginInv, Origin!TypeOK
  <2>5. QED
    BY <2>1, <2>3, <2>4, CapturesKept DEF OriginInv
<1>2. CASE \E s \in Origin!Sides : Origin!RequestFails(s)
  <2>1. PICK s \in Origin!Sides : Origin!RequestFails(s)
    BY <1>2
  <2>2. /\ run' = [run EXCEPT !.todo = @ \ {s}]
        /\ UNCHANGED <<served, reader, draft, cited, applied, sealed, torn, sent, changes,
                       backfills>>
        /\ manifest' = Origin!Captured(s, 0, run.id)
    BY <2>1 DEF Origin!RequestFails, Origin!Asked, Origin!files
  <2>3. Asking'
    BY <2>2 DEF OriginInv, Asking, Programs
  <2>4. 0 \in 0..MaxVersion /\ run.id \in Nat
    BY DEF OriginInv, Asking, Programs, Origin!TransitionsAssumption
  <2> DEFINE c == [side |-> s, version |-> 0, run |-> run.id]
  <2>5. /\ Len(manifest') \in Nat /\ Len(manifest') >= Len(manifest)
        /\ \A i \in DOMAIN manifest : i \in DOMAIN manifest' /\ manifest'[i] = manifest[i]
        /\ manifest' \in Seq(Record)
        /\ Grown(c)
    BY <2>2, <2>4, CaptureEffect
  <2>6. FirstSent'
    <3>1. c \in Record /\ c.version = 0
      BY <2>4 DEF Record
    <3> HIDE DEF c
    <3>2. QED
      BY <2>2, <2>5, <3>1, FirstSentKept
  <2>7. Citing'
    BY <2>2, <2>5, CitingKept DEF OriginInv, Citing
  <2>9. Origin!TypeOK'
    <3>1. /\ manifest' \in Seq([side : Origin!Sides, version : 0..MaxVersion, run : Nat])
          /\ DOMAIN manifest \subseteq DOMAIN manifest'
          /\ 0..Len(manifest) \subseteq 0..Len(manifest')
          /\ 0..Origin!Now \subseteq (0..Origin!Now)'
      BY <2>5, GrownType
    <3>2. run'.id = run.id /\ run'.known = run.known /\ run'.todo \subseteq run.todo
      BY <2>2 DEF OriginInv, Asking, Programs
    <3>3. QED
      BY <1>0, <2>2, <3>1, <3>2 DEF OriginInv, Origin!TypeOK
  <2>10. QED
    BY <2>3, <2>6, <2>7, <2>9 DEF OriginInv
<1>3. CASE \E s \in Origin!Sides : Origin!KillRunCapturing(s)
  <2>1. PICK s \in Origin!Sides : Origin!KillRunCapturing(s)
    BY <1>3
  <2>2. /\ run' = Origin!Idle /\ s \in run.todo
        /\ UNCHANGED <<served, reader, draft, cited, applied, changes, backfills>>
        /\ Origin!CutShort(s, run.id)
        /\ IF manifest' = manifest THEN UNCHANGED sent ELSE Origin!Seen(s)
    BY <2>1 DEF Origin!KillRunCapturing, Origin!InTurn
  <2>3. Asking'
    BY <2>2 DEF OriginInv, Asking, Programs, Origin!Idle, Origin!NoRun
  <2>4. served[s] # 0 /\ served[s] \in 0..MaxVersion /\ run.id \in Nat
    BY <2>2 DEF OriginInv, Asking, Programs, Origin!TypeOK
  <2>5. /\ manifest' = manifest \/ manifest' = Origin!Captured(s, served[s], run.id)
        /\ sealed' \in BOOLEAN /\ torn' \subseteq Origin!Sides \X Origin!Versions
    BY <2>2, <2>4, CutEffect DEF OriginInv, Origin!TypeOK
  <2>6. /\ Len(manifest') \in Nat /\ Len(manifest') >= Len(manifest)
        /\ \A i \in DOMAIN manifest : i \in DOMAIN manifest' /\ manifest'[i] = manifest[i]
        /\ manifest' \in Seq(Record)
    <3>1. CASE manifest' = manifest
      BY <3>1, ManifestType
    <3>2. CASE manifest' = Origin!Captured(s, served[s], run.id)
      BY <2>2, <2>4, <3>2, CaptureEffect DEF OriginInv, Asking, Programs
    <3>3. QED
      BY <2>5, <3>1, <3>2
  <2>7. FirstSent' /\ sent' \in [Origin!Sides -> [Origin!Versions -> [at : Nat, run : Nat]]]
    <3>1. CASE manifest' = manifest
      BY <2>2, <3>1, CapturesKept DEF OriginInv, Origin!TypeOK
    <3>2. CASE manifest' # manifest
      BY <2>2, <2>5, <3>2, FirstSentReceive, SeenType
    <3>3. QED
      BY <3>1, <3>2
  <2>8. Citing'
    BY <2>2, <2>6, CitingKept DEF OriginInv, Citing
  <2>9. Origin!TypeOK'
    <3>1. /\ manifest' \in Seq([side : Origin!Sides, version : 0..MaxVersion, run : Nat])
          /\ DOMAIN manifest \subseteq DOMAIN manifest'
          /\ 0..Len(manifest) \subseteq 0..Len(manifest')
          /\ 0..Origin!Now \subseteq (0..Origin!Now)'
      BY <2>6, GrownType
    <3>2. 0 \in (0..Origin!Now)'
      BY <2>6 DEF Origin!Now
    <3>3. QED
      BY <1>0, <2>2, <2>5, <2>7, <3>1, <3>2 DEF OriginInv, Origin!TypeOK, Origin!Idle, Origin!NoRun
  <2>10. QED
    BY <2>3, <2>7, <2>8, <2>9 DEF OriginInv
<1>4. QED
  BY <1>1, <1>2, <1>3

(* Likewise: the backfill.                                                 *)
LEMMA BackfillStep ==
  ASSUME Origin!TransitionsAssumption, OriginInv,
         \/ Origin!StartBackfill \/ Origin!CommitBackfill
         \/ Origin!BackfillRefused \/ Origin!KillBackfill
         \/ \E s \in Origin!Sides : Origin!ReadDetail(s) \/ Origin!KillBackfillCapturing(s)
  PROVE  OriginInv'
<1>1. CASE Origin!StartBackfill
  <2>1. reader' = [id |-> 1, known |-> DOMAIN manifest,
                   todo |-> {s \in Origin!Sides : served[s] # 0}]
    BY <1>1 DEF Origin!StartBackfill, Origin!files
  <2>2. UNCHANGED <<served, manifest, run, draft, cited, applied, sealed, torn, sent, changes,
                    faults>>
    BY <1>1 DEF Origin!StartBackfill, Origin!files
  <2>3. backfills' \in 0..MaxBackfills
    BY <1>1 DEF OriginInv, Origin!TypeOK, Origin!StartBackfill, Origin!TransitionsAssumption
  <2>4. Asking'
    BY <2>1, <2>2, StartEffect DEF OriginInv, Asking, Programs
  <2>5. Origin!TypeOK'
    <3>1. /\ reader'.id \in 0..Origin!Now /\ reader'.known \subseteq DOMAIN manifest
          /\ reader'.todo \subseteq Origin!Sides
      BY <2>1, IdleType
    <3>2. QED
      BY <2>2, <2>3, <3>1, TypeKept DEF OriginInv, Origin!TypeOK
  <2>6. QED
    BY <2>2, <2>4, <2>5, CapturesKept DEF OriginInv
<1>2. CASE Origin!BackfillRefused \/ Origin!KillBackfill
  <2>1. /\ reader' = Origin!Idle /\ draft' = Origin!Nothing
        /\ UNCHANGED <<served, manifest, run, cited, applied, sealed, torn, sent, changes,
                       backfills>>
    BY <1>2 DEF Origin!BackfillRefused, Origin!KillBackfill, Origin!bounds, Origin!files
  <2>2. faults' \in 0..MaxFaults
    BY <1>2 DEF OriginInv, Origin!TypeOK, Origin!BackfillRefused, Origin!KillBackfill,
       Origin!bounds, Origin!TransitionsAssumption
  <2>3. Asking'
    BY <2>1 DEF OriginInv, Asking, Programs, Origin!Idle, Origin!NoRun
  <2>4. Origin!TypeOK'
    BY <2>1, <2>2, IdleType, TypeKept DEF OriginInv, Origin!TypeOK, Origin!Nothing
  <2>5. Citing'
    BY <2>1, CapturesKept DEF OriginInv, Citing, Origin!Nothing
  <2>6. QED
    BY <2>1, <2>3, <2>4, <2>5, CapturesKept DEF OriginInv
<1>3. CASE Origin!CommitBackfill
  <2>1. /\ cited' = [s \in Origin!Sides |-> IF draft[s] = 0 THEN cited[s] ELSE draft[s]]
        /\ applied' = applied \cup {draft[s] : s \in {x \in Origin!Sides : draft[x] # 0}}
        /\ draft' = Origin!Nothing /\ reader' = Origin!Idle
        /\ UNCHANGED <<served, manifest, run, sealed, torn, sent, changes, faults, backfills>>
    BY <1>3 DEF Origin!CommitBackfill, Origin!bounds, Origin!files
  <2>2. Asking'
    BY <2>1 DEF OriginInv, Asking, Programs, Origin!Idle, Origin!NoRun
  <2>3. Citing'
    BY <2>1, CapturesKept DEF OriginInv, Citing, Origin!Nothing
  <2>4. applied' \subseteq DOMAIN manifest
    BY <2>1 DEF OriginInv, Citing, CapturesOf, Origin!TypeOK
  <2>5. cited' \in [Origin!Sides -> 0..Len(manifest)]
    BY <2>1 DEF OriginInv, Origin!TypeOK
  <2>6. Origin!TypeOK'
    <3>1. /\ draft' = Origin!Nothing /\ reader' = Origin!Idle
          /\ UNCHANGED <<served, manifest, run, sealed, torn, sent, changes, faults, backfills>>
      BY <2>1
    <3>2. QED
      BY <2>4, <2>5, <3>1, StartEffect DEF OriginInv, Origin!TypeOK, Origin!Idle, Origin!NoRun,
         Origin!Nothing, Origin!Now
  <2>7. QED
    BY <2>1, <2>2, <2>3, <2>6, CapturesKept DEF OriginInv
<1>4. CASE \E s \in Origin!Sides : Origin!ReadDetail(s)
  <2>1. PICK s \in Origin!Sides : Origin!ReadDetail(s)
    BY <1>4
  <2>2. /\ reader' = [reader EXCEPT !.todo = @ \ {s}]
        /\ UNCHANGED <<served, run, cited, applied, torn, sent, changes, faults, backfills>>
        /\ s \in reader.todo
    BY <2>1 DEF Origin!ReadDetail, Origin!InTurn, Origin!bounds
  <2>0. sealed' \in BOOLEAN
    BY <2>1 DEF OriginInv, Origin!TypeOK, Origin!ReadDetail, Origin!Beside
  <2>3. Asking'
    BY <2>2 DEF OriginInv, Asking, Programs
  <2>4. served[s] \in 0..MaxVersion /\ served[s] # 0 /\ Origin!NoRun \in Nat
    BY <2>2 DEF OriginInv, Origin!TypeOK, Asking, Origin!NoRun
  <2> DEFINE c == [side |-> s, version |-> served[s], run |-> Origin!NoRun]
  <2>5. /\ Len(manifest') \in Nat /\ Len(manifest') >= Len(manifest)
        /\ \A i \in DOMAIN manifest : i \in DOMAIN manifest' /\ manifest'[i] = manifest[i]
        /\ manifest' \in Seq(Record)
        /\ Grown(c)
        /\ \E p \in CapturesOf(s)' : draft' = [draft EXCEPT ![s] = p]
    <3>1. CASE Origin!Unmodified(s, reader.known)
      <4>1. UNCHANGED manifest /\ draft' = [draft EXCEPT ![s] = Origin!Latest(s, reader.known)]
        BY <2>1, <3>1 DEF Origin!ReadDetail
      <4>2. reader.known \in SUBSET DOMAIN manifest
        BY DEF OriginInv, Origin!TypeOK
      <4>3. Origin!Latest(s, reader.known) \in CapturesOf(s)'
        BY <2>4, <3>1, <4>1, <4>2, LatestType, CapturesKept
      <4>4. Grown(c)
        BY <4>1 DEF Grown
      <4>5. \E p \in CapturesOf(s)' : draft' = [draft EXCEPT ![s] = p]
        BY <4>1, <4>3
      <4>6. /\ Len(manifest') \in Nat /\ Len(manifest') >= Len(manifest)
            /\ \A i \in DOMAIN manifest : i \in DOMAIN manifest' /\ manifest'[i] = manifest[i]
            /\ manifest' \in Seq(Record)
        BY <4>1, ManifestType
      <4>7. QED
        BY <4>4, <4>5, <4>6
    <3>2. CASE ~Origin!Unmodified(s, reader.known)
      <4>1. /\ manifest' = Origin!Captured(s, served[s], Origin!NoRun)
            /\ draft' = [draft EXCEPT ![s] = Origin!PlaceOf(s, served[s], Origin!NoRun)]
        BY <2>1, <3>2 DEF Origin!ReadDetail
      <4>2. /\ Len(manifest') \in Nat /\ Len(manifest') >= Len(manifest)
            /\ \A i \in DOMAIN manifest : i \in DOMAIN manifest' /\ manifest'[i] = manifest[i]
            /\ manifest' \in Seq(Record)
            /\ Grown(c)
            /\ LET p == Origin!PlaceOf(s, served[s], Origin!NoRun)
               IN  p \in DOMAIN manifest' /\ manifest'[p].side = s
                     /\ manifest'[p].version = served[s]
        BY <2>4, <4>1, CaptureEffect
      <4>3. Origin!PlaceOf(s, served[s], Origin!NoRun) \in CapturesOf(s)'
        BY <2>4, <4>2 DEF CapturesOf
      <4>4. QED
        BY <4>1, <4>2, <4>3
    <3>3. QED
      BY <3>1, <3>2
  <2>6. FirstSent'
    <3>1. c \in Record /\ c.run = Origin!NoRun
      BY <2>4 DEF Record
    <3> HIDE DEF c
    <3>2. QED
      BY <2>2, <2>5, <3>1, FirstSentKept
  <2>7. PICK p \in CapturesOf(s)' : draft' = [draft EXCEPT ![s] = p]
    BY <2>5
  <2>8. draft \in [Origin!Sides -> 0..Len(manifest)]
    BY DEF OriginInv, Origin!TypeOK
  <2>9. Citing'
    <3>1. \A t \in Origin!Sides : cited'[t] = 0 \/ cited'[t] \in CapturesOf(t)'
      BY <2>2, <2>5, CitingKept DEF OriginInv, Citing
    <3>2. \A t \in Origin!Sides : draft'[t] = 0 \/ draft'[t] \in CapturesOf(t)'
      <4> TAKE t \in Origin!Sides
      <4>1. CASE t = s
        BY <2>7, <2>8, <4>1
      <4>2. CASE t # s
        BY <2>5, <2>7, <2>8, <4>2, CitingKept DEF OriginInv, Citing
      <4>3. QED
        BY <4>1, <4>2
    <3>3. QED
      BY <3>1, <3>2 DEF Citing
  <2>10. Origin!TypeOK'
    <3>1. /\ manifest' \in Seq([side : Origin!Sides, version : 0..MaxVersion, run : Nat])
          /\ DOMAIN manifest \subseteq DOMAIN manifest'
          /\ 0..Len(manifest) \subseteq 0..Len(manifest')
          /\ 0..Origin!Now \subseteq (0..Origin!Now)'
      BY <2>5, GrownType
    <3>2. reader'.id = reader.id /\ reader'.known = reader.known /\ reader'.todo \subseteq reader.todo
      BY <2>2 DEF OriginInv, Asking, Programs
    <3>3. p \in 0..Len(manifest')
      <4>1. DOMAIN manifest' = 1..Len(manifest')
        BY <2>5
      <4>2. QED
        BY <2>5, <2>7, <4>1 DEF CapturesOf
    <3>4. draft' \in [Origin!Sides -> 0..Len(manifest')]
      BY <2>7, <2>8, <3>1, <3>3
    <3>5. QED
      BY <2>0, <2>2, <3>1, <3>2, <3>4 DEF OriginInv, Origin!TypeOK
  <2>11. QED
    BY <2>3, <2>6, <2>9, <2>10 DEF OriginInv
<1>5. CASE \E s \in Origin!Sides : Origin!KillBackfillCapturing(s)
  <2>1. PICK s \in Origin!Sides : Origin!KillBackfillCapturing(s)
    BY <1>5
  <2>2. /\ reader' = Origin!Idle /\ draft' = Origin!Nothing /\ s \in reader.todo
        /\ UNCHANGED <<served, run, cited, applied, sent, changes, backfills>>
        /\ Origin!CutShort(s, Origin!NoRun)
    BY <2>1 DEF Origin!KillBackfillCapturing, Origin!InTurn
  <2>3. Asking'
    BY <2>2 DEF OriginInv, Asking, Programs, Origin!Idle, Origin!NoRun
  <2>4. served[s] # 0 /\ served[s] \in 0..MaxVersion /\ Origin!NoRun \in Nat
    BY <2>2 DEF OriginInv, Asking, Origin!TypeOK, Origin!NoRun
  <2>5. /\ manifest' = manifest \/ manifest' = Origin!Captured(s, served[s], Origin!NoRun)
        /\ sealed' \in BOOLEAN /\ torn' \subseteq Origin!Sides \X Origin!Versions
    BY <2>2, <2>4, CutEffect DEF OriginInv, Origin!TypeOK
  <2> DEFINE c == [side |-> s, version |-> served[s], run |-> Origin!NoRun]
  <2>6. /\ Len(manifest') \in Nat /\ Len(manifest') >= Len(manifest)
        /\ \A i \in DOMAIN manifest : i \in DOMAIN manifest' /\ manifest'[i] = manifest[i]
        /\ manifest' \in Seq(Record)
        /\ Grown(c)
    <3>1. CASE manifest' = manifest
      BY <3>1, ManifestType DEF Grown
    <3>2. CASE manifest' = Origin!Captured(s, served[s], Origin!NoRun)
      BY <2>4, <3>2, CaptureEffect
    <3>3. QED
      BY <2>5, <3>1, <3>2
  <2>7. FirstSent'
    <3>1. c \in Record /\ c.run = Origin!NoRun
      BY <2>4 DEF Record
    <3> HIDE DEF c
    <3>2. QED
      BY <2>2, <2>6, <3>1, FirstSentKept
  <2>8. Citing'
    BY <2>2, <2>6, CitingKept DEF OriginInv, Citing, Origin!Nothing
  <2>9. Origin!TypeOK'
    <3>1. /\ manifest' \in Seq([side : Origin!Sides, version : 0..MaxVersion, run : Nat])
          /\ DOMAIN manifest \subseteq DOMAIN manifest'
          /\ 0..Len(manifest) \subseteq 0..Len(manifest')
          /\ 0..Origin!Now \subseteq (0..Origin!Now)'
      BY <2>6, GrownType
    <3>2. 0 \in (0..Origin!Now)' /\ 0 \in 0..Len(manifest')
      BY <2>6 DEF Origin!Now
    <3>3. faults' \in 0..MaxFaults
      BY <2>1 DEF OriginInv, Origin!TypeOK, Origin!KillBackfillCapturing,
         Origin!TransitionsAssumption
    <3>4. draft' \in [Origin!Sides -> 0..Len(manifest')]
      BY <2>2, <3>2 DEF Origin!Nothing
    <3>5. /\ reader'.id \in (0..Origin!Now)' /\ reader'.known \subseteq DOMAIN manifest'
          /\ reader'.todo \subseteq Origin!Sides
      BY <2>2, <3>2, IdleType
    <3>6. QED
      BY <2>2, <2>5, <3>1, <3>3, <3>4, <3>5 DEF OriginInv, Origin!TypeOK
  <2>10. QED
    BY <2>3, <2>7, <2>8, <2>9 DEF OriginInv
<1>6. QED
  BY <1>1, <1>2, <1>3, <1>4, <1>5

(* Likewise: the apply step.                                               *)
LEMMA ApplyStep ==
  ASSUME Origin!TransitionsAssumption, OriginInv, Origin!Apply
  PROVE  OriginInv'
<1>1. /\ cited' = [s \in Origin!Sides |-> Origin!MergedRow(s)]
      /\ applied' = applied \cup Origin!Unapplied
      /\ UNCHANGED <<served, manifest, run, reader, draft, sealed, torn, sent, changes, faults,
                     backfills>>
  BY DEF Origin!Apply, Origin!bounds, Origin!files
<1>2. Origin!Unapplied \subseteq DOMAIN manifest
  BY DEF Origin!Unapplied
<1>3. \A s \in Origin!Sides : cited'[s] = 0 \/ cited'[s] \in CapturesOf(s)
  <2> TAKE s \in Origin!Sides
  <2> DEFINE of == {i \in Origin!Unapplied : manifest[i].side = s}
  <2>1. cited'[s] = IF of = {} THEN cited[s] ELSE Origin!Max(of)
    BY <1>1 DEF Origin!MergedRow
  <2>2. CASE of = {}
    BY <2>1, <2>2 DEF OriginInv, Citing
  <2>3. CASE of # {}
    <3>1. of \in SUBSET (1..Len(manifest)) /\ Len(manifest) \in Nat
      BY <1>2, ManifestType
    <3>2. Origin!Max(of) \in of
      BY <2>3, <3>1, Ends
    <3>3. of \subseteq CapturesOf(s)
      BY DEF CapturesOf, Origin!Unapplied
    <3>4. QED
      BY <2>1, <2>3, <3>2, <3>3
  <2>4. QED
    BY <2>2, <2>3
<1>4. Citing'
  BY <1>1, <1>3, CapturesKept DEF OriginInv, Citing
<1>5. cited' \in [Origin!Sides -> 0..Len(manifest)]
  <2>1. \A s \in Origin!Sides : CapturesOf(s) \subseteq 0..Len(manifest) /\ 0 \in 0..Len(manifest)
    BY ManifestType DEF CapturesOf
  <2>2. \A s \in Origin!Sides : cited'[s] \in 0..Len(manifest)
    BY <1>3, <2>1
  <2>3. QED
    BY <1>1, <2>2
<1>6. applied' \subseteq DOMAIN manifest
  BY <1>1, <1>2 DEF OriginInv, Origin!TypeOK
<1>7. Origin!TypeOK'
  <2>1. UNCHANGED <<served, manifest, run, reader, draft, sealed, torn, sent, changes, faults,
                    backfills>>
    BY <1>1
  <2>2. QED
    BY <1>5, <1>6, <2>1 DEF OriginInv, Origin!TypeOK, Origin!Now
<1>8. Asking'
  BY <1>1 DEF OriginInv, Asking
<1>9. QED
  BY <1>1, <1>4, <1>7, <1>8, CapturesKept DEF OriginInv

(* Likewise: the city.                                                     *)
LEMMA PublishStep ==
  ASSUME Origin!TransitionsAssumption, OriginInv,
         NEW s \in Origin!Sides, NEW v \in Origin!Versions, Origin!Publish(s, v)
  PROVE  OriginInv'
<1>1. /\ served' = [served EXCEPT ![s] = v]
      /\ UNCHANGED <<manifest, run, reader, draft, cited, applied, sealed, torn, sent, faults,
                     backfills>>
  BY DEF Origin!Publish, Origin!files
<1>2. changes' \in 0..MaxChanges
  BY DEF OriginInv, Origin!TypeOK, Origin!Publish, Origin!TransitionsAssumption
<1>3. v \in 0..MaxVersion /\ v # 0
  BY DEF Origin!Versions, Origin!TransitionsAssumption
<1>4. served \in [Origin!Sides -> 0..MaxVersion]
  BY DEF OriginInv, Origin!TypeOK
<1>5. served' \in [Origin!Sides -> 0..MaxVersion]
  BY <1>1, <1>3, <1>4
<1>6. Origin!TypeOK'
  BY <1>1, <1>2, <1>5 DEF OriginInv, Origin!TypeOK, Origin!Now
<1>7. Asking'
  <2>1. \A t \in Origin!Sides : served[t] # 0 => served'[t] # 0
    BY <1>1, <1>3, <1>4
  <2>2. QED
    BY <1>1, <2>1 DEF OriginInv, Asking, Programs
<1>8. QED
  BY <1>1, <1>6, <1>7, CapturesKept DEF OriginInv

(* Every step does.                                                        *)
LEMMA OriginStep ==
  ASSUME Origin!TransitionsAssumption, OriginInv, [Origin!Next]_Origin!vars
  PROVE  OriginInv'
<1>1. CASE UNCHANGED Origin!vars
  <2>1. UNCHANGED <<served, manifest, run, reader, draft, cited, applied, sealed, torn, sent,
                    changes, faults, backfills>>
    BY <1>1 DEF Origin!vars, Origin!bounds, Origin!files
  <2>2. Origin!TypeOK' /\ Asking'
    BY <2>1 DEF OriginInv, Origin!TypeOK, Asking, Origin!Now
  <2>3. QED
    BY <2>1, <2>2, CapturesKept DEF OriginInv
<1>2. CASE Origin!Next
  BY <1>2, CollectorStep, FailStep, BackfillStep, ApplyStep, PublishStep DEF Origin!Next
<1>3. QED
  BY <1>1, <1>2

(* After the baseline the label is about a version that the collector was  *)
(* first sent then.                                                        *)
LEMMA OriginIsNew ==
  ASSUME Origin!TransitionsAssumption, OriginInv
  PROVE  Origin!ObservedIsNew
<1> DEFINE p == cited["earlier"]
           c == cited["later"]
           first == sent["later"][manifest[c].version]
<1> SUFFICES ASSUME Origin!Labelled, p > Baseline
             PROVE  /\ Origin!Forward(p) /\ Origin!Forward(c)
                    /\ \/ first.at > p /\ first.run > manifest[p].run
                       \/ \E i \in 1..(c - 1) :
                            /\ manifest[i].side = "later"
                            /\ manifest[i].version = manifest[c].version
                            /\ ~Origin!Forward(i)
  BY DEF Origin!ObservedIsNew
<1>1. p \in CapturesOf("earlier") /\ c \in CapturesOf("later")
  BY DEF OriginInv, Citing, Origin!Labelled, Origin!Sides
<1>2. c \in DOMAIN manifest /\ manifest[c].side = "later" /\ manifest[c].version # 0
  BY <1>1 DEF CapturesOf
<1>3. /\ manifest[p].run \in Nat /\ manifest[c].run \in Nat
      /\ p \in Nat /\ c \in Nat /\ Baseline \in Nat
  BY <1>1, <1>2, ManifestType DEF CapturesOf, Record, Origin!TransitionsAssumption
<1> HIDE DEF p, c
<1>4. Origin!Forward(c) /\ c > p /\ Origin!Forward(p) /\ manifest[p].run < manifest[c].run
  BY <1>3 DEF Origin!Labelled, Origin!Observed, p, c
<1>5. \/ first = [at |-> c, run |-> manifest[c].run]
      \/ \E j \in 1..(c - 1) : Foreign(manifest, j, "later", manifest[c].version)
  BY <1>2, <1>4 DEF OriginInv, FirstSent, Origin!Forward
<1>6. CASE first = [at |-> c, run |-> manifest[c].run]
  BY <1>3, <1>4, <1>6
<1>7. CASE \E j \in 1..(c - 1) : Foreign(manifest, j, "later", manifest[c].version)
  BY <1>4, <1>7 DEF Foreign, Origin!Forward
<1>8. QED
  BY <1>4, <1>5, <1>6, <1>7

(* The captures, rows and programs behind a label keep their types.        *)
THEOREM OriginTypes ==
  ASSUME Origin!TransitionsAssumption
  PROVE  Origin!Spec => []Origin!TypeOK
<1>1. OriginInv => Origin!TypeOK
  BY DEF OriginInv
<1>2. QED
  BY OriginInit, OriginStep, <1>1, PTL DEF Origin!Spec

(* Where the label stands on two captures after the baseline, the          *)
(* collector made both, and had not been sent the later version, nor told  *)
(* by a 304 that it stands, before a run after the one that captured the   *)
(* earlier, unless another program had captured it before: for any         *)
(* baseline, any number of versions, failures, kills and backfills         *)
(* (drift.py, _transition_origin).                                         *)
THEOREM ObservedByPage47 ==
  ASSUME Origin!TransitionsAssumption
  PROVE  Origin!Spec => []Origin!ObservedIsNew
BY OriginInit, OriginStep, OriginIsNew, PTL DEF Origin!Spec
=============================================================================
