-------------------------------- MODULE Drift --------------------------------
(***************************************************************************)
(* How two recorded appearances of a matter are compared (analysis/        *)
(* drift.py, signature.py): the direction of the title and of the agenda   *)
(* placement, the state they add up to, and the pairs a change of          *)
(* substance explains.                                                     *)
(*                                                                         *)
(* A facet stands for a subject, an action, an object or a quantity in the *)
(* anchors of an appearance's documents; Mentions gives the facets in the  *)
(* words of a title.  A paper without facets has no words to match either, *)
(* so that its title matches nothing.  A source is identified by the       *)
(* appearance it belongs to and by what it shows there: a page captured    *)
(* again with the same contents is the same source.                        *)
(***************************************************************************)
EXTENDS Integers, FiniteSets, Sequences

CONSTANTS
  Facets,               \* The facets of documents and titles.
  Titles, NoTitle,      \* The titles as presented, and a title not recorded.
  Mentions,             \* The facets each title names.
  MinimumOverlap,       \* minimum_title_overlap of presentation.yaml.
  MinimumAppearances    \* minimum_appearances of presentation.yaml.

ASSUME FacetsFinite == IsFiniteSet(Facets)
ASSUME TitlesMention == NoTitle \notin Titles /\ Mentions \in [Titles -> SUBSET Facets]
ASSUME MinimumsValid == MinimumOverlap \in Nat \ {0} /\ MinimumAppearances \in Nat \ {0, 1}

Appearance == [title : Titles \cup {NoTitle},
               facets : SUBSET Facets,
               placement : {"consent", "regular", "unknown"}]

Direction == {"clearer", "less_clear", "neutral"}

(* title_coverage: the facets the title names among those on record.       *)
Named(a) == IF a.title = NoTitle THEN {} ELSE Mentions[a.title]
Matched(a) == Cardinality(Named(a) \cap a.facets)
Total(a) == Cardinality(a.facets)

(* The title of a covers a smaller share of its facets than that of b, or, *)
(* where one of them has none, fewer.                                      *)
CoversLess(a, b) ==
  IF Total(a) > 0 /\ Total(b) > 0
  THEN Matched(a) * Total(b) < Matched(b) * Total(a)
  ELSE Matched(a) < Matched(b)

(* _title_observation, for two titles on record. *)
TitleDirection(a, b) ==
  IF a.title = b.title \/ (Matched(a) < MinimumOverlap /\ Matched(b) < MinimumOverlap)
  THEN "neutral"
  ELSE IF CoversLess(b, a) THEN "less_clear"
  ELSE IF CoversLess(a, b) THEN "clearer"
  ELSE "neutral"

(* _placement_observation, for two placements on record. *)
PlacementDirection(a, b) ==
  IF a.placement = b.placement THEN "neutral"
  ELSE IF b.placement = "consent" THEN "less_clear"
  ELSE "clearer"

(* state_from_direction_counts: opposite directions are mixed, they never  *)
(* cancel out, and a single neutral observation determines nothing.        *)
StateOf(observations) ==
  LET Some(direction) == \E o \in observations : o.direction = direction
  IN  IF Some("clearer") /\ Some("less_clear") THEN "mixed"
      ELSE IF Some("less_clear") THEN "less_clear"
      ELSE IF Some("clearer") THEN "clearer"
      ELSE IF Cardinality(observations) < 2 THEN "cannot_determine"
      ELSE "unchanged"

(***************************************************************************)
(* The sources and comparisons of a case, which is a sequence of           *)
(* appearances in the order of their meetings.                             *)
(***************************************************************************)

ItemLink(c, i) == <<i, "item", c[i].title>>
AgendaLink(c, i) == <<i, "agenda", c[i].placement>>
PaperLink(c, i) == <<i, "paper", c[i].facets>>

(* The record that lists an appearance's document, which need not be the   *)
(* one of its item, and that of the matter, which no comparison cites.     *)
ListingLink(c, i) == <<i, "listing", c[i].facets>>
MatterLink == <<0, "matter">>

(* _evidence_catalog: what a report about the case may cite.  An           *)
(* attachment nothing was read of is listed by the record of its item.     *)
Sources(c) ==
  {MatterLink} \cup
  UNION {{ItemLink(c, i)}
           \cup (IF c[i].placement # "unknown" THEN {AgendaLink(c, i)} ELSE {})
           \cup (IF c[i].facets # {} THEN {PaperLink(c, i), ListingLink(c, i)} ELSE {}) :
           i \in DOMAIN c}

TitleObservations(c, i) ==
  IF c[i].title = NoTitle \/ c[i + 1].title = NoTitle THEN {}
  ELSE {[id |-> <<"record", IF c[i].title = c[i + 1].title THEN "title_unchanged"
                            ELSE "title_changed">>,
         direction |-> TitleDirection(c[i], c[i + 1]),
         links |-> {ItemLink(c, i), ItemLink(c, i + 1)}]}

PlacementObservations(c, i) ==
  IF c[i].placement = "unknown" \/ c[i + 1].placement = "unknown" THEN {}
  ELSE {[id |-> <<"record", CASE PlacementDirection(c[i], c[i + 1]) = "neutral" -> "agenda_placement_unchanged"
                              [] PlacementDirection(c[i], c[i + 1]) = "less_clear" -> "moved_to_consent"
                              [] OTHER -> "moved_to_regular">>,
         direction |-> PlacementDirection(c[i], c[i + 1]),
         links |-> {AgendaLink(c, i), AgendaLink(c, i + 1)}]}

(* _compare_pair: appearance i and the next one. *)
Compared(c, i) == TitleObservations(c, i) \cup PlacementObservations(c, i)

(* compare_all_appearances: every adjacent pair, if there are enough.      *)
Pairs(c) == IF Len(c) < MinimumAppearances THEN {} ELSE 1..(Len(c) - 1)

(* _structural_observation: the last comparison only. *)
Structural(c) == IF Pairs(c) = {} THEN {} ELSE Compared(c, Len(c) - 1)

(* Fault: any change of substance explains. *)
ExplainedByChange(c, i) ==
  /\ c[i].facets # c[i + 1].facets
  /\ Total(c[i]) > 0 /\ Total(c[i + 1]) > 0

(* material_signature_changed, and a later title that represents the later *)
(* substance better than the earlier one did the earlier substance.        *)
Explained(c, i) ==
  /\ c[i].facets # c[i + 1].facets
  /\ Total(c[i]) > 0 /\ Total(c[i + 1]) > 0
  /\ CoversLess(c[i], c[i + 1])
=============================================================================
