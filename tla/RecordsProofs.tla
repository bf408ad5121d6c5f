--------------------------- MODULE RecordsProofs ---------------------------
(***************************************************************************)
(* What holds of the record database for any events, items, captures and   *)
(* calibration, in whatever order captures come and steps run or die.      *)
(***************************************************************************)
EXTENDS Records, TLAPS, FiniteSetTheorems, WellFoundedInduction, SequenceTheorems

(***************************************************************************)
(* The inductive invariant: what is promised of the committed tables, and  *)
(* the same of the open transaction, over the captures it has got to.      *)
(***************************************************************************)

(* The captures that the tables account for. *)
Past == 1..covered
Done == (1..covered) \cup (1..(pos - 1))

ByAgenda(d, i) ==
  LET k == d.placeFrom[i]
  IN  /\ manifest[k].target = <<"agenda", Home[i]>>
      /\ IF Readable(k) THEN d.title[i] # NoTitle /\ d.placement[i] = PlacementOf(k, d.title[i])
         ELSE d.placement[i] = "cannot_determine"

ByValue(d, i) ==
  LET k == d.placeFrom[i]
  IN  /\ city = "api" /\ States(k, i)
      /\ Value[manifest[k].body][i] \in DOMAIN Mapping
      /\ d.placement[i] = Mapping[Value[manifest[k].body][i]]

(* Titles, values and placements are those of the captures they cite.      *)
Sourced(d, n) ==
  \A i \in Items :
    /\ d.title[i] # NoTitle =>
         /\ d.titleFrom[i] \in 1..n /\ States(d.titleFrom[i], i)
         /\ Title[manifest[d.titleFrom[i]].body][i] = d.title[i]
    /\ d.value[i] # NoValue =>
         /\ d.valueFrom[i] \in 1..n /\ States(d.valueFrom[i], i)
         /\ Value[manifest[d.valueFrom[i]].body][i] = d.value[i]
    /\ d.placement[i] # "none" => d.placeFrom[i] \in 1..n /\ (ByAgenda(d, i) \/ ByValue(d, i))

Observed(d, n, K) ==
  \A a \in Attachments :
    /\ d.first[a] # 0 => d.first[a] \in 1..n /\ Names(d.first[a], a)
    /\ \A k \in K : Names(k, a) => d.first[a] # 0 /\ d.first[a] <= k

(* A capture that was applied in full.                                     *)
Whole(d, k) ==
  LET v == manifest[k].body
      items == (Stored[v] \cup Raised[v]) \cap ItemsOf(manifest[k].target[2])
  IN  /\ k \in d.applied /\ v \notin Unparsable
      /\ \A i \in items : i \in Stored[v] \ Raised[v] /\ d.seen[i] # 0
      /\ \A i \in items, a \in Attachments : a \in Files[v][i] => <<i, a>> \in d.links

(* What failed once fails whenever it is tried again.                      *)
Hopeless(k) ==
  \/ manifest[k].body \in Unparsable
  \/ ~Complete(manifest[k].body, manifest[k].target[2])

Accounted(d, K) ==
  /\ d.applied \subseteq K
  /\ \A k \in K : manifest[k].target[1] = "event" /\ Good(k) =>
       Whole(d, k) \/ (k \in d.failed \ d.applied /\ Hopeless(k))

Titlings(i, K) == {k \in K : States(k, i) /\ Title[manifest[k].body][i] # NoTitle}

Newest(d, K) ==
  \A i \in Items : Titlings(i, K) # {} =>
    /\ d.titleFrom[i] \in Titlings(i, K)
    /\ \/ \A k \in Titlings(i, K) : k <= d.titleFrom[i]
       \/ d.titleFrom[i] \in d.failed \ d.applied

Kept(d, n, m, K) == Sourced(d, n) /\ Observed(d, m, K) /\ Accounted(d, K) /\ Newest(d, K)

(* Readings are of PDFs that were captured for their attachment.           *)
ReadFrom(n) ==
  \A a \in Attachments : db.reading[a] # 0 =>
    /\ db.reading[a] \in 1..n
    /\ Pdf(db.reading[a]) /\ manifest[db.reading[a]].target[2] = a

(* The readings so far are of the last PDFs so far.                        *)
ReadSoFar ==
  \A k \in 1..(pos - 1), a \in Attachments :
    /\ Pdf(k) /\ manifest[k].target[2] = a
    /\ \A j \in 1..(pos - 1) : j > k => ~(Pdf(j) /\ manifest[j].target[2] = a)
    => db.reading[a] # 0 /\ manifest[db.reading[a]].body = manifest[k].body

RecordsInv ==
  /\ TypeOK
  /\ Kept(db, Len(manifest), covered, Past)
  /\ ReadFrom(Len(manifest))
  /\ pc = "applying" => covered <= loaded /\ Kept(draft, loaded, loaded, Done)
                        /\ draft.reading = db.reading
  /\ pc = "placing" => draft = db
  /\ pc = "reading" => ReadSoFar /\ ReadFrom(loaded)

(***************************************************************************)
(* Numbers.                                                                *)
(***************************************************************************)
LEMMA Least ==
  ASSUME NEW S \in SUBSET Nat, S # {}
  PROVE  \E m \in S : \A n \in S : m <= n
<1> DEFINE R == {ss \in Nat \X Nat : ss[1] < ss[2]}
<1>1. IsWellFoundedOn(R, Nat)
  BY NatLessThanWellFounded DEF OpToRel
<1> HIDE DEF R
<1>2. PICK m \in S : \A n \in S : <<n, m>> \notin R
  BY <1>1, WFMin
<1>3. \A n \in S : ~(n < m)
  BY <1>2 DEF R
<1>4. QED
  BY <1>3

(* A set of naturals below a bound has a greatest member.                  *)
LEMMA Greatest ==
  ASSUME NEW n \in Nat, NEW S \in SUBSET (1..n), S # {}
  PROVE  \E m \in S : \A i \in S : i <= m
<1> DEFINE B == {b \in Nat : \A i \in S : i <= b}
<1>1. n \in B
  OBVIOUS
<1>2. PICK b \in B : \A k \in B : b <= k
  BY <1>1, Least
<1>3. b \in S
  <2> SUFFICES ASSUME b \notin S
               PROVE  FALSE
    OBVIOUS
  <2>1. PICK i \in S : TRUE
    OBVIOUS
  <2>2. \A j \in S : j <= b - 1
    BY <1>2
  <2>3. b - 1 \in Nat
    BY <1>2, <2>1, <2>2
  <2>4. b - 1 \in B
    BY <2>2, <2>3
  <2>5. QED
    BY <1>2, <2>4
<1>4. QED
  BY <1>2, <1>3

(* So its Max is that member.                                              *)
LEMMA MaxIs ==
  ASSUME NEW n \in Nat, NEW S \in SUBSET (1..n), S # {}
  PROVE  Max(S) \in S /\ \A x \in S : x <= Max(S)
<1>1. \E m \in S : \A x \in S : m >= x
  <2>1. PICK m \in S : \A x \in S : x <= m
    BY Greatest
  <2>2. QED
    BY <2>1
<1>2. Max(S) \in S /\ \A x \in S : Max(S) >= x
  BY <1>1 DEF Max
<1>3. QED
  BY <1>2

(***************************************************************************)
(* Captures.                                                               *)
(***************************************************************************)
LEMMA CaptureIs ==
  ASSUME TypeOK, NEW k \in 1..Len(manifest)
  PROVE  /\ manifest[k].target \in Targets /\ manifest[k].body \in Versions
         /\ manifest[k].target[1] = "event" =>
              manifest[k].target = <<"event", manifest[k].target[2]>>
<1>1. manifest \in Seq(Captures)
  BY DEF TypeOK
<1>2. manifest[k] \in Captures
  BY <1>1
<1>3. QED
  BY <1>2, CapturesType DEF Targets

(* latest() of a target is one of its captures that were loaded.           *)
LEMMA LatestIs ==
  ASSUME TypeOK, NEW t
  PROVE  /\ Latest(t) \in 0..loaded /\ Latest(t) \in Nat
         /\ Latest(t) # 0 => Latest(t) \in 1..Len(manifest) /\ manifest[Latest(t)].target = t
         /\ Latest(t) = 0 => \A k \in 1..loaded : manifest[k].target # t
<1> DEFINE ks == {k \in 1..loaded : manifest[k].target = t}
<1>1. loaded \in Nat /\ loaded <= Len(manifest) /\ Len(manifest) \in Nat /\ ks \in SUBSET (1..loaded)
  BY DEF TypeOK
<1>2. Latest(t) = IF ks = {} THEN 0 ELSE Max(ks)
  BY DEF Latest
<1>3. CASE ks = {}
  BY <1>1, <1>2, <1>3
<1>4. CASE ks # {}
  <2>1. Max(ks) \in ks
    <3> HIDE DEF ks
    <3>1. QED
      BY <1>1, <1>4, MaxIs
  <2>2. QED
    BY <1>1, <1>2, <1>4, <2>1
<1>5. QED
  BY <1>3, <1>4

(* What applying a capture leaves in each column.                          *)
Shown(e, v) == Stored[v] \cap ItemsOf(e)
FilesOf(e, v) == UNION {Files[v][i] : i \in Shown(e, v)}

Fields(r, d, e, v) ==
  /\ r.title = Merge(d.title, Shown(e, v), Title[v], NoTitle)
  /\ r.titleFrom = Cite(d.titleFrom, Shown(e, v), Title[v], NoTitle, pos)
  /\ r.value = Merge(d.value, Shown(e, v), Value[v], NoValue)
  /\ r.valueFrom = Cite(d.valueFrom, Shown(e, v), Value[v], NoValue, pos)
  /\ r.seen = Mark(d.seen, Shown(e, v), pos)
  /\ r.placement = [i \in Items |-> IF i \in Placed(d, Agenda(e), Shown(e, v), v)
                      THEN PlacementOf(Agenda(e), Title[v][i]) ELSE d.placement[i]]
  /\ r.placeFrom = Mark(d.placeFrom, Placed(d, Agenda(e), Shown(e, v), v), Agenda(e))
  /\ r.agendas = IF v \in WithFile THEN d.agendas \cup {e} ELSE d.agendas
  /\ r.first = FirstObserved(d.first, FilesOf(e, v))
  /\ r.hash = Merge(d.hash, FilesOf(e, v), [a \in Attachments |-> Content(a)], 0)
  /\ r.links = Linked(d.links, Shown(e, v), v)
  /\ r.applied = IF Complete(v, e) THEN d.applied \cup {pos} ELSE d.applied
  /\ r.failed = d.failed \cup (IF Complete(v, e) THEN {} ELSE {pos})
                   \cup (IF Agenda(e) # 0 /\ ~Readable(Agenda(e)) THEN {Agenda(e)} ELSE {})
  /\ r.reading = d.reading
  /\ r = [title |-> r.title, titleFrom |-> r.titleFrom, value |-> r.value,
          valueFrom |-> r.valueFrom, seen |-> r.seen, placement |-> r.placement,
          placeFrom |-> r.placeFrom, agendas |-> r.agendas, first |-> r.first,
          hash |-> r.hash, links |-> r.links, applied |-> r.applied,
          failed |-> r.failed, reading |-> r.reading]

(* The tables after an event is applied, field by field.                   *)
LEMMA ApplyFields ==
  ASSUME TypeOK, NEW d \in Tables, NEW e, NEW v
  PROVE  Fields(ApplyItems(d, e, v), d, e, v)
<1> DEFINE r == ApplyItems(d, e, v)
           all == Shown(e, v)
           g == Agenda(e)
           files == FilesOf(e, v)
<1>1. r = [d EXCEPT
        !.title = Merge(@, all, Title[v], NoTitle),
        !.titleFrom = Cite(@, all, Title[v], NoTitle, pos),
        !.value = Merge(@, all, Value[v], NoValue),
        !.valueFrom = Cite(@, all, Value[v], NoValue, pos),
        !.seen = Mark(@, all, pos),
        !.placement = [i \in Items |-> IF i \in Placed(d, g, all, v)
                                       THEN PlacementOf(g, Title[v][i]) ELSE @[i]],
        !.placeFrom = Mark(@, Placed(d, g, all, v), g),
        !.agendas = IF v \in WithFile THEN @ \cup {e} ELSE @,
        !.first = FirstObserved(@, files),
        !.hash = Merge(@, files, [a \in Attachments |-> Content(a)], 0),
        !.links = Linked(@, all, v),
        !.applied = IF Complete(v, e) THEN @ \cup {pos} ELSE @,
        !.failed = AddFailures(@, (IF Complete(v, e) THEN {} ELSE {pos})
                                    \cup (IF g # 0 /\ ~Readable(g) THEN {g} ELSE {}))]
  BY DEF ApplyItems, Shown, FilesOf
<1> HIDE DEF r, all, g, files
<1>2. r = [title |-> r.title, titleFrom |-> r.titleFrom, value |-> r.value,
           valueFrom |-> r.valueFrom, seen |-> r.seen, placement |-> r.placement,
           placeFrom |-> r.placeFrom, agendas |-> r.agendas, first |-> r.first,
           hash |-> r.hash, links |-> r.links, applied |-> r.applied,
           failed |-> r.failed, reading |-> r.reading]
  BY <1>1 DEF Tables
<1>3. Fields(r, d, e, v)
  BY <1>1, <1>2 DEF Tables, AddFailures, Fields, all, g, files
<1>4. QED
  BY <1>3 DEF r

(* A record of the tables is its fields.                                   *)
LEMMA TableTypes ==
  ASSUME NEW d
  PROVE  d \in Tables <=>
           /\ d = [title |-> d.title, titleFrom |-> d.titleFrom, value |-> d.value,
                   valueFrom |-> d.valueFrom, seen |-> d.seen, placement |-> d.placement,
                   placeFrom |-> d.placeFrom, agendas |-> d.agendas, first |-> d.first,
                   hash |-> d.hash, links |-> d.links, applied |-> d.applied,
                   failed |-> d.failed, reading |-> d.reading]
           /\ d.title \in [Items -> Titles \cup {NoTitle}] /\ d.titleFrom \in [Items -> Nat]
           /\ d.value \in [Items -> Values \cup {NoValue}] /\ d.valueFrom \in [Items -> Nat]
           /\ d.seen \in [Items -> Nat]
           /\ d.placement \in [Items -> Placements \cup {"none"}]
           /\ d.placeFrom \in [Items -> Nat] /\ d.agendas \in SUBSET Events
           /\ d.first \in [Attachments -> Nat] /\ d.hash \in [Attachments -> Nat]
           /\ d.links \in SUBSET (Items \X Attachments)
           /\ d.applied \in SUBSET Nat /\ d.failed \in SUBSET Nat
           /\ d.reading \in [Attachments -> Nat]
BY DEF Tables

(* Placements that are read in an agenda have their type.                  *)
LEMMA PlacementType ==
  ASSUME TypeOK, NEW g \in 1..Len(manifest), NEW title, Readable(g) => title \in Titles
  PROVE  PlacementOf(g, title) \in Placements
<1>1. manifest[g].body \in Versions
  BY CaptureIs
<1>2. QED
  BY <1>1, ClassifyType DEF PlacementOf, Placements

(* Applying an event gives tables of their types.                          *)
LEMMA ApplyType ==
  ASSUME TypeOK, NEW d \in Tables, NEW e \in Events, NEW v \in Versions
  PROVE  ApplyItems(d, e, v) \in Tables
<1>1. PICK r : r = ApplyItems(d, e, v) /\ Fields(r, d, e, v)
  BY ApplyFields
<1>2. PICK g : g = Agenda(e)
  OBVIOUS
<1>3. /\ d.title \in [Items -> Titles \cup {NoTitle}] /\ d.titleFrom \in [Items -> Nat]
      /\ d.value \in [Items -> Values \cup {NoValue}] /\ d.valueFrom \in [Items -> Nat]
      /\ d.seen \in [Items -> Nat]
      /\ d.placement \in [Items -> Placements \cup {"none"}]
      /\ d.placeFrom \in [Items -> Nat] /\ d.agendas \in SUBSET Events
      /\ d.first \in [Attachments -> Nat] /\ d.hash \in [Attachments -> Nat]
      /\ d.links \in SUBSET (Items \X Attachments)
      /\ d.applied \in SUBSET Nat /\ d.failed \in SUBSET Nat
      /\ d.reading \in [Attachments -> Nat]
  BY TableTypes
<1>4. pos \in Nat /\ g \in Nat /\ (g # 0 => g \in 1..Len(manifest))
  <2>1. pos \in Nat
    BY DEF TypeOK
  <2>2. QED
    BY <1>2, <2>1, LatestIs DEF Agenda
<1>5. \A i \in Items : /\ Title[v][i] \in Titles \cup {NoTitle}
                        /\ Value[v][i] \in Values \cup {NoValue}
  BY DEF Titles, Values
<1>6. \A a \in Attachments : Content(a) \in Nat
  BY LatestIs DEF Content
<1>7. /\ r.title \in [Items -> Titles \cup {NoTitle}]
      /\ r.value \in [Items -> Values \cup {NoValue}]
  BY <1>1, <1>3, <1>5 DEF Merge, Fields
<1>8. /\ r.titleFrom \in [Items -> Nat] /\ r.valueFrom \in [Items -> Nat]
      /\ r.seen \in [Items -> Nat] /\ r.placeFrom \in [Items -> Nat]
  BY <1>1, <1>2, <1>3, <1>4 DEF Cite, Mark, Fields
<1>9. r.placement \in [Items -> Placements \cup {"none"}]
  <2>1. \A i \in Items : i \in Placed(d, g, Shown(e, v), v) => PlacementOf(g, Title[v][i]) \in Placements
    BY <1>4, <1>5, PlacementType DEF Placed
  <2>2. QED
    BY <1>1, <1>2, <1>3, <2>1 DEF Fields
<1>10. r.agendas \in SUBSET Events
  BY <1>1, <1>3 DEF Fields
<1>11. r.first \in [Attachments -> Nat] /\ r.hash \in [Attachments -> Nat]
  BY <1>1, <1>3, <1>4, <1>6 DEF FirstObserved, Mark, Merge, Fields
<1>12. r.links \in SUBSET (Items \X Attachments)
  BY <1>1, <1>3 DEF Linked, Shown, ItemsOf, Fields
<1>13. r.applied \in SUBSET Nat /\ r.failed \in SUBSET Nat
  BY <1>1, <1>2, <1>3, <1>4 DEF Fields
<1>14. r.reading \in [Attachments -> Nat]
  BY <1>1, <1>3 DEF Fields
<1>15. r \in Tables
  BY <1>1, <1>7, <1>8, <1>9, <1>10, <1>11, <1>12, <1>13, <1>14, TableTypes DEF Fields
<1>16. QED
  BY <1>1, <1>15

(* What an applied capture writes, item by item.                           *)
LEMMA ApplyPoints ==
  ASSUME TypeOK, NEW d \in Tables, NEW e, NEW v, NEW r, Fields(r, d, e, v)
  PROVE  /\ \A i \in Items :
              /\ r.seen[i] = IF i \in Shown(e, v) THEN pos ELSE d.seen[i]
              /\ IF i \in Shown(e, v) /\ Title[v][i] # NoTitle
                 THEN r.title[i] = Title[v][i] /\ r.titleFrom[i] = pos
                 ELSE r.title[i] = d.title[i] /\ r.titleFrom[i] = d.titleFrom[i]
              /\ IF i \in Shown(e, v) /\ Value[v][i] # NoValue
                 THEN r.value[i] = Value[v][i] /\ r.valueFrom[i] = pos
                 ELSE r.value[i] = d.value[i] /\ r.valueFrom[i] = d.valueFrom[i]
              /\ IF i \in Placed(d, Agenda(e), Shown(e, v), v)
                 THEN /\ r.placement[i] = PlacementOf(Agenda(e), Title[v][i])
                      /\ r.placeFrom[i] = Agenda(e)
                 ELSE r.placement[i] = d.placement[i] /\ r.placeFrom[i] = d.placeFrom[i]
         /\ \A a \in Attachments :
              r.first[a] = IF a \in FilesOf(e, v) /\ (d.first[a] = 0 \/ pos < d.first[a])
                           THEN pos ELSE d.first[a]
<1>1. /\ DOMAIN d.title = Items /\ DOMAIN d.titleFrom = Items /\ DOMAIN d.value = Items
      /\ DOMAIN d.valueFrom = Items /\ DOMAIN d.seen = Items /\ DOMAIN d.placeFrom = Items
      /\ DOMAIN d.first = Attachments
  BY TableTypes
<1>2. ASSUME NEW i \in Items
      PROVE  /\ r.seen[i] = IF i \in Shown(e, v) THEN pos ELSE d.seen[i]
             /\ IF i \in Shown(e, v) /\ Title[v][i] # NoTitle
                THEN r.title[i] = Title[v][i] /\ r.titleFrom[i] = pos
                ELSE r.title[i] = d.title[i] /\ r.titleFrom[i] = d.titleFrom[i]
             /\ IF i \in Shown(e, v) /\ Value[v][i] # NoValue
                THEN r.value[i] = Value[v][i] /\ r.valueFrom[i] = pos
                ELSE r.value[i] = d.value[i] /\ r.valueFrom[i] = d.valueFrom[i]
             /\ IF i \in Placed(d, Agenda(e), Shown(e, v), v)
                THEN /\ r.placement[i] = PlacementOf(Agenda(e), Title[v][i])
                     /\ r.placeFrom[i] = Agenda(e)
                ELSE r.placement[i] = d.placement[i] /\ r.placeFrom[i] = d.placeFrom[i]
  BY <1>1 DEF Fields, Merge, Cite, Mark
<1>3. ASSUME NEW a \in Attachments
      PROVE  r.first[a] = IF a \in FilesOf(e, v) /\ (d.first[a] = 0 \/ pos < d.first[a])
                          THEN pos ELSE d.first[a]
  BY <1>1 DEF Fields, FirstObserved, Mark
<1>4. QED
  BY <1>2, <1>3

(* The capture at hand is one of an event that parses.                     *)
AtEvent(e, v) ==
  /\ pc = "applying" /\ pos \in 1..loaded
  /\ manifest[pos].target = <<"event", e>> /\ Good(pos)
  /\ manifest[pos].body = v /\ v \notin Unparsable

(* The items an applied capture shows are those it states.                 *)
LEMMA ShownIsStated ==
  ASSUME TypeOK, NEW e, NEW v, AtEvent(e, v), NEW i
  PROVE  i \in Shown(e, v) <=> i \in Items /\ States(pos, i)
BY DEF Shown, ItemsOf, States, AtEvent

(* Applying a capture keeps Sourced,                                       *)
LEMMA ApplySourced ==
  ASSUME TypeOK, NEW d \in Tables, NEW e, NEW v, NEW r, Fields(r, d, e, v), AtEvent(e, v),
         Sourced(d, loaded)
  PROVE  Sourced(r, loaded)
<1>1. SUFFICES ASSUME NEW i \in Items
               PROVE  /\ r.title[i] # NoTitle =>
                           /\ r.titleFrom[i] \in 1..loaded /\ States(r.titleFrom[i], i)
                           /\ Title[manifest[r.titleFrom[i]].body][i] = r.title[i]
                      /\ r.value[i] # NoValue =>
                           /\ r.valueFrom[i] \in 1..loaded /\ States(r.valueFrom[i], i)
                           /\ Value[manifest[r.valueFrom[i]].body][i] = r.value[i]
                      /\ r.placement[i] # "none" =>
                           r.placeFrom[i] \in 1..loaded /\ (ByAgenda(r, i) \/ ByValue(r, i))
  BY DEF Sourced
<1>2. pos \in 1..loaded /\ manifest[pos].body = v
  BY DEF AtEvent
<1>3. i \in Shown(e, v) => States(pos, i) /\ Home[i] = e
  BY ShownIsStated DEF Shown, ItemsOf
<1>4. r.title[i] # NoTitle =>
        /\ r.titleFrom[i] \in 1..loaded /\ States(r.titleFrom[i], i)
        /\ Title[manifest[r.titleFrom[i]].body][i] = r.title[i]
  BY <1>2, <1>3, ApplyPoints DEF Sourced
<1>5. r.value[i] # NoValue =>
        /\ r.valueFrom[i] \in 1..loaded /\ States(r.valueFrom[i], i)
        /\ Value[manifest[r.valueFrom[i]].body][i] = r.value[i]
  BY <1>2, <1>3, ApplyPoints DEF Sourced
<1>6. PICK g : g = Agenda(e)
  OBVIOUS
<1>7. /\ g \in 0..loaded
      /\ g # 0 => manifest[g].target = <<"agenda", e>>
      /\ g = 0 => \A k \in 1..loaded : manifest[k].target # <<"agenda", e>>
  BY <1>6, LatestIs DEF Agenda
<1>8. CASE i \in Placed(d, g, Shown(e, v), v)
  <2>1. /\ i \in Shown(e, v) /\ g # 0 /\ (Readable(g) => Title[v][i] # NoTitle)
        /\ r.placement[i] = PlacementOf(g, Title[v][i]) /\ r.placeFrom[i] = g
    BY <1>6, <1>8, ApplyPoints DEF Placed
  <2>2. Readable(g) => r.title[i] = Title[v][i]
    BY <2>1, ApplyPoints
  <2>3. g \in 1..loaded
    BY <1>7, <2>1
  <2>4. ByAgenda(r, i)
    BY <1>3, <1>7, <2>1, <2>2 DEF ByAgenda, PlacementOf
  <2>5. QED
    BY <1>4, <1>5, <2>1, <2>3, <2>4
<1>9. CASE i \notin Placed(d, g, Shown(e, v), v)
  <2>1. r.placement[i] = d.placement[i] /\ r.placeFrom[i] = d.placeFrom[i]
    BY <1>6, <1>9, ApplyPoints
  <2>2. ASSUME r.placement[i] # "none"
        PROVE  r.placeFrom[i] \in 1..loaded /\ (ByAgenda(r, i) \/ ByValue(r, i))
    <3>1. d.placeFrom[i] \in 1..loaded /\ (ByAgenda(d, i) \/ ByValue(d, i))
      BY <2>1, <2>2 DEF Sourced
    <3>2. ByValue(d, i) => ByValue(r, i)
      BY <2>1 DEF ByValue
    <3>3. CASE r.title[i] = d.title[i]
      BY <2>1, <3>1, <3>2, <3>3 DEF ByAgenda
    <3>4. CASE r.title[i] # d.title[i]
      <4>1. i \in Shown(e, v) /\ Title[v][i] # NoTitle
        BY <3>4, ApplyPoints
      <4>2. g = 0
        BY <1>9, <4>1 DEF Placed, Shown
      <4>3. ~ByAgenda(d, i)
        BY <1>3, <1>7, <3>1, <4>1, <4>2 DEF ByAgenda
      <4>4. QED
        BY <2>1, <3>1, <3>2, <4>3
    <3>5. QED
      BY <3>3, <3>4
  <2>3. QED
    BY <1>4, <1>5, <2>2
<1>10. QED
  BY <1>8, <1>9

(* and Observed, over one more capture,                                    *)
LEMMA ApplyObserved ==
  ASSUME TypeOK, NEW d \in Tables, NEW e, NEW v, NEW r, Fields(r, d, e, v), AtEvent(e, v),
         NEW K \in SUBSET Nat, Observed(d, loaded, K)
  PROVE  Observed(r, loaded, K \cup {pos})
<1>1. pos \in 1..loaded /\ pos \in Nat \ {0} /\ loaded \in Nat
  BY DEF AtEvent, TypeOK
<1>2. ASSUME NEW a \in Attachments
      PROVE  /\ Names(pos, a) <=> a \in FilesOf(e, v)
             /\ r.first[a] = IF a \in FilesOf(e, v) /\ (d.first[a] = 0 \/ pos < d.first[a])
                             THEN pos ELSE d.first[a]
             /\ d.first[a] \in Nat
  <2>1. Names(pos, a) <=> \E i \in Shown(e, v) : a \in Files[v][i]
    BY ShownIsStated DEF Names, AtEvent
  <2>2. d.first \in [Attachments -> Nat]
    BY TableTypes
  <2>3. QED
    BY <2>1, <2>2, ApplyPoints DEF FilesOf
<1>3. ASSUME NEW a \in Attachments
      PROVE  /\ r.first[a] # 0 => r.first[a] \in 1..loaded /\ Names(r.first[a], a)
             /\ \A k \in K \cup {pos} : Names(k, a) => r.first[a] # 0 /\ r.first[a] <= k
  <2>1. /\ d.first[a] # 0 => d.first[a] \in 1..loaded /\ Names(d.first[a], a)
        /\ \A k \in K : Names(k, a) => d.first[a] # 0 /\ d.first[a] <= k
    BY DEF Observed
  <2>2. CASE r.first[a] = pos /\ Names(pos, a) /\ (d.first[a] = 0 \/ pos < d.first[a])
    BY <1>1, <1>2, <2>1, <2>2
  <2>3. CASE r.first[a] = d.first[a] /\ ~(Names(pos, a) /\ (d.first[a] = 0 \/ pos < d.first[a]))
    BY <1>1, <1>2, <2>1, <2>3
  <2>4. QED
    BY <1>2, <2>2, <2>3
<1>4. QED
  BY <1>3 DEF Observed

(* and Accounted: it is whole, or fails and is hopeless,                   *)
LEMMA ApplyAccounted ==
  ASSUME TypeOK, NEW d \in Tables, NEW e, NEW v, NEW r, Fields(r, d, e, v), AtEvent(e, v),
         NEW K \in SUBSET (1..loaded), Accounted(d, K), pos \notin d.applied
  PROVE  Accounted(r, K \cup {pos})
<1>1. pos \in 1..loaded /\ pos \in Nat \ {0} /\ loaded \in Nat
  BY DEF AtEvent, TypeOK
<1>2. /\ r.applied = IF Complete(v, e) THEN d.applied \cup {pos} ELSE d.applied
      /\ d.failed \subseteq r.failed /\ (~Complete(v, e) => pos \in r.failed)
      /\ d.links \subseteq r.links
      /\ \A i \in Shown(e, v), a \in Attachments : a \in Files[v][i] => <<i, a>> \in r.links
      /\ \A i \in Items : r.seen[i] = IF i \in Shown(e, v) THEN pos ELSE d.seen[i]
  <2>1. r.links = d.links \cup {l \in Shown(e, v) \X Attachments : l[2] \in Files[v][l[1]]}
    BY DEF Fields, Linked
  <2>2. ASSUME NEW i \in Shown(e, v), NEW a \in Attachments, a \in Files[v][i]
        PROVE  <<i, a>> \in r.links
    BY <2>1, <2>2
  <2>3. r.applied = IF Complete(v, e) THEN d.applied \cup {pos} ELSE d.applied
    BY DEF Fields
  <2>4. d.failed \subseteq r.failed /\ (~Complete(v, e) => pos \in r.failed)
    BY DEF Fields
  <2>5. \A i \in Items : r.seen[i] = IF i \in Shown(e, v) THEN pos ELSE d.seen[i]
    BY ApplyPoints
  <2>6. QED
    BY <2>1, <2>2, <2>3, <2>4, <2>5
<1>3. d.applied \subseteq K /\ r.applied \subseteq K \cup {pos}
  BY <1>2 DEF Accounted
<1>4. ASSUME NEW k \in K, k # pos, manifest[k].target[1] = "event" /\ Good(k)
      PROVE  Whole(r, k) \/ (k \in r.failed \ r.applied /\ Hopeless(k))
  <2>1. CASE Whole(d, k)
    BY <1>1, <1>2, <2>1 DEF Whole, ItemsOf
  <2>2. CASE k \in d.failed \ d.applied /\ Hopeless(k)
    BY <1>2, <1>4, <2>2
  <2>3. QED
    BY <1>4, <2>1, <2>2 DEF Accounted
<1>5. Whole(r, pos) \/ (pos \in r.failed \ r.applied /\ Hopeless(pos))
  <2>1. manifest[pos].body = v /\ manifest[pos].target[2] = e /\ v \notin Unparsable
    BY DEF AtEvent
  <2>2. CASE Complete(v, e)
    <3>1. Raised[v] \cap ItemsOf(e) = {}
      BY <2>2 DEF Complete
    <3>2. \A i \in (Stored[v] \cup Raised[v]) \cap ItemsOf(e) :
            i \in Shown(e, v) /\ i \in Items /\ i \in Stored[v] \ Raised[v]
      BY <3>1 DEF Shown, ItemsOf
    <3>3. pos \in r.applied
      BY <1>2, <2>2
    <3>4. QED
      BY <1>1, <1>2, <2>1, <3>2, <3>3 DEF Whole
  <2>3. CASE ~Complete(v, e)
    BY <1>2, <2>1, <2>3 DEF Hopeless
  <2>4. QED
    BY <2>2, <2>3
<1>6. QED
  BY <1>3, <1>4, <1>5 DEF Accounted

(* and Newest: a capture applied late is one that failed.                  *)
LEMMA ApplyNewest ==
  ASSUME TypeOK, NEW d \in Tables, NEW e, NEW v, NEW r, Fields(r, d, e, v), AtEvent(e, v),
         NEW K \in SUBSET (1..loaded), Accounted(d, K), pos \notin d.applied, Newest(d, K),
         pos \in K \/ \A k \in K : k < pos
  PROVE  Newest(r, K \cup {pos})
<1>1. pos \in 1..loaded /\ pos \in Nat \ {0} /\ loaded \in Nat /\ manifest[pos].body = v
  BY DEF AtEvent, TypeOK
<1>2. /\ r.applied = IF Complete(v, e) THEN d.applied \cup {pos} ELSE d.applied
      /\ d.failed \subseteq r.failed /\ (~Complete(v, e) => pos \in r.failed)
  BY DEF Fields
<1>3. ASSUME NEW i \in Items, Titlings(i, K \cup {pos}) # {}
      PROVE  /\ r.titleFrom[i] \in Titlings(i, K \cup {pos})
             /\ \/ \A k \in Titlings(i, K \cup {pos}) : k <= r.titleFrom[i]
                \/ r.titleFrom[i] \in r.failed \ r.applied
  <2>1. CASE i \in Shown(e, v) /\ Title[v][i] # NoTitle
    <3>1. r.titleFrom[i] = pos
      BY <2>1, ApplyPoints
    <3>2. pos \in Titlings(i, K \cup {pos})
      BY <1>1, <2>1, ShownIsStated DEF Titlings
    <3>3. CASE pos \in K
      <4>1. Hopeless(pos)
        BY <3>3 DEF Accounted, Whole, AtEvent
      <4>2. ~Complete(v, e)
        BY <4>1 DEF Hopeless, AtEvent
      <4>3. QED
        BY <1>2, <3>1, <3>2, <4>2
    <3>4. CASE \A k \in K : k < pos
      <4>1. \A k \in K \cup {pos} : k <= pos
        BY <1>1, <3>4
      <4>2. \A k \in Titlings(i, K \cup {pos}) : k <= pos
        BY <4>1 DEF Titlings
      <4>3. QED
        BY <3>1, <3>2, <4>2
    <3>5. QED
      BY <3>3, <3>4
  <2>2. CASE ~(i \in Shown(e, v) /\ Title[v][i] # NoTitle)
    <3>1. r.titleFrom[i] = d.titleFrom[i]
      BY <2>2, ApplyPoints
    <3>2. Titlings(i, K \cup {pos}) = Titlings(i, K) /\ pos \notin Titlings(i, K)
      BY <1>1, <2>2, ShownIsStated DEF Titlings
    <3>3. QED
      BY <1>2, <1>3, <3>1, <3>2 DEF Newest
  <2>3. QED
    BY <2>1, <2>2
<1>4. QED
  BY <1>3 DEF Newest

(***************************************************************************)
(* What keeps the tables' promises.                                        *)
(***************************************************************************)

(* Tables that differ in placements, agendas, hashes, readings and new     *)
(* failures.                                                               *)
Alike(d, d2) ==
  /\ d2.title = d.title /\ d2.titleFrom = d.titleFrom
  /\ d2.value = d.value /\ d2.valueFrom = d.valueFrom
  /\ d2.seen = d.seen /\ d2.links = d.links /\ d2.first = d.first
  /\ d2.applied = d.applied /\ d.failed \subseteq d2.failed

(* A capture from which nothing can be taken.                              *)
Nothing(d, k) ==
  /\ \A i \in Items : ~States(k, i)
  /\ manifest[k].target[1] = "event" /\ Good(k) => k \in d.failed \ d.applied /\ Hopeless(k)

(* Tables that differ in nothing it looks at keep what is promised.        *)
LEMMA AlikeKept ==
  ASSUME NEW d, NEW d2, Alike(d, d2), NEW m, NEW K,
         Observed(d, m, K), Accounted(d, K), Newest(d, K)
  PROVE  Observed(d2, m, K) /\ Accounted(d2, K) /\ Newest(d2, K)
<1>1. Observed(d2, m, K)
  BY DEF Observed, Alike
<1>2. Accounted(d2, K)
  <2>1. \A j \in K : Whole(d, j) => Whole(d2, j)
    BY DEF Whole, Alike
  <2>2. QED
    BY <2>1 DEF Accounted, Alike
<1>3. Newest(d2, K)
  BY DEF Newest, Alike
<1>4. QED
  BY <1>1, <1>2, <1>3

(* A capture that has nothing for the tables may be counted as done.       *)
LEMMA NothingNew ==
  ASSUME NEW d, NEW m, NEW K, NEW k, k \in K \/ Nothing(d, k),
         Observed(d, m, K), Accounted(d, K), Newest(d, K)
  PROVE  Observed(d, m, K \cup {k}) /\ Accounted(d, K \cup {k}) /\ Newest(d, K \cup {k})
<1>1. \A i \in Items : k \notin K => ~States(k, i)
  BY DEF Nothing
<1>2. Observed(d, m, K \cup {k})
  BY <1>1 DEF Observed, Names
<1>3. Accounted(d, K \cup {k})
  BY DEF Accounted, Nothing
<1>4. Newest(d, K \cup {k})
  <2>1. \A i \in Items : Titlings(i, K \cup {k}) = Titlings(i, K)
    BY <1>1 DEF Titlings
  <2>2. QED
    BY <2>1 DEF Newest
<1>5. QED
  BY <1>2, <1>3, <1>4

(* The same for Sourced.                                                   *)
LEMMA AlikeSourced ==
  ASSUME NEW d, NEW d2, Alike(d, d2), d2.placement = d.placement, d2.placeFrom = d.placeFrom,
         NEW n, Sourced(d, n)
  PROVE  Sourced(d2, n)
BY DEF Sourced, Alike, ByAgenda, ByValue

(* Captures that are appended change nothing of those before.              *)
Extended ==
  /\ city' = city /\ Len(manifest) <= Len(manifest')
  /\ \A k \in 1..Len(manifest) : manifest'[k] = manifest[k]

(* What is promised of tables stays when captures are added.               *)
LEMMA Frame ==
  ASSUME TypeOK, Extended, NEW d, NEW n \in 0..Len(manifest), NEW m \in 0..Len(manifest),
         NEW K \in SUBSET (1..Len(manifest)), Kept(d, n, m, K),
         NEW n2 \in Nat, NEW m2 \in Nat, n <= n2, m <= m2
  PROVE  Kept(d, n2, m2, K)'
<1>1. Len(manifest) \in Nat /\ n \in Nat /\ m \in Nat
  BY DEF TypeOK
<1>2. ASSUME NEW k \in 1..Len(manifest)
      PROVE  /\ manifest'[k] = manifest[k] /\ Good(k)' = Good(k)
             /\ Readable(k)' = Readable(k)
             /\ \A i : States(k, i)' = States(k, i)
             /\ \A a : Names(k, a)' = Names(k, a)
             /\ \A x : PlacementOf(k, x)' = PlacementOf(k, x)
  BY DEF Extended, Good, Readable, States, Names, PlacementOf
<1>3. Sourced(d, n2)'
  <2>1. ASSUME NEW i \in Items, d.placeFrom[i] \in 1..n
        PROVE  (ByAgenda(d, i) => ByAgenda(d, i)') /\ (ByValue(d, i) => ByValue(d, i)')
    BY <1>1, <1>2, <2>1 DEF ByAgenda, ByValue, Extended
  <2>2. ASSUME NEW i \in Items
        PROVE  /\ d.title[i] # NoTitle =>
                    /\ d.titleFrom[i] \in 1..n2 /\ States(d.titleFrom[i], i)'
                    /\ Title[manifest'[d.titleFrom[i]].body][i] = d.title[i]
               /\ d.value[i] # NoValue =>
                    /\ d.valueFrom[i] \in 1..n2 /\ States(d.valueFrom[i], i)'
                    /\ Value[manifest'[d.valueFrom[i]].body][i] = d.value[i]
    BY <1>1, <1>2 DEF Kept, Sourced
  <2>3. QED
    BY <1>1, <2>1, <2>2 DEF Kept, Sourced
<1>4. Observed(d, m2, K)'
  BY <1>1, <1>2 DEF Kept, Observed
<1>5. Accounted(d, K)'
  <2>1. \A k \in K : (Whole(d, k) => Whole(d, k)') /\ (Hopeless(k) => Hopeless(k)')
    BY <1>2 DEF Whole, Hopeless
  <2>2. QED
    BY <1>2, <2>1 DEF Kept, Accounted
<1>6. Newest(d, K)'
  <2>1. \A i : Titlings(i, K)' = Titlings(i, K)
    BY <1>2 DEF Titlings
  <2>2. QED
    BY <2>1 DEF Kept, Newest
<1>7. QED
  BY <1>3, <1>4, <1>5, <1>6 DEF Kept

(***************************************************************************)
(* The steps: types.                                                       *)
(***************************************************************************)
LEMMA Lengths ==
  ASSUME TypeOK
  PROVE  /\ Len(manifest) \in Nat /\ loaded \in Nat /\ loaded <= Len(manifest)
         /\ pos \in Nat \ {0} /\ pos <= loaded + 1
         /\ covered \in Nat /\ covered <= Len(manifest)
<1>1. manifest \in Seq(Captures)
  BY DEF TypeOK
<1>2. Len(manifest) \in Nat
  BY <1>1
<1>3. QED
  BY <1>2 DEF TypeOK

(* The shape of a capture of an event,                                     *)
LEMMA EventCapture ==
  ASSUME TypeOK, NEW k \in 1..Len(manifest), manifest[k].target[1] = "event"
  PROVE  /\ manifest[k].target = <<"event", manifest[k].target[2]>>
         /\ manifest[k].target[2] \in Events /\ manifest[k].body \in Versions
<1>1. manifest[k].target \in Targets /\ manifest[k].body \in Versions
  BY CaptureIs
<1>2. QED
  BY <1>1 DEF Targets

(* Collecting adds a capture at the end,                                   *)
LEMMA CollectExtends ==
  ASSUME TypeOK, NEW c \in Captures, Collect(c)
  PROVE  Extended /\ manifest' \in Seq(Captures) /\ Len(manifest') = Len(manifest) + 1
<1>1. manifest \in Seq(Captures) /\ manifest' = Append(manifest, c) /\ city' = city
  BY DEF TypeOK, Collect
<1>2. /\ manifest' \in Seq(Captures) /\ Len(manifest') = Len(manifest) + 1
      /\ \A k \in 1..Len(manifest) : manifest'[k] = manifest[k]
  BY <1>1, AppendProperties
<1>3. Len(manifest) \in Nat
  BY <1>1
<1>4. QED
  BY <1>1, <1>2, <1>3 DEF Extended

(* and doing nothing extends the manifest, too.                            *)
LEMMA SameExtends ==
  ASSUME TypeOK, UNCHANGED <<city, manifest>>
  PROVE  Extended
BY Lengths DEF Extended

(* Placements read in agendas keep the types,                              *)
LEMMA PlacingType ==
  ASSUME TypeOK, CommitPlacing
  PROVE  db' \in Tables
<1> DEFINE placed == UNION {Titled(draft, e) : e \in WithAgenda(draft)}
           placement == [i \in Items |-> IF i \in placed
                           THEN PlacementOf(Agenda(Home[i]), draft.title[i]) ELSE draft.placement[i]]
           placeFrom == [i \in Items |-> IF i \in placed THEN Agenda(Home[i]) ELSE draft.placeFrom[i]]
           failed == draft.failed \cup {g \in {Agenda(e) : e \in WithAgenda(draft)} : ~Readable(g)}
<1>1. draft \in Tables
  BY DEF TypeOK
<1>2. db' = [draft EXCEPT !.placement = placement, !.placeFrom = placeFrom, !.failed = failed]
  BY <1>1 DEF CommitPlacing, AddFailures, Tables
<1>3. \A e : Agenda(e) \in Nat /\ (Agenda(e) # 0 => Agenda(e) \in 1..Len(manifest))
  BY LatestIs DEF Agenda
<1>4. ASSUME NEW i \in Items, i \in placed
      PROVE  PlacementOf(Agenda(Home[i]), draft.title[i]) \in Placements
  <2>1. PICK e \in WithAgenda(draft) : i \in Titled(draft, e)
    BY <1>4
  <2>2. Home[i] = e /\ Agenda(e) # 0 /\ draft.title[i] # NoTitle
    BY <2>1 DEF WithAgenda, Titled, ItemsOf
  <2>3. draft.title[i] \in Titles
    BY <1>1, <2>2, TableTypes
  <2>4. QED
    BY <1>3, <2>2, <2>3, PlacementType
<1>5. placement \in [Items -> Placements \cup {"none"}] /\ placeFrom \in [Items -> Nat]
  <2>1. /\ draft.placement \in [Items -> Placements \cup {"none"}]
        /\ draft.placeFrom \in [Items -> Nat]
    BY <1>1, TableTypes
  <2> HIDE DEF placed
  <2>2. QED
    BY <1>3, <1>4, <2>1
<1>6. failed \in SUBSET Nat
  <2>1. draft.failed \in SUBSET Nat
    BY <1>1, TableTypes
  <2>2. QED
    BY <1>3, <2>1
<1> HIDE DEF placement, placeFrom, failed
<1>7. QED
  BY <1>1, <1>2, <1>5, <1>6 DEF Tables

(* placements mapped from values,                                          *)
LEMMA MappingTables ==
  ASSUME TypeOK, CommitMapping
  PROVE  db' \in Tables
<1> DEFINE placement == [i \in Items |-> IF i \in Valued(draft)
                           THEN Mapping[draft.value[i]] ELSE draft.placement[i]]
           placeFrom == [i \in Items |-> IF i \in Valued(draft)
                           THEN draft.valueFrom[i] ELSE draft.placeFrom[i]]
<1>1. draft \in Tables
  BY DEF TypeOK
<1>2. db' = [draft EXCEPT !.placement = placement, !.placeFrom = placeFrom]
  BY <1>1 DEF CommitMapping, Tables
<1>3. placement \in [Items -> Placements \cup {"none"}] /\ placeFrom \in [Items -> Nat]
  <2>1. /\ draft.placement \in [Items -> Placements \cup {"none"}]
        /\ draft.placeFrom \in [Items -> Nat] /\ draft.valueFrom \in [Items -> Nat]
    BY <1>1, TableTypes
  <2>2. QED
    BY <2>1, MappingType DEF Valued, Placements
<1> HIDE DEF placement, placeFrom
<1>4. QED
  BY <1>1, <1>2, <1>3 DEF Tables

(* and an applied capture.                                                 *)
LEMMA CaptureApplied ==
  ASSUME TypeOK, ApplyCapture
  PROVE  draft' \in Tables
<1>1. draft \in Tables /\ pos \in 1..Len(manifest)
  BY Lengths DEF TypeOK, ApplyCapture
<1>2. ASSUME NEW e \in Events, NEW v
      PROVE  ApplyRow(draft, e, v) \in Tables
  <2> DEFINE failed == draft.failed \cup {pos}
             agendas == IF v \in RowOnly \cap WithFile THEN draft.agendas \cup {e} ELSE draft.agendas
  <2>1. failed \in SUBSET Nat /\ agendas \in SUBSET Events
    BY <1>1, Lengths, TableTypes
  <2>2. ApplyRow(draft, e, v) = [draft EXCEPT !.agendas = agendas, !.failed = failed]
    BY <1>1 DEF Tables, ApplyRow, AddFailures
  <2> HIDE DEF failed, agendas
  <2>3. QED
    BY <1>1, <2>1, <2>2 DEF Tables
<1>3. Applicable(pos) => ApplyItems(draft, manifest[pos].target[2], manifest[pos].body) \in Tables
  BY <1>1, EventCapture, ApplyType DEF Applicable
<1>4. Applicable(pos) => manifest[pos].target[2] \in Events
  BY <1>1, EventCapture DEF Applicable
<1>5. QED
  BY <1>1, <1>2, <1>3, <1>4 DEF ApplyCapture

(* Every step keeps the types.                                             *)
LEMMA TypeStep ==
  ASSUME TypeOK, [Next]_vars
  PROVE  TypeOK'
<1>1. /\ Len(manifest) \in Nat /\ loaded \in Nat /\ loaded <= Len(manifest)
      /\ pos \in Nat \ {0} /\ pos <= loaded + 1
      /\ covered \in Nat /\ covered <= Len(manifest)
  BY Lengths
<1>2. /\ city \in Calibrations /\ manifest \in Seq(Captures) /\ db \in Tables /\ draft \in Tables
      /\ pc \in {"idle", "applying", "placing", "reading"}
  BY DEF TypeOK
<1>3. ASSUME NEW c \in Captures, Collect(c)
      PROVE  TypeOK'
  <2>1. manifest' \in Seq(Captures) /\ Len(manifest') = Len(manifest) + 1
    BY <1>3, CollectExtends
  <2>2. QED
    BY <1>1, <1>2, <1>3, <2>1 DEF TypeOK, Collect
<1>4. ASSUME NEW step \in {"applying", "placing", "reading"}, Begin(step)
      PROVE  TypeOK'
  BY <1>1, <1>2, <1>4 DEF TypeOK, Begin
<1>5. CASE ApplyCapture
  <2>1. draft' \in Tables
    BY <1>5, CaptureApplied
  <2>2. UNCHANGED <<city, manifest, db, pc, loaded, covered>> /\ pos' = pos + 1 /\ pos <= loaded
    BY <1>5 DEF ApplyCapture
  <2>3. QED
    BY <1>1, <1>2, <2>1, <2>2 DEF TypeOK
<1>6. CASE CommitApply
  BY <1>1, <1>2, <1>6 DEF TypeOK, CommitApply
<1>7. CASE CommitPlacing \/ CommitMapping
  <2>1. db' \in Tables
    BY <1>7, PlacingType, MappingTables
  <2>2. UNCHANGED <<city, manifest, draft, loaded, pos, covered>> /\ pc' = "idle"
    BY <1>7 DEF CommitPlacing, CommitMapping
  <2>3. QED
    BY <1>1, <1>2, <2>1, <2>2 DEF TypeOK
<1>8. CASE ReadCapture
  <2>1. db' \in Tables
    <3> DEFINE a == manifest[pos].target[2]
               reading == [db.reading EXCEPT ![a] = pos]
    <3>1. PutReading(a) => db' = [db EXCEPT !.reading = reading]
      BY <1>2 DEF PutReading, Tables
    <3>2. reading \in [Attachments -> Nat]
      <4>1. db.reading \in [Attachments -> Nat]
        BY <1>2, TableTypes
      <4>2. QED
        BY <1>1, <4>1
    <3>3. db' = db \/ PutReading(a)
      BY <1>8 DEF ReadCapture
    <3> HIDE DEF reading
    <3>4. QED
      BY <1>2, <3>1, <3>2, <3>3 DEF Tables
  <2>2. UNCHANGED <<city, manifest, draft, pc, loaded, covered>> /\ pos' = pos + 1 /\ pos <= loaded
    BY <1>8 DEF ReadCapture
  <2>3. QED
    BY <1>1, <1>2, <2>1, <2>2 DEF TypeOK
<1>9. CASE FinishReading \/ Die
  BY <1>1, <1>2, <1>9 DEF TypeOK, FinishReading, Die
<1>10. CASE UNCHANGED vars
  BY <1>1, <1>2, <1>10 DEF TypeOK, vars
<1>11. QED
  BY <1>3, <1>4, <1>5, <1>6, <1>7, <1>8, <1>9, <1>10 DEF Next

(***************************************************************************)
(* The steps: what the tables promise.                                     *)
(***************************************************************************)
LEMMA DbFrame ==
  ASSUME TypeOK, TypeOK', Kept(db, Len(manifest), covered, Past), Extended, UNCHANGED <<db, covered>>
  PROVE  Kept(db, Len(manifest), covered, Past)'
<1>1. /\ Len(manifest) \in Nat /\ covered \in Nat /\ covered <= Len(manifest)
      /\ Len(manifest') \in Nat /\ Len(manifest) <= Len(manifest')
  BY Lengths, TypeOK' DEF TypeOK, Extended
<1>2. PICK d, n, m, n2, K : /\ d = db /\ n = Len(manifest) /\ m = covered
                            /\ n2 = Len(manifest') /\ K = Past
  OBVIOUS
<1>3. K \in SUBSET (1..Len(manifest))
  BY <1>1, <1>2 DEF Past
<1>4. Kept(d, n, m, K)
  BY <1>2
<1>5. Kept(d, n2, m, K)'
  BY <1>1, <1>2, <1>3, <1>4, Frame
<1>6. d = db' /\ n2 = Len(manifest)' /\ m = covered' /\ K = Past'
  BY <1>2 DEF Past
<1>7. QED
  BY <1>5, <1>6

(* and the readings those of the same captures.                            *)
LEMMA ReadFrame ==
  ASSUME TypeOK, Extended, NEW n, NEW n2, n \in Nat, n2 \in Nat, n <= n2, n <= Len(manifest),
         db'.reading = db.reading, ReadFrom(n)
  PROVE  ReadFrom(n2)'
<1>1. Len(manifest) \in Nat /\ 1..n \subseteq 1..Len(manifest) /\ 1..n \subseteq 1..n2
  BY Lengths
<1>2. \A k \in 1..Len(manifest) : manifest'[k] = manifest[k] /\ (Pdf(k) => Pdf(k)')
  BY DEF Extended, Pdf, Good
<1>3. PICK reading : reading = db.reading
  OBVIOUS
<1>4. SUFFICES ASSUME NEW a \in Attachments, reading[a] # 0
               PROVE  /\ reading[a] \in 1..n2
                      /\ Pdf(reading[a])' /\ manifest'[reading[a]].target[2] = a
  BY <1>3 DEF ReadFrom
<1>5. /\ reading[a] \in 1..n
      /\ Pdf(reading[a]) /\ manifest[reading[a]].target[2] = a
  BY <1>3, <1>4 DEF ReadFrom
<1>6. QED
  BY <1>1, <1>2, <1>5

(* A step that reads nothing leaves the readings as they were.              *)
LEMMA ReadsLast ==
  ASSUME RecordsInv, UNCHANGED <<city, manifest>>, db'.reading = db.reading
  PROVE  ReadFrom(Len(manifest))'
<1>1. TypeOK /\ Extended /\ Len(manifest) \in Nat
  BY SameExtends, Lengths DEF RecordsInv
<1>2. PICK n : n = Len(manifest)
  OBVIOUS
<1>3. ReadFrom(n)'
  BY <1>1, <1>2, ReadFrame DEF RecordsInv
<1>4. QED
  BY <1>2, <1>3

(* The open transaction stays as promised while others capture.            *)
LEMMA DraftFrame ==
  ASSUME TypeOK, TypeOK', Extended, UNCHANGED loaded, NEW n, NEW m, NEW K,
         n \in 0..loaded, m \in 0..loaded, K \in SUBSET (1..loaded),
         NEW d, d = draft', K = Done', Kept(d, n, m, K)
  PROVE  Kept(draft, loaded, loaded, Done)'
<1>1. Len(manifest) \in Nat /\ loaded \in Nat /\ loaded <= Len(manifest)
  BY Lengths
<1>2. PICK n2 : n2 = loaded
  OBVIOUS
<1>3. Kept(d, n2, n2, K)'
  BY <1>1, <1>2, Frame
<1>4. QED
  BY <1>2, <1>3

(* A capture arrives, during a step or between steps.                      *)
LEMMA CollectStep ==
  ASSUME RecordsInv, TypeOK', NEW c \in Captures, Collect(c)
  PROVE  RecordsInv'
<1>1. TypeOK /\ Extended /\ Len(manifest) \in Nat /\ Len(manifest') = Len(manifest) + 1
  BY CollectExtends, Lengths DEF RecordsInv
<1>2. UNCHANGED <<city, db, draft, pc, loaded, pos, covered>>
  BY DEF Collect
<1>3. Kept(db, Len(manifest), covered, Past)'
  BY <1>1, <1>2, DbFrame DEF RecordsInv
<1>4. ReadFrom(Len(manifest))' /\ (pc = "reading" => ReadFrom(loaded)')
  <2>1. Len(manifest) <= Len(manifest') /\ Len(manifest') \in Nat
    BY <1>1
  <2>2. PICK n, n2 : n = Len(manifest) /\ n2 = Len(manifest')
    OBVIOUS
  <2>3. ReadFrom(n2)'
    BY <1>1, <1>2, <2>1, <2>2, ReadFrame DEF RecordsInv
  <2>4. PICK m : m = loaded
    OBVIOUS
  <2>5. ASSUME pc = "reading"
        PROVE  ReadFrom(m)'
    <3>1. m \in Nat /\ m <= Len(manifest) /\ ReadFrom(m)
      BY <1>1, <2>4, <2>5, Lengths DEF RecordsInv
    <3>2. db'.reading = db.reading
      BY <1>1, <1>2
    <3>3. QED
      BY <1>1, <1>2, <3>1, <3>2, ReadFrame
  <2>6. QED
    BY <1>2, <2>2, <2>3, <2>4, <2>5
<1>5. ASSUME pc = "applying"
      PROVE  Kept(draft, loaded, loaded, Done)'
  <2>1. PICK d, K, n : d = draft /\ K = Done /\ n = loaded
    OBVIOUS
  <2>2. Kept(d, n, n, K) /\ covered <= loaded
    BY <1>5, <2>1 DEF RecordsInv
  <2>3. K \in SUBSET (1..loaded) /\ K = Done' /\ n \in 0..loaded
    BY <1>1, <1>2, <2>1, <2>2, Lengths DEF Done
  <2>4. QED
    BY <1>1, <1>2, <2>1, <2>2, <2>3, DraftFrame
<1>6. ASSUME pc = "reading"
      PROVE  ReadSoFar'
  <2>1. \A k \in 1..(pos - 1) : k \in 1..Len(manifest)
    BY <1>1, Lengths
  <2>2. \A k \in 1..Len(manifest) : manifest'[k] = manifest[k] /\ Pdf(k)' = Pdf(k)
    BY <1>1 DEF Extended, Pdf, Good
  <2>3. \A a \in Attachments : db.reading[a] # 0 => db.reading[a] \in 1..Len(manifest)
    BY <1>1 DEF RecordsInv, ReadFrom
  <2>4. ReadSoFar
    BY <1>6 DEF RecordsInv
  <2>5. QED
    BY <1>2, <2>1, <2>2, <2>3, <2>4 DEF ReadSoFar
<1>7. QED
  BY <1>1, <1>2, <1>3, <1>4, <1>5, <1>6 DEF RecordsInv

(* A step opens the store and starts with the committed tables.            *)
LEMMA BeginStep ==
  ASSUME RecordsInv, TypeOK', NEW step \in {"applying", "placing", "reading"}, Begin(step)
  PROVE  RecordsInv'
<1>1. /\ TypeOK /\ pc' = step /\ loaded' = Len(manifest) /\ pos' = 1 /\ draft' = db
      /\ UNCHANGED <<city, manifest, db, covered>>
  BY DEF Begin, RecordsInv
<1>2. Extended
  BY <1>1, SameExtends
<1>3. Kept(db, Len(manifest), covered, Past)'
  BY <1>1, <1>2, DbFrame DEF RecordsInv
<1>4. Len(manifest) \in Nat /\ covered \in Nat /\ covered <= Len(manifest)
  BY <1>1, Lengths
<1>5. Kept(draft, loaded, loaded, Done)'
  <2>1. PICK d, n, m, K : d = db /\ n = Len(manifest) /\ m = covered /\ K = Past
    OBVIOUS
  <2>2. Kept(d, n, m, K) /\ K \in SUBSET (1..Len(manifest))
    BY <1>4, <2>1 DEF RecordsInv, Past
  <2>3. Kept(d, n, n, K)'
    BY <1>1, <1>2, <1>4, <2>1, <2>2, Frame
  <2>4. d = draft' /\ n = loaded' /\ K = Done'
    BY <1>1, <1>4, <2>1 DEF Past, Done
  <2>5. QED
    BY <2>3, <2>4
<1>6. ReadSoFar'
  BY <1>1 DEF ReadSoFar
<1>7. ReadFrom(Len(manifest))' /\ ReadFrom(loaded)'
  <2>1. PICK n : n = Len(manifest)
    OBVIOUS
  <2>2. ReadFrom(n)'
    BY <1>1, <1>2, <1>4, <2>1, ReadFrame DEF RecordsInv
  <2>3. QED
    BY <1>1, <2>1, <2>2
<1>8. QED
  BY <1>1, <1>3, <1>4, <1>5, <1>6, <1>7 DEF RecordsInv

(* What an open transaction promises when it has got past one more capture.*)
LEMMA ApplyKept ==
  ASSUME TypeOK, ApplyCapture, covered <= loaded, Kept(draft, loaded, loaded, Done)
  PROVE  /\ Kept(draft', loaded, loaded, Done \cup {pos})
         /\ draft'.reading = draft.reading
<1>1. pos \in 1..loaded /\ pos \in 1..Len(manifest) /\ pc = "applying" /\ draft \in Tables
  BY Lengths DEF ApplyCapture, TypeOK
<1>2. PICK K : K = Done
  OBVIOUS
<1>3. /\ K \in SUBSET (1..loaded) /\ K \in SUBSET Nat
      /\ pos \in K \/ \A k \in K : k < pos
  BY <1>1, <1>2, Lengths DEF Done
<1>4. /\ Sourced(draft, loaded) /\ Observed(draft, loaded, K) /\ Accounted(draft, K)
      /\ Newest(draft, K)
  BY <1>2 DEF Kept
<1>5. CASE ~Applicable(pos)
  <2>1. draft' = draft
    BY <1>5 DEF ApplyCapture
  <2>2. pos \in K \/ Nothing(draft, pos)
    BY <1>4, <1>5 DEF Applicable, Accounted, Nothing, States
  <2>3. QED
    BY <1>2, <1>4, <2>1, <2>2, NothingNew DEF Kept
<1>6. CASE Applicable(pos) /\ manifest[pos].body \in Unparsable
  <2>1. draft' = ApplyRow(draft, manifest[pos].target[2], manifest[pos].body)
    BY <1>6 DEF ApplyCapture
  <2>2. /\ Alike(draft, draft') /\ draft'.placement = draft.placement
        /\ draft'.placeFrom = draft.placeFrom /\ draft'.reading = draft.reading
        /\ pos \in draft'.failed
    BY <1>1, <2>1 DEF Alike, Tables, AddFailures, ApplyRow
  <2>3. Nothing(draft', pos)
    BY <1>6, <2>2 DEF Applicable, Nothing, States, Hopeless, Alike
  <2>4. Sourced(draft', loaded)
    BY <1>4, <2>2, AlikeSourced
  <2>5. Observed(draft', loaded, K) /\ Accounted(draft', K) /\ Newest(draft', K)
    BY <1>4, <2>2, AlikeKept
  <2>6. QED
    BY <1>2, <2>2, <2>3, <2>4, <2>5, NothingNew DEF Kept
<1>7. CASE Applicable(pos) /\ manifest[pos].body \notin Unparsable
  <2>1. PICK e, v : e = manifest[pos].target[2] /\ v = manifest[pos].body
    OBVIOUS
  <2>2. draft' = ApplyItems(draft, e, v)
    BY <1>7, <2>1 DEF ApplyCapture
  <2>3. AtEvent(e, v) /\ pos \notin draft.applied
    BY <1>1, <1>7, <2>1, EventCapture DEF Applicable, AtEvent
  <2>4. PICK r : r = draft' /\ Fields(r, draft, e, v)
    BY <1>1, <2>2, ApplyFields
  <2>5. Sourced(r, loaded)
    BY <1>1, <1>4, <2>3, <2>4, ApplySourced
  <2>6. Observed(r, loaded, K \cup {pos})
    BY <1>1, <1>3, <1>4, <2>3, <2>4, ApplyObserved
  <2>7. Accounted(r, K \cup {pos})
    BY <1>1, <1>3, <1>4, <2>3, <2>4, ApplyAccounted
  <2>8. Newest(r, K \cup {pos})
    BY <1>1, <1>3, <1>4, <2>3, <2>4, ApplyNewest
  <2>9. r.reading = draft.reading
    BY <2>4 DEF Fields
  <2>10. QED
    BY <1>2, <2>4, <2>5, <2>6, <2>7, <2>8, <2>9 DEF Kept
<1>8. QED
  BY <1>5, <1>6, <1>7

(* One capture is applied, or counted as a failure, or skipped.            *)
LEMMA ApplyStep ==
  ASSUME RecordsInv, TypeOK', ApplyCapture
  PROVE  RecordsInv'
<1>1. /\ TypeOK /\ pc = "applying" /\ pos <= loaded /\ pos' = pos + 1
      /\ UNCHANGED <<city, manifest, db, pc, loaded, covered>>
  BY DEF ApplyCapture, RecordsInv
<1>2. Extended
  BY <1>1, SameExtends
<1>3. Kept(db, Len(manifest), covered, Past)'
  BY <1>1, <1>2, DbFrame DEF RecordsInv
<1>4. /\ covered <= loaded /\ Kept(draft, loaded, loaded, Done)
      /\ draft.reading = db.reading
  BY <1>1 DEF RecordsInv
<1>5. PICK d, n, K : d = draft' /\ n = loaded /\ K = Done \cup {pos}
  OBVIOUS
<1>6. Kept(d, n, n, K) /\ draft'.reading = draft.reading
  BY <1>1, <1>4, <1>5, ApplyKept
<1>7. K = Done' /\ K \in SUBSET (1..loaded) /\ n \in 0..loaded
  BY <1>1, <1>4, <1>5, Lengths DEF Done
<1>8. Kept(draft, loaded, loaded, Done)'
  BY <1>1, <1>2, <1>5, <1>6, <1>7, DraftFrame
<1>9. ReadFrom(Len(manifest))'
  BY <1>1, ReadsLast
<1>10. QED
  BY <1>1, <1>3, <1>4, <1>6, <1>8, <1>9 DEF RecordsInv

(* The apply step commits what it has done.                                *)
LEMMA CommitApplyStep ==
  ASSUME RecordsInv, TypeOK', CommitApply
  PROVE  RecordsInv'
<1>1. /\ TypeOK /\ pc = "applying" /\ pos > loaded /\ db' = draft /\ covered' = loaded
      /\ pc' = "idle" /\ UNCHANGED <<city, manifest, draft, loaded, pos>>
  BY DEF CommitApply, RecordsInv
<1>2. Extended
  BY <1>1, SameExtends
<1>3. /\ covered <= loaded /\ Kept(draft, loaded, loaded, Done)
      /\ draft.reading = db.reading
  BY <1>1 DEF RecordsInv
<1>4. PICK d, n, n2, K : d = draft /\ n = loaded /\ n2 = Len(manifest) /\ K = Done
  OBVIOUS
<1>5. /\ K = 1..loaded /\ K \in SUBSET (1..Len(manifest)) /\ n \in 0..Len(manifest)
      /\ n \in Nat /\ n2 \in Nat /\ n <= n2 /\ Len(manifest) \in Nat
  BY <1>1, <1>3, <1>4, Lengths DEF Done
<1>6. Kept(d, n2, n, K)'
  BY <1>1, <1>2, <1>3, <1>4, <1>5, Frame
<1>7. d = db' /\ n2 = Len(manifest)' /\ n = covered' /\ K = Past'
  BY <1>1, <1>4, <1>5 DEF Past
<1>8. Kept(db, Len(manifest), covered, Past)'
  BY <1>6, <1>7
<1>9. ReadFrom(Len(manifest))'
  BY <1>1, <1>3, ReadsLast
<1>10. QED
  BY <1>1, <1>8, <1>9 DEF RecordsInv

(* The committed tables, changed where Alike allows it.                    *)
LEMMA NewDb ==
  ASSUME RecordsInv, TypeOK', UNCHANGED <<city, manifest, covered>>,
         NEW d, d = db', Alike(db, d), Sourced(d, Len(manifest))
  PROVE  Kept(db, Len(manifest), covered, Past)'
<1>1. TypeOK /\ Extended
  BY SameExtends DEF RecordsInv
<1>2. Len(manifest) \in Nat /\ covered \in Nat /\ covered <= Len(manifest)
  BY <1>1, Lengths
<1>3. PICK n, m, K : n = Len(manifest) /\ m = covered /\ K = Past
  OBVIOUS
<1>4. Kept(d, n, m, K)
  BY <1>3, AlikeKept DEF RecordsInv, Kept
<1>5. K \in SUBSET (1..Len(manifest))
  BY <1>2, <1>3 DEF Past
<1>6. Kept(d, n, m, K)'
  BY <1>1, <1>2, <1>3, <1>4, <1>5, Frame
<1>7. d = db' /\ n = Len(manifest)' /\ m = covered' /\ K = Past'
  BY <1>3 DEF Past
<1>8. QED
  BY <1>6, <1>7

(* Placements are read in the agendas on record.                           *)
LEMMA PlacingStep ==
  ASSUME RecordsInv, TypeOK', CommitPlacing
  PROVE  RecordsInv'
<1> DEFINE placed == UNION {Titled(draft, e) : e \in WithAgenda(draft)}
<1>1. /\ TypeOK /\ draft = db /\ db \in Tables /\ pc' = "idle"
      /\ UNCHANGED <<city, manifest, draft, loaded, pos, covered>>
  BY DEF CommitPlacing, RecordsInv, TypeOK
<1>2. PICK d : d = db'
  OBVIOUS
<1>3. /\ Alike(db, d) /\ d.reading = db.reading
      /\ \A i \in Items : IF i \in placed
           THEN /\ d.placement[i] = PlacementOf(Agenda(Home[i]), db.title[i])
                /\ d.placeFrom[i] = Agenda(Home[i])
           ELSE d.placement[i] = db.placement[i] /\ d.placeFrom[i] = db.placeFrom[i]
  BY <1>1, <1>2 DEF CommitPlacing, Alike, Tables, AddFailures
<1>4. Sourced(db, Len(manifest))
  BY DEF RecordsInv, Kept
<1>5. ASSUME NEW i \in Items, d.placement[i] # "none"
      PROVE  d.placeFrom[i] \in 1..Len(manifest) /\ (ByAgenda(d, i) \/ ByValue(d, i))
  <2>1. CASE i \in placed
    <3>1. PICK e \in WithAgenda(db) : i \in Titled(db, e)
      BY <1>1, <2>1
    <3>2. Home[i] = e /\ Agenda(e) # 0 /\ db.title[i] # NoTitle
      BY <3>1 DEF WithAgenda, Titled, ItemsOf
    <3>3. Agenda(e) \in 1..Len(manifest) /\ manifest[Agenda(e)].target = <<"agenda", e>>
      BY <1>1, <3>2, LatestIs DEF Agenda
    <3>4. /\ d.placement[i] = PlacementOf(Agenda(e), d.title[i]) /\ d.placeFrom[i] = Agenda(e)
          /\ d.title[i] # NoTitle
      BY <1>3, <2>1, <3>2 DEF Alike
    <3>5. ByAgenda(d, i)
      BY <3>2, <3>3, <3>4 DEF ByAgenda, PlacementOf
    <3>6. QED
      BY <3>3, <3>4, <3>5
  <2>2. CASE i \notin placed
    <3>1. /\ d.placement[i] = db.placement[i] /\ d.placeFrom[i] = db.placeFrom[i]
          /\ d.title[i] = db.title[i]
      BY <1>3, <2>2 DEF Alike
    <3>2. db.placeFrom[i] \in 1..Len(manifest) /\ (ByAgenda(db, i) \/ ByValue(db, i))
      BY <1>4, <1>5, <3>1 DEF Sourced
    <3>3. QED
      BY <3>1, <3>2 DEF ByAgenda, ByValue
  <2>3. QED
    BY <2>1, <2>2
<1>6. Sourced(d, Len(manifest))
  BY <1>3, <1>4, <1>5 DEF Sourced, Alike
<1>7. Kept(db, Len(manifest), covered, Past)'
  BY <1>1, <1>2, <1>3, <1>6, NewDb
<1>8. ReadFrom(Len(manifest))'
  BY <1>1, <1>2, <1>3, ReadsLast
<1>9. QED
  BY <1>1, <1>7, <1>8 DEF RecordsInv

(* Placements are taken from the values on record.                         *)
LEMMA MappingStep ==
  ASSUME RecordsInv, TypeOK', CommitMapping
  PROVE  RecordsInv'
<1>1. /\ TypeOK /\ draft = db /\ db \in Tables /\ pc' = "idle" /\ city = "api"
      /\ UNCHANGED <<city, manifest, draft, loaded, pos, covered>>
  BY DEF CommitMapping, RecordsInv, TypeOK
<1>2. PICK d : d = db'
  OBVIOUS
<1>3. /\ Alike(db, d) /\ d.reading = db.reading
      /\ \A i \in Items : IF i \in Valued(db)
           THEN /\ d.placement[i] = Mapping[db.value[i]]
                /\ d.placeFrom[i] = db.valueFrom[i]
           ELSE d.placement[i] = db.placement[i] /\ d.placeFrom[i] = db.placeFrom[i]
  BY <1>1, <1>2 DEF CommitMapping, Alike, Tables
<1>4. Sourced(db, Len(manifest))
  BY DEF RecordsInv, Kept
<1>5. ASSUME NEW i \in Items, d.placement[i] # "none"
      PROVE  d.placeFrom[i] \in 1..Len(manifest) /\ (ByAgenda(d, i) \/ ByValue(d, i))
  <2>1. CASE i \in Valued(db)
    <3>1. db.value[i] \in DOMAIN Mapping
      BY <2>1 DEF Valued
    <3>2. db.value[i] # NoValue
      BY <3>1, MappingType DEF Values
    <3>3. /\ db.valueFrom[i] \in 1..Len(manifest) /\ States(db.valueFrom[i], i)
          /\ Value[manifest[db.valueFrom[i]].body][i] = db.value[i]
      BY <1>4, <3>2 DEF Sourced
    <3>4. d.placement[i] = Mapping[db.value[i]] /\ d.placeFrom[i] = db.valueFrom[i]
      BY <1>3, <2>1
    <3>5. ByValue(d, i)
      BY <1>1, <3>1, <3>3, <3>4 DEF ByValue
    <3>6. QED
      BY <3>3, <3>4, <3>5
  <2>2. CASE i \notin Valued(db)
    <3>1. /\ d.placement[i] = db.placement[i] /\ d.placeFrom[i] = db.placeFrom[i]
          /\ d.title[i] = db.title[i]
      BY <1>3, <2>2 DEF Alike
    <3>2. db.placeFrom[i] \in 1..Len(manifest) /\ (ByAgenda(db, i) \/ ByValue(db, i))
      BY <1>4, <1>5, <3>1 DEF Sourced
    <3>3. QED
      BY <3>1, <3>2 DEF ByAgenda, ByValue
  <2>3. QED
    BY <2>1, <2>2
<1>6. Sourced(d, Len(manifest))
  BY <1>3, <1>4, <1>5 DEF Sourced, Alike
<1>7. Kept(db, Len(manifest), covered, Past)'
  BY <1>1, <1>2, <1>3, <1>6, NewDb
<1>8. ReadFrom(Len(manifest))'
  BY <1>1, <1>2, <1>3, ReadsLast
<1>9. QED
  BY <1>1, <1>7, <1>8 DEF RecordsInv

(* One attachment is read, and its reading committed.                      *)
LEMMA ReadStep ==
  ASSUME RecordsInv, TypeOK', ReadCapture
  PROVE  RecordsInv'
<1> DEFINE t == manifest[pos].target
<1>1. /\ TypeOK /\ pc = "reading" /\ pos <= loaded /\ pos' = pos + 1 /\ db \in Tables
      /\ UNCHANGED <<city, manifest, draft, pc, loaded, covered>>
      /\ Len(manifest) \in Nat /\ pos \in 1..Len(manifest)
  BY Lengths DEF ReadCapture, RecordsInv, TypeOK
<1>2. PICK d : d = db'
  OBVIOUS
<1>3. IF Pdf(pos) /\ ~Read(t[2])
      THEN d = [db EXCEPT !.reading[t[2]] = pos] ELSE d = db
  BY <1>2 DEF ReadCapture, PutReading
<1>4. /\ Alike(db, d) /\ d.placement = db.placement /\ d.placeFrom = db.placeFrom
      /\ db.reading \in [Attachments -> Nat]
      /\ \A a \in Attachments :
           d.reading[a] = IF Pdf(pos) /\ a = t[2] /\ ~Read(a)
                          THEN pos ELSE db.reading[a]
  <2>1. PICK x : x = t[2]
    OBVIOUS
  <2>2. CASE Pdf(pos) /\ ~Read(x)
    <3> DEFINE reading == [db.reading EXCEPT ![x] = pos]
    <3>1. d = [db EXCEPT !.reading = reading] /\ db.reading \in [Attachments -> Nat]
      BY <1>1, <1>3, <2>1, <2>2 DEF Tables
    <3>2. \A a \in Attachments : reading[a] = IF a = x THEN pos ELSE db.reading[a]
      BY <3>1
    <3> HIDE DEF reading
    <3>3. /\ Alike(db, d) /\ d.placement = db.placement /\ d.placeFrom = db.placeFrom
          /\ d.reading = reading
      BY <1>1, <3>1 DEF Alike, Tables
    <3>4. QED
      BY <2>1, <2>2, <3>1, <3>2, <3>3
  <2>3. CASE ~(Pdf(pos) /\ ~Read(x))
    <3>1. d = db /\ db.reading \in [Attachments -> Nat]
      BY <1>1, <1>3, <2>1, <2>3, TableTypes
    <3>2. QED
      BY <2>1, <2>3, <3>1 DEF Alike
  <2>4. QED
    BY <2>2, <2>3
<1>5. Sourced(d, Len(manifest))
  BY <1>4, AlikeSourced DEF RecordsInv, Kept
<1>6. Kept(db, Len(manifest), covered, Past)'
  BY <1>1, <1>2, <1>4, <1>5, NewDb
<1>7. ASSUME NEW n \in Nat, n <= Len(manifest), pos <= n, ReadFrom(n)
      PROVE  ReadFrom(n)'
  <2>1. \A k : Pdf(k)' = Pdf(k)
    BY <1>1 DEF Pdf, Good
  <2>2. pos \in 1..n
    BY <1>1, <1>7
  <2>3. \A a \in Attachments : d.reading[a] # 0 =>
          d.reading[a] \in 1..n /\ Pdf(d.reading[a]) /\ manifest[d.reading[a]].target[2] = a
    BY <1>4, <1>7, <2>2 DEF ReadFrom
  <2>4. QED
    BY <1>1, <1>2, <2>1, <2>3 DEF ReadFrom
<1>8. ReadFrom(Len(manifest))' /\ ReadFrom(loaded)'
  <2>1. loaded \in Nat /\ loaded <= Len(manifest)
    BY <1>1, Lengths
  <2>2. PICK n, m : n = Len(manifest) /\ m = loaded
    OBVIOUS
  <2>3. ReadFrom(n)' /\ ReadFrom(m)'
    BY <1>1, <1>7, <2>1, <2>2 DEF RecordsInv
  <2>4. QED
    BY <1>1, <2>2, <2>3
<1>9. ASSUME NEW k \in 1..pos, NEW a \in Attachments, Pdf(k), manifest[k].target[2] = a,
             \A j \in 1..pos : j > k => ~(Pdf(j) /\ manifest[j].target[2] = a)
      PROVE  d.reading[a] # 0 /\ manifest[d.reading[a]].body = manifest[k].body
  <2>1. CASE k = pos
    <3>1. d.reading[a] = IF Read(a) THEN db.reading[a] ELSE pos
      BY <1>4, <1>9, <2>1
    <3>2. Read(a) => db.reading[a] # 0 /\ manifest[db.reading[a]].body = manifest[pos].body
      BY DEF Read, ReadingHash
    <3>3. QED
      BY <1>1, <2>1, <3>1, <3>2
  <2>2. CASE k # pos
    <3>1. k \in 1..(pos - 1) /\ \A j \in 1..(pos - 1) : j \in 1..pos
      BY <1>1, <2>2
    <3>2. db.reading[a] # 0 /\ manifest[db.reading[a]].body = manifest[k].body
      BY <1>1, <1>9, <3>1 DEF RecordsInv, ReadSoFar
    <3>3. ~(Pdf(pos) /\ t[2] = a)
      <4>1. pos \in 1..pos /\ pos > k
        BY <1>1, <3>1
      <4>2. QED
        BY <1>9, <4>1
    <3>4. d.reading[a] = db.reading[a]
      BY <1>4, <3>3
    <3>5. QED
      BY <3>2, <3>4
  <2>3. QED
    BY <2>1, <2>2
<1>10. ReadSoFar'
  <2>1. 1..(pos' - 1) = 1..pos /\ d = db' /\ manifest' = manifest
    BY <1>1, <1>2
  <2>2. \A k : Pdf(k)' = Pdf(k)
    BY <1>1 DEF Pdf, Good
  <2>3. QED
    BY <1>9, <2>1, <2>2 DEF ReadSoFar
<1>11. QED
  BY <1>1, <1>2, <1>6, <1>8, <1>10 DEF RecordsInv

(* The other steps leave the committed tables alone.                       *)
LEMMA RestStep ==
  ASSUME RecordsInv, TypeOK', FinishReading \/ Die \/ UNCHANGED vars
  PROVE  RecordsInv'
<1>1. /\ TypeOK /\ UNCHANGED <<city, manifest, db, draft, loaded, pos, covered>>
      /\ pc' = "idle" \/ pc' = pc
  BY DEF FinishReading, Die, vars, RecordsInv
<1>2. Extended
  BY <1>1, SameExtends
<1>3. Kept(db, Len(manifest), covered, Past)'
  BY <1>1, <1>2, DbFrame DEF RecordsInv
<1>4. ASSUME pc = "applying"
      PROVE  Kept(draft, loaded, loaded, Done)'
  <2>1. PICK d, K, n : d = draft /\ K = Done /\ n = loaded
    OBVIOUS
  <2>2. Kept(d, n, n, K) /\ covered <= loaded
    BY <1>4, <2>1 DEF RecordsInv
  <2>3. K \in SUBSET (1..loaded) /\ K = Done' /\ n \in 0..loaded
    BY <1>1, <2>1, <2>2, Lengths DEF Done
  <2>4. QED
    BY <1>1, <1>2, <2>1, <2>2, <2>3, DraftFrame
<1>5. ASSUME pc = "reading"
      PROVE  ReadSoFar'
  BY <1>1, <1>5 DEF RecordsInv, ReadSoFar, Pdf, Good
<1>6. ReadFrom(Len(manifest))' /\ (pc = "reading" => ReadFrom(loaded)')
  <2>1. PICK m : m = loaded
    OBVIOUS
  <2>2. ASSUME pc = "reading"
        PROVE  ReadFrom(m)'
    <3>1. m \in Nat /\ m <= Len(manifest) /\ ReadFrom(m)
      BY <1>1, <2>1, <2>2, Lengths DEF RecordsInv
    <3>2. db'.reading = db.reading /\ TypeOK /\ m <= m
      BY <1>1, <3>1
    <3>3. QED
      BY <1>2, <3>1, <3>2, ReadFrame
  <2>3. QED
    BY <1>1, <2>1, <2>2, ReadsLast
<1>7. QED
  BY <1>1, <1>3, <1>4, <1>5, <1>6 DEF RecordsInv

(* Empty tables keep every promise.                                        *)
LEMMA InitInv ==
  ASSUME Init
  PROVE  RecordsInv
<1>1. /\ city \in Calibrations /\ manifest = <<>> /\ db = Empty /\ draft = Empty /\ pc = "idle"
      /\ loaded = 0 /\ pos = 1 /\ covered = 0
  BY DEF Init
<1>2. Empty \in Tables
  BY DEF Empty, Tables
<1>3. TypeOK
  BY <1>1, <1>2 DEF TypeOK
<1>4. Kept(db, Len(manifest), covered, Past)
  BY <1>1 DEF Kept, Sourced, Observed, Accounted, Newest, Titlings, Past, Empty
<1>5. ReadFrom(Len(manifest))
  BY <1>1 DEF Empty, ReadFrom
<1>6. QED
  BY <1>1, <1>3, <1>4, <1>5 DEF RecordsInv

(* Every step keeps the invariant.                                         *)
LEMMA InductiveStep ==
  ASSUME RecordsInv, [Next]_vars
  PROVE  RecordsInv'
<1>1. TypeOK'
  BY TypeStep DEF RecordsInv
<1>2. CASE \E c \in Captures : Collect(c)
  BY <1>1, <1>2, CollectStep
<1>3. CASE Begin("applying") \/ Begin("placing") \/ Begin("reading")
  BY <1>1, <1>3, BeginStep
<1>4. CASE ApplyCapture
  BY <1>1, <1>4, ApplyStep
<1>5. CASE CommitApply
  BY <1>1, <1>5, CommitApplyStep
<1>6. CASE CommitPlacing
  BY <1>1, <1>6, PlacingStep
<1>7. CASE CommitMapping
  BY <1>1, <1>7, MappingStep
<1>8. CASE ReadCapture
  BY <1>1, <1>8, ReadStep
<1>9. CASE FinishReading \/ Die \/ UNCHANGED vars
  BY <1>1, <1>9, RestStep
<1>10. QED
  BY <1>2, <1>3, <1>4, <1>5, <1>6, <1>7, <1>8, <1>9 DEF Next

(***************************************************************************)
(* The results.                                                            *)
(***************************************************************************)

(* What the tables promise holds of the committed ones throughout, and of  *)
(* those in a transaction over the captures it has got to.                 *)
THEOREM RecordsInvariant == Spec => []RecordsInv
<1>1. Init => RecordsInv
  BY InitInv
<1>2. RecordsInv /\ [Next]_vars => RecordsInv'
  BY InductiveStep
<1>3. QED
  BY <1>1, <1>2, PTL DEF Spec

(* The tables keep their types: what _merge_row and the upserts of         *)
(* store.py write has its place in the schema.                             *)
THEOREM TypeCorrect == Spec => []TypeOK
<1>1. RecordsInv => TypeOK
  BY DEF RecordsInv
<1>2. QED
  BY <1>1, RecordsInvariant, PTL

(* What _merge_row and the placement steps store beside a provenance is    *)
(* what the capture it names says (store.py, placement_runner.py).         *)
THEOREM ValuesAreSourced == Spec => []ValuesHaveSources
<1>1. RecordsInv => ValuesHaveSources
  <2>1. SUFFICES ASSUME RecordsInv, NEW i \in Items
                 PROVE  /\ db.title[i] # NoTitle =>
                             /\ db.titleFrom[i] \in 1..Len(manifest)
                             /\ States(db.titleFrom[i], i)
                             /\ Title[manifest[db.titleFrom[i]].body][i] = db.title[i]
                        /\ db.placement[i] # "none" => PlacementHasSource(i)
    BY DEF ValuesHaveSources
  <2>2. Sourced(db, Len(manifest))
    BY <2>1 DEF RecordsInv, Kept
  <2>3. db.placement[i] # "none" => PlacementHasSource(i)
    BY <2>2 DEF Sourced, ByAgenda, ByValue, PlacementHasSource
  <2>4. QED
    BY <2>2, <2>3 DEF Sourced
<1>2. QED
  BY <1>1, RecordsInvariant, PTL

(* upsert_attachment keeps the earliest observation of an attachment,      *)
(* though captures with failures are applied again after later ones.       *)
THEOREM FirstObservations == Spec => []FirstObservedIsEarliest
<1>1. RecordsInv => FirstObservedIsEarliest
  BY DEF RecordsInv, Kept, Observed, Past, FirstObservedIsEarliest
<1>2. QED
  BY <1>1, RecordsInvariant, PTL

(* captured_events.py drops no event capture: it is applied in full, or    *)
(* recorded as a parse failure and tried again.                            *)
THEOREM EventsAccounted == Spec => []NothingDropped
<1>1. RecordsInv => NothingDropped
  <2>1. SUFFICES ASSUME RecordsInv
                 PROVE  NothingDropped
    OBVIOUS
  <2>2. Accounted(db, 1..covered)
    BY <2>1 DEF RecordsInv, Kept, Past
  <2>3. QED
    BY <2>2 DEF Accounted, Whole, NothingDropped
<1>2. QED
  BY <1>1, RecordsInvariant, PTL

(* A title of captured_events.py is the newest one applied, unless it      *)
(* comes from a capture that fails in every run.                           *)
THEOREM OldTitlesExplained == Spec => []OnlyFailuresAreReplayed
<1>1. RecordsInv => OnlyFailuresAreReplayed
  <2>1. SUFFICES ASSUME RecordsInv, NEW i \in Items, Titling(i) # {}
                 PROVE  \/ db.titleFrom[i] = Max(Titling(i))
                        \/ db.titleFrom[i] \in db.failed \ db.applied
    BY DEF OnlyFailuresAreReplayed
  <2>2. Titling(i) = Titlings(i, Past) /\ Titling(i) \in SUBSET (1..covered)
    BY DEF Titling, Titlings, Past
  <2>3. covered \in Nat
    BY <2>1, Lengths DEF RecordsInv
  <2>4. Max(Titling(i)) \in Titling(i) /\ \A x \in Titling(i) : x <= Max(Titling(i))
    BY <2>1, <2>2, <2>3, MaxIs
  <2>5. /\ db.titleFrom[i] \in Titling(i)
        /\ \/ \A k \in Titling(i) : k <= db.titleFrom[i]
           \/ db.titleFrom[i] \in db.failed \ db.applied
    BY <2>1, <2>2 DEF RecordsInv, Kept, Newest
  <2>6. \A x, y \in Titling(i) : x <= y /\ y <= x => x = y
    BY <2>2, <2>3
  <2>7. QED
    BY <2>4, <2>5, <2>6
<1>2. QED
  BY <1>1, RecordsInvariant, PTL

(* read_captured_attachments.py leaves each attachment the reading of the  *)
(* last PDF captured for it, passing over answers that are none.           *)
THEOREM ReadingsKept == Spec => []ReadingsAreNewest
<1>1. RecordsInv => ReadingsAreNewest
  <2>1. SUFFICES ASSUME RecordsInv, pc = "reading", pos > loaded, NEW a \in Attachments
                 PROVE  LET pdfs == {k \in 1..loaded : Pdf(k) /\ manifest[k].target[2] = a}
                        IN  ReadingHash(a) = IF pdfs = {} THEN {} ELSE {manifest[Max(pdfs)].body}
    BY DEF ReadingsAreNewest
  <2>2. TypeOK /\ ReadSoFar /\ ReadFrom(loaded)
    BY <2>1 DEF RecordsInv
  <2>3. loaded \in Nat /\ pos - 1 = loaded
    BY <2>1, <2>2, Lengths
  <2>4. PICK pdfs : pdfs = {k \in 1..loaded : Pdf(k) /\ manifest[k].target[2] = a}
    OBVIOUS
  <2>5. CASE pdfs = {}
    <3>1. db.reading[a] = 0
      BY <2>2, <2>4, <2>5 DEF ReadFrom
    <3>2. QED
      BY <2>4, <2>5, <3>1 DEF ReadingHash
  <2>6. CASE pdfs # {}
    <3>1. pdfs \in SUBSET (1..loaded)
      BY <2>4
    <3>2. Max(pdfs) \in pdfs /\ \A x \in pdfs : x <= Max(pdfs)
      BY <2>3, <2>6, <3>1, MaxIs
    <3>3. PICK k : k = Max(pdfs)
      OBVIOUS
    <3>4. /\ k \in 1..(pos - 1) /\ Pdf(k) /\ manifest[k].target[2] = a
          /\ \A j \in 1..(pos - 1) : j > k => ~(Pdf(j) /\ manifest[j].target[2] = a)
      BY <2>3, <2>4, <3>2, <3>3
    <3>5. db.reading[a] # 0 /\ manifest[db.reading[a]].body = manifest[k].body
      BY <2>2, <3>4 DEF ReadSoFar
    <3>6. QED
      BY <2>4, <2>6, <3>3, <3>5 DEF ReadingHash
  <2>7. QED
    BY <2>5, <2>6
<1>2. QED
  BY <1>1, RecordsInvariant, PTL

=============================================================================
