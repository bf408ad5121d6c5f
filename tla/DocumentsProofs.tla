--------------------------- MODULE DocumentsProofs --------------------------
(***************************************************************************)
(* What holds of the documents for any number of attachments and versions, *)
(* whatever their pages, however the source, the runs, the scripts and the *)
(* requests interleave, fail or die.                                       *)
(***************************************************************************)
EXTENDS Documents, TLAPS, FiniteSetTheorems, WellFoundedInduction, SequenceTheorems

(***************************************************************************)
(* The inductive invariant.                                                *)
(***************************************************************************)
Hashes == {0} \cup Versions
Rows == [Attachments -> Hashes]
PaperCaptures == [of : Attachments, version : Hashes, by : {"run", "hand"}]
DetailCaptures == [of : {Detail}, version : 1..MaxRevisions, by : {"run", "hand"}]
Drawings == [of : Hashes, from : Hashes, settled : BOOLEAN]
Extractions == [of : Hashes, from : Hashes, settled : BOOLEAN, status : {"none", "read", "failed"}]

StoredTypes ==
  /\ served \in [Attachments -> Versions] /\ revision \in 1..MaxRevisions
  /\ manifest \in Seq(PaperCaptures \cup DetailCaptures)
  /\ applied \in {None} \cup 1..MaxRevisions
  /\ recorded \in Rows /\ reading \in Rows

(* Good captures of an attachment follow one another like its versions.    *)
InOrder ==
  /\ \A p \in 1..Len(manifest) :
       manifest[p].of # Detail => manifest[p].version <= served[manifest[p].of]
  /\ \A p, q \in 1..Len(manifest) :
       p <= q /\ manifest[p].of = manifest[q].of /\ manifest[p].of # Detail
         /\ manifest[q].version # 0 => manifest[p].version <= manifest[q].version

SourceInv == StoredTypes /\ InOrder

(* The scheduled run.                                                      *)
CronTypes ==
  /\ cron \in {"idle", "collect", "apply", "read"}
  /\ view \in 0..Len(manifest) /\ readTo \in 0..Len(manifest) /\ pos \in Nat
  /\ cron = "collect" => pos # 0
  /\ cron = "read" => pos \in 1..(view + 1) /\ readTo = 0

Held(a, v) == v = 0 \/ \E p \in 1..Len(manifest) : manifest[p].of = a /\ manifest[p].version = v

(* The reading of a is of no earlier version than the PDF captured at p.   *)
CaughtUp(a, p) ==
  manifest[p].of = a /\ manifest[p].version \in Versions \ NotPdf => manifest[p].version <= reading[a]

RunInv ==
  /\ CronTypes
  /\ \A a \in Attachments :
       /\ Held(a, reading[a])
       /\ \A p \in 1..readTo : CaughtUp(a, p)
       /\ cron = "read" => \A p \in 1..(pos - 1) : CaughtUp(a, p)

(* The scripts.                                                            *)
HandInv == script \in 0..(Last + 1) /\ known \in 0..Len(manifest) /\ got \in Rows

ExtractInv ==
  /\ reader \in 0..(Last + 1) /\ shelf \in 0..Len(manifest) /\ drawn \in Drawings
  /\ drawn # NoReading => reader \in Attachments
  /\ extraction \in [Attachments -> Extractions]
  /\ drawn.settled /\ drawn.of \notin NotPdf => drawn.of <= drawn.from
  /\ ExtractionsAreOfTheirReading

(* The service.                                                            *)
WebTypes ==
  /\ request \in {"none", "readings", "sent", "received", "answered", "accepted", "refused"}
  /\ page \in Rows /\ sent \in Rows
  /\ anchors \in Seq(Hashes) /\ clean \in Seq(SUBSET Versions) /\ Len(clean) = Len(anchors)
  /\ cited \in [of : {0} \cup Attachments, version : Hashes, page : 0..MaxPages]
  /\ request = "answered" => cited.of \in Attachments

(* What was settled when a reading was loaded it is no earlier than.       *)
AnchorInv ==
  \A a \in 1..Len(anchors) :
    /\ a \in Attachments /\ Held(a, anchors[a])
    /\ \A v \in clean[a] \ NotPdf : v <= anchors[a]

ServiceInv ==
  /\ WebTypes /\ AnchorInv
  /\ request \in {"sent", "received"} => Loaded
  /\ RequestsAreOneVersion /\ CitationsHavePages

DocumentsInv == SourceInv /\ RunInv /\ HandInv /\ ExtractInv /\ ServiceInv

(***************************************************************************)
(* Numbers.                                                                *)
(***************************************************************************)
LEMMA FirstOf ==
  ASSUME NEW S \in SUBSET Nat, S # {}
  PROVE  \E m \in S : \A n \in S : m <= n
<1> DEFINE R == {ss \in Nat \X Nat : ss[1] < ss[2]}
<1>1. IsWellFoundedOn(R, Nat)
  BY NatLessThanWellFounded DEF OpToRel
<1> HIDE DEF R
<1>2. PICK m \in S : \A n \in S : <<n, m>> \notin R
  BY <1>1, WFMin
<1>3. \A n \in S : ~(n < m)
  BY <1>2 DEF R
<1>4. QED
  BY <1>3

(* A set of integers that has a greatest member has it as its Max.         *)
LEMMA MaxOf ==
  ASSUME NEW S, NEW m \in S, S \subseteq Int, \A x \in S : x <= m
  PROVE  Max(S) \in S /\ \A x \in S : x <= Max(S)
<1>1. \E y \in S : \A x \in S : y >= x
  OBVIOUS
<1>2. Max(S) \in S /\ \A x \in S : Max(S) >= x
  BY <1>1 DEF Max
<1>3. QED
  BY <1>2

(* A set of places in the manifest has a last one: look at the first number *)
(* that bounds it.                                                         *)
LEMMA LastOf ==
  ASSUME NEW n \in Nat, NEW S \in SUBSET (0..n), S # {}
  PROVE  Max(S) \in S /\ \A x \in S : x <= Max(S)
<1> DEFINE B == {b \in Nat : \A i \in S : i <= b}
<1>1. n \in B
  OBVIOUS
<1>2. PICK b \in B : \A k \in B : b <= k
  BY <1>1, FirstOf
<1>3. b \in S
  <2> SUFFICES ASSUME b \notin S
               PROVE  FALSE
    OBVIOUS
  <2>1. PICK i \in S : TRUE
    OBVIOUS
  <2>2. \A j \in S : j <= b - 1
    BY <1>2
  <2>3. b - 1 \in Nat
    BY <1>2, <2>1, <2>2
  <2>4. b - 1 \in B
    BY <2>2, <2>3
  <2>5. QED
    BY <1>2, <2>4
<1>4. b \in S /\ S \subseteq Int /\ \A x \in S : x <= b
  BY <1>2, <1>3
<1> HIDE DEF B
<1>5. QED
  BY <1>4, MaxOf

(* What the assumptions say of the constants.                              *)
LEMMA Constants ==
         /\ Last \in Nat \ {0} /\ Attachments = 1..Last /\ Detail \notin Attachments
         /\ MaxVersion \in Nat \ {0} /\ MaxRevisions \in Nat \ {0}
         /\ 0 \notin Versions /\ Versions \subseteq Nat /\ NotPdf \subseteq Versions
         /\ PageCount \in [Versions -> Nat]
<1>1. Cardinality(Attachments) \in Nat
  BY DocumentsAssumption, FS_CardinalityType
<1>2. QED
  BY <1>1, DocumentsAssumption DEF Last, Versions, Detail

(* The pages of the first n versions have a maximum, for each n.           *)
LEMMA MaxPagesType == MaxPages \in Nat
<1> DEFINE P(n) == {PageCount[v] : v \in 1..n}
           Bad == {n \in 1..MaxVersion : ~\E m \in P(n) : \A x \in P(n) : x <= m}
<1>1. /\ MaxVersion \in Nat \ {0} /\ \A v \in 1..MaxVersion : PageCount[v] \in Nat
      /\ MaxPages = Max(P(MaxVersion))
  BY Constants DEF Versions, MaxPages
<1>2. Bad = {}
  <2> SUFFICES ASSUME Bad # {}
               PROVE  FALSE
    OBVIOUS
  <2>1. Bad \in SUBSET Nat
    BY <1>1
  <2>2. PICK n \in Bad : \A k \in Bad : n <= k
    BY <2>1, FirstOf
  <2>3. n \in 1..MaxVersion /\ ~\E m \in P(n) : \A x \in P(n) : x <= m
    BY <2>2
  <2>4. n # 1
    BY <1>1, <2>3
  <2>5. n - 1 \in 1..MaxVersion /\ ~(n <= n - 1)
    BY <1>1, <2>3, <2>4
  <2>6. PICK m \in P(n - 1) : \A x \in P(n - 1) : x <= m
    <3> HIDE DEF P
    <3>1. n - 1 \notin Bad
      <4> HIDE DEF Bad
      <4>1. QED
        BY <2>2, <2>5
    <3>2. QED
      BY <2>5, <3>1
  <2>7. /\ \A v \in 1..n : v \in 1..(n - 1) \/ v = n
        /\ \A v \in 1..(n - 1) : v \in 1..n
        /\ n \in 1..n
    BY <2>3
  <2>8. P(n) = P(n - 1) \cup {PageCount[n]} /\ P(n - 1) \subseteq Nat /\ PageCount[n] \in Nat
    BY <1>1, <2>3, <2>7
  <2> HIDE DEF P
  <2>9. CASE PageCount[n] <= m
    BY <2>3, <2>6, <2>8, <2>9
  <2>10. CASE ~(PageCount[n] <= m)
    <3>1. \A x \in P(n) : x <= PageCount[n]
      BY <2>6, <2>8, <2>10
    <3>2. QED
      BY <2>3, <2>8, <3>1
  <2>11. QED
    BY <2>9, <2>10
<1>3. PICK m \in P(MaxVersion) : \A x \in P(MaxVersion) : x <= m
  <2>1. MaxVersion \in 1..MaxVersion
    BY <1>1
  <2> HIDE DEF P
  <2>2. QED
    BY <1>2, <2>1
<1>4. P(MaxVersion) \subseteq Nat
  BY <1>1
<1> HIDE DEF P
<1>5. QED
  BY <1>1, <1>3, <1>4, MaxOf

(***************************************************************************)
(* Captures.                                                               *)
(***************************************************************************)
LEMMA CaptureIs ==
  ASSUME StoredTypes
  PROVE  /\ Len(manifest) \in Nat
         /\ \A p \in 1..Len(manifest) :
              /\ manifest[p].of \in Attachments \cup {Detail}
              /\ manifest[p].of = Detail => manifest[p].version \in 1..MaxRevisions
              /\ manifest[p].of # Detail =>
                   /\ manifest[p].of \in Attachments
                   /\ manifest[p].version \in Hashes /\ manifest[p].version \in Nat
<1>1. manifest \in Seq(PaperCaptures \cup DetailCaptures)
  BY DEF StoredTypes
<1>2. ASSUME NEW p \in 1..Len(manifest)
      PROVE  manifest[p] \in PaperCaptures \cup DetailCaptures
  BY <1>1
<1>3. Len(manifest) \in Nat
  BY <1>1
<1>4. Detail \notin Attachments /\ Hashes \subseteq Nat
  BY Constants DEF Hashes
<1>5. ASSUME NEW p \in 1..Len(manifest)
      PROVE  /\ manifest[p].of \in Attachments \cup {Detail}
             /\ manifest[p].of = Detail => manifest[p].version \in 1..MaxRevisions
             /\ manifest[p].of # Detail =>
                  /\ manifest[p].of \in Attachments
                  /\ manifest[p].version \in Hashes /\ manifest[p].version \in Nat
  <2>1. CASE manifest[p] \in PaperCaptures
    BY <1>4, <2>1 DEF PaperCaptures
  <2>2. CASE manifest[p] \in DetailCaptures
    BY <1>4, <2>2 DEF DetailCaptures
  <2>3. QED
    BY <1>2, <2>1, <2>2
<1>6. QED
  BY <1>3, <1>5

(* latest() of a target among the first n captures is the last one of it.  *)
LEMMA LatestIs ==
  ASSUME StoredTypes, NEW of, NEW n \in 0..Len(manifest)
  PROVE  \/ LatestAt(of, n) = None /\ \A p \in 1..n : manifest[p].of # of
         \/ \E p \in 1..n : /\ manifest[p].of = of /\ LatestAt(of, n) = manifest[p].version
                            /\ \A q \in 1..n : manifest[q].of = of => q <= p
<1> DEFINE ps == {p \in 1..n : manifest[p].of = of}
<1>1. LatestAt(of, n) = IF ps = {} THEN None ELSE manifest[Max(ps)].version
  BY DEF LatestAt
<1>2. n \in Nat /\ ps \in SUBSET (0..n)
  BY CaptureIs
<1>3. ps # {} => Max(ps) \in ps /\ \A q \in ps : q <= Max(ps)
  <2> HIDE DEF ps
  <2>1. QED
    BY <1>2, LastOf
<1>4. QED
  BY <1>1, <1>3

(* latest() gives a version of the target, or nothing.                     *)
LEMMA LatestType ==
  ASSUME StoredTypes, NEW n \in 0..Len(manifest)
  PROVE  /\ \A a \in Attachments : LatestAt(a, n) \in {None} \cup Hashes
         /\ LatestAt(Detail, n) \in {None} \cup 1..MaxRevisions
<1>1. \A p \in 1..n : p \in 1..Len(manifest)
  BY CaptureIs
<1>2. QED
  BY <1>1, CaptureIs, LatestIs, Constants

(* A good capture that was found is one of the attachment, with bytes.     *)
LEMMA GoodIs ==
  ASSUME StoredTypes, NEW a \in Attachments, NEW n \in 0..Len(manifest), GoodAt(a, n) # 0
  PROVE  /\ GoodAt(a, n) \in 1..Len(manifest) /\ manifest[GoodAt(a, n)].of = a
         /\ manifest[GoodAt(a, n)].version \in Versions
<1> DEFINE ps == {0} \cup {p \in 1..n : manifest[p].of = a /\ manifest[p].version # 0}
<1>1. GoodAt(a, n) = Max(ps)
  BY DEF GoodAt
<1>2. n \in Nat /\ n <= Len(manifest) /\ Len(manifest) \in Nat /\ ps \in SUBSET (0..n) /\ ps # {}
  BY CaptureIs
<1>3. Max(ps) \in ps
  <2> HIDE DEF ps
  <2>1. QED
    BY <1>2, LastOf
<1>4. QED
  BY <1>1, <1>2, <1>3, CaptureIs, Constants DEF Hashes

(***************************************************************************)
(* What a step of one program leaves the others.                           *)
(***************************************************************************)
Additions ==
  {c \in PaperCaptures \cup DetailCaptures : c.of # Detail => c.version \in {0, served[c.of]}}

Added == manifest' = manifest \/ \E c \in Additions : manifest' = Append(manifest, c)

Grown ==
  /\ Len(manifest') \in Nat /\ Len(manifest) <= Len(manifest')
  /\ \A p \in 1..Len(manifest) : manifest'[p] = manifest[p]

(* The manifest keeps its captures when one is added at its end.           *)
LEMMA AddedIs ==
  ASSUME StoredTypes, Added
  PROVE  /\ Grown /\ manifest' \in Seq(PaperCaptures \cup DetailCaptures)
         /\ \A p \in 1..Len(manifest') :
              \/ p \in 1..Len(manifest) /\ manifest'[p] = manifest[p]
              \/ manifest'[p] \in Additions /\ \A q \in 1..Len(manifest') : q <= p
<1>1. manifest \in Seq(PaperCaptures \cup DetailCaptures) /\ Len(manifest) \in Nat
  BY CaptureIs DEF StoredTypes
<1>2. CASE manifest' = manifest
  BY <1>1, <1>2 DEF Grown
<1>3. ASSUME NEW c \in Additions, manifest' = Append(manifest, c)
      PROVE  /\ Grown /\ manifest' \in Seq(PaperCaptures \cup DetailCaptures)
             /\ \A p \in 1..Len(manifest') :
                  \/ p \in 1..Len(manifest) /\ manifest'[p] = manifest[p]
                  \/ manifest'[p] \in Additions /\ \A q \in 1..Len(manifest') : q <= p
  <2>1. c \in PaperCaptures \cup DetailCaptures
    BY DEF Additions
  <2>2. /\ manifest' \in Seq(PaperCaptures \cup DetailCaptures)
        /\ Len(manifest') = Len(manifest) + 1 /\ manifest'[Len(manifest) + 1] = c
        /\ \A p \in 1..Len(manifest) : manifest'[p] = manifest[p]
    BY <1>1, <1>3, <2>1, AppendProperties
  <2>3. Grown
    BY <1>1, <2>2 DEF Grown
  <2>4. QED
    BY <1>1, <1>3, <2>2, <2>3
<1>4. QED
  BY <1>2, <1>3 DEF Added

(* A fetched version is no older than the captured ones.                   *)
LEMMA OrderStep ==
  ASSUME SourceInv, Added, served' \in [Attachments -> Versions],
         \A a \in Attachments : served[a] <= served'[a]
  PROVE  InOrder'
<1>1. /\ Len(manifest) \in Nat /\ Len(manifest') \in Nat /\ Len(manifest) <= Len(manifest')
      /\ \A p \in 1..Len(manifest) : manifest'[p] = manifest[p]
      /\ \A p \in 1..Len(manifest') :
           \/ p \in 1..Len(manifest) /\ manifest'[p] = manifest[p]
           \/ manifest'[p] \in Additions /\ \A q \in 1..Len(manifest') : q <= p
  BY AddedIs, CaptureIs DEF SourceInv, Grown
<1>2. \A a \in Attachments : served[a] \in Nat /\ served'[a] \in Nat
  BY Constants DEF SourceInv, StoredTypes
<1>3. \A c \in Additions : c.of # Detail => c.of \in Attachments /\ c.version \in {0, served[c.of]}
  <2>1. \A c \in PaperCaptures \cup DetailCaptures : c.of # Detail => c.of \in Attachments
    BY Constants DEF PaperCaptures, DetailCaptures
  <2>2. QED
    BY <2>1 DEF Additions
<1>4. ASSUME NEW p \in 1..Len(manifest), manifest[p].of # Detail
      PROVE  /\ manifest[p].of \in Attachments /\ manifest[p].version \in Nat
             /\ manifest[p].version <= served[manifest[p].of]
  BY <1>4, CaptureIs DEF SourceInv, InOrder
<1>5. ASSUME NEW p \in 1..Len(manifest'), manifest'[p].of # Detail
      PROVE  /\ manifest'[p].version \in Nat
             /\ manifest'[p].version <= served[manifest'[p].of]
             /\ manifest'[p].version <= served'[manifest'[p].of]
  <2>1. CASE p \in 1..Len(manifest) /\ manifest'[p] = manifest[p]
    BY <1>2, <1>4, <1>5, <2>1
  <2>2. CASE manifest'[p] \in Additions
    BY <1>2, <1>3, <1>5, <2>2
  <2>3. QED
    BY <1>1, <2>1, <2>2
<1>6. ASSUME NEW p \in 1..Len(manifest'), NEW q \in 1..Len(manifest'), p <= q,
             manifest'[p].of = manifest'[q].of, manifest'[p].of # Detail, manifest'[q].version # 0
      PROVE  manifest'[p].version <= manifest'[q].version
  <2>1. CASE q \in 1..Len(manifest) /\ manifest'[q] = manifest[q]
    <3>1. p \in 1..Len(manifest) /\ manifest'[p] = manifest[p]
      BY <1>1, <1>6, <2>1
    <3>2. QED
      BY <1>6, <2>1, <3>1 DEF SourceInv, InOrder
  <2>2. CASE manifest'[q] \in Additions
    <3>1. manifest'[q].version = served[manifest'[p].of]
      BY <1>3, <1>6, <2>2
    <3>2. QED
      BY <1>5, <1>6, <3>1
  <2>3. QED
    BY <1>1, <2>1, <2>2
<1>7. QED
  BY <1>5, <1>6 DEF InOrder

(* Bytes that are held stay held.                                          *)
LEMMA HeldStays ==
  ASSUME Grown, Len(manifest) \in Nat
  PROVE  \A a, v : Held(a, v) => Held(a, v)'
BY DEF Held, Grown

(* A step that only captures and writes rows keeps SourceInv.              *)
LEMMA SourceFrame ==
  ASSUME SourceInv, Added, UNCHANGED source, applied' \in {None} \cup 1..MaxRevisions,
         recorded' \in Rows, reading' \in Rows
  PROVE  SourceInv'
<1>1. /\ served' = served /\ revision' = revision
      /\ served \in [Attachments -> Versions] /\ revision \in 1..MaxRevisions
  BY DEF source, SourceInv, StoredTypes
<1>2. \A a \in Attachments : served[a] <= served[a]
  <2>1. \A a \in Attachments : served[a] \in Nat
    BY <1>1, Constants
  <2>2. QED
    BY <2>1
<1>3. InOrder'
  BY <1>1, <1>2, OrderStep
<1>4. manifest' \in Seq(PaperCaptures \cup DetailCaptures)
  BY AddedIs DEF SourceInv
<1>5. QED
  BY <1>1, <1>3, <1>4 DEF SourceInv, StoredTypes

(* Captures of others do not disturb the scheduled run.                    *)
LEMMA RunFrame ==
  ASSUME SourceInv, RunInv, Grown, UNCHANGED <<run, reading>>
  PROVE  RunInv'
<1>1. UNCHANGED <<cron, view, pos, readTo, reading>> /\ Len(manifest) \in Nat
  BY CaptureIs DEF run, SourceInv
<1>2. /\ Len(manifest') \in Nat /\ Len(manifest) <= Len(manifest')
      /\ \A p \in 1..Len(manifest) : manifest'[p] = manifest[p]
  BY DEF Grown
<1>3. CronTypes /\ CronTypes'
  BY <1>1, <1>2 DEF RunInv, CronTypes
<1>4. \A a : \A p \in 1..Len(manifest) : CaughtUp(a, p) => CaughtUp(a, p)'
  BY <1>1, <1>2 DEF CaughtUp
<1>5. /\ \A p \in 1..readTo : p \in 1..Len(manifest)
      /\ cron = "read" => \A p \in 1..(pos - 1) : p \in 1..Len(manifest)
  BY <1>1, <1>3 DEF CronTypes
<1>6. \A a, v : Held(a, v) => Held(a, v)'
  BY <1>1, HeldStays
<1>7. QED
  BY <1>1, <1>3, <1>4, <1>5, <1>6 DEF RunInv

(* Captures of others do not disturb the capture script.                   *)
LEMMA HandFrame ==
  ASSUME SourceInv, HandInv, Grown, UNCHANGED byHand
  PROVE  HandInv'
BY CaptureIs DEF SourceInv, HandInv, Grown, byHand

(* Captures of others do not disturb the extraction script.                *)
LEMMA ExtractFrame ==
  ASSUME SourceInv, ExtractInv, Grown, UNCHANGED <<extracting, extraction>>
  PROVE  ExtractInv'
BY CaptureIs DEF SourceInv, ExtractInv, Grown, extracting, ExtractionsAreOfTheirReading

(* Captures of others do not disturb a request.                            *)
LEMMA ServiceFrame ==
  ASSUME SourceInv, ServiceInv, Grown, UNCHANGED web
  PROVE  ServiceInv'
<1>1. UNCHANGED <<request, page, anchors, clean, sent, cited>> /\ Len(manifest) \in Nat
  BY CaptureIs DEF web, SourceInv
<1>2. WebTypes'
  BY <1>1 DEF ServiceInv, WebTypes
<1>3. \A a, v : Held(a, v) => Held(a, v)'
  BY <1>1, HeldStays
<1>4. AnchorInv'
  BY <1>1, <1>3 DEF ServiceInv, AnchorInv
<1>5. (request \in {"sent", "received"} => Loaded)' /\ RequestsAreOneVersion' /\ CitationsHavePages'
  BY <1>1 DEF ServiceInv, Loaded, RequestsAreOneVersion, CitationsHavePages
<1>6. QED
  BY <1>2, <1>4, <1>5 DEF ServiceInv

(***************************************************************************)
(* The steps.                                                              *)
(***************************************************************************)
LEMMA SourceStep ==
  ASSUME DocumentsInv, NEW a \in Attachments, NEW announced \in BOOLEAN, Replace(a, announced)
  PROVE  DocumentsInv'
<1>1. /\ UNCHANGED <<manifest, tables, run, byHand, extracting, web>>
      /\ served[a] < MaxVersion /\ (announced => revision < MaxRevisions)
      /\ served' = [served EXCEPT ![a] = served[a] + 1]
      /\ revision' = IF announced THEN revision + 1 ELSE revision
  BY DEF Replace
<1>2. /\ SourceInv /\ StoredTypes /\ served \in [Attachments -> Versions]
      /\ revision \in 1..MaxRevisions
  BY DEF DocumentsInv, SourceInv, StoredTypes
<1>3. Added /\ Grown
  BY <1>1, <1>2, AddedIs DEF Added
<1>4. /\ served' \in [Attachments -> Versions] /\ revision' \in 1..MaxRevisions
      /\ \A b \in Attachments : served[b] <= served'[b]
  <2>1. \A b \in Attachments : served[b] \in Nat
    BY <1>2, Constants
  <2>2. served[a] + 1 \in Versions
    BY <1>1, <1>2, <2>1, Constants DEF Versions
  <2>3. \A b \in Attachments : served'[b] = IF b = a THEN served[b] + 1 ELSE served[b]
    BY <1>1, <1>2
  <2>4. revision' \in 1..MaxRevisions
    BY <1>1, <1>2, Constants
  <2>5. QED
    BY <1>1, <1>2, <2>1, <2>2, <2>3, <2>4
<1>5. InOrder'
  BY <1>2, <1>3, <1>4, OrderStep
<1>6. UNCHANGED <<applied, recorded, reading, extraction>>
  BY <1>1 DEF tables
<1>7. SourceInv'
  BY <1>1, <1>2, <1>4, <1>5, <1>6 DEF SourceInv, StoredTypes
<1>8. QED
  BY <1>1, <1>2, <1>3, <1>6, <1>7, RunFrame, HandFrame, ExtractFrame, ServiceFrame DEF DocumentsInv

(* A fetched document adds nothing, or a capture of what is served.        *)
LEMMA FetchIs ==
  ASSUME StoredTypes, NEW a \in Attachments, NEW n, NEW by \in {"run", "hand"}, Fetched(a, n, by)
  PROVE  Added
<1>1. served[a] \in Hashes /\ 0 \in Hashes /\ a # Detail
  BY Constants DEF StoredTypes, Hashes
<1>2. PICK v \in {0, served[a]} : Captured(a, v, n, by)
  BY DEF Fetched
<1>3. [of |-> a, version |-> v, by |-> by] \in Additions
  BY <1>1, <1>2 DEF Additions, PaperCaptures
<1>4. QED
  BY <1>2, <1>3 DEF Captured, Added

(* The scheduled run as far as the record store.                           *)
LEMMA CollectSteps ==
  ASSUME DocumentsInv, CollectDetail \/ CollectPaper \/ LoadApply
  PROVE  DocumentsInv'
<1>1. SourceInv /\ StoredTypes /\ RunInv /\ CronTypes /\ Len(manifest) \in Nat
  BY CaptureIs DEF DocumentsInv, SourceInv, RunInv
<1>2. /\ UNCHANGED <<source, tables, readTo, byHand, extracting, web>>
      /\ cron' \in {"collect", "apply"} /\ pos' \in Nat
      /\ cron' = "collect" => pos' # 0
      /\ view' = Len(manifest') \/ (view' = view /\ manifest' = manifest) \/ (view' = view /\ CollectPaper)
  BY <1>1 DEF CollectDetail, CollectPaper, LoadApply, CronTypes
<1>3. Added
  <2>1. CASE CollectDetail
    <3>1. [of |-> Detail, version |-> revision, by |-> "run"] \in Additions
      BY <1>1 DEF Additions, DetailCaptures, StoredTypes
    <3>2. QED
      BY <2>1, <3>1 DEF CollectDetail, Added
  <2>2. CASE CollectPaper
    <3>1. pos \in Attachments
      BY <1>1, <2>2, Constants DEF CollectPaper, CronTypes
    <3>2. QED
      BY <1>1, <2>2, <3>1, FetchIs DEF CollectPaper
  <2>3. CASE LoadApply
    BY <2>3 DEF LoadApply, Added
  <2>4. QED
    BY <2>1, <2>2, <2>3
<1>4. Grown
  BY <1>1, <1>3, AddedIs
<1>5. UNCHANGED <<applied, recorded, reading, extraction>>
  BY <1>2 DEF tables
<1>6. SourceInv'
  BY <1>1, <1>2, <1>3, <1>5, SourceFrame DEF StoredTypes
<1>7. RunInv'
  <2>1. CronTypes'
    BY <1>1, <1>2, <1>4 DEF CronTypes, Grown
  <2>2. \A a : \A p \in 1..readTo : CaughtUp(a, p) => CaughtUp(a, p)'
    <3>1. \A p \in 1..readTo : manifest'[p] = manifest[p]
      BY <1>1, <1>4 DEF CronTypes, Grown
    <3>2. QED
      BY <1>5, <3>1 DEF CaughtUp
  <2>3. \A a, v : Held(a, v) => Held(a, v)'
    BY <1>1, <1>4, HeldStays
  <2>4. QED
    BY <1>1, <1>2, <1>5, <2>1, <2>2, <2>3 DEF RunInv
<1>8. QED
  BY <1>1, <1>2, <1>4, <1>5, <1>6, <1>7, HandFrame, ExtractFrame, ServiceFrame DEF DocumentsInv

(* The apply step writes hashes that are in the manifest.                  *)
LEMMA ApplyStep ==
  ASSUME DocumentsInv, CommitApply
  PROVE  DocumentsInv'
<1>1. SourceInv /\ StoredTypes /\ RunInv /\ CronTypes /\ Len(manifest) \in Nat
  BY CaptureIs DEF DocumentsInv, SourceInv, RunInv
<1>2. /\ UNCHANGED <<source, manifest, reading, extraction, byHand, extracting, web>>
      /\ cron' = "read" /\ view' = Len(manifest) /\ pos' = 1 /\ readTo' = 0
      /\ applied' = LatestAt(Detail, view)
      /\ recorded' = recorded \/ recorded' = [a \in Attachments |-> Content(a)]
  BY DEF CommitApply
<1>3. Added /\ Grown
  BY <1>1, <1>2, AddedIs DEF Added
<1>4. applied' \in {None} \cup 1..MaxRevisions
  BY <1>1, <1>2, LatestType DEF CronTypes
<1>5. recorded' \in Rows
  <2>1. \A a \in Attachments : Content(a) \in Hashes
    BY <1>1 DEF Content, StoredTypes, Rows, Hashes
  <2>2. QED
    BY <1>1, <1>2, <2>1 DEF StoredTypes, Rows
<1>6. SourceInv'
  BY <1>1, <1>2, <1>3, <1>4, <1>5, SourceFrame DEF StoredTypes
<1>7. RunInv'
  <2>1. CronTypes'
    BY <1>1, <1>2 DEF CronTypes
  <2>2. \A a, v : Held(a, v) => Held(a, v)'
    BY <1>1, <1>3, HeldStays
  <2>3. 1..readTo' = {} /\ 1..(pos' - 1) = {}
    BY <1>2
  <2>4. QED
    BY <1>1, <1>2, <2>1, <2>2, <2>3 DEF RunInv
<1>8. QED
  BY <1>1, <1>2, <1>3, <1>6, <1>7, HandFrame, ExtractFrame, ServiceFrame DEF DocumentsInv

(* The reading step starts anew: what it has got through it has caught up  *)
(* with, since a later capture is not of an earlier version.               *)
LEMMA ReadStep ==
  ASSUME DocumentsInv, ReadCapture
  PROVE  DocumentsInv'
<1>1. SourceInv /\ StoredTypes /\ RunInv /\ CronTypes /\ Len(manifest) \in Nat
  BY CaptureIs DEF DocumentsInv, SourceInv, RunInv
<1>2. /\ UNCHANGED <<source, manifest, applied, recorded, extraction, cron, view, readTo,
                     byHand, extracting, web>>
      /\ cron = "read" /\ pos <= view /\ pos' = pos + 1
  BY DEF ReadCapture
<1>3. Added /\ Grown
  BY <1>1, <1>2, AddedIs DEF Added
<1>4. PICK b, v : b = manifest[pos].of /\ v = manifest[pos].version
  OBVIOUS
<1>5. /\ pos \in 1..Len(manifest) /\ pos \in Nat /\ pos <= view /\ view \in Nat /\ readTo = 0
  BY <1>1, <1>2 DEF CronTypes
<1>6. /\ b # Detail => b \in Attachments /\ v \in Hashes
      /\ reading' = IF b # Detail /\ v \in Versions \ NotPdf
                    THEN [reading EXCEPT ![b] = v] ELSE reading
  BY <1>1, <1>4, <1>5, CaptureIs DEF ReadCapture
<1>7. reading \in [Attachments -> Hashes]
  BY <1>1 DEF StoredTypes, Rows
<1>8. /\ reading' \in [Attachments -> Hashes]
      /\ \A a \in Attachments :
           reading'[a] = IF a = b /\ v \in Versions \ NotPdf THEN v ELSE reading[a]
  <2>1. Detail \notin Attachments
    BY Constants
  <2>2. QED
    BY <1>6, <1>7, <2>1
<1>9. SourceInv'
  BY <1>1, <1>2, <1>3, <1>8, SourceFrame DEF StoredTypes, Rows
<1>10. CronTypes'
  BY <1>1, <1>2, <1>5 DEF CronTypes
<1>11. ASSUME NEW a \in Attachments
       PROVE  Held(a, reading[a])'
  BY <1>1, <1>2, <1>4, <1>5, <1>8, <1>11 DEF Held, RunInv
<1>12. ASSUME NEW a \in Attachments, NEW q \in 1..pos
       PROVE  CaughtUp(a, q)'
  <2>1. SUFFICES ASSUME manifest[q].of = a, manifest[q].version \in Versions \ NotPdf
                 PROVE  manifest[q].version <= reading'[a]
    BY <1>2 DEF CaughtUp
  <2>2. a # Detail /\ q \in 1..Len(manifest) /\ q <= pos
    BY <1>5, Constants
  <2>3. CASE a = b /\ v \in Versions \ NotPdf
    <3>1. v # 0
      BY <2>3, Constants
    <3>2. manifest[q].version <= v
      BY <1>1, <1>4, <1>5, <2>1, <2>2, <2>3, <3>1 DEF SourceInv, InOrder
    <3>3. QED
      BY <1>8, <2>3, <3>2
  <2>4. CASE ~(a = b /\ v \in Versions \ NotPdf)
    <3>1. q # pos
      BY <1>4, <2>1, <2>4
    <3>2. q \in 1..(pos - 1)
      BY <1>5, <3>1
    <3>3. CaughtUp(a, q)
      BY <1>1, <1>2, <3>2 DEF RunInv
    <3>4. QED
      BY <1>8, <2>1, <2>4, <3>3 DEF CaughtUp
  <2>5. QED
    BY <2>3, <2>4
<1>13. RunInv'
  <2>1. 1..readTo' = {} /\ 1..(pos' - 1) = 1..pos
    BY <1>2, <1>5
  <2>2. QED
    BY <1>10, <1>11, <1>12, <2>1 DEF RunInv
<1>14. QED
  BY <1>1, <1>2, <1>3, <1>9, <1>13, HandFrame, ExtractFrame, ServiceFrame DEF DocumentsInv

(* A run that ends, or is killed, leaves its readings as they are.         *)
LEMMA RunEnds ==
  ASSUME DocumentsInv, FinishRun \/ KillRun
  PROVE  DocumentsInv'
<1>1. SourceInv /\ StoredTypes /\ RunInv /\ CronTypes /\ Len(manifest) \in Nat
  BY CaptureIs DEF DocumentsInv, SourceInv, RunInv
<1>2. /\ UNCHANGED <<source, manifest, tables, byHand, extracting, web>>
      /\ cron' = "idle" /\ view' = 0 /\ pos' = 0
      /\ readTo' = readTo \/ (readTo' = view /\ cron = "read" /\ pos > view)
  BY DEF FinishRun, KillRun, Idle
<1>3. Added /\ Grown
  BY <1>1, <1>2, AddedIs DEF Added
<1>4. UNCHANGED <<applied, recorded, reading, extraction>>
  BY <1>2 DEF tables
<1>5. SourceInv'
  BY <1>1, <1>2, <1>3, <1>4, SourceFrame DEF StoredTypes
<1>6. RunInv'
  <2>1. CronTypes'
    BY <1>1, <1>2 DEF CronTypes
  <2>2. readTo' = view /\ cron = "read" /\ pos > view => 1..view = 1..(pos - 1)
    BY <1>1 DEF CronTypes
  <2>3. \A a \in Attachments : \A p \in 1..readTo' : CaughtUp(a, p)
    BY <1>1, <1>2, <2>2 DEF RunInv
  <2>4. /\ \A a, p : CaughtUp(a, p) => CaughtUp(a, p)'
        /\ \A a, v : Held(a, v) => Held(a, v)'
    BY <1>2, <1>4 DEF CaughtUp, Held
  <2>5. QED
    BY <1>1, <1>2, <1>4, <2>1, <2>3, <2>4 DEF RunInv
<1>7. QED
  BY <1>1, <1>2, <1>3, <1>4, <1>5, <1>6, HandFrame, ExtractFrame, ServiceFrame DEF DocumentsInv

(* The capture script.                                                     *)
LEMMA HandStep ==
  ASSUME DocumentsInv, StartScript \/ CapturePaper \/ RecordContents \/ KillScript
  PROVE  DocumentsInv'
<1>1. SourceInv /\ StoredTypes /\ HandInv /\ Len(manifest) \in Nat
  BY CaptureIs DEF DocumentsInv, SourceInv
<1>2. UNCHANGED <<source, applied, reading, extraction, run, extracting, web>>
  BY DEF StartScript, CapturePaper, RecordContents, KillScript, tables
<1>3. Added
  BY <1>1, FetchIs DEF StartScript, CapturePaper, RecordContents, KillScript, Added
<1>4. Grown
  BY <1>1, <1>3, AddedIs
<1>5. recorded' \in Rows
  <2>1. recorded' = recorded \/ recorded' = [a \in Attachments |-> RecordContent(recorded[a], got[a])]
    BY DEF StartScript, CapturePaper, RecordContents, KillScript, tables
  <2>2. \A a \in Attachments : RecordContent(recorded[a], got[a]) \in Hashes
    BY <1>1 DEF RecordContent, StoredTypes, HandInv, Rows
  <2>3. QED
    BY <1>1, <2>1, <2>2 DEF StoredTypes, Rows
<1>6. SourceInv'
  BY <1>1, <1>2, <1>3, <1>5, SourceFrame DEF StoredTypes
<1>7. HandInv'
  <2>1. Last \in Nat \ {0} /\ Attachments = 1..Last /\ 0 \in Hashes /\ Len(manifest') \in Nat
        /\ Len(manifest) <= Len(manifest') /\ \A a \in Attachments : served[a] \in Hashes
    BY <1>1, <1>4, Constants DEF Grown, Hashes, StoredTypes
  <2>2. CASE StartScript
    BY <1>1, <2>1, <2>2 DEF StartScript, HandInv
  <2>3. CASE CapturePaper
    BY <1>1, <2>1, <2>3 DEF CapturePaper, HandInv, Rows
  <2>4. CASE RecordContents \/ KillScript
    BY <1>1, <2>1, <2>4 DEF RecordContents, KillScript, EndScript, HandInv, Rows
  <2>5. QED
    BY <2>2, <2>3, <2>4
<1>8. QED
  BY <1>1, <1>2, <1>4, <1>6, <1>7, RunFrame, ExtractFrame, ServiceFrame DEF DocumentsInv

(* The extraction script.                                                  *)
LEMMA ExtractStep ==
  ASSUME DocumentsInv, StartReader \/ TakeReading \/ Extract \/ EndReader
  PROVE  DocumentsInv'
<1>1. SourceInv /\ StoredTypes /\ RunInv /\ CronTypes /\ ExtractInv /\ Len(manifest) \in Nat
  BY CaptureIs DEF DocumentsInv, SourceInv, RunInv
<1>2. UNCHANGED <<source, manifest, applied, recorded, reading, run, byHand, web>>
  BY DEF StartReader, TakeReading, Extract, EndReader, tables
<1>3. Added /\ Grown
  BY <1>1, <1>2, AddedIs DEF Added
<1>4. SourceInv'
  BY <1>1, <1>2, <1>3, SourceFrame DEF StoredTypes
<1>5. /\ Last \in Nat \ {0} /\ Attachments = 1..Last /\ 0 \in Hashes /\ NoReading \in Drawings
      /\ reader \in 0..(Last + 1) /\ shelf \in 0..Len(manifest) /\ drawn \in Drawings
      /\ drawn # NoReading => reader \in Attachments
      /\ extraction \in [Attachments -> Extractions]
      /\ drawn.settled /\ drawn.of \notin NotPdf => drawn.of <= drawn.from
      /\ ExtractionsAreOfTheirReading
  BY <1>1, Constants DEF ExtractInv, Hashes, NoReading, Drawings
<1>6. ExtractInv'
  <2>1. CASE StartReader
    <3>1. UNCHANGED <<extraction, drawn>> /\ reader' = 1 /\ shelf' = Len(manifest)
      BY <2>1 DEF StartReader, tables
    <3>2. QED
      BY <1>1, <1>2, <1>5, <3>1 DEF ExtractInv, ExtractionsAreOfTheirReading
  <2>2. CASE EndReader
    <3>1. UNCHANGED extraction /\ reader' = 0 /\ shelf' = 0 /\ drawn' = NoReading
      BY <2>2 DEF EndReader, tables
    <3>2. drawn'.settled = FALSE
      BY <3>1 DEF NoReading
    <3>3. QED
      BY <1>1, <1>2, <1>5, <3>1, <3>2 DEF ExtractInv, ExtractionsAreOfTheirReading
  <2>3. CASE TakeReading
    <3>1. UNCHANGED <<extraction, shelf>> /\ reader \in Attachments /\ drawn = NoReading
      BY <2>3 DEF TakeReading, tables
    <3>2. PICK p : p = GoodAt(reader, shelf)
      OBVIOUS
    <3>3. CASE reader' = reader + 1 /\ drawn' = drawn
      BY <1>1, <1>2, <1>5, <3>1, <3>3 DEF ExtractInv, ExtractionsAreOfTheirReading
    <3>4. CASE /\ reader' = reader /\ p # 0
               /\ drawn' = [of |-> manifest[p].version, from |-> reading[reader],
                            settled |-> Settled(reader, manifest[p].version)]
      <4>1. manifest[p].version \in Versions
        BY <1>1, <1>5, <3>1, <3>2, <3>4, GoodIs
      <4>2. reading[reader] \in Hashes /\ manifest[p].version \in Hashes
        BY <1>1, <3>1, <4>1 DEF StoredTypes, Rows, Hashes
      <4>3. Settled(reader, manifest[p].version) \in BOOLEAN
        BY DEF Settled
      <4>4. ASSUME Settled(reader, manifest[p].version), manifest[p].version \notin NotPdf
            PROVE  manifest[p].version <= reading[reader]
        BY <1>1, <3>1, <4>1, <4>4 DEF Settled, RunInv, CaughtUp
      <4>5. drawn' \in Drawings /\ (drawn'.settled /\ drawn'.of \notin NotPdf => drawn'.of <= drawn'.from)
        BY <3>4, <4>2, <4>3, <4>4 DEF Drawings
      <4>6. QED
        BY <1>1, <1>2, <1>5, <3>1, <3>4, <4>5 DEF ExtractInv, ExtractionsAreOfTheirReading
    <3>5. QED
      BY <2>3, <3>2, <3>3, <3>4 DEF TakeReading, ReadingRow
  <2>4. CASE Extract
    <3>1. /\ drawn # NoReading /\ reader \in Attachments /\ reader' = reader + 1
          /\ drawn' = NoReading /\ shelf' = shelf
      BY <1>5, <2>4 DEF Extract
    <3>2. PICK status \in Outcomes :
            extraction' = [extraction EXCEPT ![reader] =
              [of |-> drawn.of, from |-> drawn.from, settled |-> drawn.settled, status |-> status]]
      BY <2>4 DEF Extract, PutExtraction
    <3>3. /\ status \in {"read", "failed"} /\ (status = "read" => drawn.of \notin NotPdf)
          /\ drawn.of \in Hashes /\ drawn.from \in Hashes /\ drawn.settled \in BOOLEAN
      BY <1>5 DEF Outcomes, Drawings
    <3>4. PICK row : row = [of |-> drawn.of, from |-> drawn.from, settled |-> drawn.settled,
                            status |-> status]
      OBVIOUS
    <3>5. row \in Extractions /\ ~(row.status = "read" /\ row.from < row.of /\ row.settled)
      <4>1. row \in Extractions
        BY <3>3, <3>4 DEF Extractions
      <4>2. Hashes \subseteq Nat
        BY Constants DEF Hashes
      <4>3. drawn.of \in Nat /\ drawn.from \in Nat
        BY <3>3, <4>2
      <4>4. QED
        BY <1>5, <3>3, <3>4, <4>1, <4>3
    <3>6. /\ extraction' \in [Attachments -> Extractions]
          /\ \A a \in Attachments : extraction'[a] = IF a = reader THEN row ELSE extraction[a]
      BY <1>5, <3>2, <3>4, <3>5
    <3>7. ExtractionsAreOfTheirReading'
      BY <1>5, <3>5, <3>6 DEF ExtractionsAreOfTheirReading
    <3>8. drawn'.settled = FALSE
      BY <3>1 DEF NoReading
    <3>9. QED
      BY <1>1, <1>2, <1>5, <3>1, <3>6, <3>7, <3>8 DEF ExtractInv
  <2>5. QED
    BY <2>1, <2>2, <2>3, <2>4
<1>7. QED
  BY <1>1, <1>2, <1>3, <1>4, <1>6, RunFrame, HandFrame, ServiceFrame DEF DocumentsInv

(* The latest bytes are of no earlier version than any captured.           *)
LEMMA LatestIsNewest ==
  ASSUME SourceInv, NEW a \in Attachments, NEW v, Held(a, v), Latest(a) \in Versions
  PROVE  v <= Latest(a)
<1>1. StoredTypes /\ Len(manifest) \in Nat /\ a # Detail /\ 0 \notin Versions /\ Versions \subseteq Nat
  BY CaptureIs, Constants DEF SourceInv
<1>2. Latest(a) = LatestAt(a, Len(manifest)) /\ None \notin Versions
  BY <1>1 DEF Latest, None
<1>3. PICK q \in 1..Len(manifest) : /\ manifest[q].of = a /\ Latest(a) = manifest[q].version
                                    /\ \A p \in 1..Len(manifest) : manifest[p].of = a => p <= q
  BY <1>1, <1>2, LatestIs
<1>4. CASE v = 0
  <2>1. Latest(a) \in Nat
    BY <1>1
  <2>2. QED
    BY <1>4, <2>1
<1>5. CASE v # 0
  <2>1. PICK p \in 1..Len(manifest) : manifest[p].of = a /\ manifest[p].version = v
    BY <1>5 DEF Held
  <2>2. p <= q /\ manifest[q].version # 0
    BY <1>1, <1>3, <2>1
  <2>3. QED
    BY <1>1, <1>3, <2>1, <2>2 DEF SourceInv, InOrder
<1>6. QED
  BY <1>4, <1>5

(* Steps of a request that load no reading.                                *)
LEMMA WebStep ==
  ASSUME DocumentsInv,
         LoadRows \/ Send \/ Receive \/ AnswerManaged \/ AnswerLocally \/ Review \/ EndRequest
  PROVE  ServiceInv'
<1>1. SourceInv /\ StoredTypes /\ ServiceInv /\ WebTypes /\ AnchorInv /\ Len(manifest) \in Nat
  BY CaptureIs DEF DocumentsInv, SourceInv, ServiceInv
<1>2. UNCHANGED manifest
  BY DEF LoadRows, Send, Receive, AnswerManaged, AnswerLocally, Review, EndRequest
<1>3. /\ page \in Rows /\ sent \in Rows /\ recorded \in Rows
      /\ anchors \in Seq(Hashes) /\ clean \in Seq(SUBSET Versions) /\ Len(clean) = Len(anchors)
      /\ cited \in [of : {0} \cup Attachments, version : Hashes, page : 0..MaxPages]
      /\ request = "answered" => cited.of \in Attachments
      /\ request \in {"sent", "received"} => Loaded
  BY <1>1 DEF WebTypes, StoredTypes, ServiceInv
<1>4. /\ Last \in Nat \ {0} /\ Attachments = 1..Last /\ Len(anchors) \in Nat
      /\ Hashes \subseteq Nat /\ 0 \in Hashes /\ MaxPages \in Nat
  BY <1>3, Constants, MaxPagesType DEF Hashes
<1>5. AnchorInv'
  <2>1. CASE anchors' = anchors /\ clean' = clean
    BY <1>1, <1>2, <2>1 DEF AnchorInv, Held
  <2>2. CASE anchors' = <<>> /\ clean' = <<>>
    BY <2>2 DEF AnchorInv
  <2>3. QED
    BY <2>1, <2>2 DEF LoadRows, Send, Receive, AnswerManaged, AnswerLocally, Review, EndRequest
<1>6. Loaded => \A a \in Attachments : a \in 1..Len(anchors) /\ anchors[a] \in Hashes
  BY <1>3, <1>4 DEF Loaded
<1>7. CASE LoadRows
  <2>1. /\ request' = "readings" /\ page' = recorded
        /\ UNCHANGED <<anchors, clean, sent, cited>>
    BY <1>7 DEF LoadRows
  <2>2. WebTypes'
    BY <1>3, <2>1 DEF WebTypes
  <2>3. QED
    BY <1>5, <2>1, <2>2 DEF ServiceInv, RequestsAreOneVersion, CitationsHavePages
<1>8. CASE Send
  <2>1. /\ Loaded /\ UNCHANGED <<page, anchors, clean, cited>>
        /\ request' = "refused" \/ (request' = "sent" /\ \A a \in Documents : Matches(a))
        /\ sent' = [a \in Attachments |-> IF a \in Documents THEN Latest(a) ELSE 0]
    BY <1>8 DEF Send
  <2>2. sent' \in Rows
    BY <1>4, <2>1 DEF Documents, Rows, Hashes
  <2>3. WebTypes'
    BY <1>3, <2>1, <2>2 DEF WebTypes
  <2>4. ASSUME NEW a \in Attachments, request' = "sent", sent'[a] # 0
        PROVE  /\ page[a] \in {0, sent'[a]}
               /\ anchors[a] <= sent'[a]
               /\ anchors[a] # sent'[a] => sent'[a] \notin clean[a]
    <3>1. a \in Documents /\ sent'[a] = Latest(a) /\ Latest(a) \in Versions \ NotPdf
      BY <2>1, <2>4 DEF Documents
    <3>2. page[a] \in {0, sent'[a]}
      BY <2>1, <2>4, <3>1 DEF Matches
    <3>3. a \in 1..Len(anchors) /\ anchors[a] \in Nat /\ Latest(a) \in Nat
      BY <1>4, <1>6, <2>1, <3>1, Constants
    <3>4. anchors[a] <= Latest(a)
      BY <1>1, <3>1, <3>3, LatestIsNewest DEF AnchorInv
    <3>5. Latest(a) \in clean[a] => Latest(a) <= anchors[a]
      BY <1>1, <3>1, <3>3 DEF AnchorInv
    <3>6. QED
      BY <3>1, <3>2, <3>3, <3>4, <3>5
  <2>5. RequestsAreOneVersion'
    BY <2>1, <2>4 DEF RequestsAreOneVersion
  <2>6. QED
    BY <1>5, <2>1, <2>3, <2>5 DEF ServiceInv, CitationsHavePages, Loaded
<1>9. CASE Receive
  <2>1. /\ request = "sent" /\ request' \in {"received", "refused"}
        /\ UNCHANGED <<page, anchors, clean, sent, cited>>
    BY <1>9 DEF Receive, Rebuilt
  <2>2. WebTypes'
    BY <1>3, <2>1 DEF WebTypes
  <2>3. QED
    BY <1>3, <1>5, <2>1, <2>2 DEF ServiceInv, RequestsAreOneVersion, CitationsHavePages, Loaded
<1>10. CASE AnswerManaged \/ AnswerLocally
  <2>1. /\ Loaded /\ request' = "answered" /\ UNCHANGED <<page, sent>>
        /\ \/ anchors' = anchors /\ clean' = clean
           \/ anchors' = <<>> /\ clean' = <<>>
    BY <1>3, <1>10 DEF AnswerManaged, AnswerLocally
  <2>2. PICK a, shown : a \in Attachments /\ Cite(a, shown)
    BY <1>10 DEF AnswerManaged, AnswerLocally, Documents
  <2>3. PICK version \in {shown, anchors[a]} \ {0}, number \in 1..MaxPages :
          cited' = [of |-> a, version |-> version, page |-> number]
    BY <2>2 DEF Cite
  <2>4. version \in Hashes
    BY <1>6, <2>1, <2>2, <2>3 DEF Cite, Hashes
  <2>5. /\ cited' \in [of : {0} \cup Attachments, version : Hashes, page : 0..MaxPages]
        /\ cited'.of \in Attachments
    <3>1. number \in 0..MaxPages
      BY <1>4, <2>3
    <3>2. cited' \in [of : {0} \cup Attachments, version : Hashes, page : 0..MaxPages]
      BY <2>2, <2>3, <2>4, <3>1
    <3>3. QED
      BY <2>2, <2>3, <3>2
  <2>6. WebTypes'
    <3>1. anchors' \in Seq(Hashes) /\ clean' \in Seq(SUBSET Versions) /\ Len(clean') = Len(anchors')
      <4>1. CASE anchors' = anchors /\ clean' = clean
        BY <1>3, <4>1
      <4>2. CASE anchors' = <<>> /\ clean' = <<>>
        BY <4>2
      <4>3. QED
        BY <2>1, <4>1, <4>2
    <3>2. page' \in Rows /\ sent' \in Rows
      BY <1>3, <2>1
    <3>3. QED
      BY <2>1, <2>5, <3>1, <3>2 DEF WebTypes
  <2>7. QED
    BY <1>5, <2>1, <2>6 DEF ServiceInv, RequestsAreOneVersion, CitationsHavePages
<1>11. CASE Review
  <2>1. /\ request = "answered" /\ Loaded /\ UNCHANGED <<page, anchors, clean, sent, cited>>
        /\ \/ request' = "refused"
           \/ request' = "accepted" /\ <<cited.version, cited.page>> \in PageSources(cited.of)
    BY <1>11 DEF Review
  <2>2. WebTypes'
    BY <1>3, <2>1 DEF WebTypes
  <2>3. PICK a : a = cited.of
    OBVIOUS
  <2>4. a \in Attachments /\ a \in 1..Len(anchors) /\ anchors[a] \in Nat
    BY <1>3, <1>4, <1>6, <2>1, <2>3
  <2>5. ASSUME request' = "accepted", cited.version \in clean[a]
        PROVE  cited.page <= PageCount[cited.version]
    <3>1. /\ cited.version \in {anchors[a]} \cup {v \in {Latest(a)} : a \in Documents}
          /\ cited.page <= PageCount[anchors[a]]
      BY <2>1, <2>3, <2>5 DEF PageSources
    <3>2. CASE cited.version = anchors[a]
      BY <3>1, <3>2
    <3>3. CASE cited.version = Latest(a) /\ a \in Documents
      <4>1. Latest(a) \in Versions \ NotPdf /\ Latest(a) \in Nat
        BY <3>3, Constants DEF Documents
      <4>2. anchors[a] <= Latest(a)
        BY <1>1, <2>4, <4>1, LatestIsNewest DEF AnchorInv
      <4>3. Latest(a) <= anchors[a]
        BY <1>1, <2>4, <2>5, <3>3, <4>1 DEF AnchorInv
      <4>4. cited.version = anchors[a]
        BY <2>4, <3>3, <4>1, <4>2, <4>3
      <4>5. QED
        BY <3>1, <4>4
    <3>4. QED
      BY <3>1, <3>2, <3>3
  <2>6. CitationsHavePages'
    BY <2>1, <2>3, <2>5 DEF CitationsHavePages
  <2>7. QED
    BY <1>5, <2>1, <2>2, <2>6 DEF ServiceInv, RequestsAreOneVersion
<1>12. CASE EndRequest
  <2>1. /\ request' = "none" /\ page' = NoRows /\ sent' = NoRows /\ cited' = NoCitation
        /\ anchors' = <<>> /\ clean' = <<>>
    BY <1>12 DEF EndRequest
  <2>2. NoRows \in Rows
    BY <1>4 DEF NoRows, Rows
  <2>3. NoCitation \in [of : {0} \cup Attachments, version : Hashes, page : 0..MaxPages]
    BY <1>4 DEF NoCitation
  <2>4. WebTypes'
    BY <2>1, <2>2, <2>3 DEF WebTypes
  <2>5. QED
    BY <1>5, <2>1, <2>4 DEF ServiceInv, RequestsAreOneVersion, CitationsHavePages
<1>13. QED
  BY <1>7, <1>8, <1>9, <1>10, <1>11, <1>12

(* A reading that is loaded is no earlier than what was settled before.    *)
LEMMA LoadStep ==
  ASSUME DocumentsInv, NEW b \in Attachments, LoadReading(b)
  PROVE  ServiceInv'
<1>1. /\ SourceInv /\ StoredTypes /\ RunInv /\ CronTypes /\ ServiceInv /\ WebTypes /\ AnchorInv
      /\ Len(manifest) \in Nat
  BY CaptureIs DEF DocumentsInv, SourceInv, RunInv, ServiceInv
<1>2. PICK h, V : h = reading[b] /\ V = {v \in Versions : Settled(b, v)}
  OBVIOUS
<1>3. /\ request \in {"readings", "answered"} /\ b = Cardinality(DOMAIN anchors) + 1
      /\ anchors' = Append(anchors, h) /\ clean' = Append(clean, V)
      /\ UNCHANGED <<request, page, sent, cited, manifest>>
  BY <1>2 DEF LoadReading
<1>4. /\ anchors \in Seq(Hashes) /\ clean \in Seq(SUBSET Versions) /\ Len(clean) = Len(anchors)
      /\ Len(anchors) \in Nat
  BY <1>1 DEF WebTypes
<1>5. b = Len(anchors) + 1
  <2>1. DOMAIN anchors = 1..Len(anchors)
    BY <1>4
  <2>2. Cardinality(1..Len(anchors)) = Len(anchors)
    <3>1. Cardinality(1..Len(anchors)) = IF 1 > Len(anchors) THEN 0 ELSE Len(anchors) - 1 + 1
      <4>1. 1 \in Int /\ Len(anchors) \in Int
        BY <1>4
      <4>2. QED
        BY <4>1, FS_Interval
    <3>2. QED
      BY <1>4, <3>1
  <2>3. QED
    BY <1>3, <2>1, <2>2
<1>6. h \in Hashes /\ V \in SUBSET Versions
  BY <1>1, <1>2 DEF StoredTypes, Rows
<1>7. /\ anchors' \in Seq(Hashes) /\ Len(anchors') = Len(anchors) + 1
      /\ \A a \in 1..Len(anchors) : anchors'[a] = anchors[a]
      /\ anchors'[b] = h
  BY <1>3, <1>4, <1>5, <1>6, AppendProperties
<1>8. /\ clean' \in Seq(SUBSET Versions) /\ Len(clean') = Len(clean) + 1
      /\ \A a \in 1..Len(clean) : clean'[a] = clean[a]
      /\ clean'[b] = V
  BY <1>3, <1>4, <1>5, <1>6, AppendProperties
<1>9. WebTypes'
  BY <1>1, <1>3, <1>4, <1>7, <1>8 DEF WebTypes
<1>10. ASSUME NEW v \in V \ NotPdf
       PROVE  v <= h
  <2>1. v \in Versions \ NotPdf /\ Settled(b, v)
    BY <1>2
  <2>2. PICK p \in 1..readTo : manifest[p].of = b /\ manifest[p].version = v
    BY <2>1 DEF Settled
  <2>3. QED
    BY <1>1, <1>2, <2>1, <2>2 DEF RunInv, CaughtUp
<1>11. AnchorInv'
  <2>1. \A a, v : Held(a, v) => Held(a, v)'
    BY <1>3 DEF Held
  <2>2. Held(b, h)
    BY <1>1, <1>2 DEF RunInv
  <2>3. \A a \in 1..Len(anchors') : a \in 1..Len(anchors) \/ a = b
    BY <1>4, <1>5, <1>7
  <2>4. PICK A, C : A = anchors' /\ C = clean'
    OBVIOUS
  <2>5. ASSUME NEW a \in 1..Len(anchors)
        PROVE  a \in Attachments /\ Held(a, A[a])' /\ \A v \in C[a] \ NotPdf : v <= A[a]
    BY <1>1, <1>4, <1>7, <1>8, <2>1, <2>4 DEF AnchorInv
  <2>6. b \in Attachments /\ Held(b, A[b])' /\ \A v \in C[b] \ NotPdf : v <= A[b]
    BY <1>7, <1>8, <1>10, <2>1, <2>2, <2>4
  <2>7. \A a \in 1..Len(A) :
          a \in Attachments /\ Held(a, A[a])' /\ \A v \in C[a] \ NotPdf : v <= A[a]
    BY <2>3, <2>4, <2>5, <2>6
  <2>8. QED
    BY <2>4, <2>7 DEF AnchorInv
<1>12. QED
  BY <1>1, <1>3, <1>9, <1>11 DEF ServiceInv, RequestsAreOneVersion, CitationsHavePages

(* Each step of a request keeps the invariant.                             *)
LEMMA ServiceStep ==
  ASSUME DocumentsInv,
         \/ LoadRows \/ Send \/ Receive \/ AnswerManaged \/ AnswerLocally \/ Review \/ EndRequest
         \/ \E a \in Attachments : LoadReading(a)
  PROVE  DocumentsInv'
<1>1. SourceInv /\ StoredTypes
  BY DEF DocumentsInv, SourceInv
<1>2. UNCHANGED <<source, manifest, tables, run, byHand, extracting>>
  BY DEF LoadRows, Send, Receive, AnswerManaged, AnswerLocally, Review, EndRequest, LoadReading
<1>3. UNCHANGED <<applied, recorded, reading, extraction>>
  BY <1>2 DEF tables
<1>4. Added /\ Grown
  BY <1>1, <1>2, AddedIs DEF Added
<1>5. SourceInv'
  BY <1>1, <1>2, <1>3, <1>4, SourceFrame DEF StoredTypes
<1>6. ServiceInv'
  BY WebStep, LoadStep
<1>7. QED
  BY <1>2, <1>3, <1>4, <1>5, <1>6, RunFrame, HandFrame, ExtractFrame DEF DocumentsInv

(* The invariant holds of empty tables.                                    *)
LEMMA InitInv ==
  ASSUME Init
  PROVE  DocumentsInv
<1>1. /\ Last \in Nat \ {0} /\ Attachments = 1..Last /\ MaxPages \in Nat /\ 0 \in Hashes
      /\ 1 \in Versions /\ 1 \in 1..MaxRevisions /\ NoRows \in Rows /\ NoReading \in Drawings
  BY Constants, MaxPagesType DEF Hashes, Versions, NoRows, Rows, NoReading, Drawings
<1>2. SourceInv
  BY <1>1 DEF Init, SourceInv, StoredTypes, InOrder
<1>3. RunInv
  BY <1>1 DEF Init, RunInv, CronTypes, Held, NoRows
<1>4. HandInv
  BY <1>1 DEF Init, HandInv
<1>5. ExtractInv
  BY <1>1 DEF Init, ExtractInv, ExtractionsAreOfTheirReading, NoReading, Extractions
<1>6. ServiceInv
  BY <1>1 DEF Init, ServiceInv, WebTypes, AnchorInv, RequestsAreOneVersion, CitationsHavePages,
              NoCitation
<1>7. QED
  BY <1>2, <1>3, <1>4, <1>5, <1>6 DEF DocumentsInv

(* Every step keeps the invariant.                                         *)
LEMMA InductiveStep ==
  ASSUME DocumentsInv, [Next]_vars
  PROVE  DocumentsInv'
<1>1. CASE \E a \in Attachments, announced \in BOOLEAN : Replace(a, announced)
  BY <1>1, SourceStep
<1>2. CASE ScheduledRun \/ KillRun
  BY <1>2, CollectSteps, ApplyStep, ReadStep, RunEnds DEF ScheduledRun
<1>3. CASE StartScript \/ CapturePaper \/ RecordContents \/ KillScript
  BY <1>3, HandStep
<1>4. CASE StartReader \/ TakeReading \/ Extract \/ EndReader
  BY <1>4, ExtractStep
<1>5. CASE \/ LoadRows \/ Send \/ Receive \/ AnswerManaged \/ AnswerLocally \/ Review \/ EndRequest
           \/ \E a \in Attachments : LoadReading(a)
  BY <1>5, ServiceStep
<1>6. CASE UNCHANGED vars
  <2>1. UNCHANGED <<source, manifest, tables, run, byHand, extracting, web>>
    BY <1>6 DEF vars
  <2>2. UNCHANGED <<applied, recorded, reading, extraction>>
    BY <2>1 DEF tables
  <2>3. SourceInv /\ StoredTypes
    BY DEF DocumentsInv, SourceInv
  <2>4. Added /\ Grown
    BY <2>1, <2>3, AddedIs DEF Added
  <2>5. SourceInv'
    BY <2>1, <2>2, <2>3, <2>4, SourceFrame DEF StoredTypes
  <2>6. QED
    BY <2>1, <2>2, <2>4, <2>5, RunFrame, HandFrame, ExtractFrame, ServiceFrame DEF DocumentsInv
<1>7. QED
  BY <1>1, <1>2, <1>3, <1>4, <1>5, <1>6 DEF Next

(***************************************************************************)
(* The results.                                                            *)
(***************************************************************************)

(* Captures, readings, drawings and what a request holds of them stay in   *)
(* step, whatever the four programs do.                                    *)
THEOREM DocumentsInvariant == Spec => []DocumentsInv
<1>1. Init => DocumentsInv
  BY InitInv
<1>2. DocumentsInv /\ [Next]_vars => DocumentsInv'
  BY InductiveStep
<1>3. QED
  BY <1>1, <1>2, PTL DEF Spec

(* The types of the captures, the rows and what the programs hold.         *)
THEOREM TypeCorrect == Spec => []TypeOK
<1>1. DocumentsInv => TypeOK
  <2>1. SUFFICES ASSUME DocumentsInv
                 PROVE  TypeOK
    OBVIOUS
  <2>2. StoredTypes /\ CronTypes /\ HandInv /\ ExtractInv /\ WebTypes
    BY <2>1 DEF DocumentsInv, SourceInv, RunInv, ServiceInv
  <2>3. manifest \in Seq([of : Attachments \cup {Detail}, version : Nat, by : {"run", "hand"}])
    <3> DEFINE T == [of : Attachments \cup {Detail}, version : Nat, by : {"run", "hand"}]
    <3>1. Hashes \subseteq Nat /\ 1..MaxRevisions \subseteq Nat
      BY Constants DEF Hashes
    <3>2. PaperCaptures \subseteq T /\ DetailCaptures \subseteq T
      BY <3>1 DEF PaperCaptures, DetailCaptures
    <3>3. PaperCaptures \cup DetailCaptures \subseteq T
      BY <3>2
    <3> HIDE DEF T
    <3>4. manifest \in Seq(T)
      BY <2>2, <3>3, SeqMonotonic DEF StoredTypes
    <3>5. QED
      BY <3>4 DEF T
  <2>4. {recorded, reading, page, sent, got} \subseteq [Attachments -> {0} \cup Versions]
    BY <2>2 DEF StoredTypes, WebTypes, HandInv, Rows, Hashes
  <2>5. {view, readTo, known, shelf} \subseteq 0..Len(manifest)
    BY <2>2 DEF CronTypes, HandInv, ExtractInv
  <2>6. QED
    BY <2>2, <2>3, <2>4, <2>5
       DEF TypeOK, StoredTypes, CronTypes, HandInv, ExtractInv, WebTypes, Hashes
<1>2. QED
  BY <1>1, DocumentsInvariant, PTL

(* request_from_case and context_from_request let nothing through but      *)
(* bytes of the record, with a reading that is of them or explained.       *)
THEOREM RequestsMatch == Spec => []RequestsAreOneVersion
<1>1. DocumentsInv => RequestsAreOneVersion
  BY DEF DocumentsInv, ServiceInv
<1>2. QED
  BY <1>1, DocumentsInvariant, PTL

(* _validate_agent_evidence accepts no page that the cited bytes do not    *)
(* have, once the readings had got through these bytes.                    *)
THEOREM PagesExist == Spec => []CitationsHavePages
<1>1. DocumentsInv => CitationsHavePages
  BY DEF DocumentsInv, ServiceInv
<1>2. QED
  BY <1>1, DocumentsInvariant, PTL

(* extract_documents.py draws a document at the pages of an older text     *)
(* only before the reading step had got through its bytes.                 *)
THEOREM DrawnFromTheirText == Spec => []ExtractionsAreOfTheirReading
<1>1. DocumentsInv => ExtractionsAreOfTheirReading
  BY DEF DocumentsInv, ExtractInv
<1>2. QED
  BY <1>1, DocumentsInvariant, PTL
=============================================================================
