------------------------ MODULE EvidenceStoreProofs ------------------------
(***************************************************************************)
(* What holds of the evidence store for every set of keys, bodies and      *)
(* readers, and every history it starts from, under the one condition the  *)
(* deployment has to arrange: one capturing process.  Readers may open the *)
(* store at any time, the empty directory included; what they can spoil,   *)
(* by building the chain file themselves, is the chain and nothing else.   *)
(***************************************************************************)
EXTENDS EvidenceStore, TLAPS, SequenceTheorems

OneWriter == \A v, w \in Writers : v = w

(***************************************************************************)
(* Type correctness.                                                       *)
(***************************************************************************)

(* An entry built on typed parts, and the hash of a typed chain, are typed. *)
LEMMA RootType ==
  ASSUME NEW entries \in Seq(EntryType)
  PROVE  Root(entries) \in Seq(Record)
<1>1. CASE entries = <<>>
  BY <1>1 DEF Root
<1>2. CASE entries # <<>>
  <2>1. entries[Len(entries)] \in EntryType
    BY <1>2
  <2>2. QED
    BY <1>2, <2>1 DEF Root, ChainHash, EntryType
<1>3. QED
  BY <1>1, <1>2

(* The chain of a manifest is a sequence of entries, one for each line. *)
LEMMA ChainForType ==
  ASSUME NEW rs \in Seq(Record)
  PROVE  /\ ChainFor(rs) \in Seq(EntryType)
         /\ Len(ChainFor(rs)) = Len(rs)
         /\ \A i \in 1..Len(rs) :
              ChainFor(rs)[i] = Entry(i, rs[i], SubSeq(rs, 1, i - 1))
<1>1. \A i \in 1..Len(rs) : Entry(i, rs[i], SubSeq(rs, 1, i - 1)) \in EntryType
  BY DEF Entry, EntryType
<1>2. ChainFor(rs) \in [1..Len(rs) -> EntryType]
  BY <1>1 DEF ChainFor
<1>3. Len(rs) \in Nat
  OBVIOUS
<1>4. ChainFor(rs) \in Seq(EntryType) /\ Len(ChainFor(rs)) = Len(rs)
  BY <1>2, <1>3
<1>5. QED
  BY <1>4 DEF ChainFor

(* While a writer is inside capture(), it names the key it is storing.     *)
CapturePlaces == {"create-body", "write-body", "append-manifest", "append-chain"}

CaptureNamed == \A w \in Writers : pc[w] \in CapturePlaces => capturing[w] \in Keys

TypeInv == TypeOK /\ CaptureNamed

LEMMA TypeInit == Init => TypeInv
<1> SUFFICES ASSUME Init PROVE TypeInv
  OBVIOUS
<1>1. manifest \in Seq(Record) /\ chain \in Seq(EntryType)
  BY SeedType, ChainForType DEF Init
<1>2. QED
  BY <1>1 DEF Init, TypeInv, TypeOK, CaptureNamed, CapturePlaces, Places, Processes

LEMMA TypeStep == TypeInv /\ [Next]_vars => TypeInv'
<1> SUFFICES ASSUME TypeInv, [Next]_vars PROVE TypeInv'
  OBVIOUS
<1> USE DEF TypeInv, TypeOK, CaptureNamed, CapturePlaces, Goto, files, Processes
<1>1. ASSUME NEW p \in Processes, LoadRecords(p) PROVE TypeInv'
  BY <1>1 DEF LoadRecords, Places
<1>2. ASSUME NEW p \in Processes, EnsureChain(p) PROVE TypeInv'
  BY <1>2 DEF EnsureChain, Places
<1>3. ASSUME NEW p \in Processes, TruncateChain(p) PROVE TypeInv'
  BY <1>3 DEF TruncateChain, Places
<1>4. ASSUME NEW p \in Processes, WriteChain(p) PROVE TypeInv'
  <2>1. SubSeq(chain, Len(records[p]) + 1, Len(chain)) \in Seq(EntryType)
    <3>1. records[p] \in Seq(Record) /\ chain \in Seq(EntryType)
      OBVIOUS
    <3>2. Len(records[p]) + 1 \in Nat /\ Len(records[p]) + 1 >= 1
      BY <3>1
    <3>3. \A i \in (Len(records[p]) + 1)..Len(chain) : chain[i] \in EntryType
      BY <3>1, <3>2
    <3>4. QED
      BY <3>1, <3>2, <3>3, SubSeqProperties
  <2>2. chain' \in Seq(EntryType)
    BY <1>4, <2>1, ChainForType DEF WriteChain
  <2>3. QED
    BY <1>4, <2>2 DEF WriteChain, Places
<1>5. ASSUME NEW p \in Processes, VerifyManifest(p) PROVE TypeInv'
  BY <1>5 DEF VerifyManifest, Places
<1>6. ASSUME NEW p \in Processes, VerifyChain(p) PROVE TypeInv'
  BY <1>6 DEF VerifyChain, Places
<1>7. ASSUME NEW w \in Writers, NEW k \in Keys, BeginCapture(w, k) PROVE TypeInv'
  <2>1. pc' \in [Processes -> Places]
    BY <1>7, BodyOfType DEF BeginCapture, Places
  <2>2. QED
    BY <1>7, <2>1 DEF BeginCapture
<1>8. ASSUME NEW w \in Writers, CreateBody(w) PROVE TypeInv'
  BY <1>8 DEF CreateBody, Places
<1>9. ASSUME NEW w \in Writers, WriteBody(w) PROVE TypeInv'
  BY <1>9 DEF WriteBody, Places
<1>10. ASSUME NEW w \in Writers, AppendManifest(w) PROVE TypeInv'
  <2>1. NewRecord(w) \in Record
    BY <1>10 DEF AppendManifest, NewRecord, Record
  <2>2. QED
    BY <1>10, <2>1 DEF AppendManifest, Places
<1>11. ASSUME NEW w \in Writers, AppendChain(w) PROVE TypeInv'
  <2>1. NewRecord(w) \in Record
    BY <1>11 DEF AppendChain, NewRecord, Record
  <2>2. Root(chain) \in Seq(Record)
    BY RootType
  <2>3. Entry(Len(chain) + 1, NewRecord(w), Root(chain)) \in EntryType
    BY <2>1, <2>2 DEF Entry, EntryType
  <2>4. chain' \in Seq(EntryType)
    BY <1>11, <2>3 DEF AppendChain
  <2>5. QED
    BY <1>11, <2>4 DEF AppendChain, Places
<1>12. ASSUME NEW p \in Processes, Exit(p) PROVE TypeInv'
  BY <1>12 DEF Exit, Places
<1>13. CASE UNCHANGED vars
  BY <1>13 DEF vars
<1>14. QED
  BY <1>1, <1>2, <1>3, <1>4, <1>5, <1>6, <1>7, <1>8, <1>9, <1>10, <1>11, <1>12, <1>13
  DEF Next, Open, Capture

(* Every file and every process memory keeps its type, with any number of  *)
(* writers.                                                                *)
THEOREM TypeCorrect == Spec => []TypeOK
<1>1. TypeInv => TypeOK
  BY DEF TypeInv
<1>2. QED
  BY <1>1, TypeInit, TypeStep, PTL DEF Spec

(***************************************************************************)
(* The inductive invariant of a store with one writer, in two parts.       *)
(***************************************************************************)

(* What each process remembers is a prefix of the manifest; the writer,    *)
(* being the only one, remembers all of it.                                *)
MemoryFollowsManifest ==
  /\ \A p \in Processes : IsExtension(records[p], manifest)
  /\ \A w \in Writers : pc[w] # "down" => records[w] = manifest

(* The line a writer is about to add, seen from each step of capture().    *)
CaptureInOrder ==
  \A w \in Writers :
    /\ pc[w] \in {"create-body", "write-body", "append-manifest"}
         => capturing[w] \notin KeySet(manifest)
    /\ pc[w] = "create-body" => bodyFile[BodyOf[capturing[w]]] = "absent"
    /\ pc[w] = "write-body" => bodyFile[BodyOf[capturing[w]]] = "partial"
    /\ pc[w] = "append-manifest" => bodyFile[BodyOf[capturing[w]]] = "whole"
    /\ pc[w] = "append-chain" =>
         manifest # <<>> /\ manifest[Len(manifest)] = NewRecord(w)

(* A capture raises only for a body that was left half written. *)
FailsForPartial ==
  \A w \in Writers : pc[w] = "failed" => \E b \in Bodies : bodyFile[b] = "partial"

(* The part that no reader can disturb: bodies and manifest. *)
EvidenceInv ==
  /\ CitedBodiesWhole
  /\ RecordedOnce
  /\ FailsForPartial
  /\ MemoryFollowsManifest
  /\ CaptureInOrder

(* A writer rebuilds the chain only from nothing, and readers never do. *)
RebuiltFromNothing ==
  /\ ~chainExists => chain = <<>>
  /\ \A p \in Readers : pc[p] # "rebuilding"
  /\ \A w \in Writers : pc[w] \in {"rebuild", "rebuilding"} =>
       /\ chain = <<>>
       /\ records[w] # <<>>
       /\ pc[w] = "rebuilding" => chainExists

(* How long the chain is, seen from each process. *)
ChainInStep ==
  /\ \A p \in Processes : pc[p] = "ready" => Len(records[p]) <= Len(chain)
  /\ \A w \in Writers :
       /\ pc[w] \in {"ready", "create-body", "write-body", "append-manifest"}
            => Len(chain) = Len(manifest)
       /\ pc[w] = "append-chain" => Len(manifest) = Len(chain) + 1
       /\ pc[w] = "refused" => Len(chain) < Len(manifest)

(* The part that holds until a reader builds the chain. *)
SealInv ==
  /\ ChainFollowsManifest
  /\ RebuiltFromNothing
  /\ ChainInStep

StoreInv == EvidenceInv /\ (BuiltByWriters => SealInv)

(***************************************************************************)
(* Facts about prefixes of records.                                        *)
(***************************************************************************)

(* A sequence grown by one element keeps its prefixes. *)
LEMMA AppendKeepsPrefixes ==
  ASSUME NEW S, NEW s \in Seq(S), NEW e \in S, NEW n \in 0..Len(s)
  PROVE  SubSeq(Append(s, e), 1, n) = SubSeq(s, 1, n)
<1> DEFINE t == Append(s, e)
<1>1. t \in Seq(S) /\ Len(t) = Len(s) + 1 /\ \A i \in 1..Len(s) : t[i] = s[i]
  BY AppendProperties
<1>2. /\ SubSeq(t, 1, n) \in Seq(S) /\ Len(SubSeq(t, 1, n)) = n
      /\ \A i \in 1..n : SubSeq(t, 1, n)[i] = t[i]
  BY <1>1, SubSeqProperties
<1>3. /\ SubSeq(s, 1, n) \in Seq(S) /\ Len(SubSeq(s, 1, n)) = n
      /\ \A i \in 1..n : SubSeq(s, 1, n)[i] = s[i]
  BY SubSeqProperties
<1>4. \A i \in 1..n : SubSeq(t, 1, n)[i] = SubSeq(s, 1, n)[i]
  BY <1>1, <1>2, <1>3
<1> HIDE DEF t
<1>5. SubSeq(t, 1, n) = SubSeq(s, 1, n)
  BY <1>2, <1>3, <1>4, SeqEqual
<1>6. QED
  BY <1>5 DEF t

(* A prefix and the element after it make the next prefix. *)
LEMMA PrefixPlusOne ==
  ASSUME NEW S, NEW s \in Seq(S), NEW n \in 1..Len(s)
  PROVE  Append(SubSeq(s, 1, n - 1), s[n]) = SubSeq(s, 1, n)
<1>1. SubSeq(s, 1, n) = SubSeq(s, 1, n - 1) \o <<s[n]>>
  BY SubSeqRecursiveSecond
<1>2. SubSeq(s, 1, n - 1) \in Seq(S) /\ s[n] \in S
  BY SubSeqProperties
<1>3. QED
  BY <1>1, <1>2, AppendIsConcat

LEMMA ExtensionReflexive ==
  ASSUME NEW S, NEW s \in Seq(S)
  PROVE  IsExtension(s, s)
BY SubSeqFull DEF IsExtension

LEMMA EmptyIsPrefix ==
  ASSUME NEW S, NEW s \in Seq(S)
  PROVE  IsExtension(<<>>, s)
BY SubSeqEmpty DEF IsExtension

LEMMA ExtensionGrows ==
  ASSUME NEW S, NEW old \in Seq(S), NEW s \in Seq(S), NEW e \in S, IsExtension(old, s)
  PROVE  IsExtension(old, Append(s, e))
BY AppendKeepsPrefixes, AppendProperties DEF IsExtension

(* A prefix agrees with what it is a prefix of. *)
LEMMA PrefixElements ==
  ASSUME NEW S, NEW old \in Seq(S), NEW s \in Seq(S), IsExtension(old, s)
  PROVE  \A i \in 1..Len(old) : i \in 1..Len(s) /\ old[i] = s[i]
<1>1. \A i \in 1..Len(old) : SubSeq(s, 1, Len(old))[i] = s[i]
  BY SubSeqProperties DEF IsExtension
<1>2. QED
  BY <1>1 DEF IsExtension

(***************************************************************************)
(* The invariant holds of the initial store and of every step.             *)
(***************************************************************************)

LEMMA StoreInit ==
  ASSUME OneWriter
  PROVE  Init => StoreInv
<1> SUFFICES ASSUME Init PROVE StoreInv
  OBVIOUS
<1> USE DEF Init, Processes
<1>1. Len(chain) = Len(manifest) /\ chain = ChainFor(manifest)
  BY SeedType, ChainForType
<1>2. ChainFollowsManifest
  BY <1>1, SeedType, ChainForType DEF ChainFollowsManifest
<1>3. CitedBodiesWhole
  <2>1. \A i \in 1..Len(Seed) : BodyOf[Seed[i].key] \in Bodies
    <3>1. \A i \in 1..Len(Seed) : Seed[i] \in Record
      BY SeedType
    <3>2. \A i \in 1..Len(Seed) : Seed[i].key \in Keys
      BY <3>1 DEF Record
    <3>3. QED
      BY <3>2, BodyOfType
  <2>2. QED
    BY <2>1 DEF CitedBodiesWhole, BodiesWhole
<1>4. RecordedOnce
  BY SeedType DEF RecordedOnce
<1>5. FailsForPartial /\ CaptureInOrder /\ ChainInStep
  BY DEF FailsForPartial, CaptureInOrder, ChainInStep
<1>6. MemoryFollowsManifest
  <2>1. IsExtension(<<>>, manifest)
    BY SeedType, EmptyIsPrefix
  <2>2. QED
    BY <2>1 DEF MemoryFollowsManifest
<1>7. RebuiltFromNothing
  <2>1. Seed = <<>> => chain = <<>>
    BY <1>1, SeedType, ChainForType
  <2>2. QED
    BY <2>1 DEF RebuiltFromNothing
<1>8. QED
  BY <1>2, <1>3, <1>4, <1>5, <1>6, <1>7 DEF StoreInv, EvidenceInv, SealInv

(* A chain as long as the manifest is exactly the manifest's chain.        *)
LEMMA FullChain ==
  ASSUME TypeOK, BuiltByWriters, ChainFollowsManifest, Len(chain) = Len(manifest)
  PROVE  chain = ChainFor(manifest)
<1>1. /\ ChainFor(manifest) \in Seq(EntryType)
      /\ Len(ChainFor(manifest)) = Len(manifest)
  BY ChainForType DEF TypeOK
<1>2. QED
  BY <1>1, SeqEqual DEF TypeOK, ChainFollowsManifest

(* The record of the entry a writer adds, and its place.                   *)
LEMMA NextEntry ==
  ASSUME TypeOK, BuiltByWriters, ChainFollowsManifest, Len(manifest) = Len(chain) + 1
  PROVE  Entry(Len(chain) + 1, manifest[Len(manifest)], Root(chain))
           = ChainFor(manifest)[Len(manifest)]
<1> DEFINE n == Len(chain)
<1>1. n \in Nat /\ Len(manifest) = n + 1 /\ manifest \in Seq(Record) /\ chain \in Seq(EntryType)
  BY DEF TypeOK
<1>2. ChainFor(manifest)[n + 1] = Entry(n + 1, manifest[n + 1], SubSeq(manifest, 1, n))
  BY <1>1, ChainForType
<1>3. Root(chain) = SubSeq(manifest, 1, n)
  <2>1. CASE n = 0
    BY <1>1, <2>1, SubSeqEmpty DEF Root
  <2>2. CASE n # 0
    <3>1. n \in 1..Len(manifest) /\ n \in 1..Len(chain) /\ chain # <<>>
      BY <1>1, <2>2
    <3>2. chain[n] = Entry(n, manifest[n], SubSeq(manifest, 1, n - 1))
      BY <1>1, <3>1, ChainForType DEF ChainFollowsManifest
    <3>3. Root(chain) = Append(SubSeq(manifest, 1, n - 1), manifest[n])
      BY <3>1, <3>2 DEF Root, ChainHash, Entry
    <3>4. QED
      BY <1>1, <3>1, <3>3, PrefixPlusOne
  <2>3. QED
    BY <2>1, <2>2
<1>4. QED
  BY <1>1, <1>2, <1>3

(* Lines written over an empty file are all there is in it. *)
LEMMA OverNothing ==
  ASSUME NEW rs \in Seq(Record)
  PROVE  ChainFor(rs) \o SubSeq(<<>>, Len(rs) + 1, Len(<<>>)) = ChainFor(rs)
<1>1. ChainFor(rs) \in Seq(EntryType)
  BY ChainForType
<1>2. <<>> \in Seq(EntryType) /\ Len(<<>>) = 0 /\ Len(rs) + 1 > 0 /\ Len(rs) + 1 \in Nat
  OBVIOUS
<1>3. SubSeq(<<>>, Len(rs) + 1, Len(<<>>)) = <<>>
  BY <1>2, SubSeqEmpty
<1>4. QED
  BY <1>1, <1>3, ConcatEmptySeq

(***************************************************************************)
(* Bodies and manifest.                                                    *)
(***************************************************************************)

(* The files a step of the writer leaves are whole and name no key twice.  *)
LEMMA EvidenceFilesStep ==
  ASSUME OneWriter, TypeInv, EvidenceInv, [Next]_vars, TypeInv'
  PROVE  CitedBodiesWhole' /\ RecordedOnce'
<1> DEFINE Goal == CitedBodiesWhole' /\ RecordedOnce'
<1> USE DEF EvidenceInv, TypeInv, Goto, Processes
<1>1. ASSUME UNCHANGED <<bodyFile, manifest>> PROVE Goal
  BY <1>1 DEF CitedBodiesWhole, RecordedOnce, BodiesWhole
<1>4. ASSUME NEW w \in Writers, CreateBody(w) PROVE Goal
  <2>1. \A i \in 1..Len(manifest) : BodyOf[manifest[i].key] # BodyOf[capturing[w]]
    BY <1>4 DEF CreateBody, CaptureInOrder, CitedBodiesWhole, BodiesWhole
  <2>2. CitedBodiesWhole'
    BY <1>4, <2>1 DEF CreateBody, CitedBodiesWhole, BodiesWhole, TypeOK
  <2>3. QED
    BY <1>4, <2>2 DEF CreateBody, RecordedOnce
<1>5. ASSUME NEW w \in Writers, WriteBody(w) PROVE Goal
  <2>1. CitedBodiesWhole'
    <3>1. \A b \in Bodies : bodyFile[b] = "whole" => bodyFile'[b] = "whole"
      BY <1>5 DEF WriteBody, TypeOK
    <3>2. \A i \in 1..Len(manifest) : BodyOf[manifest[i].key] \in Bodies
      <4>1. \A i \in 1..Len(manifest) : manifest[i] \in Record
        BY DEF TypeOK
      <4>2. QED
        BY <4>1, BodyOfType DEF Record
    <3>3. QED
      BY <1>5, <3>1, <3>2 DEF WriteBody, CitedBodiesWhole, BodiesWhole
  <2>2. QED
    BY <1>5, <2>1 DEF WriteBody, RecordedOnce
<1>6. ASSUME NEW w \in Writers, AppendManifest(w) PROVE Goal
  <2> DEFINE r == NewRecord(w)
  <2>1. r \in Record /\ r.key = capturing[w]
    BY <1>6 DEF AppendManifest, NewRecord, Record, CaptureNamed, CapturePlaces
  <2>2. /\ manifest \in Seq(Record) /\ manifest' \in Seq(Record)
        /\ Len(manifest') = Len(manifest) + 1
        /\ \A i \in 1..Len(manifest) : manifest'[i] = manifest[i]
        /\ manifest'[Len(manifest) + 1] = r
    BY <1>6, <2>1, AppendProperties DEF AppendManifest, TypeOK
  <2>3. CitedBodiesWhole'
    BY <1>6, <2>1, <2>2 DEF AppendManifest, CitedBodiesWhole, BodiesWhole, CaptureInOrder
  <2>4. RecordedOnce'
    <3>1. \A i \in 1..Len(manifest) : manifest[i].key # capturing[w]
      BY <1>6 DEF AppendManifest, CaptureInOrder, KeySet
    <3>2. QED
      BY <2>1, <2>2, <3>1 DEF RecordedOnce
  <2>5. QED
    BY <2>3, <2>4
<1>8. QED
  <2>1. ASSUME NEW p \in Processes, Open(p) PROVE Goal
    BY <1>1, <2>1 DEF Open, LoadRecords, EnsureChain, TruncateChain, WriteChain,
       VerifyManifest, VerifyChain, files
  <2>2. ASSUME NEW p \in Processes, Exit(p) PROVE Goal
    BY <1>1, <2>2 DEF Exit, files
  <2>3. ASSUME NEW w \in Writers, Capture(w) PROVE Goal
    BY <1>1, <1>4, <1>5, <1>6, <2>3 DEF Capture, AppendChain
  <2>4. ASSUME NEW w \in Writers, NEW k \in Keys, BeginCapture(w, k) PROVE Goal
    BY <1>1, <2>4 DEF BeginCapture, files
  <2>5. CASE UNCHANGED vars
    BY <1>1, <2>5 DEF vars
  <2>6. QED
    BY <2>1, <2>2, <2>3, <2>4, <2>5 DEF Next

(* What the processes hold in memory keeps following the files. *)
MemoryInv == FailsForPartial /\ MemoryFollowsManifest /\ CaptureInOrder

(* Opening and ending a process: no body and no manifest line is written.  *)
LEMMA MemoryOpenStep ==
  ASSUME OneWriter, TypeInv, EvidenceInv, TypeInv',
         NEW p \in Processes, Open(p) \/ Exit(p)
  PROVE  MemoryInv'
<1> USE DEF EvidenceInv, TypeInv, TypeOK, Goto, Processes, files, MemoryInv
<1>1. CASE LoadRecords(p)
  <2>1. IsExtension(manifest, manifest)
    BY ExtensionReflexive
  <2>2. MemoryFollowsManifest'
    BY <1>1, <2>1 DEF LoadRecords, MemoryFollowsManifest
  <2>3. FailsForPartial' /\ CaptureInOrder'
    BY <1>1 DEF LoadRecords, FailsForPartial, CaptureInOrder, NewRecord
  <2>4. QED
    BY <2>2, <2>3
<1>2. CASE EnsureChain(p)
  BY <1>2 DEF EnsureChain, FailsForPartial, MemoryFollowsManifest, CaptureInOrder, NewRecord
<1>3. CASE TruncateChain(p)
  BY <1>3 DEF TruncateChain, FailsForPartial, MemoryFollowsManifest, CaptureInOrder, NewRecord
<1>4. CASE WriteChain(p)
  BY <1>4 DEF WriteChain, FailsForPartial, MemoryFollowsManifest, CaptureInOrder, NewRecord
<1>5. CASE VerifyManifest(p)
  BY <1>5 DEF VerifyManifest, FailsForPartial, MemoryFollowsManifest, CaptureInOrder, NewRecord
<1>6. CASE VerifyChain(p)
  BY <1>6 DEF VerifyChain, FailsForPartial, MemoryFollowsManifest, CaptureInOrder, NewRecord
<1>7. CASE Exit(p)
  <2>1. FailsForPartial'
    BY <1>7 DEF Exit, FailsForPartial
  <2>2. MemoryFollowsManifest'
    BY <1>7, EmptyIsPrefix DEF Exit, MemoryFollowsManifest
  <2>3. CaptureInOrder'
    BY <1>7 DEF Exit, CaptureInOrder, NewRecord, OneWriter
  <2>4. QED
    BY <2>1, <2>2, <2>3
<1>8. QED
  BY <1>1, <1>2, <1>3, <1>4, <1>5, <1>6, <1>7 DEF Open

(* A step of capture(): while it runs, no other process adds evidence. *)
LEMMA MemoryCaptureStep ==
  ASSUME OneWriter, TypeInv, EvidenceInv, TypeInv',
         NEW w \in Writers, Capture(w) \/ \E k \in Keys : BeginCapture(w, k)
  PROVE  MemoryInv'
<1> USE DEF EvidenceInv, TypeInv, TypeOK, Goto, Processes, files, MemoryInv
<1>0. \A v \in Writers : v = w
  BY DEF OneWriter
<1>1. ASSUME NEW k \in Keys, BeginCapture(w, k) PROVE MemoryInv'
  <2>1. records[w] = manifest
    BY <1>1 DEF BeginCapture, MemoryFollowsManifest
  <2>2. /\ pc'[w] \in {"create-body", "append-manifest", "failed"}
        /\ pc'[w] = "create-body" => bodyFile[BodyOf[k]] = "absent"
        /\ pc'[w] = "append-manifest" => bodyFile[BodyOf[k]] = "whole"
        /\ pc'[w] = "failed" => bodyFile[BodyOf[k]] = "partial"
        /\ capturing'[w] = k
    BY <1>1, BodyOfType DEF BeginCapture
  <2>3. FailsForPartial'
    BY <1>0, <1>1, <2>2, BodyOfType DEF BeginCapture, FailsForPartial
  <2>4. MemoryFollowsManifest'
    BY <1>1, <2>2 DEF BeginCapture, MemoryFollowsManifest
  <2>5. CaptureInOrder'
    BY <1>0, <1>1, <2>1, <2>2 DEF BeginCapture, CaptureInOrder
  <2>6. QED
    BY <2>3, <2>4, <2>5
<1>2. CASE CreateBody(w)
  <2>1. bodyFile'[BodyOf[capturing[w]]] = "partial"
    BY <1>2, BodyOfType DEF CreateBody, CaptureNamed, CapturePlaces
  <2>2. FailsForPartial' /\ MemoryFollowsManifest'
    BY <1>0, <1>2 DEF CreateBody, FailsForPartial, MemoryFollowsManifest
  <2>3. CaptureInOrder'
    BY <1>0, <1>2, <2>1 DEF CreateBody, CaptureInOrder
  <2>4. QED
    BY <2>2, <2>3
<1>3. CASE WriteBody(w)
  <2>1. bodyFile'[BodyOf[capturing[w]]] = "whole"
    BY <1>3, BodyOfType DEF WriteBody, CaptureNamed, CapturePlaces
  <2>2. FailsForPartial' /\ MemoryFollowsManifest'
    BY <1>0, <1>3 DEF WriteBody, FailsForPartial, MemoryFollowsManifest
  <2>3. CaptureInOrder'
    BY <1>0, <1>3, <2>1 DEF WriteBody, CaptureInOrder
  <2>4. QED
    BY <2>2, <2>3
<1>4. CASE AppendManifest(w)
  <2> DEFINE r == NewRecord(w)
  <2>1. r \in Record
    BY <1>4 DEF AppendManifest, NewRecord, Record, CaptureNamed, CapturePlaces
  <2>2. /\ Len(manifest') = Len(manifest) + 1
        /\ manifest'[Len(manifest) + 1] = r
    BY <1>4, <2>1, AppendProperties DEF AppendManifest
  <2>3. MemoryFollowsManifest'
    <3>1. records'[w] = manifest'
      BY <1>4 DEF AppendManifest, MemoryFollowsManifest
    <3>2. IsExtension(manifest', manifest')
      BY ExtensionReflexive
    <3>3. \A p \in Processes : IsExtension(records[p], manifest')
      BY <1>4, <2>1, ExtensionGrows DEF AppendManifest, MemoryFollowsManifest
    <3>4. \A p \in Processes : p # w => records'[p] = records[p]
      BY <1>4 DEF AppendManifest
    <3>5. QED
      BY <1>0, <1>4, <3>1, <3>2, <3>3, <3>4 DEF AppendManifest, MemoryFollowsManifest
  <2>4. FailsForPartial'
    BY <1>0, <1>4 DEF AppendManifest, FailsForPartial
  <2>5. CaptureInOrder'
    <3>1. manifest' # <<>>
      BY <2>2
    <3>2. manifest'[Len(manifest')] = NewRecord(w)'
      BY <1>4, <2>2 DEF AppendManifest, NewRecord
    <3>3. QED
      BY <1>0, <1>4, <3>1, <3>2 DEF AppendManifest, CaptureInOrder
  <2>6. QED
    BY <2>3, <2>4, <2>5
<1>5. CASE AppendChain(w)
  <2>1. records[w] = manifest
    BY <1>5 DEF AppendChain, MemoryFollowsManifest
  <2>2. FailsForPartial' /\ MemoryFollowsManifest'
    BY <1>0, <1>5, <2>1 DEF AppendChain, FailsForPartial, MemoryFollowsManifest
  <2>3. CaptureInOrder'
    BY <1>0, <1>5 DEF AppendChain, CaptureInOrder
  <2>4. QED
    BY <2>2, <2>3
<1>6. QED
  BY <1>1, <1>2, <1>3, <1>4, <1>5 DEF Capture

LEMMA EvidenceStep ==
  ASSUME OneWriter, TypeInv, EvidenceInv, [Next]_vars
  PROVE  EvidenceInv'
<1>1. TypeInv' /\ CitedBodiesWhole' /\ RecordedOnce'
  BY TypeStep, EvidenceFilesStep
<1>2. ASSUME NEW p \in Processes, Open(p) \/ Exit(p) PROVE MemoryInv'
  BY <1>1, <1>2, MemoryOpenStep
<1>3. ASSUME NEW w \in Writers, Capture(w) \/ \E k \in Keys : BeginCapture(w, k)
      PROVE  MemoryInv'
  BY <1>1, <1>3, MemoryCaptureStep
<1>4. ASSUME UNCHANGED vars PROVE MemoryInv'
  BY <1>4 DEF vars, EvidenceInv, MemoryInv, FailsForPartial, MemoryFollowsManifest,
     CaptureInOrder, NewRecord
<1>5. MemoryInv'
  BY <1>2, <1>3, <1>4 DEF Next
<1>6. QED
  BY <1>1, <1>5 DEF EvidenceInv, MemoryInv

(***************************************************************************)
(* The chain, while no reader has built it.                                *)
(***************************************************************************)

LEMMA BuildersGrow ==
  ASSUME [Next]_vars, BuiltByWriters'
  PROVE  BuiltByWriters
BY DEF BuiltByWriters, Next, Open, Capture, LoadRecords, EnsureChain, TruncateChain, WriteChain,
   VerifyManifest, VerifyChain, CreateBody, WriteBody, AppendManifest, AppendChain, BeginCapture,
   Exit, vars

(* The chain a step leaves follows the manifest it leaves. *)
LEMMA ChainStep ==
  ASSUME OneWriter, TypeInv, EvidenceInv, SealInv, BuiltByWriters, BuiltByWriters',
         [Next]_vars, TypeInv'
  PROVE  ChainFollowsManifest'
<1> USE DEF EvidenceInv, SealInv, TypeInv, Goto, Processes
<1>1. ASSUME UNCHANGED <<manifest, chain>> PROVE ChainFollowsManifest'
  BY <1>1 DEF ChainFollowsManifest
<1>2. ASSUME NEW p \in Processes, TruncateChain(p) PROVE ChainFollowsManifest'
  <2>1. p \in Writers
    BY <1>2 DEF TruncateChain, BuiltByWriters
  <2>2. chain = <<>> /\ chain' = chain
    BY <1>2, <2>1 DEF TruncateChain, RebuiltFromNothing
  <2>3. QED
    BY <1>1, <1>2, <2>2 DEF TruncateChain
<1>3. ASSUME NEW p \in Processes, WriteChain(p) PROVE ChainFollowsManifest'
  <2>1. p \in Writers /\ records[p] = manifest /\ chain = <<>>
    BY <1>3 DEF WriteChain, RebuiltFromNothing, MemoryFollowsManifest
  <2>2. chain' = ChainFor(manifest) /\ manifest' = manifest
    BY <1>3, <2>1, OverNothing DEF WriteChain, TypeOK
  <2>3. QED
    BY <2>2, ChainForType DEF ChainFollowsManifest, TypeOK
<1>6. ASSUME NEW w \in Writers, AppendManifest(w) PROVE ChainFollowsManifest'
  <2> DEFINE r == NewRecord(w)
  <2>1. r \in Record
    BY <1>6 DEF AppendManifest, NewRecord, Record, CaptureNamed, CapturePlaces
  <2>2. /\ manifest \in Seq(Record) /\ manifest' \in Seq(Record)
        /\ Len(manifest') = Len(manifest) + 1
        /\ \A i \in 1..Len(manifest) : manifest'[i] = manifest[i]
    BY <1>6, <2>1, AppendProperties DEF AppendManifest, TypeOK
  <2>3. Len(chain) = Len(manifest) /\ chain' = chain
    BY <1>6 DEF AppendManifest, ChainInStep
  <2>4. \A i \in 1..Len(chain) : ChainFor(manifest')[i] = ChainFor(manifest)[i]
    <3> SUFFICES ASSUME NEW i \in 1..Len(chain)
                 PROVE  ChainFor(manifest')[i] = ChainFor(manifest)[i]
      OBVIOUS
    <3>1. i - 1 \in 0..Len(manifest) /\ i \in 1..Len(manifest) /\ i \in 1..Len(manifest')
      BY <2>2, <2>3
    <3>2. SubSeq(manifest', 1, i - 1) = SubSeq(manifest, 1, i - 1)
      BY <1>6, <2>1, <2>2, <3>1, AppendKeepsPrefixes DEF AppendManifest
    <3>3. QED
      BY <2>2, <3>1, <3>2, ChainForType
  <2>5. QED
    BY <2>2, <2>3, <2>4 DEF ChainFollowsManifest
<1>7. ASSUME NEW w \in Writers, AppendChain(w) PROVE ChainFollowsManifest'
  <2> DEFINE e == Entry(Len(chain) + 1, NewRecord(w), Root(chain))
  <2>1. /\ Len(manifest) = Len(chain) + 1
        /\ e = ChainFor(manifest)[Len(chain) + 1]
    BY <1>7, NextEntry DEF AppendChain, CaptureInOrder, ChainInStep
  <2>2. e \in EntryType
    BY <2>1, ChainForType DEF TypeOK
  <2> HIDE DEF e
  <2>3. /\ Len(chain') = Len(chain) + 1
        /\ \A i \in 1..Len(chain) : chain'[i] = chain[i]
        /\ chain'[Len(chain) + 1] = e
    BY <1>7, <2>2, AppendProperties DEF AppendChain, TypeOK, e
  <2>4. Len(chain) \in Nat /\ manifest' = manifest
    BY <1>7 DEF AppendChain, TypeOK
  <2>5. \A i \in 1..Len(chain') : chain'[i] = ChainFor(manifest)[i]
    BY <2>1, <2>3, <2>4 DEF ChainFollowsManifest
  <2>6. QED
    BY <2>1, <2>3, <2>4, <2>5 DEF ChainFollowsManifest
<1>8. QED
  BY <1>1, <1>2, <1>3, <1>6, <1>7
     DEF Next, Open, Capture, LoadRecords, EnsureChain, VerifyManifest, VerifyChain, CreateBody,
         WriteBody, BeginCapture, Exit, files, vars

(* Where the processes are still tells how long the chain is. *)
PlacesInv == RebuiltFromNothing /\ ChainInStep

LEMMA PlacesOpenStep ==
  ASSUME OneWriter, TypeInv, EvidenceInv, SealInv, BuiltByWriters, BuiltByWriters', TypeInv',
         NEW p \in Processes, Open(p) \/ Exit(p)
  PROVE  PlacesInv'
<1> USE DEF EvidenceInv, SealInv, TypeInv, TypeOK, Goto, Processes, files, PlacesInv
<1>1. CASE LoadRecords(p)
  BY <1>1 DEF LoadRecords, RebuiltFromNothing, ChainInStep
<1>2. CASE EnsureChain(p)
  <2>1. p \in Writers => records[p] = manifest
    BY <1>2 DEF EnsureChain, MemoryFollowsManifest
  <2>2. records[p] = <<>> /\ p \in Writers => chain = <<>> /\ Len(chain) = Len(manifest)
    <3> SUFFICES ASSUME records[p] = <<>>, p \in Writers
                 PROVE  chain = <<>> /\ Len(chain) = Len(manifest)
      OBVIOUS
    <3>1. Len(manifest) = 0 /\ Len(chain) \in Nat
      BY <2>1
    <3>2. Len(chain) = 0
      BY <3>1 DEF ChainFollowsManifest
    <3>3. QED
      BY <3>1, <3>2, EmptySeq
  <2>3. RebuiltFromNothing'
    BY <1>2 DEF EnsureChain, RebuiltFromNothing
  <2>4. ChainInStep'
    BY <1>2, <2>2 DEF EnsureChain, ChainInStep
  <2>5. QED
    BY <2>3, <2>4
<1>3. CASE TruncateChain(p)
  <2>1. p \in Writers
    BY <1>3 DEF TruncateChain, BuiltByWriters
  <2>2. chain' = chain
    BY <1>3, <2>1 DEF TruncateChain, RebuiltFromNothing
  <2>3. RebuiltFromNothing' /\ ChainInStep'
    BY <1>3, <2>1, <2>2, ProcessesDisjoint DEF TruncateChain, RebuiltFromNothing, ChainInStep
  <2>4. QED
    BY <2>3
<1>4. CASE WriteChain(p)
  <2>1. p \in Writers /\ \A v \in Writers : v = p
    BY <1>4 DEF WriteChain, RebuiltFromNothing, OneWriter
  <2>2. chain = <<>> /\ chainExists
    BY <1>4, <2>1 DEF WriteChain, RebuiltFromNothing
  <2>3. pc'[p] = "verifying" /\ pc' = [pc EXCEPT ![p] = "verifying"] /\ records' = records
        /\ manifest' = manifest /\ chainExists' = chainExists
    BY <1>4 DEF WriteChain
  <2>4. RebuiltFromNothing'
    BY <2>1, <2>2, <2>3 DEF RebuiltFromNothing
  <2>5. ChainInStep'
    <3>1. \A q \in Processes : pc'[q] = "ready" => Len(records'[q]) <= Len(chain')
      <4> SUFFICES ASSUME NEW q \in Processes, pc'[q] = "ready"
                   PROVE  Len(records[q]) <= Len(chain')
        BY <2>3
      <4>1. Len(records[q]) <= 0
        BY <2>2, <2>3 DEF ChainInStep
      <4>2. Len(chain') \in Nat /\ Len(records[q]) \in Nat
        OBVIOUS
      <4>3. QED
        BY <4>1, <4>2
    <3>2. QED
      BY <2>1, <2>3, <3>1 DEF ChainInStep
  <2>6. QED
    BY <2>4, <2>5
<1>5. CASE VerifyManifest(p)
  <2>1. p \in Writers => records[p] = manifest
    BY <1>5 DEF VerifyManifest, MemoryFollowsManifest
  <2>2. QED
    BY <1>5, <2>1 DEF VerifyManifest, RebuiltFromNothing, ChainInStep
<1>6. CASE VerifyChain(p)
  <2>1. p \in Writers => records[p] = manifest
    BY <1>6 DEF VerifyChain, MemoryFollowsManifest
  <2>2. p \in Writers /\ pc'[p] = "refused" => Len(chain) < Len(manifest)
    BY <1>6, <2>1, FullChain DEF VerifyChain, CitedBodiesWhole, ChainFollowsManifest
  <2>3. pc'[p] = "ready" => Len(records[p]) = Len(chain)
    BY <1>6, ChainForType DEF VerifyChain
  <2>4. RebuiltFromNothing'
    BY <1>6 DEF VerifyChain, RebuiltFromNothing
  <2>5. ChainInStep'
    BY <1>6, <2>1, <2>2, <2>3 DEF VerifyChain, ChainInStep
  <2>6. QED
    BY <2>4, <2>5
<1>7. CASE Exit(p)
  BY <1>7 DEF Exit, RebuiltFromNothing, ChainInStep
<1>8. QED
  BY <1>1, <1>2, <1>3, <1>4, <1>5, <1>6, <1>7 DEF Open

LEMMA PlacesCaptureStep ==
  ASSUME OneWriter, TypeInv, EvidenceInv, SealInv, BuiltByWriters, BuiltByWriters', TypeInv',
         NEW w \in Writers, Capture(w) \/ \E k \in Keys : BeginCapture(w, k)
  PROVE  PlacesInv'
<1> USE DEF EvidenceInv, SealInv, TypeInv, TypeOK, Goto, Processes, files, PlacesInv
<1>0. \A v \in Writers : v = w
  BY DEF OneWriter
<1>1. ASSUME NEW k \in Keys, BeginCapture(w, k) PROVE PlacesInv'
  <2>1. pc'[w] \in {"create-body", "append-manifest", "failed"}
    BY <1>1, BodyOfType DEF BeginCapture
  <2>2. QED
    BY <1>0, <1>1, <2>1 DEF BeginCapture, RebuiltFromNothing, ChainInStep
<1>2. CASE CreateBody(w)
  BY <1>2 DEF CreateBody, RebuiltFromNothing, ChainInStep
<1>3. CASE WriteBody(w)
  BY <1>3 DEF WriteBody, RebuiltFromNothing, ChainInStep
<1>4. CASE AppendManifest(w)
  <2>1. NewRecord(w) \in Record
    BY <1>4 DEF AppendManifest, NewRecord, Record, CaptureNamed, CapturePlaces
  <2>2. Len(manifest') = Len(manifest) + 1 /\ Len(chain) = Len(manifest)
    BY <1>4, <2>1, AppendProperties DEF AppendManifest, ChainInStep
  <2>3. RebuiltFromNothing'
    BY <1>0, <1>4 DEF AppendManifest, RebuiltFromNothing
  <2>4. ChainInStep'
    BY <1>0, <1>4, <2>2 DEF AppendManifest, ChainInStep
  <2>5. QED
    BY <2>3, <2>4
<1>5. CASE AppendChain(w)
  <2> DEFINE e == Entry(Len(chain) + 1, NewRecord(w), Root(chain))
  <2>1. Len(manifest) = Len(chain) + 1 /\ Len(chain') = Len(chain) + 1 /\ chain' # <<>>
    <3>1. e = ChainFor(manifest)[Len(manifest)]
      BY <1>5, NextEntry DEF AppendChain, CaptureInOrder, ChainInStep
    <3>2. e \in EntryType
      BY <1>5, <3>1, ChainForType DEF AppendChain, CaptureInOrder
    <3> HIDE DEF e
    <3>3. QED
      BY <1>5, <3>2, AppendProperties DEF AppendChain, ChainInStep, e
  <2>2. records[w] = manifest
    BY <1>5 DEF AppendChain, MemoryFollowsManifest
  <2>3. RebuiltFromNothing'
    BY <1>0, <1>5 DEF AppendChain, RebuiltFromNothing
  <2>4. ChainInStep'
    BY <1>0, <1>5, <2>1, <2>2 DEF AppendChain, ChainInStep
  <2>5. QED
    BY <2>3, <2>4
<1>6. QED
  BY <1>1, <1>2, <1>3, <1>4, <1>5 DEF Capture

LEMMA SealStep ==
  ASSUME OneWriter, TypeInv, EvidenceInv, SealInv, BuiltByWriters, BuiltByWriters', [Next]_vars
  PROVE  SealInv'
<1>1. TypeInv' /\ ChainFollowsManifest'
  BY TypeStep, ChainStep
<1>2. ASSUME NEW p \in Processes, Open(p) \/ Exit(p) PROVE PlacesInv'
  BY <1>1, <1>2, PlacesOpenStep
<1>3. ASSUME NEW w \in Writers, Capture(w) \/ \E k \in Keys : BeginCapture(w, k)
      PROVE  PlacesInv'
  BY <1>1, <1>3, PlacesCaptureStep
<1>4. ASSUME UNCHANGED vars PROVE PlacesInv'
  BY <1>4 DEF vars, SealInv, PlacesInv, RebuiltFromNothing, ChainInStep
<1>5. PlacesInv'
  BY <1>2, <1>3, <1>4 DEF Next
<1>6. QED
  BY <1>1, <1>5 DEF SealInv, PlacesInv

LEMMA StoreStep ==
  ASSUME OneWriter
  PROVE  TypeInv /\ StoreInv /\ [Next]_vars => StoreInv'
<1> SUFFICES ASSUME TypeInv, StoreInv, [Next]_vars PROVE StoreInv'
  OBVIOUS
<1>1. EvidenceInv'
  BY EvidenceStep DEF StoreInv
<1>2. ASSUME BuiltByWriters' PROVE SealInv'
  BY <1>2, BuildersGrow, SealStep DEF StoreInv
<1>3. QED
  BY <1>1, <1>2 DEF StoreInv

(* The invariant of every behaviour of a store with one writer. *)
LEMMA StoreInvariant ==
  ASSUME OneWriter
  PROVE  Spec => [](TypeInv /\ StoreInv)
<1>1. Init => TypeInv /\ StoreInv
  BY TypeInit, StoreInit
<1>2. TypeInv /\ StoreInv /\ [Next]_vars => (TypeInv /\ StoreInv)'
  BY TypeStep, StoreStep
<1>3. QED
  BY <1>1, <1>2, PTL DEF Spec

(* With one writer, the chain file is the chain of the manifest, short of  *)
(* its last line at most, wherever the writer was killed, until a reader   *)
(* builds it.                                                              *)
THEOREM ChainIsSound ==
  ASSUME OneWriter
  PROVE  Spec => []ChainFollowsManifest
<1>1. StoreInv => ChainFollowsManifest
  BY DEF StoreInv, SealInv, ChainFollowsManifest
<1>2. QED
  BY <1>1, StoreInvariant, PTL

(* With one writer, no capture is ever listed whose bytes are not whole. *)
THEOREM EvidenceReadable ==
  ASSUME OneWriter
  PROVE  Spec => []CitedBodiesWhole
<1>1. StoreInv => CitedBodiesWhole
  BY DEF StoreInv, EvidenceInv
<1>2. QED
  BY <1>1, StoreInvariant, PTL

(* With one writer, no capture key is recorded twice, over any number of   *)
(* crashes and restarts.                                                   *)
THEOREM CapturesDeduplicated ==
  ASSUME OneWriter
  PROVE  Spec => []RecordedOnce
<1>1. StoreInv => RecordedOnce
  BY DEF StoreInv, EvidenceInv
<1>2. QED
  BY <1>1, StoreInvariant, PTL

(* With one writer, a store that was left in order never refuses it. *)
THEOREM WriterStopsOnlyForDamage ==
  ASSUME OneWriter
  PROVE  Spec => []StopsOnlyForDamage
<1>1. StoreInv => StopsOnlyForDamage
  BY DEF StoreInv, EvidenceInv, SealInv, FailsForPartial, ChainInStep, StopsOnlyForDamage
<1>2. QED
  BY <1>1, StoreInvariant, PTL

(* With one writer, every process an open store serves works from a prefix *)
(* of the manifest with whole bodies: a reader that opened it before the   *)
(* first capture or between a line and its entry included, whatever it did *)
(* to the chain; and from a sealed one, until a reader builds the chain.   *)
THEOREM ReadersSeeSealedEvidence ==
  ASSUME OneWriter
  PROVE  Spec => []OpenedMeansSealed
<1>1. TypeInv /\ StoreInv => OpenedMeansSealed
  <2> SUFFICES ASSUME TypeInv, StoreInv, NEW p \in Processes, pc[p] = "ready"
               PROVE  /\ IsExtension(records[p], manifest)
                      /\ BodiesWhole(records[p])
                      /\ BuiltByWriters => Len(records[p]) <= Len(chain)
    BY DEF OpenedMeansSealed
  <2>1. records[p] \in Seq(Record) /\ manifest \in Seq(Record)
    BY DEF TypeInv, TypeOK
  <2>2. IsExtension(records[p], manifest)
    BY DEF StoreInv, EvidenceInv, MemoryFollowsManifest
  <2>3. \A i \in 1..Len(records[p]) : i \in 1..Len(manifest) /\ records[p][i] = manifest[i]
    BY <2>1, <2>2, PrefixElements
  <2>4. BodiesWhole(records[p])
    BY <2>3 DEF StoreInv, EvidenceInv, CitedBodiesWhole, BodiesWhole
  <2>5. BuiltByWriters => Len(records[p]) <= Len(chain)
    BY DEF StoreInv, SealInv, ChainInStep
  <2>6. QED
    BY <2>2, <2>4, <2>5
<1>2. QED
  BY <1>1, StoreInvariant, PTL

(***************************************************************************)
(* What a step never does to the files.                                    *)
(***************************************************************************)

LEMMA FilesGrowStep ==
  ASSUME OneWriter, TypeInv, StoreInv, [Next]_vars
  PROVE  /\ IsExtension(manifest, manifest')
         /\ BuiltByWriters' => IsExtension(chain, chain')
<1> DEFINE Goal == /\ IsExtension(manifest, manifest')
                   /\ BuiltByWriters' => IsExtension(chain, chain')
<1> USE DEF StoreInv, EvidenceInv, SealInv, TypeInv, Goto, Processes
<1>1. manifest \in Seq(Record) /\ chain \in Seq(EntryType)
  BY DEF TypeOK
<1>2. ASSUME UNCHANGED <<manifest, chain>>
      PROVE  Goal
  BY <1>1, <1>2, ExtensionReflexive
<1>3. ASSUME NEW p \in Processes, TruncateChain(p) PROVE Goal
  <2>1. IsExtension(manifest, manifest')
    BY <1>1, <1>3, ExtensionReflexive DEF TruncateChain
  <2>2. ASSUME BuiltByWriters' PROVE chain' = chain
    <3>1. p \in Writers /\ BuiltByWriters
      BY <1>3, <2>2 DEF TruncateChain, BuiltByWriters
    <3>2. QED
      BY <1>3, <3>1 DEF TruncateChain, RebuiltFromNothing
  <2>3. QED
    BY <1>1, <2>1, <2>2, ExtensionReflexive
<1>4. ASSUME NEW p \in Processes, WriteChain(p) PROVE Goal
  <2>1. IsExtension(manifest, manifest')
    BY <1>1, <1>4, ExtensionReflexive DEF WriteChain
  <2>2. ASSUME BuiltByWriters' PROVE IsExtension(chain, chain')
    <3>1. BuiltByWriters
      BY <1>4, <2>2 DEF WriteChain, BuiltByWriters
    <3>2. chain = <<>>
      BY <1>4, <3>1 DEF WriteChain, RebuiltFromNothing
    <3>3. chain' = ChainFor(records[p])
      BY <1>4, <3>2, OverNothing DEF WriteChain, TypeOK
    <3>4. chain' \in Seq(EntryType)
      BY <3>3, ChainForType DEF TypeOK
    <3>5. QED
      BY <3>2, <3>4, EmptyIsPrefix
  <2>3. QED
    BY <2>1, <2>2
<1>5. ASSUME NEW w \in Writers, AppendManifest(w)
      PROVE  Goal
  <2>1. NewRecord(w) \in Record
    BY <1>5 DEF AppendManifest, NewRecord, Record, CaptureNamed, CapturePlaces
  <2>2. manifest' = Append(manifest, NewRecord(w)) /\ chain' = chain
    BY <1>5 DEF AppendManifest
  <2>3. QED
    BY <1>1, <2>1, <2>2, ExtensionGrows, ExtensionReflexive
<1>6. ASSUME NEW w \in Writers, AppendChain(w) PROVE Goal
  <2>1. IsExtension(manifest, manifest')
    BY <1>1, <1>6, ExtensionReflexive DEF AppendChain
  <2>2. ASSUME BuiltByWriters' PROVE IsExtension(chain, chain')
    <3> DEFINE e == Entry(Len(chain) + 1, NewRecord(w), Root(chain))
    <3>1. BuiltByWriters
      BY <1>6, <2>2 DEF AppendChain, BuiltByWriters
    <3>2. Len(manifest) = Len(chain) + 1 /\ e = ChainFor(manifest)[Len(chain) + 1]
      BY <1>6, <3>1, NextEntry DEF AppendChain, CaptureInOrder, ChainInStep
    <3>3. e \in EntryType
      BY <3>2, ChainForType DEF TypeOK
    <3>4. chain' = Append(chain, e)
      BY <1>6 DEF AppendChain
    <3> HIDE DEF e
    <3>5. QED
      BY <1>1, <3>3, <3>4, ExtensionGrows, ExtensionReflexive
  <2>3. QED
    BY <2>1, <2>2
<1>7. QED
  BY <1>2, <1>3, <1>4, <1>5, <1>6
     DEF Next, Open, Capture, LoadRecords, EnsureChain, VerifyManifest, VerifyChain, CreateBody,
         WriteBody, BeginCapture, Exit, files, vars

LEMMA BytesStep ==
  ASSUME TypeInv, StoreInv, [Next]_vars, NEW b \in Bodies, bodyFile[b] = "whole"
  PROVE  bodyFile'[b] = "whole"
<1>1. ASSUME NEW w \in Writers, CreateBody(w) PROVE bodyFile'[b] = "whole"
  <2>1. bodyFile[BodyOf[capturing[w]]] = "absent"
    BY <1>1 DEF CreateBody, StoreInv, EvidenceInv, CaptureInOrder
  <2>2. QED
    BY <1>1, <2>1 DEF CreateBody, TypeInv, TypeOK
<1>2. ASSUME NEW w \in Writers, WriteBody(w) PROVE bodyFile'[b] = "whole"
  BY <1>2 DEF WriteBody, TypeInv, TypeOK
<1>3. QED
  BY <1>1, <1>2
     DEF Next, Open, Capture, LoadRecords, EnsureChain, TruncateChain, WriteChain, VerifyManifest,
         VerifyChain, AppendManifest, AppendChain, BeginCapture, Exit, files, vars

(* With one writer, no line of the manifest is ever removed or changed, by *)
(* a capture, a crash, a restart or a reader, and no line of the chain     *)
(* until a reader builds it.                                               *)
THEOREM NothingIsRemoved ==
  ASSUME OneWriter
  PROVE  Spec => FilesOnlyGrow
<1>1. TypeInv /\ StoreInv /\ [Next]_vars =>
        [/\ IsExtension(manifest, manifest')
         /\ BuiltByWriters' => IsExtension(chain, chain')]_files
  BY FilesGrowStep
<1>2. QED
  BY <1>1, StoreInvariant, PTL DEF Spec, FilesOnlyGrow

(* With one writer, bytes once whole are never truncated or rewritten.     *)
THEOREM BytesStayWhole ==
  ASSUME OneWriter
  PROVE  Spec => BytesImmutable
<1>1. TypeInv /\ StoreInv /\ [Next]_vars =>
        [\A b \in Bodies : bodyFile[b] = "whole" => bodyFile'[b] = "whole"]_files
  BY BytesStep
<1>2. QED
  BY <1>1, StoreInvariant, PTL DEF Spec, BytesImmutable

(***************************************************************************)
(* The files implement the abstract log.                                   *)
(***************************************************************************)

LEMMA LogInit == Init => Log!Init
<1> SUFFICES ASSUME Init PROVE Log!Init
  OBVIOUS
<1>1. manifest = Seed /\ Len(chain) = Len(Seed)
  BY SeedType, ChainForType DEF Init
<1>2. \A i \in 1..Len(Seed) : Seed[i] \in Record /\ BodyOf[Seed[i].key] \in Bodies
  <2>1. \A i \in 1..Len(Seed) : Seed[i] \in Record
    BY SeedType
  <2>2. QED
    BY <2>1, BodyOfType DEF Record
<1>3. {b \in Bodies : bodyFile[b] = "whole"}
        = {BodyOf[Seed[i].key] : i \in 1..Len(Seed)}
  BY <1>2 DEF Init
<1>4. {BodyOf[Seed[i].key] : i \in 1..Len(Seed)}
        = {[r \in Record |-> BodyOf[r.key]][Seed[i]] : i \in 1..Len(Seed)}
  BY <1>2
<1>5. QED
  BY <1>1, <1>3, <1>4 DEF Log!Init

(* Until a reader builds the chain, every step of the processes is a step  *)
(* of the log, or none.                                                    *)
LEMMA LogStep ==
  ASSUME OneWriter
  PROVE  TypeInv /\ StoreInv /\ [Next]_vars => [BuiltByWriters' => Log!Next]_(Log!vars)
<1> SUFFICES ASSUME TypeInv, StoreInv, [Next]_vars, BuiltByWriters'
             PROVE  [Log!Next]_(Log!vars)
  OBVIOUS
<1>0. BuiltByWriters /\ EvidenceInv /\ SealInv
  BY BuildersGrow DEF StoreInv
<1> USE <1>0 DEF TypeInv, TypeOK, EvidenceInv, SealInv
<1>1. ASSUME UNCHANGED <<bodyFile, manifest, Len(chain)>> PROVE UNCHANGED Log!vars
  BY <1>1 DEF Log!vars
<1>2. ASSUME NEW p \in Processes, TruncateChain(p) PROVE UNCHANGED Log!vars
  <2>1. p \in Writers
    BY <1>2 DEF TruncateChain, BuiltByWriters, Processes
  <2>3. chain' = chain
    BY <1>2, <2>1 DEF TruncateChain, RebuiltFromNothing
  <2>2. QED
    BY <1>1, <1>2, <2>3 DEF TruncateChain
<1>3. ASSUME NEW p \in Processes, WriteChain(p) PROVE Log!Next
  <2>1. records[p] = manifest /\ manifest # <<>> /\ chain = <<>> /\ Len(chain) = 0
    BY <1>3 DEF WriteChain, RebuiltFromNothing, MemoryFollowsManifest, Processes
  <2>2. Len(manifest) = 1
    BY <2>1, EmptySeq DEF ChainFollowsManifest
  <2>3. Len(chain') = 1
    BY <1>3, <2>1, <2>2, ChainForType, OverNothing DEF WriteChain
  <2>4. Log!Seal
    BY <1>3, <2>1, <2>2, <2>3 DEF WriteChain, Log!Seal
  <2>5. QED
    BY <2>4 DEF Log!Next
<1>4. ASSUME NEW w \in Writers, CreateBody(w) PROVE UNCHANGED Log!vars
  <2>1. {b \in Bodies : bodyFile'[b] = "whole"} = {b \in Bodies : bodyFile[b] = "whole"}
    BY <1>4 DEF CreateBody, CaptureInOrder
  <2>2. QED
    BY <1>4, <2>1 DEF CreateBody, Log!vars
<1>5. ASSUME NEW w \in Writers, WriteBody(w) PROVE Log!Next
  <2> DEFINE b == BodyOf[capturing[w]]
  <2>1. b \in Bodies
    BY <1>5, BodyOfType DEF WriteBody, CaptureNamed, CapturePlaces
  <2>2. {c \in Bodies : bodyFile'[c] = "whole"} = {c \in Bodies : bodyFile[c] = "whole"} \cup {b}
    BY <1>5, <2>1 DEF WriteBody
  <2>3. Log!Hold(b)
    BY <1>5, <2>2 DEF WriteBody, Log!Hold
  <2>4. QED
    BY <2>1, <2>3 DEF Log!Next, Log!Hold
<1>6. ASSUME NEW w \in Writers, AppendManifest(w) PROVE Log!Next
  <2> DEFINE r == NewRecord(w)
  <2>1. r \in Record /\ r.key = capturing[w] /\ capturing[w] \in Keys
    BY <1>6 DEF AppendManifest, NewRecord, Record, CaptureNamed, CapturePlaces
  <2>2. /\ Len(chain) = Len(manifest)
        /\ capturing[w] \notin KeySet(manifest)
        /\ bodyFile[BodyOf[capturing[w]]] = "whole"
    BY <1>6 DEF AppendManifest, CaptureInOrder, ChainInStep
  <2>3. Log!KeysLogged = KeySet(manifest)
    <3>1. \A i \in 1..Len(manifest) : manifest[i] \in Record
      OBVIOUS
    <3>2. QED
      BY <3>1 DEF Log!KeysLogged, KeySet
  <2>4. Log!Record(r)
    BY <1>6, <2>1, <2>2, <2>3, BodyOfType DEF AppendManifest, Log!Record
  <2>5. QED
    BY <2>1, <2>4 DEF Log!Next
<1>7. ASSUME NEW w \in Writers, AppendChain(w) PROVE Log!Next
  <2>1. Len(manifest) = Len(chain) + 1 /\ NewRecord(w) = manifest[Len(manifest)]
    BY <1>7 DEF AppendChain, CaptureInOrder, ChainInStep
  <2>2. Entry(Len(chain) + 1, NewRecord(w), Root(chain)) \in EntryType
    BY <2>1, NextEntry, ChainForType
  <2>3. Len(chain') = Len(chain) + 1
    BY <1>7, <2>2, AppendProperties DEF AppendChain
  <2>4. Log!Seal
    BY <1>7, <2>1, <2>3 DEF AppendChain, Log!Seal
  <2>5. QED
    BY <2>4 DEF Log!Next
<1>8. QED
  BY <1>1, <1>2, <1>3, <1>4, <1>5, <1>6, <1>7
  DEF Next, Open, Capture, LoadRecords, EnsureChain, VerifyManifest, VerifyChain, Exit,
      BeginCapture, vars, files

(* With one writer, the files and the processes implement the log that     *)
(* EvidenceLog promises: an append-only log of distinct captures, each of  *)
(* bytes already held, sealed one behind at most, whatever crashes, until  *)
(* a reader builds the chain.                                              *)
THEOREM StoreImplementsLog ==
  ASSUME OneWriter
  PROVE  Spec => ImplementsLog
<1>1. Init => Log!Init
  BY LogInit
<1>2. TypeInv /\ StoreInv /\ [Next]_vars => [BuiltByWriters' => Log!Next]_(Log!vars)
  BY LogStep
<1>3. QED
  BY <1>1, <1>2, StoreInvariant, PTL DEF Spec, ImplementsLog
=============================================================================
