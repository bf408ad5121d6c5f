--------------------------- MODULE EvidenceStore ---------------------------
(***************************************************************************)
(* SnapshotStore (src/src/page47/snapshotter/store.py): the evidence files *)
(* of one city and the processes that open them.  A store is a directory   *)
(* with one file per body, a manifest (one line per capture) and an        *)
(* integrity chain (one line per manifest line).  Nothing locks it: every  *)
(* process keeps its own copy of the manifest, read when it opened the     *)
(* store, and every file operation of the code is a step of its own here,  *)
(* with a crash possible between any two.                                  *)
(*                                                                         *)
(* SHA-256 is injective: a body stands for its hash, and a chain hash is   *)
(* the sequence of the records hashed into it.  One append of one line is  *)
(* atomic (one write(2) of a buffered file); creating a file and filling   *)
(* it are two steps.                                                       *)
(***************************************************************************)
EXTENDS Naturals, Sequences

CONSTANTS
  Writers,        \* Processes that open the store and capture into it.
  Readers,        \* Processes that only open it (the web service).
  Keys,           \* Capture keys: target, status, body hash and fields.
  Bodies,         \* Distinct response bodies.
  BodyOf,         \* The body each capture key was computed from.
  Seed,           \* The records of the store before this history begins.
  NoKey           \* No capture in progress.

Processes == Writers \cup Readers

(* A manifest line: its capture key, and the process whose capture time    *)
(* and run id it carries (neither is part of the key).                     *)
Record == [key : Keys, by : Writers]

KeySet(records) == {records[i].key : i \in 1..Len(records)}

ASSUME ProcessesDisjoint == Writers \cap Readers = {}
ASSUME NoKeyIsNoKey == NoKey \notin Keys
ASSUME BodyOfType == BodyOf \in [Keys -> Bodies]
ASSUME SeedType ==
  /\ Seed \in Seq(Record)
  /\ \A i, j \in 1..Len(Seed) : Seed[i].key = Seed[j].key => i = j

VARIABLES
  bodyFile,       \* bodies/<hash>.body: "absent", "partial" or "whole".
  manifest,       \* manifest.jsonl
  chainExists,    \* Whether manifest-chain.jsonl exists.
  chain,          \* The entries of manifest-chain.jsonl.
  pc,             \* Where each process is in SnapshotStore's code.
  records,        \* self.records of each process.
  capturing,      \* The capture key each writer is storing, or NoKey.
  builders        \* History: the processes that wrote the chain file anew.

vars == <<bodyFile, manifest, chainExists, chain, pc, records, capturing, builders>>
files == <<bodyFile, manifest, chainExists, chain>>

(***************************************************************************)
(* The integrity chain.                                                    *)
(***************************************************************************)

(* The entry that covers record r, at a position, after a chain whose last *)
(* hash is previous.                                                       *)
Entry(index, r, previous) ==
  [manifest_index |-> index, record |-> r, previous |-> previous]

(* chain_sha256 of an entry: the hash of its previous hash and its record. *)
ChainHash(entry) == Append(entry.previous, entry.record)

(* The hash the next entry builds on. *)
Root(entries) ==
  IF entries = <<>> THEN <<>> ELSE ChainHash(entries[Len(entries)])

(* The chain of a whole manifest: entry i hashes the records before it.    *)
ChainFor(rs) ==
  [i \in 1..Len(rs) |-> Entry(i, rs[i], SubSeq(rs, 1, i - 1))]

(***************************************************************************)
(* Opening a store: SnapshotStore.__init__.                                *)
(***************************************************************************)

Goto(p, place) == pc' = [pc EXCEPT ![p] = place]

(* The constructor reads the manifest into self.records. *)
LoadRecords(p) ==
  /\ pc[p] = "down"
  /\ records' = [records EXCEPT ![p] = manifest]
  /\ Goto(p, "loaded")
  /\ UNCHANGED <<files, capturing, builders>>

(* Fault: a store that has a chain file is trusted without verification. *)
EnsureChainTrusting(p) ==
  /\ pc[p] = "loaded"
  /\ Goto(p, IF records[p] = <<>> \/ chainExists THEN "ready" ELSE "rebuild")
  /\ UNCHANGED <<files, records, capturing, builders>>

(* _ensure_integrity_chain decides: no records, and no chain entries: an   *)
(* empty store; no records but entries: refused; records and no chain      *)
(* file: build it; otherwise verify it.                                    *)
EnsureChain(p) ==
  /\ pc[p] = "loaded"
  /\ Goto(p, IF records[p] = <<>>
             THEN IF chainExists /\ chain # <<>> THEN "refused" ELSE "ready"
             ELSE IF chainExists THEN "verifying" ELSE "rebuild")
  /\ UNCHANGED <<files, records, capturing, builders>>

(* _write_integrity_entries: write_text truncates the file ... *)
TruncateChain(p) ==
  /\ pc[p] = "rebuild"
  /\ chainExists' = TRUE
  /\ chain' = <<>>
  /\ Goto(p, "rebuilding")
  /\ builders' = builders \cup {p}
  /\ UNCHANGED <<bodyFile, manifest, records, capturing>>

(* ... and then writes the chain of the records this process loaded, from  *)
(* the start of the file: over what others appended since the truncation,  *)
(* line for line (lines of equal length).                                  *)
WriteChain(p) ==
  /\ pc[p] = "rebuilding"
  /\ chain' = ChainFor(records[p]) \o SubSeq(chain, Len(records[p]) + 1, Len(chain))
  /\ Goto(p, "verifying")
  /\ UNCHANGED <<bodyFile, manifest, chainExists, records, capturing, builders>>

BodiesWhole(rs) == \A i \in 1..Len(rs) : bodyFile[BodyOf[rs[i].key]] = "whole"

(* verify_integrity: the manifest on disk is still the loaded one ... *)
VerifyManifest(p) ==
  /\ pc[p] = "verifying"
  /\ Goto(p, IF manifest = records[p] THEN "verified-manifest" ELSE "refused")
  /\ UNCHANGED <<files, records, capturing, builders>>

(* Fault: only the entries that exist are compared, not their number. *)
VerifyChainShort(p) ==
  /\ pc[p] = "verified-manifest"
  /\ Goto(p, IF BodiesWhole(records[p]) /\ Len(chain) <= Len(records[p])
             THEN "ready" ELSE "refused")
  /\ UNCHANGED <<files, records, capturing, builders>>

(* ... the chain is exactly the chain of those records, and every body     *)
(* they cite hashes to its name.                                           *)
VerifyChain(p) ==
  /\ pc[p] = "verified-manifest"
  /\ Goto(p, IF chain = ChainFor(records[p]) /\ BodiesWhole(records[p])
             THEN "ready" ELSE "refused")
  /\ UNCHANGED <<files, records, capturing, builders>>

(***************************************************************************)
(* Capturing a response: SnapshotStore.capture.                            *)
(***************************************************************************)

(* Fault: any existing body file is taken to be the body. *)
BeginCaptureUnhashed(w, k) ==
  /\ pc[w] = "ready"
  /\ k \notin KeySet(records[w])
  /\ capturing' = [capturing EXCEPT ![w] = k]
  /\ Goto(w, IF bodyFile[BodyOf[k]] = "absent" THEN "create-body" ELSE "append-manifest")
  /\ UNCHANGED <<files, records, builders>>

(* A key this process knows is returned as the existing record, with no    *)
(* change of state.  A new one looks for its body file: absent, it will be *)
(* created; whole, it is shared; anything else raises.                     *)
BeginCapture(w, k) ==
  /\ pc[w] = "ready"
  /\ k \notin KeySet(records[w])
  /\ capturing' = [capturing EXCEPT ![w] = k]
  /\ Goto(w, CASE bodyFile[BodyOf[k]] = "absent"  -> "create-body"
               [] bodyFile[BodyOf[k]] = "whole"   -> "append-manifest"
               [] bodyFile[BodyOf[k]] = "partial" -> "failed")
  /\ UNCHANGED <<files, records, builders>>

(* body_path.write_bytes: the file is created or truncated ... *)
CreateBody(w) ==
  /\ pc[w] = "create-body"
  /\ bodyFile' = [bodyFile EXCEPT ![BodyOf[capturing[w]]] = "partial"]
  /\ Goto(w, "write-body")
  /\ UNCHANGED <<manifest, chainExists, chain, records, capturing, builders>>

(* ... and then filled. *)
WriteBody(w) ==
  /\ pc[w] = "write-body"
  /\ bodyFile' = [bodyFile EXCEPT ![BodyOf[capturing[w]]] = "whole"]
  /\ Goto(w, "append-manifest")
  /\ UNCHANGED <<manifest, chainExists, chain, records, capturing, builders>>

NewRecord(w) == [key |-> capturing[w], by |-> w]

AppendManifest(w) ==
  /\ pc[w] = "append-manifest"
  /\ manifest' = Append(manifest, NewRecord(w))
  /\ records' = [records EXCEPT ![w] = Append(@, NewRecord(w))]
  /\ Goto(w, "append-chain")
  /\ UNCHANGED <<bodyFile, chainExists, chain, capturing, builders>>

(* Fault: the entry is numbered from zero. *)
AppendChainFromZero(w) ==
  /\ pc[w] = "append-chain"
  /\ chain' = Append(chain, Entry(Len(chain), NewRecord(w), Root(chain)))
  /\ chainExists' = TRUE
  /\ capturing' = [capturing EXCEPT ![w] = NoKey]
  /\ Goto(w, "ready")
  /\ UNCHANGED <<bodyFile, manifest, records, builders>>

(* _append_integrity_entry: the entry builds on the chain file as it is on *)
(* disk now, not on what this process loaded.                              *)
AppendChain(w) ==
  /\ pc[w] = "append-chain"
  /\ chain' = Append(chain, Entry(Len(chain) + 1, NewRecord(w), Root(chain)))
  /\ chainExists' = TRUE
  /\ capturing' = [capturing EXCEPT ![w] = NoKey]
  /\ Goto(w, "ready")
  /\ UNCHANGED <<bodyFile, manifest, records, builders>>

(***************************************************************************)
(* A process ends: after its work, on an exception, or killed anywhere.    *)
(* Its memory is lost; the next process with its role starts at "down".    *)
(***************************************************************************)
Exit(p) ==
  /\ pc[p] # "down"
  /\ records' = [records EXCEPT ![p] = <<>>]
  /\ capturing' = [w \in Writers |-> IF w = p THEN NoKey ELSE capturing[w]]
  /\ Goto(p, "down")
  /\ UNCHANGED <<files, builders>>

(* An established store (Seed) or an empty directory (Seed = <<>>). *)
Init ==
  /\ bodyFile = [b \in Bodies |->
       IF \E i \in 1..Len(Seed) : BodyOf[Seed[i].key] = b THEN "whole" ELSE "absent"]
  /\ manifest = Seed
  /\ chain = ChainFor(Seed)
  /\ chainExists = (Seed # <<>>)
  /\ pc = [p \in Processes |-> "down"]
  /\ records = [p \in Processes |-> <<>>]
  /\ capturing = [w \in Writers |-> NoKey]
  /\ builders = {}

Open(p) ==
  \/ LoadRecords(p)
  \/ EnsureChain(p)
  \/ TruncateChain(p)
  \/ WriteChain(p)
  \/ VerifyManifest(p)
  \/ VerifyChain(p)

Capture(w) ==
  \/ CreateBody(w)
  \/ WriteBody(w)
  \/ AppendManifest(w)
  \/ AppendChain(w)

Next ==
  \/ \E p \in Processes : Open(p)
  \/ \E p \in Processes : Exit(p)
  \/ \E w \in Writers : Capture(w)
  \/ \E w \in Writers, k \in Keys : BeginCapture(w, k)

Spec == Init /\ [][Next]_vars

(***************************************************************************)
(* Properties.                                                             *)
(***************************************************************************)

Places ==
  {"down", "loaded", "rebuild", "rebuilding", "verifying", "verified-manifest",
   "ready", "refused", "create-body", "write-body", "append-manifest",
   "append-chain", "failed"}

EntryType == [manifest_index : Nat, record : Record, previous : Seq(Record)]

(* The type of the store's files and of the processes' memory. *)
TypeOK ==
  /\ bodyFile \in [Bodies -> {"absent", "partial", "whole"}]
  /\ manifest \in Seq(Record)
  /\ chainExists \in BOOLEAN
  /\ chain \in Seq(EntryType)
  /\ pc \in [Processes -> Places]
  /\ records \in [Processes -> Seq(Record)]
  /\ capturing \in [Writers -> Keys \cup {NoKey}]
  /\ builders \subseteq Processes

(* Only capturing processes have built the chain file so far.  A reader    *)
(* that opens the store between its first manifest line and its first      *)
(* chain entry finds captures and no chain, and writes the chain of what   *)
(* it loaded itself (store.py 136-139), over or before what the writer     *)
(* appends: from then on nothing is claimed of the chain.                  *)
BuiltByWriters == builders \subseteq Writers

(* However often the writer is killed, the chain on disk is the chain of   *)
(* the manifest, short of its last line at most: store.py 201-273 writes   *)
(* them in that order, one line each, and 145-172 refuses to go on when    *)
(* they differ.  Readers may open the store meanwhile; the one thing they  *)
(* must not have done is build the chain.                                  *)
ChainFollowsManifest ==
  BuiltByWriters =>
    /\ Len(manifest) \in {Len(chain), Len(chain) + 1}
    /\ \A i \in 1..Len(chain) : chain[i] = ChainFor(manifest)[i]

(* Every capture the manifest lists can be read back: its bytes are whole  *)
(* on disk whatever happened since, so body() (store.py 180-199) never     *)
(* raises for it.                                                          *)
CitedBodiesWhole == BodiesWhole(manifest)

(* No capture key is recorded twice, across crashes and restarts (the      *)
(* existing-record check of store.py 217-222 looks at memory only).        *)
RecordedOnce ==
  \A i, j \in 1..Len(manifest) : manifest[i].key = manifest[j].key => i = j

(* A collector is turned away by its own store only for damage a crash     *)
(* left: a last line without its chain entry, or a body half written.  A   *)
(* store that was closed in order always opens and accepts new content,    *)
(* unless a reader has built its chain.                                    *)
StopsOnlyForDamage ==
  \A w \in Writers :
    /\ pc[w] = "refused" /\ BuiltByWriters => Len(chain) < Len(manifest)
    /\ pc[w] = "failed" => \E b \in Bodies : bodyFile[b] = "partial"

IsExtension(old, new) ==
  /\ Len(old) <= Len(new)
  /\ old = SubSeq(new, 1, Len(old))

(* What any process works from once the store has opened for it, a reader  *)
(* beside a capturing writer included, from the empty directory on, is a   *)
(* prefix of the manifest whose bodies are whole: whatever readers and     *)
(* writer do to the chain between them.  The chain covers that prefix too, *)
(* as long as no reader has built the chain.                               *)
OpenedMeansSealed ==
  \A p \in Processes : pc[p] = "ready" =>
    /\ IsExtension(records[p], manifest)
    /\ BodiesWhole(records[p])
    /\ BuiltByWriters => Len(records[p]) <= Len(chain)

(* Files are only ever added to: no line of the manifest or of the chain   *)
(* is removed or changed ("the append-only hash chain", store.py 146), the *)
(* chain's as long as no reader has built it.                              *)
FilesOnlyGrow ==
  [][/\ IsExtension(manifest, manifest')
     /\ BuiltByWriters' => IsExtension(chain, chain')]_files

(* Bytes that were whole once stay whole ("Keep immutable bytes and        *)
(* metadata", store.py 55).                                                *)
BytesImmutable ==
  [][\A b \in Bodies : bodyFile[b] = "whole" => bodyFile'[b] = "whole"]_files

(* The files implement the log that EvidenceLog promises: the manifest is  *)
(* the log, the chain's length is how much of it is sealed, and the whole  *)
(* body files are the bytes held, until a reader builds the chain.  In     *)
(* particular nothing is ever appended to a manifest whose last line a     *)
(* crash left unsealed.                                                    *)
Log == INSTANCE EvidenceLog WITH
  Records <- Record,
  KeyOf   <- [r \in Record |-> r.key],
  BodyOf  <- [r \in Record |-> BodyOf[r.key]],
  log     <- manifest,
  sealed  <- Len(chain),
  held    <- {b \in Bodies : bodyFile[b] = "whole"}

ImplementsLog == Log!Init /\ [][BuiltByWriters' => Log!Next]_(Log!vars)
=============================================================================
