----------------------------- MODULE FileIndex ------------------------------
(***************************************************************************)
(* How the notes on disk reach the memory index (clawshake-memory):        *)
(* ingest_files of ingest/files.rs compares each file's hash with the one  *)
(* stored for it, and replaces the chunks of a file that has changed; then *)
(* embed_pending gives a vector to every chunk that has none.  The watcher *)
(* does both after a change; the command line ingests, and the tool        *)
(* memory_embed embeds, each over a connection of its own.                 *)
(*                                                                         *)
(* Every SQL statement commits by itself.  A chunk's row id is SQLite's:   *)
(* one more than the largest, so that the id of a deleted row comes back;  *)
(* vec_chunks refers to rows by these ids.  Chunking says which pieces a    *)
(* content is cut into; here they are given.                               *)
(***************************************************************************)
EXTENDS Naturals, FiniteSetsExt

CONSTANTS
  Files,      \* files under the notes directory
  Contents,   \* what a file may say
  Pieces,     \* what a chunk may hold: a text and its place in the file
  Cut,        \* Cut[v]: the pieces of the content v
  Blank,      \* the content of a file of white space
  None,       \* no file, no hash
  Watcher,    \* the watcher thread: ingests, then embeds
  Ingesters,  \* other callers of ingest_files
  Embedders,  \* other callers of the embedder
  MaxEdits,   \* bound of the model: changes to files
  MaxJobs,    \* bound of the model: passes of callers other than the watcher
  MaxFaults   \* bound of the model: failed statements and crashes

ASSUME FileIndexAssumption ==
  /\ Cut \in [Contents -> SUBSET Pieces \ {{}}]
  /\ None # Blank
  /\ {None, Blank} \cap Contents = {}
  /\ Watcher \notin Ingesters \cup Embedders
  /\ Ingesters \cap Embedders = {}
  /\ {MaxEdits, MaxJobs, MaxFaults} \subseteq Nat

VARIABLES
  disk,      \* the content of each file
  edits,     \* changes so far (bound)
  chunks,    \* the rows of the chunks table
  vectors,   \* the rows of vec_chunks, each with the text it was made from
  hashes,    \* the rows of file_hashes
  job,       \* where each caller is
  jobs,      \* passes begun (bound)
  notified,  \* file-system events wait in the watcher's channel
  faults,    \* faults so far (bound)
  half,      \* history: files a pass ended early on, not done again since
  stale,     \* history: files that changed between such a pass and the next
  crossed,   \* history: two passes overlapped, and one of them ingested
  mirrored   \* history: a whole pass has ended since the last change

dbVars == <<chunks, vectors, hashes>>
histVars == <<half, stale, crossed, mirrored>>
vars == <<disk, edits, chunks, vectors, hashes, job, jobs, notified, faults,
          half, stale, crossed, mirrored>>

Procs == {Watcher} \cup Ingesters \cup Embedders

\* A caller at rest.  `walked` and `stored` are the lists of a pass, `todo` the
\* files it still has to look at, `file` and `text` the one it looks at (`text`
\* is None for a file that is gone), `pieces` those of it to insert, `pending`
\* the rows to embed; `whole` is history: no file has changed since the pass
\* walked the directory.
Rest == [pc |-> "idle", walked |-> {}, stored |-> {}, todo |-> {}, file |-> None,
         text |-> None, pieces |-> {}, pending |-> {}, whole |-> FALSE]

Ingesting(p) == job[p].pc \in {"walk", "hashes", "next", "compare", "drop vectors",
                               "drop chunks", "insert", "gone", "forget"}
Embedding(p) == job[p].pc \in {"load", "embed"}

Init ==
  /\ disk \in [Files -> Contents \cup {None}]
  /\ edits = 0
  /\ chunks = {}
  /\ vectors = {}
  /\ hashes = [f \in Files |-> None]
  /\ job = [p \in Procs |-> IF p = Watcher THEN [Rest EXCEPT !.pc = "walk"] ELSE Rest]
  /\ jobs = 0
  /\ notified = FALSE
  /\ faults = 0
  /\ half = {}
  /\ stale = {}
  /\ crossed = FALSE
  /\ mirrored = FALSE

Goto(p, pc) == job' = [job EXCEPT ![p].pc = pc]
-----------------------------------------------------------------------------
(* Someone edits, creates or removes a file *)

Edit(f) ==
  /\ edits < MaxEdits
  /\ edits' = edits + 1
  /\ \E v \in (Contents \cup {Blank, None}) \ {disk[f]} : disk' = [disk EXCEPT ![f] = v]
  /\ notified' = TRUE
  /\ stale' = IF f \in half THEN stale \cup {f} ELSE stale
  /\ mirrored' = FALSE
  /\ job' = [p \in Procs |-> [job[p] EXCEPT !.whole = FALSE]]
  /\ UNCHANGED <<dbVars, jobs, faults, half, crossed>>
-----------------------------------------------------------------------------
(* ingest_files *)

\* p begins to ingest while another pass is on, or to embed while one ingests.
Crosses(p) ==
  crossed \/ \E q \in Procs \ {p} : Ingesting(q) \/ (Embedding(q) /\ p \notin Embedders)

\* The watcher's deadline runs out.
Expire ==
  /\ job[Watcher].pc = "idle"
  /\ notified
  /\ notified' = FALSE
  /\ Goto(Watcher, "walk")
  /\ crossed' = Crosses(Watcher)
  /\ UNCHANGED <<disk, edits, dbVars, jobs, faults, half, stale, mirrored>>

\* `clawshake-memory ingest-files`, or memory_embed
Start(p) ==
  /\ p # Watcher
  /\ job[p].pc = "idle"
  /\ jobs < MaxJobs
  /\ jobs' = jobs + 1
  /\ \/ p \in Ingesters /\ Goto(p, "walk") /\ crossed' = Crosses(p)
     \/ p \in Embedders /\ Goto(p, "load") /\ crossed' = Crosses(p)
  /\ UNCHANGED <<disk, edits, dbVars, notified, faults, half, stale, mirrored>>

\* collect_files
Walk(p) ==
  /\ job[p].pc = "walk"
  /\ LET found == {f \in Files : disk[f] # None}
     IN job' = [job EXCEPT ![p].pc = "hashes", ![p].walked = found, ![p].todo = found,
                             ![p].whole = TRUE]
  /\ UNCHANGED <<disk, edits, dbVars, jobs, notified, faults, histVars>>

\* get_all_file_hashes
LoadHashes(p) ==
  /\ job[p].pc = "hashes"
  /\ job' = [job EXCEPT ![p].pc = "next", ![p].stored = {f \in Files : hashes[f] # None}]
  /\ UNCHANGED <<disk, edits, dbVars, jobs, notified, faults, histVars>>

PassedOver(f) == disk[f] \in {Blank, None}

\* read_to_string; a file that is blank, or gone, is passed over.
Read(p) ==
  /\ job[p].pc = "next"
  /\ \E f \in job[p].todo :
       job' = [job EXCEPT ![p] =
         IF PassedOver(f)
         THEN [job[p] EXCEPT !.todo = job[p].todo \ {f}]
         ELSE [job[p] EXCEPT !.pc = "compare", !.todo = job[p].todo \ {f}, !.file = f,
                             !.text = disk[f], !.pieces = Cut[disk[f]]]]
  /\ UNCHANGED <<disk, edits, dbVars, jobs, notified, faults, histVars>>

\* Mutant: a file that has changed keeps its old chunks.
BugAfterCompare(p) == IF hashes[job[p].file] = job[p].text THEN "next" ELSE "insert"

\* get_file_hash: unchanged, new or changed.
AfterCompare(p) ==
  CASE hashes[job[p].file] = job[p].text -> "next"
    [] hashes[job[p].file] = None -> "insert"
    [] OTHER -> "drop vectors"

Compare(p) ==
  /\ job[p].pc = "compare"
  /\ Goto(p, AfterCompare(p))
  /\ UNCHANGED <<disk, edits, dbVars, jobs, notified, faults, histVars>>

\* Mutant: the vectors of a file's chunks are left.
BugIdsOf(f) == {}

RowsOf(f) == {c \in chunks : c.file = f}
IdsOf(f) == {c.id : c \in RowsOf(f)}

\* delete_chunks_for_path: first the vectors (and the retrieval log, left out) ...
DropVectors(p) ==
  /\ job[p].pc = "drop vectors"
  /\ vectors' = {v \in vectors : v.id \notin IdsOf(job[p].file)}
  /\ Goto(p, "drop chunks")
  /\ UNCHANGED <<disk, edits, chunks, hashes, jobs, notified, faults, histVars>>

\* ... then the rows.
DropChunks(p) ==
  /\ job[p].pc = "drop chunks"
  /\ chunks' = chunks \ RowsOf(job[p].file)
  /\ Goto(p, IF job[p].text = None THEN "forget" ELSE "insert")
  /\ UNCHANGED <<disk, edits, vectors, hashes, jobs, notified, faults, histVars>>

NextId == 1 + Max({0} \cup {c.id : c \in chunks})

\* insert_chunk of the next piece: INSERT OR IGNORE
Insert(p) ==
  /\ job[p].pc = "insert"
  /\ \E piece \in job[p].pieces :
       /\ chunks' = IF \E c \in RowsOf(job[p].file) : c.text = piece
                    THEN chunks
                    ELSE chunks \cup {[id |-> NextId, file |-> job[p].file, text |-> piece]}
       /\ job' = [job EXCEPT ![p].pieces = @ \ {piece}]
  /\ UNCHANGED <<disk, edits, vectors, hashes, jobs, notified, faults, histVars>>

\* set_file_hash
Record(p) ==
  /\ job[p].pc = "insert"
  /\ job[p].pieces = {}
  /\ hashes' = [hashes EXCEPT ![job[p].file] = job[p].text]
  /\ Goto(p, "next")
  /\ half' = half \ {job[p].file}
  /\ UNCHANGED <<disk, edits, chunks, vectors, jobs, notified, faults, stale, crossed, mirrored>>

\* Tracked before the pass, and not found by it.
Gone(p) == job[p].stored \ job[p].walked

DetectDeletions(p) ==
  /\ job[p].pc = "next"
  /\ job[p].todo = {}
  /\ job' = [job EXCEPT ![p].pc = "gone", ![p].todo = Gone(p)]
  /\ UNCHANGED <<disk, edits, dbVars, jobs, notified, faults, histVars>>

DropGone(p) ==
  /\ job[p].pc = "gone"
  /\ \E f \in job[p].todo :
       job' = [job EXCEPT ![p] =
                 [job[p] EXCEPT !.pc = "drop vectors", !.todo = job[p].todo \ {f}, !.file = f,
                                !.text = None]]
  /\ UNCHANGED <<disk, edits, dbVars, jobs, notified, faults, histVars>>

\* delete_file_hash
Forget(p) ==
  /\ job[p].pc = "forget"
  /\ hashes' = [hashes EXCEPT ![job[p].file] = None]
  /\ Goto(p, "gone")
  /\ half' = half \ {job[p].file}
  /\ UNCHANGED <<disk, edits, chunks, vectors, jobs, notified, faults, stale, crossed, mirrored>>

\* Mutant: the watcher embeds only when more events wait.
BugAfterIngest(p) == IF p = Watcher /\ notified THEN "load" ELSE "idle"

\* Only the watcher goes on to embed.
AfterIngest(p) == IF p = Watcher THEN "load" ELSE "idle"

EndIngest(p) ==
  /\ job[p].pc = "gone"
  /\ job[p].todo = {}
  /\ job' = [job EXCEPT ![p] = [Rest EXCEPT !.pc = AfterIngest(p)]]
  /\ mirrored' = (mirrored \/ job[p].whole)
  /\ UNCHANGED <<disk, edits, dbVars, jobs, notified, faults, half, stale, crossed>>
-----------------------------------------------------------------------------
(* embed_pending *)

HasVector(id) == \E v \in vectors : v.id = id

\* get_unembedded_chunks; then the model runs, which takes its time.
Load(p) ==
  /\ job[p].pc = "load"
  /\ job' = [job EXCEPT ![p].pc = "embed", ![p].pending = {c \in chunks : ~HasVector(c.id)}]
  /\ UNCHANGED <<disk, edits, dbVars, jobs, notified, faults, histVars>>

\* insert_embedding
Embed(p) ==
  /\ job[p].pc = "embed"
  /\ \E c \in job[p].pending :
       /\ ~HasVector(c.id)
       /\ vectors' = vectors \cup {[id |-> c.id, text |-> c.text]}
       /\ job' = [job EXCEPT ![p].pending = @ \ {c}]
  /\ UNCHANGED <<disk, edits, chunks, hashes, jobs, notified, faults, histVars>>

\* Another caller was faster: the row id is taken, and `?` ends the pass.
EmbedFails(p) ==
  /\ job[p].pc = "embed"
  /\ \E c \in job[p].pending : HasVector(c.id)
  /\ job' = [job EXCEPT ![p] = Rest]
  /\ UNCHANGED <<disk, edits, dbVars, jobs, notified, faults, histVars>>

EndEmbed(p) ==
  /\ job[p].pc = "embed"
  /\ job[p].pending = {}
  /\ job' = [job EXCEPT ![p] = Rest]
  /\ UNCHANGED <<disk, edits, dbVars, jobs, notified, faults, histVars>>

Step(p) ==
  \/ Walk(p) \/ LoadHashes(p) \/ Read(p) \/ Compare(p) \/ DropVectors(p) \/ DropChunks(p)
  \/ Insert(p) \/ Record(p) \/ DetectDeletions(p) \/ DropGone(p) \/ Forget(p) \/ EndIngest(p)
  \/ Load(p) \/ Embed(p) \/ EmbedFails(p) \/ EndEmbed(p)
-----------------------------------------------------------------------------
\* The pass of each caller in P ends where it is.
Abandon(P) ==
  LET left == {p \in P : job[p].pc \in {"drop chunks", "insert", "forget"}}
  IN /\ half' = half \cup {job[p].file : p \in left}
     /\ stale' = stale \cup {f \in Files :
                    \E p \in left : job[p].file = f /\ job[p].text # disk[f]}

\* A statement fails (the database is locked, a foreign key), and the pass ends;
\* the watcher still embeds after an ingestor that failed.
Fail(p) ==
  /\ faults < MaxFaults
  /\ faults' = faults + 1
  /\ job[p].pc # "idle"
  /\ job' = [job EXCEPT ![p] =
       [Rest EXCEPT !.pc = IF p = Watcher /\ Ingesting(p) THEN "load" ELSE "idle"]]
  /\ Abandon({p})
  /\ UNCHANGED <<disk, edits, dbVars, jobs, notified, crossed, mirrored>>

\* The broker is killed and started again; the watcher makes a first pass.
Crash ==
  /\ faults < MaxFaults
  /\ faults' = faults + 1
  /\ job' = [p \in Procs |-> IF p = Watcher THEN [Rest EXCEPT !.pc = "walk"] ELSE Rest]
  /\ notified' = FALSE
  /\ Abandon(Procs)
  /\ UNCHANGED <<disk, edits, dbVars, jobs, crossed, mirrored>>

Next ==
  \/ \E f \in Files : Edit(f)
  \/ \E p \in Procs : Start(p) \/ Step(p) \/ Fail(p)
  \/ Expire \/ Crash

Spec == Init /\ [][Next]_vars

\* The watcher's thread runs and its clock advances.
FairSpec == Spec /\ WF_vars(Step(Watcher)) /\ WF_vars(Expire)
-----------------------------------------------------------------------------
Row == [id : Nat \ {0}, file : Files, text : Pieces]
Vector == [id : Nat \ {0}, text : Pieces]
Job == [pc : {"idle", "walk", "hashes", "next", "compare", "drop vectors", "drop chunks",
              "insert", "gone", "forget", "load", "embed"},
        walked : SUBSET Files, stored : SUBSET Files, todo : SUBSET Files,
        file : Files \cup {None}, text : Contents \cup {None}, pieces : SUBSET Pieces,
        pending : SUBSET Row, whole : BOOLEAN]

(* Every variable keeps its type; a row has its id to itself, a file its piece *)
(* once, and a row one vector.                                                 *)
TypeOK ==
  /\ disk \in [Files -> Contents \cup {Blank, None}]
  /\ edits \in 0 .. MaxEdits
  /\ chunks \subseteq Row
  /\ \A c, d \in chunks : c.id = d.id \/ <<c.file, c.text>> = <<d.file, d.text>> => c = d
  /\ vectors \subseteq Vector
  /\ \A v, w \in vectors : v.id = w.id => v = w
  /\ hashes \in [Files -> Contents \cup {None}]
  /\ job \in [Procs -> Job]
  /\ jobs \in 0 .. MaxJobs
  /\ faults \in 0 .. MaxFaults
  /\ half \cup stale \subseteq Files
  /\ {notified, crossed, mirrored} \subseteq BOOLEAN

(* Unless one caller ingested during another's pass, every vector is that      *)
(* of a row that is there and of the text that is in it: no statement's        *)
(* failure and no crash leaves a vector behind for the next row with its id.   *)
VectorsAreTrue ==
  ~crossed => \A v \in vectors : \E c \in chunks : c.id = v.id /\ c.text = v.text

(* When a whole pass has ended since the last change, the index holds exactly  *)
(* what the files say, whatever failed before it; except for a file that was   *)
(* blank, or that changed after a pass had ended halfway through it, and       *)
(* unless two callers got into each other's way.                               *)
IndexMirrorsDisk ==
  mirrored /\ ~crossed => \A f \in Files \ stale :
    disk[f] # Blank =>
      {c.text : c \in RowsOf(f)} = IF disk[f] = None THEN {} ELSE Cut[disk[f]]

(* Again and again, every chunk has a vector, unless a statement has failed or *)
(* two callers got into each other's way: a pass that ends early is repeated   *)
(* only when a file changes.                                                   *)
EverythingIsEmbedded ==
  []<>(faults > 0 \/ jobs > 0 \/ \A c \in chunks : HasVector(c.id))
=============================================================================
