-------------------------- MODULE FileIndexProofs ---------------------------
(***************************************************************************)
(* Proofs that the index keeps its types and keys, that no vector outlives *)
(* the row it belongs to and that a whole pass makes the index say what the *)
(* files say, for every number of files, contents and callers and every    *)
(* number of failures and crashes; and that cutting a text goes forward.   *)
(***************************************************************************)
EXTENDS FileIndex, Chunking, WellFoundedInduction, TLAPS

\* There is a largest row id.
Bounded == \E n \in Nat : \A c \in chunks : c.id <= n

\* A caller that compares, replaces or removes a file has one.
FilesKnown ==
  \A p \in Procs :
    /\ job[p].pc \in {"compare", "drop vectors", "drop chunks", "insert", "forget"} =>
         job[p].file \in Files
    /\ job[p].pc \in {"compare", "insert"} => job[p].text \in Contents

\* The inductive invariant for the types.
Types == TypeOK /\ Bounded /\ FilesKnown
-----------------------------------------------------------------------------
(* The next row id *)

\* A bounded set of numbers has a largest one.
LEMMA HasLargest ==
  ASSUME NEW n \in Nat, NEW S \in SUBSET (0 .. n), S # {}
  PROVE  \E i \in S : \A j \in S : i >= j
<1> DEFINE T == {n - i : i \in S}
<1>1. T \in SUBSET Nat /\ T # {}
  <2>1. \A i \in S : n - i \in Nat
    OBVIOUS
  <2> QED
    BY <2>1
<1>2. PICK k \in T : \A m \in T : ~(<<m, k>> \in OpToRel(<, Nat))
  BY <1>1, NatLessThanWellFounded, WFMin
<1>3. \A m \in T : ~(m < k)
  BY <1>1, <1>2 DEF OpToRel
<1>4. PICK i \in S : k = n - i
  BY <1>2
<1>5. \A j \in S : ~(n - j < n - i)
  BY <1>3, <1>4
<1> QED
  BY <1>5

\* NextId is a number above every row id.
LEMMA NextIdFresh ==
  ASSUME TypeOK, Bounded
  PROVE  NextId \in Nat \ {0} /\ \A c \in chunks : c.id < NextId
<1> DEFINE ids == {0} \cup {c.id : c \in chunks}
<1>1. PICK n \in Nat : \A c \in chunks : c.id <= n
  BY DEF Bounded
<1>2. \A c \in chunks : c.id \in Nat
  BY DEF TypeOK, Row
<1>3. ids \in SUBSET (0 .. n) /\ ids # {}
  BY <1>1, <1>2
<1>4. \E i \in ids : \A j \in ids : i >= j
  BY <1>3, HasLargest
<1>5. Max(ids) \in ids /\ \A j \in ids : Max(ids) >= j
  BY <1>4 DEF Max
<1>6. Max(ids) \in Nat
  BY <1>3, <1>5
<1>7. \A c \in chunks : c.id <= Max(ids)
  BY <1>2, <1>5, <1>6
<1>8. NextId = 1 + Max(ids)
  BY DEF NextId
<1>9. \A c \in chunks : c.id < 1 + Max(ids)
  <2> HIDE DEF ids
  <2> QED
    BY <1>2, <1>6, <1>7
<1>10. 1 + Max(ids) \in Nat \ {0}
  <2> HIDE DEF ids
  <2> QED
    BY <1>6
<1> QED
  BY <1>8, <1>9, <1>10
-----------------------------------------------------------------------------
(***************************************************************************)
(* The types hold initially and are preserved by every step.               *)
(***************************************************************************)
LEMMA RestIsJob ==
  /\ Rest \in Job
  /\ \A pc \in {"idle", "walk", "load"} : [Rest EXCEPT !.pc = pc] \in Job
  BY DEF Rest, Job

LEMMA TypesInit == Init => Types
<1> SUFFICES ASSUME Init PROVE Types
  OBVIOUS
<1>1. job \in [Procs -> Job]
  BY RestIsJob DEF Init
<1>2. TypeOK
  <2>1. disk \in [Files -> Contents \cup {Blank, None}]
    BY DEF Init
  <2>2. hashes \in [Files -> Contents \cup {None}]
    BY DEF Init
  <2>3. edits \in 0 .. MaxEdits /\ jobs \in 0 .. MaxJobs /\ faults \in 0 .. MaxFaults
    BY FileIndexAssumption DEF Init
  <2>4. chunks = {} /\ vectors = {} /\ half = {} /\ stale = {}
    BY DEF Init
  <2>5. {notified, crossed, mirrored} \subseteq BOOLEAN
    BY DEF Init
  <2> QED
    BY <1>1, <2>1, <2>2, <2>3, <2>4, <2>5 DEF TypeOK
<1>3. Bounded
  BY DEF Init, Bounded
<1>4. FilesKnown
  BY DEF Init, FilesKnown, Rest
<1> QED
  BY <1>2, <1>3, <1>4 DEF Types

\* A step that leaves the tables alone, and gives each caller a job that fits.
Fits(q) ==
  /\ q.pc \in {"compare", "drop vectors", "drop chunks", "insert", "forget"} => q.file \in Files
  /\ q.pc \in {"compare", "insert"} => q.text \in Contents

Good == {q \in Job : Fits(q)}

LEMMA JobsAreGood == Types <=> TypeOK /\ Bounded /\ \A p \in Procs : job[p] \in Good
  BY DEF Types, TypeOK, FilesKnown, Good, Fits

LEMMA JobStep ==
  ASSUME Types, NEW p \in Procs, NEW q \in Good, job' = [job EXCEPT ![p] = q]
  PROVE  job' \in [Procs -> Job] /\ FilesKnown'
<1>1. job' \in [Procs -> Job] /\ \A r \in Procs : job'[r] \in Good
  BY JobsAreGood DEF TypeOK, Good
<1> QED
  BY <1>1 DEF FilesKnown, Good, Fits

\* The same for a step that only moves on.
LEMMA GotoStep ==
  ASSUME Types, NEW p \in Procs, NEW pc, Goto(p, pc), [job[p] EXCEPT !.pc = pc] \in Good
  PROVE  job' \in [Procs -> Job] /\ FilesKnown'
<1>1. job' = [job EXCEPT ![p] = [job[p] EXCEPT !.pc = pc]]
  BY DEF Goto
<1> QED
  BY <1>1, JobStep

\* A step that leaves the tables alone.
LEMMA QuietTypes ==
  ASSUME Types, UNCHANGED dbVars, job' \in [Procs -> Job], FilesKnown',
         disk' \in [Files -> Contents \cup {Blank, None}],
         edits' \in 0 .. MaxEdits, jobs' \in 0 .. MaxJobs, faults' \in 0 .. MaxFaults,
         half' \subseteq Files, stale' \subseteq Files,
         notified' \in BOOLEAN, crossed' \in BOOLEAN, mirrored' \in BOOLEAN
  PROVE  Types'
<1>1. UNCHANGED <<chunks, vectors, hashes>>
  BY DEF dbVars
<1>2. Bounded'
  BY <1>1 DEF Types, Bounded
<1>3. TypeOK'
  <2>1. /\ chunks \subseteq Row
        /\ \A c, d \in chunks : c.id = d.id \/ <<c.file, c.text>> = <<d.file, d.text>> => c = d
        /\ vectors \subseteq Vector
        /\ \A v, w \in vectors : v.id = w.id => v = w
        /\ hashes \in [Files -> Contents \cup {None}]
    BY DEF Types, TypeOK
  <2>2. half' \cup stale' \subseteq Files /\ {notified', crossed', mirrored'} \subseteq BOOLEAN
    OBVIOUS
  <2> QED
    BY <1>1, <2>1, <2>2 DEF TypeOK
<1> QED
  BY <1>2, <1>3 DEF Types

\* A step that writes to the tables, and to nothing else but its caller's job
\* and the histories of its file.
LEMMA TablesTypes ==
  ASSUME Types, UNCHANGED <<disk, edits, jobs, notified, faults, stale, crossed, mirrored>>,
         half' \subseteq half, job' \in [Procs -> Job], FilesKnown', Bounded',
         chunks' \subseteq Row, hashes' \in [Files -> Contents \cup {None}],
         \A c, d \in chunks' : c.id = d.id \/ <<c.file, c.text>> = <<d.file, d.text>> => c = d,
         vectors' \subseteq Vector, \A v, w \in vectors' : v.id = w.id => v = w
  PROVE  Types'
<1>1. /\ disk' \in [Files -> Contents \cup {Blank, None}]
      /\ edits' \in 0 .. MaxEdits
      /\ jobs' \in 0 .. MaxJobs
      /\ faults' \in 0 .. MaxFaults
  BY DEF Types, TypeOK
<1>2. half' \cup stale' \subseteq Files /\ {notified', crossed', mirrored'} \subseteq BOOLEAN
  BY DEF Types, TypeOK
<1>3. TypeOK'
  BY <1>1, <1>2 DEF TypeOK
<1> QED
  BY <1>3 DEF Types

LEMMA IngestTypes ==
  ASSUME Types, NEW p \in Procs,
         Walk(p) \/ LoadHashes(p) \/ Read(p) \/ Compare(p) \/ DetectDeletions(p) \/ DropGone(p)
           \/ EndIngest(p)
  PROVE  Types'
<1>1. job[p] \in Job /\ Fits(job[p])
  BY JobsAreGood DEF Good
<1>2. /\ UNCHANGED <<disk, edits, dbVars, jobs, notified, faults, half, stale, crossed>>
      /\ mirrored' = mirrored \/ mirrored' = (mirrored \/ job[p].whole)
  BY DEF Walk, LoadHashes, Read, Compare, DetectDeletions, DropGone, EndIngest, histVars
<1>3. job' \in [Procs -> Job] /\ FilesKnown'
  <2>1. CASE Walk(p)
    <3> DEFINE found == {f \in Files : disk[f] # None}
               q == [job[p] EXCEPT !.pc = "hashes", !.walked = found, !.todo = found, !.whole = TRUE]
    <3>1. job' = [job EXCEPT ![p] = q]
      BY <2>1 DEF Walk
    <3>2. q \in Good
      BY <1>1 DEF Good, Job, Fits
    <3> QED
      BY <3>1, <3>2, JobStep
  <2>2. CASE LoadHashes(p)
    <3> DEFINE q == [job[p] EXCEPT !.pc = "next", !.stored = {f \in Files : hashes[f] # None}]
    <3>1. job' = [job EXCEPT ![p] = q]
      BY <2>2 DEF LoadHashes
    <3>2. q \in Good
      BY <1>1 DEF Good, Job, Fits
    <3> QED
      BY <3>1, <3>2, JobStep
  <2>3. CASE Read(p)
    <3>1. PICK f \in job[p].todo :
            job' = [job EXCEPT ![p] =
              IF PassedOver(f)
              THEN [job[p] EXCEPT !.todo = job[p].todo \ {f}]
              ELSE [job[p] EXCEPT !.pc = "compare", !.todo = job[p].todo \ {f}, !.file = f,
                                  !.text = disk[f], !.pieces = Cut[disk[f]]]]
      BY <2>3 DEF Read
    <3>2. f \in Files
      BY <1>1 DEF Job
    <3>3. CASE PassedOver(f)
      <4>1. [job[p] EXCEPT !.todo = job[p].todo \ {f}] \in Good
        BY <1>1, <2>3 DEF Good, Job, Fits, Read
      <4> QED
        BY <3>1, <3>3, <4>1, JobStep
    <3>4. CASE ~PassedOver(f)
      <4>1. disk[f] \in Contents
        BY <3>2, <3>4 DEF PassedOver, Types, TypeOK
      <4>2. Cut[disk[f]] \in SUBSET Pieces
        BY <4>1, FileIndexAssumption
      <4>3. [job[p] EXCEPT !.pc = "compare", !.todo = job[p].todo \ {f}, !.file = f,
                           !.text = disk[f], !.pieces = Cut[disk[f]]] \in Good
        BY <1>1, <3>2, <4>1, <4>2 DEF Good, Job, Fits
      <4> QED
        BY <3>1, <3>4, <4>3, JobStep
    <3> QED
      BY <3>3, <3>4
  <2>4. CASE Compare(p)
    <3>1. [job[p] EXCEPT !.pc = AfterCompare(p)] \in Good
      <4>1. AfterCompare(p) \in {"next", "insert", "drop vectors"}
        BY DEF AfterCompare
      <4> QED
        BY <1>1, <2>4, <4>1 DEF Compare, Good, Job, Fits
    <3> QED
      BY <2>4, <3>1, GotoStep DEF Compare
  <2>5. CASE DetectDeletions(p)
    <3> DEFINE q == [job[p] EXCEPT !.pc = "gone", !.todo = Gone(p)]
    <3>1. job' = [job EXCEPT ![p] = q]
      BY <2>5 DEF DetectDeletions
    <3>2. q \in Good
      BY <1>1 DEF Good, Job, Fits, Gone
    <3> QED
      BY <3>1, <3>2, JobStep
  <2>6. CASE DropGone(p)
    <3>1. PICK f \in job[p].todo :
            job' = [job EXCEPT ![p] =
                      [job[p] EXCEPT !.pc = "drop vectors", !.todo = job[p].todo \ {f}, !.file = f,
                                     !.text = None]]
      BY <2>6 DEF DropGone
    <3>2. [job[p] EXCEPT !.pc = "drop vectors", !.todo = job[p].todo \ {f}, !.file = f, !.text = None] \in Good
      BY <1>1 DEF Good, Job, Fits
    <3> QED
      BY <3>1, <3>2, JobStep
  <2>7. CASE EndIngest(p)
    <3>1. AfterIngest(p) \in {"idle", "load"}
      BY DEF AfterIngest
    <3>2. [Rest EXCEPT !.pc = AfterIngest(p)] \in Good
      BY <3>1 DEF Rest, Good, Job, Fits
    <3> QED
      BY <2>7, <3>2, JobStep DEF EndIngest
  <2> QED
    BY <2>1, <2>2, <2>3, <2>4, <2>5, <2>6, <2>7
<1>4. mirrored' \in BOOLEAN
  BY <1>1, <1>2 DEF Types, TypeOK, Job
<1> QED
  BY <1>2, <1>3, <1>4, QuietTypes DEF Types, TypeOK

\* Fewer rows and vectors keep their keys.
LEMMA DropTypes ==
  ASSUME Types, NEW p \in Procs, DropVectors(p) \/ DropChunks(p) \/ Record(p) \/ Forget(p)
  PROVE  Types'
<1>1. job[p] \in Job /\ Fits(job[p])
  BY JobsAreGood DEF Good
<1>2. chunks' \subseteq chunks /\ vectors' \subseteq vectors
  BY DEF DropVectors, DropChunks, Record, Forget
<1>3. /\ UNCHANGED <<disk, edits, jobs, notified, faults, stale, crossed, mirrored>>
      /\ half' \subseteq half
  BY DEF DropVectors, DropChunks, Record, Forget, histVars
<1>4. hashes' \in [Files -> Contents \cup {None}]
  BY <1>1 DEF DropVectors, DropChunks, Record, Forget, Types, TypeOK, Job
<1>5. \E pc : Goto(p, pc) /\ [job[p] EXCEPT !.pc = pc] \in Good
  <2>1. CASE DropVectors(p)
    <3>1. [job[p] EXCEPT !.pc = "drop chunks"] \in Good
      BY <1>1, <2>1 DEF DropVectors, Good, Job, Fits
    <3> QED
      BY <2>1, <3>1 DEF DropVectors
  <2>2. CASE DropChunks(p) /\ job[p].text = None
    <3>1. [job[p] EXCEPT !.pc = "forget"] \in Good
      BY <1>1, <2>2 DEF DropChunks, Good, Job, Fits
    <3> QED
      BY <2>2, <3>1 DEF DropChunks
  <2>3. CASE DropChunks(p) /\ job[p].text # None
    <3>1. [job[p] EXCEPT !.pc = "insert"] \in Good
      BY <1>1, <2>3 DEF DropChunks, Good, Job, Fits
    <3> QED
      BY <2>3, <3>1 DEF DropChunks
  <2>4. CASE Record(p)
    <3>1. [job[p] EXCEPT !.pc = "next"] \in Good
      BY <1>1 DEF Good, Job, Fits
    <3> QED
      BY <2>4, <3>1 DEF Record
  <2>5. CASE Forget(p)
    <3>1. [job[p] EXCEPT !.pc = "gone"] \in Good
      BY <1>1 DEF Good, Job, Fits
    <3> QED
      BY <2>5, <3>1 DEF Forget
  <2> QED
    BY <2>1, <2>2, <2>3, <2>4, <2>5
<1>6. job' \in [Procs -> Job] /\ FilesKnown'
  BY <1>5, GotoStep
<1>7. Bounded'
  BY <1>2 DEF Types, Bounded
<1>8. /\ chunks' \subseteq Row
      /\ \A c, d \in chunks' : c.id = d.id \/ <<c.file, c.text>> = <<d.file, d.text>> => c = d
      /\ vectors' \subseteq Vector
      /\ \A v, w \in vectors' : v.id = w.id => v = w
  BY <1>2 DEF Types, TypeOK
<1> QED
  BY <1>3, <1>4, <1>6, <1>7, <1>8, TablesTypes

\* A new row has a new id, and holds what its file had not.
LEMMA InsertTypes ==
  ASSUME Types, NEW p \in Procs, Insert(p)
  PROVE  Types'
<1> DEFINE f == job[p].file
           row(piece) == [id |-> NextId, file |-> f, text |-> piece]
<1>1. job[p] \in Job /\ Fits(job[p])
  BY JobsAreGood DEF Good
<1>2. PICK piece \in job[p].pieces :
        /\ chunks' = IF \E c \in RowsOf(f) : c.text = piece THEN chunks ELSE chunks \cup {row(piece)}
        /\ job' = [job EXCEPT ![p].pieces = @ \ {piece}]
  BY DEF Insert
<1>3. NextId \in Nat \ {0} /\ \A c \in chunks : c.id < NextId
  BY NextIdFresh DEF Types
<1>4. f \in Files /\ piece \in Pieces
  BY <1>1 DEF Insert, Fits, Job
<1>5. row(piece) \in Row
  BY <1>3, <1>4 DEF Row
<1>6. UNCHANGED <<disk, edits, vectors, hashes, jobs, notified, faults, half, stale, crossed, mirrored>>
  BY DEF Insert, histVars
<1>7. job' \in [Procs -> Job] /\ FilesKnown'
  <2>1. job' = [job EXCEPT ![p] = [job[p] EXCEPT !.pieces = job[p].pieces \ {piece}]]
    BY <1>2
  <2>2. [job[p] EXCEPT !.pieces = job[p].pieces \ {piece}] \in Good
    BY <1>1 DEF Good, Job, Fits
  <2> QED
    BY <2>1, <2>2, JobStep
<1>8. CASE \E c \in RowsOf(f) : c.text = piece
  <2>1. UNCHANGED <<chunks, half>> /\ half' \subseteq half
    BY <1>2, <1>6, <1>8
  <2>2. Bounded'
    BY <2>1 DEF Types, Bounded
  <2> QED
    BY <1>6, <1>7, <2>1, <2>2, TablesTypes DEF Types, TypeOK
<1>9. CASE ~\E c \in RowsOf(f) : c.text = piece
  <2>1. chunks' = chunks \cup {row(piece)}
    BY <1>2, <1>9
  <2>2. \A c \in chunks : c.id # NextId
    BY <1>3 DEF Types, TypeOK, Row
  <2>3. \A c \in chunks : <<c.file, c.text>> # <<f, piece>>
    BY <1>9 DEF RowsOf
  <2>4. \A c, d \in chunks' : c.id = d.id \/ <<c.file, c.text>> = <<d.file, d.text>> => c = d
    <3>1. row(piece).id = NextId /\ row(piece).file = f /\ row(piece).text = piece
      OBVIOUS
    <3>2. \A c, d \in chunks : c.id = d.id \/ <<c.file, c.text>> = <<d.file, d.text>> => c = d
      BY DEF Types, TypeOK
    <3> HIDE DEF row
    <3> QED
      BY <2>1, <2>2, <2>3, <3>1, <3>2
  <2>5. Bounded'
    <3>1. \A c \in chunks' : c.id <= NextId
      BY <1>3, <2>1 DEF Types, TypeOK, Row
    <3> QED
      BY <1>3, <3>1 DEF Bounded
  <2>6. chunks' \subseteq Row /\ half' \subseteq half
    BY <1>5, <1>6, <2>1 DEF Types, TypeOK
  <2> QED
    BY <1>6, <1>7, <2>4, <2>5, <2>6, TablesTypes DEF Types, TypeOK
<1> QED
  BY <1>8, <1>9

LEMMA EmbedTypes ==
  ASSUME Types, NEW p \in Procs, Load(p) \/ Embed(p) \/ EmbedFails(p) \/ EndEmbed(p)
  PROVE  Types'
<1>1. job[p] \in Job /\ Fits(job[p])
  BY JobsAreGood DEF Good
<1>2. UNCHANGED <<disk, edits, chunks, hashes, jobs, notified, faults, half, stale, crossed, mirrored>>
  BY DEF Load, Embed, EmbedFails, EndEmbed, histVars, dbVars
<1>3. CASE Load(p)
  <2> DEFINE q == [job[p] EXCEPT !.pc = "embed", !.pending = {c \in chunks : ~HasVector(c.id)}]
  <2>1. job' = [job EXCEPT ![p] = q] /\ UNCHANGED dbVars
    BY <1>3 DEF Load
  <2>2. q \in Good
    BY <1>1 DEF Good, Job, Fits, Types, TypeOK
  <2>3. job' \in [Procs -> Job] /\ FilesKnown'
    BY <2>1, <2>2, JobStep
  <2> QED
    BY <1>2, <2>1, <2>3, QuietTypes DEF Types, TypeOK
<1>4. CASE EmbedFails(p) \/ EndEmbed(p)
  <2>1. job' = [job EXCEPT ![p] = Rest] /\ UNCHANGED dbVars
    BY <1>4 DEF EmbedFails, EndEmbed
  <2>2. Rest \in Good
    BY RestIsJob DEF Good, Fits, Rest
  <2>3. job' \in [Procs -> Job] /\ FilesKnown'
    BY <2>1, <2>2, JobStep
  <2> QED
    BY <1>2, <2>1, <2>3, QuietTypes DEF Types, TypeOK
<1>5. CASE Embed(p)
  <2>1. PICK c \in job[p].pending :
          /\ ~HasVector(c.id)
          /\ vectors' = vectors \cup {[id |-> c.id, text |-> c.text]}
          /\ job' = [job EXCEPT ![p].pending = @ \ {c}]
    BY <1>5 DEF Embed
  <2>2. c \in Row
    BY <1>1, <2>1 DEF Job
  <2>3. vectors' \subseteq Vector
    BY <2>1, <2>2 DEF Types, TypeOK, Row, Vector
  <2>4. \A v, w \in vectors' : v.id = w.id => v = w
    <3>1. \A v \in vectors : v.id # c.id
      BY <2>1 DEF HasVector
    <3> QED
      BY <2>1, <3>1 DEF Types, TypeOK
  <2>5. job' = [job EXCEPT ![p] = [job[p] EXCEPT !.pending = job[p].pending \ {c}]]
    BY <2>1
  <2>6. [job[p] EXCEPT !.pending = job[p].pending \ {c}] \in Good
    BY <1>1 DEF Good, Job, Fits
  <2>7. job' \in [Procs -> Job] /\ FilesKnown'
    BY <2>5, <2>6, JobStep
  <2>8. Bounded' /\ half' \subseteq half
    BY <1>2 DEF Types, Bounded
  <2> QED
    BY <1>2, <2>3, <2>4, <2>7, <2>8, TablesTypes DEF Types, TypeOK
<1> QED
  BY <1>3, <1>4, <1>5

\* The edits, the starts, the failures and the crashes leave the tables alone.
LEMMA OthersTypes ==
  ASSUME Types,
         \/ \E f \in Files : Edit(f)
         \/ \E p \in Procs : Start(p) \/ Fail(p)
         \/ Expire \/ Crash
  PROVE  Types'
<1>1. \A p \in Procs : job[p] \in Job /\ Fits(job[p])
  BY JobsAreGood DEF Good
<1>2. Watcher \in Procs
  BY DEF Procs
<1>3. /\ edits \in 0 .. MaxEdits /\ jobs \in 0 .. MaxJobs /\ faults \in 0 .. MaxFaults
      /\ MaxEdits \in Nat /\ MaxJobs \in Nat /\ MaxFaults \in Nat
  BY FileIndexAssumption DEF Types, TypeOK
<1>4. ASSUME NEW f \in Files, Edit(f)
      PROVE  Types'
  <2>1. \A p \in Procs : [job[p] EXCEPT !.whole = FALSE] \in Good
    BY <1>1 DEF Good, Job, Fits
  <2>2. job' \in [Procs -> Job] /\ FilesKnown'
    <3>1. job' \in [Procs -> Good]
      BY <1>4, <2>1 DEF Edit
    <3> QED
      BY <3>1 DEF Good, Fits, FilesKnown
  <2>3. edits' \in 0 .. MaxEdits
    BY <1>3, <1>4 DEF Edit
  <2>4. disk' \in [Files -> Contents \cup {Blank, None}]
    BY <1>4 DEF Edit, Types, TypeOK
  <2>5. half' \subseteq Files /\ stale' \subseteq Files
    BY <1>4 DEF Edit, Types, TypeOK
  <2>6. UNCHANGED <<dbVars, jobs, faults, crossed>> /\ notified' = TRUE /\ mirrored' = FALSE
    BY <1>4 DEF Edit
  <2> QED
    BY <1>3, <2>2, <2>3, <2>4, <2>5, <2>6, QuietTypes DEF Types, TypeOK
<1>5. ASSUME NEW p \in Procs, Start(p)
      PROVE  Types'
  <2>1. \E pc : Goto(p, pc) /\ [job[p] EXCEPT !.pc = pc] \in Good
    <3>1. [job[p] EXCEPT !.pc = "walk"] \in Good /\ [job[p] EXCEPT !.pc = "load"] \in Good
      BY <1>1 DEF Good, Job, Fits
    <3> QED
      BY <1>5, <3>1 DEF Start
  <2>2. job' \in [Procs -> Job] /\ FilesKnown'
    BY <2>1, GotoStep
  <2>3. jobs' \in 0 .. MaxJobs
    BY <1>3, <1>5 DEF Start
  <2>4. crossed' \in BOOLEAN
    BY <1>5 DEF Start, Crosses, Types, TypeOK
  <2>5. UNCHANGED <<disk, edits, dbVars, notified, faults, half, stale, mirrored>>
    BY <1>5 DEF Start
  <2> QED
    BY <1>3, <2>2, <2>3, <2>4, <2>5, QuietTypes DEF Types, TypeOK
<1>6. ASSUME Expire
      PROVE  Types'
  <2>1. [job[Watcher] EXCEPT !.pc = "walk"] \in Good
    BY <1>1, <1>2 DEF Good, Job, Fits
  <2>2. job' \in [Procs -> Job] /\ FilesKnown'
    BY <1>2, <1>6, <2>1, GotoStep DEF Expire
  <2>3. crossed' \in BOOLEAN
    BY <1>6 DEF Expire, Crosses, Types, TypeOK
  <2>4. UNCHANGED <<disk, edits, dbVars, jobs, faults, half, stale, mirrored>> /\ notified' = FALSE
    BY <1>6 DEF Expire
  <2> QED
    BY <1>3, <2>2, <2>3, <2>4, QuietTypes DEF Types, TypeOK
<1>7. ASSUME NEW P \in SUBSET Procs, Abandon(P)
      PROVE  half' \subseteq Files /\ stale' \subseteq Files
  <2>1. \A p \in P : job[p].pc \in {"drop chunks", "insert", "forget"} => job[p].file \in Files
    BY DEF Types, FilesKnown
  <2>2. half \subseteq Files /\ stale \subseteq Files
    BY DEF Types, TypeOK
  <2> DEFINE left == {p \in P : job[p].pc \in {"drop chunks", "insert", "forget"}}
             changed == {f \in Files : \E p \in left : job[p].file = f /\ job[p].text # disk[f]}
  <2>3. half' = half \cup {job[p].file : p \in left} /\ stale' = stale \cup changed
    BY <1>7 DEF Abandon
  <2>4. {job[p].file : p \in left} \subseteq Files
    BY <2>1
  <2>5. changed \subseteq Files
    OBVIOUS
  <2> QED
    BY <2>2, <2>3, <2>4, <2>5
<1>8. ASSUME NEW p \in Procs, Fail(p)
      PROVE  Types'
  <2> DEFINE q == [Rest EXCEPT !.pc = IF p = Watcher /\ Ingesting(p) THEN "load" ELSE "idle"]
  <2>1. job' = [job EXCEPT ![p] = q]
    BY <1>8 DEF Fail
  <2>2. q \in Good
    BY DEF Rest, Good, Job, Fits
  <2>3. job' \in [Procs -> Job] /\ FilesKnown'
    BY <2>1, <2>2, JobStep
  <2>4. half' \subseteq Files /\ stale' \subseteq Files
    BY <1>7, <1>8 DEF Fail
  <2>5. faults' \in 0 .. MaxFaults
    BY <1>3, <1>8 DEF Fail
  <2>6. UNCHANGED <<disk, edits, dbVars, jobs, notified, crossed, mirrored>>
    BY <1>8 DEF Fail
  <2> QED
    BY <1>3, <2>3, <2>4, <2>5, <2>6, QuietTypes DEF Types, TypeOK
<1>9. ASSUME Crash
      PROVE  Types'
  <2>1. job' \in [Procs -> Good]
    <3>1. Rest \in Good /\ [Rest EXCEPT !.pc = "walk"] \in Good
      BY DEF Rest, Good, Job, Fits
    <3> QED
      BY <1>9, <3>1 DEF Crash
  <2>2. job' \in [Procs -> Job] /\ FilesKnown'
    BY <2>1 DEF Good, Fits, FilesKnown
  <2>3. half' \subseteq Files /\ stale' \subseteq Files
    BY <1>7, <1>9 DEF Crash
  <2>4. faults' \in 0 .. MaxFaults
    BY <1>3, <1>9 DEF Crash
  <2>5. UNCHANGED <<disk, edits, dbVars, jobs, crossed, mirrored>> /\ notified' = FALSE
    BY <1>9 DEF Crash
  <2> QED
    BY <1>3, <2>2, <2>3, <2>4, <2>5, QuietTypes DEF Types, TypeOK
<1> QED
  BY <1>4, <1>5, <1>6, <1>8, <1>9

LEMMA TypesStep == Types /\ [Next]_vars => Types'
<1> SUFFICES ASSUME Types, [Next]_vars PROVE Types'
  OBVIOUS
<1>1. CASE UNCHANGED vars
  BY <1>1 DEF vars, Types, TypeOK, Bounded, FilesKnown
<1>2. CASE Next
  BY <1>2, IngestTypes, DropTypes, InsertTypes, EmbedTypes, OthersTypes DEF Next, Step
<1> QED
  BY <1>1, <1>2

LEMMA TypesAlways == Spec => []Types
  BY TypesInit, TypesStep, PTL DEF Spec

(* Every variable of the index and of its callers keeps its type, row ids stay *)
(* numbers and belong to one row each, no file has a piece twice and no row    *)
(* two vectors (the UNIQUE and PRIMARY KEY constraints of db/mod.rs are never  *)
(* hit but by INSERT OR IGNORE and by two embedders).                          *)
THEOREM TypeCorrect == Spec => []TypeOK
  BY TypesAlways, PTL DEF Types
-----------------------------------------------------------------------------
(***************************************************************************)
(* No vector outlives its row.  A pass that ingests alone deletes the      *)
(* vectors before the rows, and no embedder adds one between the two; and  *)
(* what an embedder has loaded stays, since nobody ingests beside it.      *)
(***************************************************************************)

LEMMA GotoMoves ==
  ASSUME Types, NEW p \in Procs, NEW pc, Goto(p, pc)
  PROVE  /\ job'[p].pc = pc
         /\ job'[p].file = job[p].file
         /\ \A r \in Procs \ {p} : job'[r] = job[r]
<1>1. job' = [job EXCEPT ![p] = [job[p] EXCEPT !.pc = pc]]
  BY DEF Goto
<1>2. job[p] \in Job
  BY DEF Types, TypeOK
<1>3. [job[p] EXCEPT !.pc = pc].pc = pc /\ [job[p] EXCEPT !.pc = pc].file = job[p].file
  BY <1>2 DEF Job
<1> QED
  BY <1>1, <1>3 DEF Types, TypeOK

\* Who ingests is alone.
Alone ==
  \A p, q \in Procs : p # q /\ Ingesting(p) => ~Ingesting(q) /\ ~Embedding(q)

\* What an embedder has loaded is still there.
LoadedIsThere ==
  \A p \in Procs : job[p].pc = "embed" => job[p].pending \subseteq chunks

\* The rows that are about to go have no vectors.
VectorsGone ==
  \A p \in Procs : job[p].pc = "drop chunks" => \A v \in vectors : v.id \notin IdsOf(job[p].file)

Backed == \A v \in vectors : \E c \in chunks : c.id = v.id /\ c.text = v.text

\* The inductive invariant for the vectors.
Truth == ~crossed => Alone /\ LoadedIsThere /\ VectorsGone /\ Backed

LEMMA TruthInit == Init => Truth
<1> SUFFICES ASSUME Init PROVE Alone /\ LoadedIsThere /\ VectorsGone /\ Backed
  BY DEF Truth
<1>1. \A p \in Procs : job[p].pc = IF p = Watcher THEN "walk" ELSE "idle"
  BY DEF Init, Rest
<1>2. Alone
  BY <1>1 DEF Alone, Ingesting, Embedding
<1>3. LoadedIsThere /\ VectorsGone
  BY <1>1 DEF LoadedIsThere, VectorsGone
<1>4. Backed
  BY DEF Init, Backed
<1> QED
  BY <1>2, <1>3, <1>4

\* A caller that goes on with the same kind of work, and neither deletes rows
\* next nor adds vectors, while no row goes and no vector comes.
LEMMA QuietTruth ==
  ASSUME Types, Truth, UNCHANGED <<crossed, chunks, vectors>>, NEW p \in Procs, NEW q,
         job' = [job EXCEPT ![p] = q],
         q.pc # "drop chunks",
         q.pc = "embed" => q.pending \subseteq chunks,
         q.pc \in {"walk", "hashes", "next", "compare", "drop vectors", "insert", "gone", "forget"}
           => Ingesting(p),
         q.pc \in {"load", "embed"} => Ingesting(p) \/ Embedding(p)
  PROVE  Truth'
<1> SUFFICES ASSUME ~crossed
             PROVE  Alone' /\ LoadedIsThere' /\ VectorsGone' /\ Backed'
  BY DEF Truth
<1>0. Alone /\ LoadedIsThere /\ VectorsGone /\ Backed
  BY DEF Truth
<1>1. job'[p] = q /\ \A r \in Procs \ {p} : job'[r] = job[r]
  BY DEF Types, TypeOK
<1>2. \A r \in Procs : Ingesting(r)' => Ingesting(r)
  BY <1>1 DEF Ingesting
<1>3. \A r \in Procs : Embedding(r)' => Embedding(r) \/ Ingesting(r)
  BY <1>1 DEF Embedding
<1>4. Alone'
  BY <1>0, <1>2, <1>3 DEF Alone
<1>5. LoadedIsThere'
  BY <1>0, <1>1 DEF LoadedIsThere
<1>6. VectorsGone'
  BY <1>0, <1>1 DEF VectorsGone, IdsOf, RowsOf
<1>7. Backed'
  BY <1>0 DEF Backed
<1> QED
  BY <1>4, <1>5, <1>6, <1>7

LEMMA IngestTruth ==
  ASSUME Types, Truth, NEW p \in Procs,
         \/ Walk(p) \/ LoadHashes(p) \/ Read(p) \/ Compare(p) \/ Record(p) \/ DetectDeletions(p)
         \/ DropGone(p) \/ Forget(p) \/ EndIngest(p)
  PROVE  Truth'
<1>1. UNCHANGED <<crossed, chunks, vectors>>
  BY DEF Walk, LoadHashes, Read, Compare, Record, DetectDeletions, DropGone, Forget, EndIngest,
         histVars, dbVars
<1>2. Ingesting(p)
  BY DEF Ingesting, Walk, LoadHashes, Read, Compare, Record, DetectDeletions, DropGone, Forget,
         EndIngest
<1>3. \E q : /\ job' = [job EXCEPT ![p] = q]
             /\ q.pc \notin {"drop chunks", "embed"}
  <2>0. job[p] \in Job
    BY DEF Types, TypeOK
  <2>1. CASE Walk(p)
    <3> DEFINE found == {f \in Files : disk[f] # None}
               q == [job[p] EXCEPT !.pc = "hashes", !.walked = found, !.todo = found, !.whole = TRUE]
    <3>1. job' = [job EXCEPT ![p] = q]
      BY <2>1 DEF Walk
    <3>2. q.pc = "hashes"
      BY <2>0 DEF Job
    <3> QED
      BY <3>1, <3>2
  <2>2. CASE LoadHashes(p)
    <3> DEFINE q == [job[p] EXCEPT !.pc = "next", !.stored = {f \in Files : hashes[f] # None}]
    <3>1. job' = [job EXCEPT ![p] = q]
      BY <2>2 DEF LoadHashes
    <3>2. q.pc = "next"
      BY <2>0 DEF Job
    <3> QED
      BY <3>1, <3>2
  <2>3. CASE Read(p)
    <3>1. PICK f \in job[p].todo :
            job' = [job EXCEPT ![p] =
              IF PassedOver(f)
              THEN [job[p] EXCEPT !.todo = job[p].todo \ {f}]
              ELSE [job[p] EXCEPT !.pc = "compare", !.todo = job[p].todo \ {f}, !.file = f,
                                  !.text = disk[f], !.pieces = Cut[disk[f]]]]
      BY <2>3 DEF Read
    <3>2. /\ [job[p] EXCEPT !.todo = job[p].todo \ {f}].pc = "next"
          /\ [job[p] EXCEPT !.pc = "compare", !.todo = job[p].todo \ {f}, !.file = f,
                            !.text = disk[f], !.pieces = Cut[disk[f]]].pc = "compare"
      BY <2>0, <2>3 DEF Read, Job
    <3> QED
      BY <3>1, <3>2
  <2>4. CASE Compare(p) \/ Record(p) \/ Forget(p)
    <3>1. \E pc \in {"next", "insert", "drop vectors", "gone"} : Goto(p, pc)
      BY <2>4 DEF Compare, Record, Forget, AfterCompare
    <3>2. PICK pc \in {"next", "insert", "drop vectors", "gone"} :
            job' = [job EXCEPT ![p] = [job[p] EXCEPT !.pc = pc]]
      BY <3>1 DEF Goto
    <3>3. [job[p] EXCEPT !.pc = pc].pc = pc
      BY <2>0 DEF Job
    <3> QED
      BY <3>2, <3>3
  <2>5. CASE DetectDeletions(p)
    <3> DEFINE q == [job[p] EXCEPT !.pc = "gone", !.todo = Gone(p)]
    <3>1. job' = [job EXCEPT ![p] = q]
      BY <2>5 DEF DetectDeletions
    <3>2. q.pc = "gone"
      BY <2>0 DEF Job
    <3> QED
      BY <3>1, <3>2
  <2>6. CASE DropGone(p)
    <3>1. PICK f \in job[p].todo :
            job' = [job EXCEPT ![p] =
                      [job[p] EXCEPT !.pc = "drop vectors", !.todo = job[p].todo \ {f}, !.file = f,
                                     !.text = None]]
      BY <2>6 DEF DropGone
    <3>2. [job[p] EXCEPT !.pc = "drop vectors", !.todo = job[p].todo \ {f}, !.file = f,
                         !.text = None].pc = "drop vectors"
      BY <2>0 DEF Job
    <3> QED
      BY <3>1, <3>2
  <2>7. CASE EndIngest(p)
    <3>1. job' = [job EXCEPT ![p] = [Rest EXCEPT !.pc = AfterIngest(p)]]
      BY <2>7 DEF EndIngest
    <3>2. [Rest EXCEPT !.pc = AfterIngest(p)].pc \in {"load", "idle"}
      BY DEF AfterIngest, Rest
    <3> QED
      BY <3>1, <3>2
  <2> QED
    BY <2>1, <2>2, <2>3, <2>4, <2>5, <2>6, <2>7
<1>4. PICK q : job' = [job EXCEPT ![p] = q] /\ q.pc \notin {"drop chunks", "embed"}
  BY <1>3
<1> QED
  BY <1>1, <1>2, <1>4, QuietTruth

\* Whoever deletes or inserts rows is alone.
LEMMA RowsTruth ==
  ASSUME Types, Truth, NEW p \in Procs, DropVectors(p) \/ DropChunks(p) \/ Insert(p)
  PROVE  Truth'
<1>a. crossed' = crossed
  BY DEF DropVectors, DropChunks, Insert, histVars
<1> SUFFICES ASSUME ~crossed
             PROVE  Alone' /\ LoadedIsThere' /\ VectorsGone' /\ Backed'
  BY <1>a DEF Truth
<1>0. Alone /\ LoadedIsThere /\ VectorsGone /\ Backed
  BY DEF Truth
<1>1. job[p] \in Job /\ Ingesting(p) /\ ~Embedding(p)
  BY DEF Types, TypeOK, Ingesting, Embedding, DropVectors, DropChunks, Insert
<1>2. \A r \in Procs \ {p} : job'[r] = job[r] /\ ~Ingesting(r) /\ ~Embedding(r)
  BY <1>0, <1>1 DEF Types, TypeOK, Alone, DropVectors, DropChunks, Insert, Goto
<1>3. job'[p].pc \in {"drop chunks", "forget", "insert"}
  <2>1. CASE DropVectors(p) \/ DropChunks(p)
    <3>1. \E pc \in {"drop chunks", "forget", "insert"} : Goto(p, pc)
      BY <2>1 DEF DropVectors, DropChunks
    <3> QED
      BY <3>1, GotoMoves
  <2>2. CASE Insert(p)
    BY <1>1, <2>2 DEF Types, TypeOK, Job, Insert
  <2> QED
    BY <2>1, <2>2
<1>4. Ingesting(p)' /\ ~Embedding(p)' /\ \A r \in Procs \ {p} : ~Ingesting(r)' /\ ~Embedding(r)'
  BY <1>2, <1>3 DEF Ingesting, Embedding
<1>5. Alone'
  BY <1>4 DEF Alone
<1>6. LoadedIsThere'
  BY <1>4 DEF LoadedIsThere, Embedding
<1>7. CASE DropVectors(p)
  <2>1. job'[p].file = job[p].file /\ chunks' = chunks
    BY <1>7, GotoMoves DEF DropVectors
  <2>2. vectors' = {v \in vectors : v.id \notin IdsOf(job[p].file)}
    BY <1>7 DEF DropVectors
  <2>3. \A r \in Procs \ {p} : job'[r].pc # "drop chunks"
    BY <1>4 DEF Ingesting
  <2>4. VectorsGone'
    BY <2>1, <2>2, <2>3 DEF VectorsGone, IdsOf, RowsOf
  <2>5. Backed'
    BY <1>0, <2>1, <2>2 DEF Backed
  <2> QED
    BY <1>5, <1>6, <2>4, <2>5
<1>8. CASE DropChunks(p)
  <2>1. chunks' = chunks \ RowsOf(job[p].file) /\ vectors' = vectors
    BY <1>8 DEF DropChunks
  <2>2. \A v \in vectors : v.id \notin IdsOf(job[p].file)
    BY <1>0, <1>8 DEF VectorsGone, DropChunks
  <2>3. \A v \in vectors, c \in chunks : c.id = v.id => c \notin RowsOf(job[p].file)
    BY <2>2 DEF IdsOf
  <2>4. Backed'
    BY <1>0, <2>1, <2>3 DEF Backed
  <2>5. \A r \in Procs : job'[r].pc # "drop chunks"
    <3>1. \E pc \in {"forget", "insert"} : Goto(p, pc)
      BY <1>8 DEF DropChunks
    <3>2. job'[p].pc \in {"forget", "insert"}
      BY <3>1, GotoMoves
    <3> QED
      BY <1>4, <3>2 DEF Ingesting
  <2>6. VectorsGone'
    BY <2>5 DEF VectorsGone
  <2> QED
    BY <1>5, <1>6, <2>4, <2>6
<1>9. CASE Insert(p)
  <2>1. chunks \subseteq chunks' /\ vectors' = vectors
    BY <1>9 DEF Insert
  <2>2. Backed'
    BY <1>0, <2>1 DEF Backed
  <2>3. \A r \in Procs : job'[r].pc # "drop chunks"
    <3>1. job'[p].pc = "insert"
      BY <1>1, <1>9 DEF Types, TypeOK, Job, Insert
    <3> QED
      BY <1>4, <3>1 DEF Ingesting
  <2>4. VectorsGone'
    BY <2>3 DEF VectorsGone
  <2> QED
    BY <1>5, <1>6, <2>2, <2>4
<1> QED
  BY <1>7, <1>8, <1>9

\* A vector is made of a row that is there.
LEMMA EmbedTruth ==
  ASSUME Types, Truth, NEW p \in Procs, Load(p) \/ Embed(p) \/ EmbedFails(p) \/ EndEmbed(p)
  PROVE  Truth'
<1>1. job[p] \in Job /\ Embedding(p)
  BY DEF Types, TypeOK, Embedding, Load, Embed, EmbedFails, EndEmbed
<1>2. CASE Load(p)
  <2> DEFINE q == [job[p] EXCEPT !.pc = "embed", !.pending = {c \in chunks : ~HasVector(c.id)}]
  <2>1. job' = [job EXCEPT ![p] = q] /\ UNCHANGED <<crossed, chunks, vectors>>
    BY <1>2 DEF Load, histVars, dbVars
  <2>2. q.pc = "embed" /\ q.pending \subseteq chunks
    BY <1>1 DEF Job
  <2> QED
    BY <1>1, <2>1, <2>2, QuietTruth
<1>3. CASE EmbedFails(p) \/ EndEmbed(p)
  <2>1. job' = [job EXCEPT ![p] = Rest] /\ UNCHANGED <<crossed, chunks, vectors>>
    BY <1>3 DEF EmbedFails, EndEmbed, histVars, dbVars
  <2>2. Rest.pc = "idle"
    BY DEF Rest
  <2> QED
    BY <2>1, <2>2, QuietTruth
<1>4. CASE Embed(p)
  <2> SUFFICES ASSUME ~crossed
               PROVE  Alone' /\ LoadedIsThere' /\ VectorsGone' /\ Backed'
    BY <1>4 DEF Truth, Embed, histVars
  <2>0. Alone /\ LoadedIsThere /\ VectorsGone /\ Backed
    BY <1>4 DEF Truth, Embed, histVars
  <2>1. PICK c \in job[p].pending :
          /\ vectors' = vectors \cup {[id |-> c.id, text |-> c.text]}
          /\ job' = [job EXCEPT ![p].pending = @ \ {c}]
    BY <1>4 DEF Embed
  <2>2. chunks' = chunks /\ c \in chunks
    BY <1>4, <2>0 DEF Embed, LoadedIsThere
  <2>3. /\ \A r \in Procs : job'[r].pc = job[r].pc
        /\ \A r \in Procs \ {p} : job'[r] = job[r]
        /\ job'[p].pending \subseteq job[p].pending
    BY <1>1, <2>1 DEF Types, TypeOK, Job
  <2>4. \A r \in Procs : ~Ingesting(r)
    BY <1>1, <2>0 DEF Alone, Ingesting, Embedding
  <2>5. Alone'
    BY <2>3, <2>4 DEF Alone, Ingesting
  <2>6. LoadedIsThere'
    BY <2>0, <2>2, <2>3 DEF LoadedIsThere
  <2>7. VectorsGone'
    BY <2>3, <2>4 DEF VectorsGone, Ingesting
  <2>8. Backed'
    BY <2>0, <2>1, <2>2 DEF Backed
  <2> QED
    BY <2>5, <2>6, <2>7, <2>8
<1> QED
  BY <1>2, <1>3, <1>4

\* A caller that begins beside another is marked, a failure ends its work, and
\* the watcher goes on to embed only what it ingested alone.
LEMMA OthersTruth ==
  ASSUME Types, Truth,
         \/ \E f \in Files : Edit(f)
         \/ \E p \in Procs : Start(p) \/ Fail(p)
         \/ Expire \/ Crash
  PROVE  Truth'
<1>0. /\ UNCHANGED <<chunks, vectors>>
      /\ Watcher \in Procs
      /\ \A p \in Procs : job[p] \in Job
  BY DEF Edit, Start, Fail, Expire, Crash, dbVars, Procs, Types, TypeOK
<1>1. ASSUME NEW f \in Files, Edit(f)
      PROVE  Truth'
  <2>1. \A p \in Procs : job'[p] = [job[p] EXCEPT !.whole = FALSE]
    BY <1>1 DEF Edit
  <2>2. \A p \in Procs : /\ job'[p].pc = job[p].pc
                         /\ job'[p].file = job[p].file
                         /\ job'[p].pending = job[p].pending
    BY <1>0, <2>1 DEF Job
  <2>3. crossed' = crossed
    BY <1>1 DEF Edit
  <2>4. Alone => Alone'
    BY <2>2 DEF Alone, Ingesting, Embedding
  <2>5. LoadedIsThere => LoadedIsThere'
    BY <1>0, <2>2 DEF LoadedIsThere
  <2>6. VectorsGone => VectorsGone'
    BY <1>0, <2>2 DEF VectorsGone, IdsOf, RowsOf
  <2>7. Backed => Backed'
    BY <1>0 DEF Backed
  <2> QED
    BY <2>3, <2>4, <2>5, <2>6, <2>7 DEF Truth
<1>2. ASSUME NEW p \in Procs, job[p].pc = "idle",
             \/ Goto(p, "walk") /\ p \notin Embedders
             \/ Goto(p, "load") /\ p \in Embedders,
             crossed' = Crosses(p)
      PROVE  Truth'
  <2> SUFFICES ASSUME ~Crosses(p)
               PROVE  Alone' /\ LoadedIsThere' /\ VectorsGone' /\ Backed'
    BY <1>2 DEF Truth
  <2>0. Alone /\ LoadedIsThere /\ VectorsGone /\ Backed
    BY DEF Truth, Crosses
  <2>1. /\ job'[p].pc = IF p \in Embedders THEN "load" ELSE "walk"
        /\ \A r \in Procs \ {p} : job'[r] = job[r]
    BY <1>2, GotoMoves
  <2>2. \A r \in Procs \ {p} : ~Ingesting(r) /\ (Embedding(r) => p \in Embedders)
    BY DEF Crosses
  <2>3. Alone'
    BY <2>1, <2>2 DEF Alone, Ingesting, Embedding
  <2>4. LoadedIsThere'
    BY <1>0, <2>0, <2>1 DEF LoadedIsThere
  <2>5. VectorsGone'
    BY <2>1, <2>2 DEF VectorsGone, Ingesting
  <2>6. Backed'
    BY <1>0, <2>0 DEF Backed
  <2> QED
    BY <2>3, <2>4, <2>5, <2>6
<1>3. ASSUME NEW p \in Procs, Start(p)
      PROVE  Truth'
  <2>1. p \in Ingesters => p \notin Embedders
    BY FileIndexAssumption
  <2>2. job[p].pc = "idle" /\ crossed' = Crosses(p)
    BY <1>3 DEF Start
  <2>3. \/ Goto(p, "walk") /\ p \notin Embedders
        \/ Goto(p, "load") /\ p \in Embedders
    BY <1>3, <2>1 DEF Start
  <2> QED
    BY <1>2, <2>2, <2>3
<1>4. ASSUME Expire
      PROVE  Truth'
  <2>1. Watcher \notin Embedders
    BY FileIndexAssumption
  <2>2. job[Watcher].pc = "idle" /\ Goto(Watcher, "walk") /\ crossed' = Crosses(Watcher)
    BY <1>4 DEF Expire
  <2>3. Watcher \in Procs
    BY <1>0
  <2> QED
    BY <1>2, <2>1, <2>2, <2>3
<1>5. ASSUME NEW p \in Procs, Fail(p)
      PROVE  Truth'
  <2> DEFINE q == [Rest EXCEPT !.pc = IF p = Watcher /\ Ingesting(p) THEN "load" ELSE "idle"]
  <2>1. job' = [job EXCEPT ![p] = q] /\ UNCHANGED <<crossed, chunks, vectors>>
    BY <1>0, <1>5 DEF Fail
  <2>2. q.pc = IF p = Watcher /\ Ingesting(p) THEN "load" ELSE "idle"
    BY DEF Rest
  <2> HIDE DEF q
  <2>3. CASE Ingesting(p)
    <3>1. q.pc \in {"load", "idle"}
      BY <2>2
    <3> QED
      BY <2>1, <2>3, <3>1, QuietTruth
  <2>4. CASE ~Ingesting(p)
    <3>1. q.pc = "idle"
      BY <2>2, <2>4
    <3> QED
      BY <2>1, <3>1, QuietTruth
  <2> QED
    BY <2>3, <2>4
<1>6. ASSUME Crash
      PROVE  Truth'
  <2>1. \A p \in Procs : job'[p].pc = IF p = Watcher THEN "walk" ELSE "idle"
    BY <1>6 DEF Crash, Rest
  <2>2. Alone'
    BY <2>1 DEF Alone, Ingesting, Embedding
  <2>3. LoadedIsThere' /\ VectorsGone'
    BY <2>1 DEF LoadedIsThere, VectorsGone
  <2>4. crossed' = crossed /\ (Backed => Backed')
    BY <1>0, <1>6 DEF Crash, Backed
  <2> QED
    BY <2>2, <2>3, <2>4 DEF Truth
<1> QED
  BY <1>1, <1>3, <1>4, <1>5, <1>6

LEMMA TruthStep == Types /\ Truth /\ [Next]_vars => Truth'
<1> SUFFICES ASSUME Types, Truth, [Next]_vars PROVE Truth'
  OBVIOUS
<1>1. CASE UNCHANGED vars
  BY <1>1 DEF vars, Truth, Alone, LoadedIsThere, VectorsGone, Backed, Ingesting, Embedding, IdsOf,
              RowsOf
<1>2. CASE Next
  BY <1>2, IngestTruth, RowsTruth, EmbedTruth, OthersTruth DEF Next, Step
<1> QED
  BY <1>1, <1>2

(* Unless one caller ingested during another's pass, every vector is of a row  *)
(* that is there and of the text that is in it, although every statement may   *)
(* fail, the broker may die between any two, and row ids come back.            *)
THEOREM VectorsTrue == Spec => []VectorsAreTrue
<1>1. Truth => VectorsAreTrue
  BY DEF Truth, Backed, VectorsAreTrue
<1> QED
  BY <1>1, TruthInit, TruthStep, TypesAlways, PTL DEF Spec
-----------------------------------------------------------------------------
(***************************************************************************)
(* The index mirrors the disk.  The inductive invariant, about callers     *)
(* that do not get into each other's way:                                  *)
(*   - the rows of a file are what its hash says, except while they are    *)
(*     replaced and after a pass ended in the middle of that;              *)
(*   - such a file is known by its hash, which is not what is on disk, so  *)
(*     that the next pass replaces the rows again, unless the file has     *)
(*     changed since;                                                      *)
(*   - a pass knows of each file whether it still has to look at it, and   *)
(*     in a whole one the hashes of the others are what is on disk.        *)
(***************************************************************************)
TextsOf(f) == {c.text : c \in RowsOf(f)}

\* The texts of the chunks of a file with the content v.
CutOf(v) == IF v = None THEN {} ELSE Cut[v]

\* A job that has a file in hand, and one that has begun to replace its rows.
HasFile(q) == q.pc \in {"compare", "drop vectors", "drop chunks", "insert", "forget"}
Replaces(q) == q.pc \in {"drop chunks", "insert", "forget"}

\* A job that removes what is gone; before it, the files that were found.
Removes(q) == q.pc \in {"gone", "forget"}
                \/ (q.pc \in {"drop vectors", "drop chunks"} /\ q.text = None)

RowsFollowHashes ==
  \A f \in Files \ (half \cup stale) :
    (\A p \in Procs : Replaces(job[p]) => job[p].file # f) => TextsOf(f) = CutOf(hashes[f])

HalfIsSeen ==
  \A f \in half \ stale :
    /\ disk[f] # Blank
    /\ hashes[f] # disk[f]
    /\ hashes[f] = None => TextsOf(f) \subseteq CutOf(disk[f])

\* What a job still has to look at.
Left(q) == q.todo \cup (IF HasFile(q) THEN {q.file} ELSE {})

Unsettled(q) ==
  CASE q.pc = "hashes" -> Files
    [] q.pc # "hashes" /\ ~Removes(q) -> Left(q) \cup (Files \ q.walked)
    [] q.pc # "hashes" /\ Removes(q) -> Left(q)

\* Where a job is in its lists.
InLists(q) ==
  /\ q.pc = "hashes" => q.todo = q.walked
  /\ ~Removes(q) => Left(q) \subseteq q.walked
  /\ Removes(q) => Left(q) \subseteq q.stored \ q.walked
  /\ HasFile(q) => q.file \notin q.todo
  /\ \A f \in half \ stale : f \in q.walked <=> disk[f] # None
  /\ q.pc # "hashes" => \A f \in Files \ (q.stored \cup q.walked) : hashes[f] = None
  /\ q.pc # "hashes" => \A f \in q.stored \ q.walked :
       ~Removes(q) \/ f \in q.todo => hashes[f] # None

\* What a job knows of the file in its hand.
InHand(q) ==
  /\ HasFile(q) /\ q.file \in half \ stale => q.text = disk[q.file]
  /\ q.pc \in {"compare", "drop vectors", "drop chunks"} /\ q.text # None =>
       q.pieces = Cut[q.text]
  /\ q.pc \in {"drop vectors", "drop chunks", "insert", "forget"} => hashes[q.file] # q.text
  /\ q.pc \in {"drop vectors", "drop chunks", "forget"} => hashes[q.file] # None
  /\ q.pc = "forget" => q.text = None /\ TextsOf(q.file) = {}
  /\ q.pc = "insert" =>
       /\ q.pieces \subseteq Cut[q.text]
       /\ Cut[q.text] \ q.pieces \subseteq TextsOf(q.file)
       /\ q.file \notin stale => TextsOf(q.file) \subseteq Cut[q.text]

\* A job that has seen the directory as it is.
IsWhole(q) ==
  q.whole =>
    /\ q.walked = {f \in Files : disk[f] # None}
    /\ HasFile(q) => q.text = disk[q.file]
    /\ \A f \in Files \ (Unsettled(q) \cup stale) : disk[f] # Blank => hashes[f] = disk[f]

InStep(q) == q.pc # "walk" => InLists(q) /\ InHand(q) /\ IsWhole(q)

PassesInStep == \A p \in Procs : Ingesting(p) => InStep(job[p])

Mirrored ==
  mirrored =>
    /\ \A f \in Files \ stale : disk[f] # Blank => hashes[f] = disk[f]
    /\ \A p \in Procs : Ingesting(p) => job[p].pc = "walk" \/ job[p].whole

Synced == RowsFollowHashes /\ HalfIsSeen /\ PassesInStep /\ Mirrored

Mirror == ~crossed => Synced

LEMMA MirrorInit == Init => Mirror
<1> SUFFICES ASSUME Init PROVE Synced
  BY DEF Mirror
<1>1. \A p \in Procs : job[p].pc \in {"walk", "idle"}
  BY DEF Init, Rest
<1>2. \A f \in Files : TextsOf(f) = {} /\ hashes[f] = None
  BY DEF Init, TextsOf, RowsOf
<1>3. RowsFollowHashes
  BY <1>2 DEF RowsFollowHashes, CutOf
<1>4. HalfIsSeen /\ Mirrored
  BY DEF Init, HalfIsSeen, Mirrored
<1>5. PassesInStep
  BY <1>1 DEF PassesInStep, InStep, Ingesting
<1> QED
  BY <1>3, <1>4, <1>5 DEF Synced

\* A step that touches none of the tables, and leaves the disk.
Still == UNCHANGED <<chunks, hashes, disk, half, stale>>

LEMMA StillTexts ==
  ASSUME Still
  PROVE  \A f : TextsOf(f)' = TextsOf(f)
  BY DEF Still, TextsOf, RowsOf

LEMMA StillInStep ==
  ASSUME Still, NEW q, InStep(q)
  PROVE  InStep(q)'
<1>1. \A f : TextsOf(f)' = TextsOf(f)
  BY StillTexts
<1>2. chunks' = chunks /\ hashes' = hashes /\ disk' = disk /\ half' = half /\ stale' = stale
  BY DEF Still
<1>3. InLists(q) => InLists(q)'
  BY <1>2 DEF InLists
<1>4. InHand(q) => InHand(q)'
  BY <1>1, <1>2 DEF InHand
<1>5. IsWhole(q) => IsWhole(q)'
  BY <1>2 DEF IsWhole
<1> QED
  BY <1>3, <1>4, <1>5 DEF InStep

\* A pass goes on without touching the tables, before it begins to replace rows.
LEMMA QuietMirror ==
  ASSUME Types, Alone, Synced, Still, mirrored' = mirrored,
         NEW p \in Procs, Ingesting(p), ~Replaces(job[p]),
         NEW q, job' = [job EXCEPT ![p] = q], InStep(q),
         q.whole \/ (job[p].pc # "walk" /\ q.whole = job[p].whole)
  PROVE  Synced'
<1>1. job'[p] = q /\ \A r \in Procs \ {p} : job'[r] = job[r] /\ ~Ingesting(r) /\ ~Ingesting(r)'
  BY DEF Types, TypeOK, Alone, Ingesting
<1>2. \A f : TextsOf(f)' = TextsOf(f)
  BY StillTexts
<1>3. RowsFollowHashes'
  <2>1. ASSUME NEW f \in Files, \A r \in Procs : Replaces(job'[r]) => job'[r].file # f
        PROVE  \A r \in Procs : Replaces(job[r]) => job[r].file # f
    BY <1>1, <2>1
  <2> QED
    BY <1>2, <2>1 DEF RowsFollowHashes, Synced, Still
<1>4. HalfIsSeen'
  BY <1>2 DEF HalfIsSeen, Synced, Still
<1>5. PassesInStep'
  BY <1>1, StillInStep DEF PassesInStep
<1>6. Mirrored'
  BY <1>1 DEF Mirrored, Synced, Still
<1> QED
  BY <1>3, <1>4, <1>5, <1>6 DEF Synced

\* The steps of a pass that read.
LEMMA WalkMirror ==
  ASSUME Types, Alone, Synced, NEW p \in Procs, Walk(p)
  PROVE  Synced'
<1> DEFINE found == {f \in Files : disk[f] # None}
           q == [job[p] EXCEPT !.pc = "hashes", !.walked = found, !.todo = found, !.whole = TRUE]
<1>1. job[p] \in Job /\ job[p].pc = "walk" /\ Ingesting(p) /\ ~Replaces(job[p])
  BY DEF Types, TypeOK, Walk, Ingesting, Replaces
<1>2. job' = [job EXCEPT ![p] = q] /\ Still /\ mirrored' = mirrored
  BY DEF Walk, Still, histVars, dbVars
<1>3. q.pc = "hashes" /\ q.walked = found /\ q.todo = found /\ q.whole = TRUE
  BY <1>1 DEF Job
<1>4. ~HasFile(q) /\ ~Removes(q) /\ Left(q) = found /\ Unsettled(q) = Files
  BY <1>3 DEF HasFile, Removes, Left, Unsettled
<1>5. half \subseteq Files
  BY DEF Types, TypeOK
<1> HIDE DEF q
<1>6. InLists(q)
  BY <1>3, <1>4, <1>5 DEF InLists
<1>7. InHand(q)
  BY <1>3, <1>4 DEF InHand
<1>8. IsWhole(q)
  BY <1>3, <1>4 DEF IsWhole
<1> QED
  BY <1>1, <1>2, <1>3, <1>6, <1>7, <1>8, QuietMirror DEF InStep

LEMMA LoadMirror ==
  ASSUME Types, Alone, Synced, NEW p \in Procs, LoadHashes(p)
  PROVE  Synced'
<1> DEFINE known == {f \in Files : hashes[f] # None}
           q == [job[p] EXCEPT !.pc = "next", !.stored = known]
           w == job[p].walked
<1>1. job[p] \in Job /\ job[p].pc = "hashes" /\ Ingesting(p) /\ ~Replaces(job[p])
  BY DEF Types, TypeOK, LoadHashes, Ingesting, Replaces
<1>2. job' = [job EXCEPT ![p] = q] /\ Still /\ mirrored' = mirrored
  BY DEF LoadHashes, Still, histVars, dbVars
<1>3. /\ q.pc = "next" /\ q.stored = known /\ q.walked = w /\ q.todo = job[p].todo
      /\ q.whole = job[p].whole /\ w \subseteq Files
  BY <1>1 DEF Job
<1>4. InLists(job[p]) /\ IsWhole(job[p]) /\ job[p].todo = w
  BY <1>1 DEF Synced, PassesInStep, InStep, InLists
<1>5. /\ ~HasFile(q) /\ ~Removes(q) /\ Left(q) = w
      /\ Unsettled(q) = w \cup (Files \ w)
      /\ ~HasFile(job[p])
  BY <1>1, <1>3, <1>4 DEF HasFile, Removes, Left, Unsettled
<1> HIDE DEF q
<1>6. InLists(q)
  BY <1>1, <1>3, <1>4, <1>5 DEF InLists
<1>7. InHand(q)
  BY <1>3, <1>5 DEF InHand
<1>8. IsWhole(q)
  BY <1>3, <1>4, <1>5 DEF IsWhole
<1> QED
  BY <1>1, <1>2, <1>3, <1>6, <1>7, <1>8, QuietMirror DEF InStep

LEMMA ReadMirror ==
  ASSUME Types, Alone, Synced, NEW p \in Procs, Read(p)
  PROVE  Synced'
<1> DEFINE j == job[p]
<1>1. j \in Job /\ j.pc = "next" /\ Ingesting(p) /\ ~Replaces(j)
  BY DEF Types, TypeOK, Read, Ingesting, Replaces
<1>2. Still /\ mirrored' = mirrored
  BY DEF Read, Still, histVars, dbVars
<1>3. InLists(j) /\ IsWhole(j)
  BY <1>1 DEF Synced, PassesInStep, InStep
<1>4. PICK f \in j.todo :
        job' = [job EXCEPT ![p] =
          IF PassedOver(f)
          THEN [j EXCEPT !.todo = j.todo \ {f}]
          ELSE [j EXCEPT !.pc = "compare", !.todo = j.todo \ {f}, !.file = f,
                         !.text = disk[f], !.pieces = Cut[disk[f]]]]
  BY DEF Read
<1>5. /\ ~HasFile(j) /\ ~Removes(j) /\ Left(j) = j.todo
      /\ Unsettled(j) = j.todo \cup (Files \ j.walked)
      /\ j.todo \subseteq j.walked /\ j.walked \subseteq Files
  BY <1>1, <1>3 DEF HasFile, Removes, Left, Unsettled, InLists, Job
<1>6. CASE PassedOver(f)
  <2> DEFINE q == [j EXCEPT !.todo = j.todo \ {f}]
  <2>1. /\ q.pc = "next" /\ q.todo = j.todo \ {f} /\ q.walked = j.walked /\ q.stored = j.stored
        /\ q.whole = j.whole
    BY <1>1 DEF Job
  <2>2. /\ ~HasFile(q) /\ ~Removes(q) /\ Left(q) = j.todo \ {f}
        /\ Unsettled(q) = (j.todo \ {f}) \cup (Files \ j.walked)
    BY <2>1 DEF HasFile, Removes, Left, Unsettled
  <2>3. job' = [job EXCEPT ![p] = q]
    BY <1>4, <1>6
  <2> HIDE DEF q
  <2>4. InLists(q)
    BY <1>1, <1>3, <1>5, <2>1, <2>2 DEF InLists
  <2>5. InHand(q)
    BY <2>1, <2>2 DEF InHand
  <2>6. j.whole => disk[f] = Blank
    BY <1>3, <1>5, <1>6 DEF IsWhole, PassedOver
  <2>7. IsWhole(q)
    BY <1>3, <1>5, <2>1, <2>2, <2>6 DEF IsWhole
  <2> QED
    BY <1>1, <1>2, <2>1, <2>3, <2>4, <2>5, <2>7, QuietMirror DEF InStep
<1>7. CASE ~PassedOver(f)
  <2> DEFINE q == [j EXCEPT !.pc = "compare", !.todo = j.todo \ {f}, !.file = f,
                            !.text = disk[f], !.pieces = Cut[disk[f]]]
  <2>1. /\ q.pc = "compare" /\ q.todo = j.todo \ {f} /\ q.walked = j.walked /\ q.stored = j.stored
        /\ q.whole = j.whole /\ q.file = f /\ q.text = disk[f] /\ q.pieces = Cut[disk[f]]
    BY <1>1 DEF Job
  <2>2. /\ HasFile(q) /\ ~Removes(q) /\ Left(q) = j.todo
        /\ Unsettled(q) = j.todo \cup (Files \ j.walked)
    BY <2>1 DEF HasFile, Removes, Left, Unsettled
  <2>3. job' = [job EXCEPT ![p] = q]
    BY <1>4, <1>7
  <2> HIDE DEF q
  <2>4. InLists(q)
    BY <1>1, <1>3, <1>5, <2>1, <2>2 DEF InLists
  <2>5. InHand(q)
    BY <2>1, <2>2 DEF InHand
  <2>6. IsWhole(q)
    BY <1>3, <1>5, <2>1, <2>2 DEF IsWhole
  <2> QED
    BY <1>1, <1>2, <2>1, <2>3, <2>4, <2>5, <2>6, QuietMirror DEF InStep
<1> QED
  BY <1>6, <1>7

\* The fields of a job that only moves on.
LEMMA GotoFields ==
  ASSUME Types, NEW p \in Procs, NEW pc, Goto(p, pc)
  PROVE  \E q : /\ job' = [job EXCEPT ![p] = q]
                /\ q.pc = pc /\ q.walked = job[p].walked /\ q.stored = job[p].stored
                /\ q.todo = job[p].todo /\ q.file = job[p].file /\ q.text = job[p].text
                /\ q.pieces = job[p].pieces /\ q.whole = job[p].whole
<1> DEFINE q == [job[p] EXCEPT !.pc = pc]
<1>1. job[p] \in Job
  BY DEF Types, TypeOK
<1>2. /\ q.pc = pc /\ q.walked = job[p].walked /\ q.stored = job[p].stored
      /\ q.todo = job[p].todo /\ q.file = job[p].file /\ q.text = job[p].text
      /\ q.pieces = job[p].pieces /\ q.whole = job[p].whole
  BY <1>1 DEF Job
<1>3. job' = [job EXCEPT ![p] = q]
  BY DEF Goto
<1> HIDE DEF q
<1> QED
  BY <1>2, <1>3

LEMMA CompareMirror ==
  ASSUME Types, Alone, Synced, NEW p \in Procs, Compare(p)
  PROVE  Synced'
<1> DEFINE j == job[p]
           f == j.file
<1>1. /\ j \in Job /\ j.pc = "compare" /\ Ingesting(p) /\ ~Replaces(j)
      /\ f \in Files /\ j.text \in Contents
  BY DEF Types, TypeOK, FilesKnown, Compare, Ingesting, Replaces
<1>2. Still /\ mirrored' = mirrored /\ Goto(p, AfterCompare(p))
  BY DEF Compare, Still, histVars, dbVars
<1>3. InLists(j) /\ InHand(j) /\ IsWhole(j) /\ RowsFollowHashes /\ HalfIsSeen
  BY <1>1 DEF Synced, PassesInStep, InStep
<1>4. PICK q : /\ job' = [job EXCEPT ![p] = q]
               /\ q.pc = AfterCompare(p) /\ q.walked = j.walked /\ q.stored = j.stored
               /\ q.todo = j.todo /\ q.file = f /\ q.text = j.text
               /\ q.pieces = j.pieces /\ q.whole = j.whole
  BY <1>2, GotoFields
<1>5. j.text # None
  BY <1>1, FileIndexAssumption
<1>6. /\ ~Removes(j) /\ HasFile(j) /\ Left(j) = j.todo \cup {f} /\ f \in j.walked
      /\ Unsettled(j) = j.todo \cup {f} \cup (Files \ j.walked)
      /\ j.pieces = Cut[j.text]
  BY <1>1, <1>3, <1>5 DEF Removes, HasFile, Left, Unsettled, InLists, InHand
<1>7. CASE AfterCompare(p) = "next"
  <2>1. hashes[f] = j.text
    BY <1>7 DEF AfterCompare
  <2>2. /\ ~Removes(q) /\ ~HasFile(q) /\ Left(q) = j.todo
        /\ Unsettled(q) = j.todo \cup (Files \ j.walked)
    BY <1>4, <1>7 DEF Removes, HasFile, Left, Unsettled
  <2>3. InLists(q)
    BY <1>1, <1>3, <1>4, <1>6, <1>7, <2>2 DEF InLists
  <2>4. InHand(q)
    BY <1>4, <1>7, <2>2 DEF InHand
  <2>5. IsWhole(q)
    BY <1>3, <1>4, <1>6, <2>1, <2>2 DEF IsWhole
  <2> QED
    BY <1>1, <1>2, <1>4, <2>3, <2>4, <2>5, QuietMirror DEF InStep
<1>8. CASE AfterCompare(p) = "drop vectors"
  <2>1. hashes[f] # j.text /\ hashes[f] # None
    BY <1>8 DEF AfterCompare
  <2>2. /\ ~Removes(q) /\ HasFile(q) /\ Left(q) = j.todo \cup {f} /\ Unsettled(q) = Unsettled(j)
    BY <1>4, <1>5, <1>6, <1>8 DEF Removes, HasFile, Left, Unsettled
  <2>3. InLists(q)
    BY <1>1, <1>3, <1>4, <1>6, <1>8, <2>2 DEF InLists
  <2>4. InHand(q)
    BY <1>1, <1>3, <1>4, <1>6, <1>8, <2>1 DEF InHand
  <2>5. IsWhole(q)
    BY <1>3, <1>4, <1>6, <2>2 DEF IsWhole
  <2> QED
    BY <1>1, <1>2, <1>4, <2>3, <2>4, <2>5, QuietMirror DEF InStep
<1>9. CASE AfterCompare(p) = "insert"
  <2>1. hashes[f] # j.text /\ hashes[f] = None
    BY <1>5, <1>9 DEF AfterCompare
  <2>2. /\ ~Removes(q) /\ HasFile(q) /\ Left(q) = j.todo \cup {f} /\ Unsettled(q) = Unsettled(j)
    BY <1>4, <1>5, <1>6, <1>9 DEF Removes, HasFile, Left, Unsettled
  <2>3. InLists(q)
    BY <1>1, <1>3, <1>4, <1>6, <1>9, <2>2 DEF InLists
  <2>4. f \notin stale => TextsOf(f) \subseteq Cut[j.text]
    <3>1. CASE f \notin half \cup stale
      <4>1. \A r \in Procs : Replaces(job[r]) => r # p /\ Ingesting(r)
        BY <1>1 DEF Replaces, Ingesting
      <4>2. \A r \in Procs : ~Replaces(job[r])
        BY <1>1, <4>1 DEF Alone
      <4>3. TextsOf(f) = {}
        BY <1>1, <1>3, <2>1, <3>1, <4>2 DEF RowsFollowHashes, CutOf
      <4> QED
        BY <4>3
    <3>2. CASE f \in half \ stale
      <4>1. disk[f] = j.text /\ TextsOf(f) \subseteq CutOf(disk[f])
        BY <1>3, <1>6, <2>1, <3>2 DEF InHand, HalfIsSeen
      <4> QED
        BY <1>5, <4>1 DEF CutOf
    <3> QED
      BY <3>1, <3>2
  <2>5. InHand(q)
    BY <1>1, <1>3, <1>4, <1>6, <1>9, <2>1, <2>4 DEF InHand
  <2>6. IsWhole(q)
    BY <1>3, <1>4, <1>6, <2>2 DEF IsWhole
  <2> QED
    BY <1>1, <1>2, <1>4, <2>3, <2>5, <2>6, QuietMirror DEF InStep
<1> QED
  BY <1>7, <1>8, <1>9 DEF AfterCompare

LEMMA DetectMirror ==
  ASSUME Types, Alone, Synced, NEW p \in Procs, DetectDeletions(p)
  PROVE  Synced'
<1> DEFINE j == job[p]
           q == [j EXCEPT !.pc = "gone", !.todo = Gone(p)]
<1>1. j \in Job /\ j.pc = "next" /\ j.todo = {} /\ Ingesting(p) /\ ~Replaces(j)
  BY DEF Types, TypeOK, DetectDeletions, Ingesting, Replaces
<1>2. job' = [job EXCEPT ![p] = q] /\ Still /\ mirrored' = mirrored
  BY DEF DetectDeletions, Still, histVars, dbVars
<1>3. InLists(j) /\ IsWhole(j)
  BY <1>1 DEF Synced, PassesInStep, InStep
<1>4. /\ q.pc = "gone" /\ q.todo = j.stored \ j.walked /\ q.walked = j.walked
      /\ q.stored = j.stored /\ q.whole = j.whole
      /\ j.stored \subseteq Files
  BY <1>1 DEF Job, Gone
<1>5. /\ ~HasFile(j) /\ ~Removes(j) /\ Left(j) = {} /\ Unsettled(j) = Files \ j.walked
  BY <1>1 DEF HasFile, Removes, Left, Unsettled
<1>6. ~HasFile(q) /\ Removes(q) /\ Left(q) = q.todo /\ Unsettled(q) = q.todo
  BY <1>4 DEF HasFile, Removes, Left, Unsettled
<1> HIDE DEF q
<1>7. InLists(q)
  BY <1>1, <1>3, <1>4, <1>5, <1>6 DEF InLists
<1>8. InHand(q)
  BY <1>4, <1>6 DEF InHand
<1>9. IsWhole(q)
  <2> SUFFICES ASSUME j.whole, NEW f \in Files, f \notin q.todo \cup stale, disk[f] # Blank
               PROVE  hashes[f] = disk[f]
    BY <1>3, <1>4, <1>6 DEF IsWhole
  <2>1. CASE f \in j.walked
    BY <1>3, <1>5, <2>1 DEF IsWhole
  <2>2. CASE f \notin j.walked
    <3>1. hashes[f] = None
      BY <1>1, <1>3, <1>4, <2>2 DEF InLists
    <3>2. disk[f] = None
      BY <1>3, <2>2 DEF IsWhole
    <3> QED
      BY <3>1, <3>2
  <2> QED
    BY <2>1, <2>2
<1> QED
  BY <1>1, <1>2, <1>4, <1>7, <1>8, <1>9, QuietMirror DEF InStep

LEMMA GoneMirror ==
  ASSUME Types, Alone, Synced, NEW p \in Procs, DropGone(p)
  PROVE  Synced'
<1> DEFINE j == job[p]
<1>1. j \in Job /\ j.pc = "gone" /\ Ingesting(p) /\ ~Replaces(j)
  BY DEF Types, TypeOK, DropGone, Ingesting, Replaces
<1>2. Still /\ mirrored' = mirrored
  BY DEF DropGone, Still, histVars, dbVars
<1>3. InLists(j) /\ IsWhole(j)
  BY <1>1 DEF Synced, PassesInStep, InStep
<1>4. PICK f \in j.todo :
        job' = [job EXCEPT ![p] =
                  [j EXCEPT !.pc = "drop vectors", !.todo = j.todo \ {f}, !.file = f,
                            !.text = None]]
  BY DEF DropGone
<1> DEFINE q == [j EXCEPT !.pc = "drop vectors", !.todo = j.todo \ {f}, !.file = f, !.text = None]
<1>5. /\ q.pc = "drop vectors" /\ q.todo = j.todo \ {f} /\ q.file = f /\ q.text = None
      /\ q.walked = j.walked /\ q.stored = j.stored /\ q.whole = j.whole
  BY <1>1 DEF Job
<1>6. /\ Removes(j) /\ ~HasFile(j) /\ Left(j) = j.todo /\ Unsettled(j) = j.todo
      /\ j.todo \subseteq j.stored \ j.walked /\ j.stored \subseteq Files
      /\ hashes[f] # None
  BY <1>1, <1>3 DEF HasFile, Removes, Left, Unsettled, InLists, Job
<1>7. Removes(q) /\ HasFile(q) /\ Left(q) = j.todo /\ Unsettled(q) = j.todo
  BY <1>5 DEF HasFile, Removes, Left, Unsettled
<1> HIDE DEF q
<1>8. InLists(q)
  BY <1>1, <1>3, <1>5, <1>6, <1>7 DEF InLists
<1>9. InHand(q)
  <2>1. f \in half \ stale => disk[f] = None
    BY <1>3, <1>6 DEF InLists
  <2> QED
    BY <1>5, <1>6, <2>1 DEF InHand
<1>10. IsWhole(q)
  BY <1>3, <1>5, <1>6, <1>7 DEF IsWhole
<1> QED
  BY <1>1, <1>2, <1>4, <1>5, <1>8, <1>9, <1>10, QuietMirror DEF InStep, q

\* Vectors say nothing about texts.
LEMMA DropVectorsMirror ==
  ASSUME Types, Alone, Synced, NEW p \in Procs, DropVectors(p)
  PROVE  Synced'
<1> DEFINE j == job[p]
<1>1. j \in Job /\ j.pc = "drop vectors" /\ Ingesting(p) /\ ~Replaces(j)
  BY DEF Types, TypeOK, DropVectors, Ingesting, Replaces
<1>2. Still /\ mirrored' = mirrored /\ Goto(p, "drop chunks")
  BY DEF DropVectors, Still, histVars
<1>3. InLists(j) /\ InHand(j) /\ IsWhole(j)
  BY <1>1 DEF Synced, PassesInStep, InStep
<1> DEFINE pc == "drop chunks"
<1>a. Goto(p, pc)
  BY <1>2
<1> HIDE DEF pc
<1>4. PICK q : /\ job' = [job EXCEPT ![p] = q]
               /\ q.pc = pc /\ q.walked = j.walked /\ q.stored = j.stored
               /\ q.todo = j.todo /\ q.file = j.file /\ q.text = j.text
               /\ q.pieces = j.pieces /\ q.whole = j.whole
  BY <1>a, GotoFields
<1> USE DEF pc
<1>5. /\ HasFile(j) /\ HasFile(q) /\ (Removes(j) <=> Removes(q))
      /\ Left(q) = Left(j) /\ Unsettled(q) = Unsettled(j)
  BY <1>1, <1>4 DEF HasFile, Removes, Left, Unsettled
<1>6. InLists(q)
  BY <1>1, <1>3, <1>4, <1>5 DEF InLists
<1>7. InHand(q)
  BY <1>1, <1>3, <1>4, <1>5 DEF InHand
<1>8. IsWhole(q)
  BY <1>3, <1>4, <1>5 DEF IsWhole
<1> QED
  BY <1>1, <1>2, <1>4, <1>6, <1>7, <1>8, QuietMirror DEF InStep

\* A whole pass that ends leaves nothing unsettled.
LEMMA EndMirror ==
  ASSUME Types, Alone, Synced, NEW p \in Procs, EndIngest(p)
  PROVE  Synced'
<1> DEFINE j == job[p]
<1>1. j \in Job /\ j.pc = "gone" /\ j.todo = {} /\ Ingesting(p) /\ ~Replaces(j)
  BY DEF Types, TypeOK, EndIngest, Ingesting, Replaces
<1>2. Still /\ mirrored' = (mirrored \/ j.whole)
  BY DEF EndIngest, Still, dbVars
<1>3. job'[p].pc \in {"load", "idle"}
  BY DEF EndIngest, AfterIngest, Rest, Types, TypeOK
<1>4. \A r \in Procs \ {p} : job'[r] = job[r] /\ ~Ingesting(r)
  BY <1>1 DEF EndIngest, Types, TypeOK, Alone
<1>5. \A r \in Procs : ~Ingesting(r)'
  BY <1>3, <1>4 DEF Ingesting
<1>6. \A f : TextsOf(f)' = TextsOf(f)
  BY <1>2, StillTexts
<1>7. RowsFollowHashes'
  <2>1. \A r \in Procs : ~Replaces(job[r])
    BY <1>1, <1>4 DEF Replaces, Ingesting
  <2> QED
    BY <1>2, <1>6, <2>1 DEF RowsFollowHashes, Synced, Still
<1>8. HalfIsSeen'
  BY <1>2, <1>6 DEF HalfIsSeen, Synced, Still
<1>9. PassesInStep'
  BY <1>5 DEF PassesInStep
<1>10. Mirrored'
  <2>1. j.whole => \A f \in Files \ stale : disk[f] # Blank => hashes[f] = disk[f]
    <3>1. IsWhole(j)
      BY <1>1 DEF Synced, PassesInStep, InStep
    <3>2. Unsettled(j) = {}
      BY <1>1 DEF Unsettled, Left, HasFile, Removes
    <3> QED
      BY <3>1, <3>2 DEF IsWhole
  <2>2. mirrored' => \A f \in Files \ stale : disk[f] # Blank => hashes[f] = disk[f]
    BY <1>1, <1>2, <2>1 DEF Synced, Mirrored, Job
  <2> QED
    BY <1>2, <1>5, <2>2 DEF Mirrored, Still
<1> QED
  BY <1>7, <1>8, <1>9, <1>10 DEF Synced

(***************************************************************************)
(* A step that writes the rows or the hash of the file it has in hand: the *)
(* facts about other files, and other callers, are as before.              *)
(***************************************************************************)
LEMMA WriteMirror ==
  ASSUME Types, Alone, Synced, NEW p \in Procs, Replaces(job[p]),
         NEW q, job' = [job EXCEPT ![p] = q], NEW f \in Files, f = job[p].file,
         UNCHANGED <<disk, stale, mirrored>>, half' \subseteq half, half \ {f} \subseteq half',
         \A g \in Files \ {f} : TextsOf(g)' = TextsOf(g) /\ hashes'[g] = hashes[g],
         \/ Replaces(q) /\ q.file = f
         \/ f \in half' \cup stale
         \/ TextsOf(f)' = CutOf(hashes'[f]),
         f \in half' \ stale =>
           hashes'[f] = hashes[f] /\ (hashes[f] = None => TextsOf(f)' \subseteq CutOf(disk[f])),
         InStep(q)', q.whole = job[p].whole,
         hashes'[f] = hashes[f] \/ (job[p].whole => hashes'[f] = disk[f])
  PROVE  Synced'
<1>1. Ingesting(p) /\ job[p].pc # "walk"
  BY DEF Replaces, Ingesting
<1>2. job'[p] = q /\ \A r \in Procs \ {p} : job'[r] = job[r] /\ ~Ingesting(r) /\ ~Ingesting(r)'
  BY <1>1 DEF Types, TypeOK, Alone, Ingesting
<1>3. \A r \in Procs : Replaces(job[r]) => r = p
  BY <1>2 DEF Replaces, Ingesting
<1>4. half \subseteq Files /\ stale \subseteq Files
  BY DEF Types, TypeOK
<1>5. RowsFollowHashes'
  <2> SUFFICES ASSUME NEW g \in Files, g \notin half' \cup stale,
                      \A r \in Procs : Replaces(job'[r]) => job'[r].file # g
               PROVE  TextsOf(g)' = CutOf(hashes'[g])
    BY DEF RowsFollowHashes, CutOf
  <2>1. CASE g = f
    BY <1>2, <2>1
  <2>2. CASE g # f
    <3>1. TextsOf(g) = CutOf(hashes[g])
      BY <1>3, <2>2 DEF Synced, RowsFollowHashes
    <3> QED
      BY <2>2, <3>1
  <2> QED
    BY <2>1, <2>2
<1>6. HalfIsSeen'
  <2> SUFFICES ASSUME NEW g \in half' \ stale
               PROVE  /\ disk[g] # Blank
                      /\ hashes'[g] # disk[g]
                      /\ hashes'[g] = None => TextsOf(g)' \subseteq CutOf(disk[g])
    BY DEF HalfIsSeen, CutOf
  <2>1. /\ disk[g] # Blank /\ hashes[g] # disk[g]
        /\ hashes[g] = None => TextsOf(g) \subseteq CutOf(disk[g])
    BY DEF Synced, HalfIsSeen
  <2>2. CASE g = f
    BY <2>1, <2>2
  <2>3. CASE g # f
    BY <1>4, <2>1, <2>3
  <2> QED
    BY <2>2, <2>3
<1>7. PassesInStep'
  BY <1>2 DEF PassesInStep
<1>8. Mirrored'
  <2> SUFFICES ASSUME mirrored
               PROVE  /\ \A g \in Files \ stale : disk[g] # Blank => hashes'[g] = disk[g]
                      /\ job[p].whole
    BY <1>2 DEF Mirrored
  <2>1. /\ \A g \in Files \ stale : disk[g] # Blank => hashes[g] = disk[g]
        /\ job[p].whole
    BY <1>1 DEF Synced, Mirrored
  <2> QED
    BY <2>1
<1> QED
  BY <1>5, <1>6, <1>7, <1>8 DEF Synced

LEMMA DropChunksMirror ==
  ASSUME Types, Alone, Synced, NEW p \in Procs, DropChunks(p)
  PROVE  Synced'
<1> DEFINE j == job[p]
           pc == IF j.text = None THEN "forget" ELSE "insert"
<1>1. j \in Job /\ j.pc = "drop chunks" /\ Ingesting(p) /\ Replaces(j) /\ j.file \in Files
  BY DEF Types, TypeOK, FilesKnown, DropChunks, Ingesting, Replaces
<1>a. PICK f \in Files : f = j.file
  BY <1>1
<1>2. /\ chunks' = chunks \ RowsOf(f)
      /\ UNCHANGED <<hashes, disk, stale, mirrored, half>>
      /\ Goto(p, pc)
  BY <1>a DEF DropChunks, histVars
<1>3. InLists(j) /\ InHand(j) /\ IsWhole(j) /\ HalfIsSeen
  BY <1>1 DEF Synced, PassesInStep, InStep
<1> HIDE DEF pc
<1>4. PICK q : /\ job' = [job EXCEPT ![p] = q]
               /\ q.pc = pc /\ q.walked = j.walked /\ q.stored = j.stored
               /\ q.todo = j.todo /\ q.file = f /\ q.text = j.text
               /\ q.pieces = j.pieces /\ q.whole = j.whole
  BY <1>2, <1>a, GotoFields
<1>5. TextsOf(f)' = {} /\ \A g \in Files \ {f} : TextsOf(g)' = TextsOf(g)
  BY <1>2 DEF TextsOf, RowsOf
<1>6. /\ HasFile(j) /\ HasFile(q) /\ Replaces(q) /\ (Removes(j) <=> Removes(q))
      /\ Left(q) = Left(j) /\ Unsettled(q) = Unsettled(j)
  BY <1>a, <1>1, <1>4 DEF HasFile, Replaces, Removes, Left, Unsettled, pc
<1>7. InLists(q)'
  BY <1>a, <1>1, <1>2, <1>3, <1>4, <1>6 DEF InLists, pc
<1>8. InHand(q)'
  BY <1>a, <1>1, <1>2, <1>3, <1>4, <1>5, <1>6 DEF InHand, pc
<1>9. IsWhole(q)'
  BY <1>a, <1>2, <1>3, <1>4, <1>6 DEF IsWhole
<1>10. InStep(q)'
  BY <1>7, <1>8, <1>9 DEF InStep
<1>11. f \in half' \ stale =>
         hashes'[f] = hashes[f] /\ (hashes[f] = None => TextsOf(f)' \subseteq CutOf(disk[f]))
  BY <1>2, <1>5
<1> QED
  BY <1>a, <1>1, <1>2, <1>4, <1>5, <1>6, <1>10, <1>11, WriteMirror

LEMMA InsertMirror ==
  ASSUME Types, Alone, Synced, NEW p \in Procs, Insert(p)
  PROVE  Synced'
<1> DEFINE j == job[p]
<1>1. /\ j \in Job /\ j.pc = "insert" /\ Ingesting(p) /\ Replaces(j) /\ j.file \in Files
      /\ j.text \in Contents /\ j.text # None
  BY FileIndexAssumption DEF Types, TypeOK, FilesKnown, Insert, Ingesting, Replaces
<1>a. PICK f \in Files : f = j.file
  BY <1>1
<1>2. PICK piece \in j.pieces :
        /\ chunks' = IF \E c \in RowsOf(f) : c.text = piece
                     THEN chunks
                     ELSE chunks \cup {[id |-> NextId, file |-> f, text |-> piece]}
        /\ job' = [job EXCEPT ![p].pieces = @ \ {piece}]
  BY <1>a DEF Insert
<1>3. UNCHANGED <<hashes, disk, stale, mirrored, half>>
  BY DEF Insert, histVars
<1>4. InLists(j) /\ InHand(j) /\ IsWhole(j) /\ HalfIsSeen
  BY <1>1 DEF Synced, PassesInStep, InStep
<1>5. PICK q : q = [j EXCEPT !.pieces = j.pieces \ {piece}] /\ job' = [job EXCEPT ![p] = q]
  BY <1>2
<1>6. /\ q.pc = "insert" /\ q.walked = j.walked /\ q.stored = j.stored
      /\ q.todo = j.todo /\ q.file = f /\ q.text = j.text
      /\ q.pieces = j.pieces \ {piece} /\ q.whole = j.whole
  BY <1>1, <1>5, <1>a DEF Job
<1>7. TextsOf(f)' = TextsOf(f) \cup {piece} /\ \A g \in Files \ {f} : TextsOf(g)' = TextsOf(g)
  <2>1. CASE \E c \in RowsOf(f) : c.text = piece
    <3>1. \A g \in Files : TextsOf(g)' = TextsOf(g)
      BY <1>2, <2>1 DEF TextsOf, RowsOf
    <3>2. piece \in TextsOf(f)
      BY <2>1 DEF TextsOf
    <3> QED
      BY <1>1, <3>1, <3>2
  <2>2. CASE ~\E c \in RowsOf(f) : c.text = piece
    <3> DEFINE row == [id |-> NextId, file |-> f, text |-> piece]
    <3>1. chunks' = chunks \cup {row} /\ row.file = f /\ row.text = piece
      BY <1>2, <2>2
    <3> HIDE DEF row
    <3>2. \A g : TextsOf(g)' = {c.text : c \in {c \in chunks' : c.file = g}}
      BY DEF TextsOf, RowsOf
    <3>3. \A g : TextsOf(g) = {c.text : c \in {c \in chunks : c.file = g}}
      BY DEF TextsOf, RowsOf
    <3>4. {c \in chunks' : c.file = f} = {c \in chunks : c.file = f} \cup {row}
      BY <3>1
    <3>5. \A g \in Files \ {f} : {c \in chunks' : c.file = g} = {c \in chunks : c.file = g}
      BY <3>1
    <3>6. TextsOf(f)' = TextsOf(f) \cup {piece}
      BY <3>1, <3>2, <3>3, <3>4
    <3>7. \A g \in Files \ {f} : TextsOf(g)' = TextsOf(g)
      BY <3>2, <3>3, <3>5
    <3> QED
      BY <3>6, <3>7
  <2> QED
    BY <2>1, <2>2
<1>8. /\ HasFile(j) /\ HasFile(q) /\ Replaces(q) /\ ~Removes(j) /\ ~Removes(q)
      /\ Left(q) = Left(j) /\ Unsettled(q) = Unsettled(j)
  BY <1>a, <1>1, <1>6 DEF HasFile, Replaces, Removes, Left, Unsettled
<1>9. InLists(q)'
  BY <1>a, <1>1, <1>3, <1>4, <1>6, <1>8 DEF InLists
<1>10. piece \in Cut[j.text]
  BY <1>1, <1>4 DEF InHand
<1>11. InHand(q)'
  BY <1>a, <1>1, <1>3, <1>4, <1>6, <1>7, <1>8, <1>10 DEF InHand
<1>12. IsWhole(q)'
  BY <1>a, <1>3, <1>4, <1>6, <1>8 DEF IsWhole
<1>13. InStep(q)'
  BY <1>9, <1>11, <1>12 DEF InStep
<1>14. f \in half' \ stale =>
         hashes'[f] = hashes[f] /\ (hashes[f] = None => TextsOf(f)' \subseteq CutOf(disk[f]))
  <2>1. f \in half \ stale => disk[f] = j.text
    BY <1>a, <1>4, <1>8 DEF InHand
  <2> QED
    BY <1>1, <1>3, <1>4, <1>7, <1>10, <2>1 DEF HalfIsSeen, CutOf
<1> QED
  BY <1>a, <1>1, <1>3, <1>6, <1>5, <1>7, <1>8, <1>13, <1>14, WriteMirror

\* The last statement of a replacement stores the hash, or forgets it.
LEMMA HashMirror ==
  ASSUME Types, Alone, Synced, NEW p \in Procs, Record(p) \/ Forget(p)
  PROVE  Synced'
<1> DEFINE j == job[p]
           pc == IF j.pc = "insert" THEN "next" ELSE "gone"
<1>1. /\ j \in Job /\ j.pc \in {"insert", "forget"} /\ Ingesting(p) /\ Replaces(j)
      /\ j.file \in Files
      /\ j.pc = "insert" => j.pieces = {} /\ j.text \in Contents
  BY DEF Types, TypeOK, FilesKnown, Record, Forget, Ingesting, Replaces
<1>a. PICK f \in Files : f = j.file
  BY <1>1
<1>2. InLists(j) /\ InHand(j) /\ IsWhole(j)
  BY <1>1 DEF Synced, PassesInStep, InStep
<1>3. j.pc = "forget" => j.text = None
  BY <1>2 DEF InHand
<1>4. /\ hashes' = [hashes EXCEPT ![f] = j.text]
      /\ half' = half \ {f}
      /\ UNCHANGED <<chunks, disk, stale, mirrored>>
      /\ Goto(p, pc)
  BY <1>3, <1>a DEF Record, Forget
<1> HIDE DEF pc
<1>5. PICK q : /\ job' = [job EXCEPT ![p] = q]
               /\ q.pc = pc /\ q.walked = j.walked /\ q.stored = j.stored
               /\ q.todo = j.todo /\ q.file = f /\ q.text = j.text
               /\ q.pieces = j.pieces /\ q.whole = j.whole
  BY <1>4, <1>a, GotoFields
<1>6. /\ \A g : TextsOf(g)' = TextsOf(g)
      /\ hashes'[f] = j.text
      /\ \A g \in Files \ {f} : hashes'[g] = hashes[g]
  BY <1>1, <1>4 DEF TextsOf, RowsOf, Types, TypeOK
<1>7. f \notin stale => TextsOf(f) = CutOf(j.text)
  <2>1. CASE j.pc = "insert"
    <3>1. j.text # None
      BY <1>1, <2>1, FileIndexAssumption
    <3>2. f \notin stale => TextsOf(j.file) = Cut[j.text]
      BY <1>a, <1>1, <1>2, <2>1 DEF InHand
    <3> QED
      BY <1>a, <3>1, <3>2 DEF CutOf
  <2>2. CASE j.pc = "forget"
    <3>1. j.text = None /\ TextsOf(j.file) = {}
      BY <1>2, <2>2 DEF InHand
    <3> QED
      BY <1>a, <3>1 DEF CutOf
  <2> QED
    BY <1>1, <2>1, <2>2
<1>8. /\ HasFile(j) /\ ~HasFile(q) /\ (Removes(j) <=> Removes(q)) /\ (Removes(j) <=> j.pc = "forget")
      /\ Left(j) = j.todo \cup {f} /\ Left(q) = j.todo /\ f \notin j.todo
      /\ Removes(j) => Unsettled(j) = Left(j) /\ Unsettled(q) = Left(q)
      /\ ~Removes(j) => /\ Unsettled(j) = Left(j) \cup (Files \ j.walked)
                        /\ Unsettled(q) = Left(q) \cup (Files \ j.walked)
      /\ Removes(j) <=> f \notin j.walked
  BY <1>a, <1>1, <1>2, <1>5 DEF HasFile, Removes, Left, Unsettled, InLists, pc
<1>9. InLists(q)'
  <2>1. q.pc # "hashes" /\ Left(q) \subseteq Left(j)
    BY <1>1, <1>5, <1>8 DEF pc
  <2>2. \A g \in half' \ stale : g \in q.walked <=> disk[g] # None
    BY <1>2, <1>4, <1>5 DEF InLists
  <2>3. \A g \in Files \ (q.stored \cup q.walked) : hashes'[g] = None
    BY <1>1, <1>2, <1>3, <1>5, <1>6, <1>8 DEF InLists
  <2>4. \A g \in q.stored \ q.walked : ~Removes(q) \/ g \in q.todo => hashes'[g] # None
    <3> SUFFICES ASSUME NEW g \in j.stored \ j.walked, ~Removes(j) \/ g \in j.todo
                 PROVE  hashes'[g] # None
      BY <1>5, <1>8
    <3>1. g # f /\ g \in Files
      BY <1>1, <1>8 DEF Job
    <3>2. hashes[g] # None
      BY <1>1, <1>2 DEF InLists
    <3> QED
      BY <1>6, <3>1, <3>2
  <2> QED
    BY <1>2, <1>4, <1>5, <1>8, <2>1, <2>2, <2>3, <2>4 DEF InLists
<1>10. InHand(q)'
  BY <1>1, <1>5, <1>8 DEF InHand, pc
<1>11. IsWhole(q)'
  <2> SUFFICES ASSUME j.whole
               PROVE  /\ j.walked = {g \in Files : disk[g] # None}
                      /\ \A g \in Files \ (Unsettled(q) \cup stale) :
                           disk[g] # Blank => hashes'[g] = disk[g]
    BY <1>4, <1>5, <1>8 DEF IsWhole
  <2>1. /\ j.walked = {g \in Files : disk[g] # None} /\ j.text = disk[f]
        /\ \A g \in Files \ (Unsettled(j) \cup stale) : disk[g] # Blank => hashes[g] = disk[g]
    BY <1>a, <1>2, <1>8 DEF IsWhole
  <2>2. Unsettled(j) \subseteq Unsettled(q) \cup {f}
    BY <1>8
  <2> QED
    BY <1>6, <2>1, <2>2
<1>12. InStep(q)'
  BY <1>9, <1>10, <1>11 DEF InStep
<1>13. TextsOf(f)' = CutOf(hashes'[f]) \/ f \in half' \cup stale
  BY <1>6, <1>7
<1>14. f \notin half'
  BY <1>4
<1>15. j.whole => hashes'[f] = disk[f]
  BY <1>a, <1>2, <1>6, <1>8 DEF IsWhole
<1> QED
  BY <1>a, <1>1, <1>4, <1>5, <1>6, <1>12, <1>13, <1>14, <1>15, WriteMirror

\* A caller that embeds, ends, or is about to walk, while the tables stay.
LEMMA BesideMirror ==
  ASSUME Types, Synced, Still, mirrored' = mirrored, NEW p \in Procs, ~Replaces(job[p]),
         \A r \in Procs \ {p} : job'[r] = job[r],
         ~Ingesting(p)' \/ job'[p].pc = "walk"
  PROVE  Synced'
<1>1. \A r \in Procs : Ingesting(r)' => job'[r].pc = "walk" \/ (job'[r] = job[r] /\ Ingesting(r))
  BY DEF Ingesting
<1>2. \A f : TextsOf(f)' = TextsOf(f)
  BY StillTexts
<1>3. RowsFollowHashes'
  BY <1>2 DEF RowsFollowHashes, Synced, Still
<1>4. HalfIsSeen'
  BY <1>2 DEF HalfIsSeen, Synced, Still
<1>5. PassesInStep'
  <2> SUFFICES ASSUME NEW r \in Procs, Ingesting(r)', NEW q, q = job'[r]
               PROVE  InStep(q)'
    BY DEF PassesInStep
  <2>a. q.pc = "walk" => InStep(q)'
    BY DEF InStep
  <2>1. q.pc # "walk" => InStep(q)
    BY <1>1 DEF Synced, PassesInStep
  <2> QED
    BY <2>a, <2>1, StillInStep
<1>6. Mirrored'
  BY <1>1 DEF Mirrored, Synced, Still
<1> QED
  BY <1>3, <1>4, <1>5, <1>6 DEF Synced

LEMMA EmbedMirror ==
  ASSUME Types, Synced, NEW p \in Procs, Load(p) \/ Embed(p) \/ EmbedFails(p) \/ EndEmbed(p)
  PROVE  Synced'
<1>1. job[p] \in Job /\ ~Replaces(job[p])
  BY DEF Types, TypeOK, Replaces, Load, Embed, EmbedFails, EndEmbed
<1>2. Still /\ mirrored' = mirrored
  BY DEF Load, Embed, EmbedFails, EndEmbed, Still, histVars, dbVars
<1>3. \A r \in Procs \ {p} : job'[r] = job[r]
  BY DEF Types, TypeOK, Load, Embed, EmbedFails, EndEmbed
<1>4. job'[p].pc \in {"embed", "idle"}
  <2>1. CASE Load(p)
    BY <1>1, <2>1 DEF Load, Types, TypeOK, Job
  <2>2. CASE Embed(p)
    BY <1>1, <2>2 DEF Embed, Types, TypeOK, Job
  <2>3. CASE EmbedFails(p) \/ EndEmbed(p)
    BY <2>3 DEF EmbedFails, EndEmbed, Types, TypeOK, Rest
  <2> QED
    BY <2>1, <2>2, <2>3
<1> QED
  BY <1>1, <1>2, <1>3, <1>4, BesideMirror DEF Ingesting

\* A caller begins.
LEMMA BeginMirror ==
  ASSUME Types, Synced, Expire \/ \E p \in Procs : Start(p)
  PROVE  Synced'
<1>1. Still /\ mirrored' = mirrored
  BY DEF Expire, Start, Still, dbVars
<1>2. PICK p \in Procs, pc \in {"walk", "load"} : job[p].pc = "idle" /\ Goto(p, pc)
  BY DEF Expire, Start, Procs
<1>3. job'[p].pc = pc /\ \A r \in Procs \ {p} : job'[r] = job[r]
  BY <1>2, GotoMoves
<1>4. ~Replaces(job[p])
  BY <1>2 DEF Replaces
<1> QED
  BY <1>1, <1>2, <1>3, <1>4, BesideMirror DEF Ingesting

\* Someone changes a file: no pass is whole any more.
LEMMA EditMirror ==
  ASSUME Types, Synced, NEW f \in Files, Edit(f)
  PROVE  Synced'
<1>1. /\ UNCHANGED <<chunks, hashes, half>> /\ mirrored' = FALSE
      /\ stale' = IF f \in half THEN stale \cup {f} ELSE stale
      /\ disk \in [Files -> Contents \cup {Blank, None}] /\ half \subseteq Files
      /\ job \in [Procs -> Job]
  BY DEF Edit, dbVars, Types, TypeOK
<1>2. \A g \in Files \ {f} : disk'[g] = disk[g]
  BY <1>1 DEF Edit
<1>3. \A g : TextsOf(g)' = TextsOf(g)
  BY <1>1 DEF TextsOf, RowsOf
<1>4. \A r \in Procs :
        /\ job'[r].pc = job[r].pc /\ job'[r].walked = job[r].walked
        /\ job'[r].stored = job[r].stored /\ job'[r].todo = job[r].todo
        /\ job'[r].file = job[r].file /\ job'[r].text = job[r].text
        /\ job'[r].pieces = job[r].pieces /\ job'[r].whole = FALSE
  <2>1. \A r \in Procs : job[r] \in Job /\ job'[r] = [job[r] EXCEPT !.whole = FALSE]
    BY <1>1 DEF Edit
  <2> QED
    BY <2>1 DEF Job
<1>5. half' \ stale' \subseteq half \ stale /\ f \notin half' \ stale' /\ stale \subseteq stale'
  BY <1>1
<1>6. RowsFollowHashes'
  <2> SUFFICES ASSUME NEW g \in Files, g \notin half' \cup stale',
                      \A r \in Procs : Replaces(job'[r]) => job'[r].file # g
               PROVE  TextsOf(g)' = CutOf(hashes'[g])
    BY DEF RowsFollowHashes, CutOf
  <2>1. \A r \in Procs : Replaces(job[r]) => job[r].file # g
    BY <1>4 DEF Replaces
  <2> QED
    BY <1>1, <1>3, <1>5, <2>1 DEF RowsFollowHashes, Synced
<1>7. HalfIsSeen'
  BY <1>1, <1>2, <1>3, <1>5 DEF HalfIsSeen, Synced, CutOf
<1>8. PassesInStep'
  <2> SUFFICES ASSUME NEW r \in Procs, Ingesting(r)', NEW q, q = job'[r]
               PROVE  InStep(q)'
    BY DEF PassesInStep
  <2>1. PICK j : j = job[r]
    OBVIOUS
  <2>3. q.pc # "walk" => InLists(j) /\ InHand(j)
    BY <1>4, <2>1 DEF Synced, PassesInStep, InStep, Ingesting
  <2>4. /\ q.pc = j.pc /\ q.walked = j.walked /\ q.stored = j.stored /\ q.todo = j.todo
        /\ q.file = j.file /\ q.text = j.text /\ q.pieces = j.pieces /\ q.whole = FALSE
    BY <1>4, <2>1
  <2>5. (HasFile(q) <=> HasFile(j)) /\ (Removes(q) <=> Removes(j)) /\ Left(q) = Left(j)
    BY <2>4 DEF HasFile, Removes, Left
  <2>6. q.pc # "walk" => InLists(q)'
    BY <1>1, <1>2, <1>5, <2>3, <2>4, <2>5 DEF InLists
  <2>7. q.pc # "walk" => InHand(q)'
    BY <1>1, <1>2, <1>3, <1>5, <2>3, <2>4, <2>5 DEF InHand
  <2>8. IsWhole(q)'
    BY <2>4 DEF IsWhole
  <2> QED
    BY <2>6, <2>7, <2>8 DEF InStep
<1>9. Mirrored'
  BY <1>1 DEF Mirrored
<1> QED
  BY <1>6, <1>7, <1>8, <1>9 DEF Synced

(***************************************************************************)
(* Passes end where they are.  The file whose rows one of them was         *)
(* replacing is half done; its hash is not what the pass had read, so that *)
(* the next pass sees it, unless the file has changed meanwhile.           *)
(***************************************************************************)
LEMMA AbandonMirror ==
  ASSUME Types, Alone, Synced, UNCHANGED <<chunks, hashes, disk, mirrored>>,
         NEW P \in SUBSET Procs, Abandon(P),
         \A r \in Procs \ P : job'[r] = job[r],
         \A r \in P : ~Replaces(job'[r]) /\ (Ingesting(r)' => job'[r].pc = "walk")
  PROVE  Synced'
<1> DEFINE left == {p \in P : Replaces(job[p])}
<1>1. /\ half' = half \cup {job[p].file : p \in left}
      /\ stale' = stale \cup {f \in Files : \E p \in left : job[p].file = f /\ job[p].text # disk[f]}
  BY DEF Abandon, Replaces
<1>2. \A g : TextsOf(g)' = TextsOf(g)
  BY DEF TextsOf, RowsOf
<1>3. \A p \in left : Ingesting(p) /\ job[p].pc # "walk"
  BY DEF Replaces, Ingesting
<1>4. \A r \in Procs : Ingesting(r)' /\ job'[r].pc # "walk" =>
        r \notin P /\ Ingesting(r) /\ job'[r] = job[r] /\ left = {}
  <2> SUFFICES ASSUME NEW r \in Procs, Ingesting(r)', job'[r].pc # "walk"
               PROVE  r \notin P /\ Ingesting(r) /\ job'[r] = job[r] /\ left = {}
    OBVIOUS
  <2>1. r \notin P /\ job'[r] = job[r]
    OBVIOUS
  <2>2. Ingesting(r)
    BY <2>1 DEF Ingesting
  <2>3. \A p \in P : ~Ingesting(p)
    BY <2>1, <2>2 DEF Alone
  <2> QED
    BY <1>3, <2>1, <2>2, <2>3
<1>5. RowsFollowHashes'
  <2> SUFFICES ASSUME NEW g \in Files, g \notin half' \cup stale',
                      \A r \in Procs : Replaces(job'[r]) => job'[r].file # g
               PROVE  TextsOf(g) = CutOf(hashes[g])
    BY <1>2 DEF RowsFollowHashes
  <2>1. ASSUME NEW r \in Procs, Replaces(job[r]) PROVE job[r].file # g
    <3>1. CASE r \in P
      BY <1>1, <2>1, <3>1
    <3>2. CASE r \notin P
      BY <2>1, <3>2
    <3> QED
      BY <3>1, <3>2
  <2> QED
    BY <1>1, <2>1 DEF RowsFollowHashes, Synced
<1>6. HalfIsSeen'
  <2> SUFFICES ASSUME NEW g \in half' \ stale'
               PROVE  /\ disk[g] # Blank /\ hashes[g] # disk[g]
                      /\ hashes[g] = None => TextsOf(g) \subseteq CutOf(disk[g])
    BY <1>2 DEF HalfIsSeen
  <2>1. CASE g \in half
    BY <1>1, <2>1 DEF HalfIsSeen, Synced
  <2>2. CASE g \notin half
    <3>1. PICK p \in left : job[p].file = g
      BY <1>1, <2>2
    <3>2. g \in Files /\ job[p] \in Job
      BY <3>1 DEF Types, TypeOK, FilesKnown, Replaces
    <3>3. job[p].text = disk[g] /\ g \notin stale
      BY <1>1, <3>1, <3>2
    <3>4. InHand(job[p])
      BY <1>3, <3>1 DEF Synced, PassesInStep, InStep
    <3>5. /\ job[p].pc \in {"drop chunks", "insert", "forget"}
          /\ job[p].pc = "insert" => job[p].text \in Contents
      BY <3>1 DEF Replaces, Types, FilesKnown
    <3>6. disk[g] # Blank
      BY <3>2, <3>3, FileIndexAssumption DEF Job
    <3>7. hashes[g] # disk[g]
      BY <3>1, <3>3, <3>4, <3>5 DEF InHand
    <3>8. ASSUME hashes[g] = None PROVE TextsOf(g) \subseteq CutOf(disk[g])
      <4>1. job[p].pc = "insert"
        BY <3>1, <3>4, <3>5, <3>8 DEF InHand
      <4>2. disk[g] # None
        BY <3>3, <3>5, <4>1, FileIndexAssumption
      <4>3. TextsOf(job[p].file) \subseteq Cut[job[p].text]
        BY <3>1, <3>3, <3>4, <4>1 DEF InHand
      <4> QED
        BY <3>1, <3>3, <4>2, <4>3 DEF CutOf
    <3> QED
      BY <3>6, <3>7, <3>8
  <2> QED
    BY <2>1, <2>2
<1>7. PassesInStep'
  <2> SUFFICES ASSUME NEW r \in Procs, Ingesting(r)', NEW q, q = job'[r]
               PROVE  InStep(q)'
    BY DEF PassesInStep
  <2>a. q.pc = "walk" => InStep(q)'
    BY DEF InStep
  <2>1. q.pc # "walk" => InStep(q) /\ Still
    BY <1>1, <1>4 DEF Synced, PassesInStep, Still
  <2> QED
    BY <2>a, <2>1, StillInStep
<1>8. Mirrored'
  <2>1. stale \subseteq stale'
    BY <1>1
  <2> QED
    BY <1>4, <2>1 DEF Mirrored, Synced
<1> QED
  BY <1>5, <1>6, <1>7, <1>8 DEF Synced

LEMMA FaultMirror ==
  ASSUME Types, Alone, Synced, Crash \/ \E p \in Procs : Fail(p)
  PROVE  Synced'
<1>1. UNCHANGED <<chunks, hashes, disk, mirrored>> /\ job \in [Procs -> Job]
  BY DEF Crash, Fail, dbVars, Types, TypeOK
<1>2. CASE Crash
  <2>1. \A r \in Procs : job'[r].pc \in {"walk", "idle"}
    BY <1>2 DEF Crash, Rest
  <2>2. \A r \in Procs : ~Replaces(job'[r]) /\ (Ingesting(r)' => job'[r].pc = "walk")
    BY <2>1 DEF Replaces, Ingesting
  <2>3. Abandon(Procs)
    BY <1>2 DEF Crash
  <2> QED
    BY <1>1, <2>2, <2>3, AbandonMirror
<1>3. ASSUME NEW p \in Procs, Fail(p) PROVE Synced'
  <2>1. job'[p].pc \in {"load", "idle"} /\ \A r \in Procs \ {p} : job'[r] = job[r]
    BY <1>1, <1>3 DEF Fail, Rest
  <2>2. \A r \in {p} : ~Replaces(job'[r]) /\ (Ingesting(r)' => job'[r].pc = "walk")
    BY <2>1 DEF Replaces, Ingesting
  <2>3. Abandon({p})
    BY <1>3 DEF Fail
  <2> QED
    BY <1>1, <2>1, <2>2, <2>3, AbandonMirror
<1> QED
  BY <1>2, <1>3

LEMMA MirrorStep == Types /\ Truth /\ Mirror /\ [Next]_vars => Mirror'
<1> SUFFICES ASSUME Types, Truth, Mirror, [Next]_vars, ~crossed' PROVE Synced'
  BY DEF Mirror
<1>1. ~crossed
  BY DEF Next, Step, vars, Edit, Start, Fail, Expire, Crash, Crosses, Walk, LoadHashes, Read, Compare,
         DropVectors, DropChunks, Insert, Record, DetectDeletions, DropGone, Forget, EndIngest,
         Load, Embed, EmbedFails, EndEmbed, histVars
<1>2. Alone /\ Synced
  BY <1>1 DEF Truth, Mirror
<1>3. CASE \E f \in Files : Edit(f)
  BY <1>2, <1>3, EditMirror
<1>4. CASE Expire \/ \E p \in Procs : Start(p)
  BY <1>2, <1>4, BeginMirror
<1>5. CASE Crash \/ \E p \in Procs : Fail(p)
  BY <1>2, <1>5, FaultMirror
<1>6. CASE \E p \in Procs : Step(p)
  BY <1>2, <1>6, WalkMirror, LoadMirror, ReadMirror, CompareMirror, DropVectorsMirror,
     DropChunksMirror, InsertMirror, HashMirror, DetectMirror, GoneMirror, EndMirror, EmbedMirror
     DEF Step
<1>7. CASE UNCHANGED vars
  <2>1. Still /\ mirrored' = mirrored /\ job' = job
    BY <1>7 DEF vars, Still
  <2>2. Watcher \in Procs
    BY DEF Procs
  <2>3. \A f : TextsOf(f)' = TextsOf(f)
    BY <2>1, StillTexts
  <2>4. RowsFollowHashes' /\ HalfIsSeen'
    BY <1>2, <2>1, <2>3 DEF RowsFollowHashes, HalfIsSeen, Synced, Still
  <2>5. PassesInStep'
    <3> SUFFICES ASSUME NEW r \in Procs, Ingesting(r)', NEW q, q = job'[r]
                 PROVE  InStep(q)'
      BY DEF PassesInStep
    <3>1. InStep(q)
      BY <1>2, <2>1 DEF Synced, PassesInStep, Ingesting
    <3> QED
      BY <2>1, <3>1, StillInStep
  <2>6. Mirrored'
    BY <1>2, <2>1 DEF Mirrored, Synced, Still, Ingesting
  <2> QED
    BY <2>4, <2>5, <2>6 DEF Synced
<1> QED
  BY <1>3, <1>4, <1>5, <1>6, <1>7 DEF Next

(* When a whole pass has ended since the last change, the index holds exactly  *)
(* what the files say, whatever failed before it; except for a file that was   *)
(* blank, or that changed after a pass had ended halfway through it, and       *)
(* unless two callers got into each other's way.                               *)
THEOREM IndexIsMirror == Spec => []IndexMirrorsDisk
<1>1. Types /\ Truth /\ Mirror => IndexMirrorsDisk
  <2> SUFFICES ASSUME Types, Truth, Mirror, mirrored, ~crossed,
                      NEW f \in Files \ stale, disk[f] # Blank
               PROVE  TextsOf(f) = CutOf(disk[f])
    BY DEF IndexMirrorsDisk, TextsOf, CutOf
  <2>1. Synced
    BY DEF Mirror
  <2>2. hashes[f] = disk[f]
    BY <2>1 DEF Synced, Mirrored
  <2>3. f \notin half
    BY <2>1, <2>2 DEF Synced, HalfIsSeen
  <2>4. ASSUME NEW p \in Procs, Replaces(job[p]) PROVE job[p].file # f
    <3>1. Ingesting(p) /\ job[p].pc # "walk" /\ HasFile(job[p])
      BY <2>4 DEF Replaces, Ingesting, HasFile
    <3>2. job[p].whole /\ IsWhole(job[p]) /\ InHand(job[p])
      BY <2>1, <3>1 DEF Synced, Mirrored, PassesInStep, InStep
    <3>3. job[p].text = disk[job[p].file]
      BY <3>1, <3>2 DEF IsWhole
    <3>4. hashes[job[p].file] # job[p].text
      BY <2>4, <3>2 DEF InHand, Replaces
    <3> QED
      BY <2>2, <3>3, <3>4
  <2> QED
    BY <2>1, <2>2, <2>3, <2>4 DEF Synced, RowsFollowHashes
<1> QED
  BY <1>1, TruthInit, TruthStep, TypesAlways, MirrorInit, MirrorStep, PTL DEF Spec
-----------------------------------------------------------------------------
(* Chunking *)

\* Snapping moves back by less than the width of a character.
LEMMA SnapCorrect ==
  ASSUME NEW len \in Nat, NEW starts, IsText(len, starts), NEW i \in 0 .. len
  PROVE  /\ Snap(starts, i) \in starts
         /\ Snap(starts, i) <= i
         /\ i < Snap(starts, i) + Width
         /\ \A t \in starts : t <= i => t <= Snap(starts, i)
<1>1. starts \subseteq Int
  BY DEF IsText
<1>2. PICK s \in starts : s <= i /\ i < s + Width
  BY DEF IsText
<1>3. \E m \in starts : m <= i /\ \A t \in starts : t <= i => t <= m
  <2>1. CASE i \in starts
    BY <1>1, <2>1
  <2>2. CASE i \notin starts /\ i - 1 \in starts
    BY <1>1, <2>2
  <2>3. CASE i \notin starts /\ i - 1 \notin starts /\ i - 2 \in starts
    BY <1>1, <2>3
  <2>4. CASE i \notin starts /\ i - 1 \notin starts /\ i - 2 \notin starts
    <3>1. s = i - 3
      BY <1>1, <1>2, <2>4 DEF Width
    <3> QED
      BY <1>1, <1>2, <2>4, <3>1
  <2> QED
    BY <2>1, <2>2, <2>3, <2>4
<1>4. /\ Snap(starts, i) \in starts
      /\ Snap(starts, i) <= i
      /\ \A t \in starts : t <= i => t <= Snap(starts, i)
  BY <1>3 DEF Snap
<1>5. s <= Snap(starts, i)
  BY <1>2, <1>4
<1>6. s \in Int /\ Snap(starts, i) \in Int /\ i \in Int
  <2>1. s \in Int
    BY <1>1, <1>2
  <2>2. Snap(starts, i) \in Int
    BY <1>1, <1>4
  <2>3. i \in Int
    OBVIOUS
  <2> QED
    BY <2>1, <2>2, <2>3
<1>7. i < Snap(starts, i) + Width
  BY <1>2, <1>5, <1>6 DEF Width
<1> QED
  BY <1>4, <1>7

(***************************************************************************)
(* Cutting ends, and leaves nothing out: a window that is not the last one *)
(* is followed by one that starts later, and no later than where it ends.  *)
(* (the loop of split_into_chunks_ranged, which has no guard of its own)   *)
(***************************************************************************)
THEOREM WindowsAdvance ==
  ASSUME NEW len \in Nat, NEW starts, IsText(len, starts),
         NEW max \in Nat, NEW overlap \in Nat, max - overlap > 2 * (Width - 1),
         NEW start \in starts, start < len,
         WindowEnd(len, starts, max, start) # len
  PROVE  /\ NextStart(len, starts, max, overlap, start) \in starts
         /\ start < NextStart(len, starts, max, overlap, start)
         /\ NextStart(len, starts, max, overlap, start) <= WindowEnd(len, starts, max, start)
         /\ WindowEnd(len, starts, max, start) - start <= max
<1> DEFINE end == WindowEnd(len, starts, max, start)
           next == NextStart(len, starts, max, overlap, start)
           stop == Least(start + max, len)
           back == Less(end, overlap)
<1>1. start \in 0 .. len /\ len \in starts /\ starts \subseteq 0 .. len
  BY DEF IsText
<1>2. stop \in 0 .. len /\ stop <= start + max
  BY <1>1 DEF Least
<1>3. end \in starts /\ end <= stop /\ stop < end + Width
  BY <1>2, SnapCorrect DEF WindowEnd
<1>4. end \in 0 .. len
  BY <1>1, <1>3
<1>5. stop = start + max
  <2>1. stop # len
    <3>1. ASSUME stop = len PROVE FALSE
      <4>1. Snap(starts, len) = len
        <5>1. len \in 0 .. len
          OBVIOUS
        <5>2. Snap(starts, len) \in starts /\ Snap(starts, len) <= len
          BY <5>1, SnapCorrect
        <5>3. \A t \in starts : t <= len => t <= Snap(starts, len)
          BY <5>1, SnapCorrect
        <5>4. len <= len
          OBVIOUS
        <5>5. len <= Snap(starts, len)
          BY <1>1, <5>3, <5>4
        <5>6. starts \subseteq Int
          BY <1>1
        <5>7. Snap(starts, len) \in Int
          BY <5>2, <5>6
        <5> QED
          BY <5>2, <5>5, <5>7
      <4> QED
        BY <3>1, <4>1 DEF WindowEnd
    <3> QED
      BY <3>1
  <2> QED
    BY <2>1 DEF Least
<1>6. back \in 0 .. len /\ back <= end /\ end - overlap <= back
  BY <1>4 DEF Less
<1>7. next \in starts /\ next <= back /\ back < next + Width
  BY <1>6, SnapCorrect DEF NextStart
<1>8. next \in 0 .. len
  BY <1>1, <1>7
<1>9. next <= end /\ end - start <= max
  <2> HIDE DEF next, end, back, stop
  <2> QED
    BY <1>1, <1>2, <1>3, <1>4, <1>6, <1>7, <1>8
<1>10. start < next
  <2> HIDE DEF next, end, back, stop
  <2> QED
    BY <1>1, <1>3, <1>4, <1>5, <1>6, <1>7, <1>8 DEF Width
<1> QED
  BY <1>7, <1>9, <1>10
=============================================================================
