-------------------------- MODULE TranscriptProofs --------------------------
(***************************************************************************)
(* Proofs that the ingest of a transcript keeps its types, skips nothing,  *)
(* never mixes conversations and, undisturbed, stores nothing twice, for   *)
(* every number of writers and callers, every length of the file and every *)
(* number of crashes and of passes that fail.                              *)
(***************************************************************************)
EXTENDS Transcript, FiniteSetTheorems, WellFoundedInduction, TLAPS

(***************************************************************************)
(* What a pass takes for an entry: it has a line of its own so far.  A     *)
(* whole entry is one, but so is the last token before its newline is      *)
(* written, and a pass may store its cursor behind that one.               *)
(***************************************************************************)
Said(i) ==
  /\ file[i] = "append"
  /\ i = 1 \/ file[i - 1] = Newline
  /\ i = Len(file) \/ file[i + 1] = Newline

(***************************************************************************)
(* The cursor, and the copy of it that a pass works from, are behind no    *)
(* entry that is not in a chunk; nor is the place where a pass will leave  *)
(* the cursor, but for the chunks that it has still to store.              *)
(***************************************************************************)
CursorBacked == \A i \in 1 .. cursor.off : Said(i) => Indexed(i)

PassesBacked ==
  \A p \in Ingesters :
    /\ \A i \in 1 .. pass[p].off : Said(i) => Indexed(i)
    /\ \A i \in 1 .. pass[p].end :
         Said(i) => Indexed(i) \/ \E c \in pass[p].todo : i \in c.at

(***************************************************************************)
(* A chunk holds entries of one conversation.                              *)
(***************************************************************************)
OneConversation(c) ==
  /\ \A i \in c.at : file[i] = "append"
  /\ \A i, j \in c.at : \A r \in i .. j : ~(file[r] = "reset" /\ Whole(r))

ChunksKept ==
  /\ \A c \in chunks : OneConversation(c)
  /\ \A p \in Ingesters : \A c \in pass[p].todo : OneConversation(c)

(***************************************************************************)
(* What a dream pass has read, the model has answered for or will be sent. *)
(***************************************************************************)
DreamBacked ==
  dream.on => \A i \in 1 .. dream.upTo : Said(i) => i \in dreamt \/ i \in dream.todo

\* The inductive invariant, together with the types.
Inv == CursorBacked /\ PassesBacked /\ ChunksKept /\ DreamBacked
-----------------------------------------------------------------------------
(* Lemmas on the operators of process_file *)

\* The number of newlines in a stretch of the file is a number.
LEMMA NewlinesType ==
  ASSUME NEW a \in Int, NEW b \in Int
  PROVE  Newlines(a, b) \in Nat
<1> DEFINE S == {i \in a + 1 .. b : file[i] = Newline}
<1>1. IsFiniteSet(a + 1 .. b)
  BY FS_Interval
<1>2. IsFiniteSet(S)
  BY <1>1, FS_Subset
<1> QED
  BY <1>2, FS_CardinalityType DEF Newlines

\* A set of positions has a first one and, within bounds, a last one.
LEMMA HasFirst ==
  ASSUME NEW S \in SUBSET Nat, S # {}
  PROVE  \E i \in S : \A j \in S : i <= j
<1>1. PICK i \in S : \A j \in S : ~(<<j, i>> \in OpToRel(<, Nat))
  BY NatLessThanWellFounded, WFMin
<1>2. \A j \in S : ~(j < i)
  BY <1>1 DEF OpToRel
<1> QED
  BY <1>2

LEMMA HasLast ==
  ASSUME NEW n \in Nat, NEW S \in SUBSET (1 .. n), S # {}
  PROVE  \E i \in S : \A j \in S : j <= i
<1> DEFINE T == {n - i : i \in S}
<1>1. T \in SUBSET Nat /\ T # {}
  OBVIOUS
<1>2. PICK k \in T : \A m \in T : k <= m
  BY <1>1, HasFirst
<1>3. PICK i \in S : k = n - i
  OBVIOUS
<1>4. \A j \in S : n - i <= n - j
  BY <1>2, <1>3
<1> QED
  BY <1>4

\* What flush_segment stores for some entries of the file is a chunk.
LEMMA ChunkOfType ==
  ASSUME NEW at \in SUBSET (1 .. Len(file)), at # {}, Len(file) \in Nat,
         NEW off \in Int, NEW line \in Nat
  PROVE  ChunkOf(at, off, line) \in Chunk
<1> DEFINE lineOf(i) == line + 1 + Newlines(off, i - 1)
           first == CHOOSE i \in at : \A j \in at : i <= j
           last == CHOOSE i \in at : \A j \in at : j <= i
<1>1. first \in at
  <2>1. \E i \in at : \A j \in at : i <= j
    BY HasFirst
  <2> QED
    BY <2>1
<1>2. last \in at
  <2>1. \E i \in at : \A j \in at : j <= i
    BY HasLast
  <2> QED
    BY <2>1
<1>3. ASSUME NEW i \in at PROVE lineOf(i) \in Nat
  <2>1. i - 1 \in Int
    OBVIOUS
  <2>2. Newlines(off, i - 1) \in Nat
    BY <2>1, NewlinesType
  <2> QED
    BY <2>2
<1>4. lineOf(first) \in Nat /\ lineOf(last) \in Nat
  BY <1>1, <1>2, <1>3
<1>5. ChunkOf(at, off, line) = [at |-> at, first |-> lineOf(first), last |-> lineOf(last)]
  BY DEF ChunkOf
<1> QED
  BY <1>4, <1>5 DEF Chunk

\* A new token takes nothing from what was in the file, and makes no entry of
\* the file one that has a line of its own.
LEMMA AppendKeeps ==
  ASSUME TypeOK, NEW x, file' = Append(file, x)
  PROVE  /\ Len(file) \in Nat /\ Len(file') = Len(file) + 1
         /\ \A i \in 1 .. Len(file) : /\ file'[i] = file[i]
                                      /\ Said(i)' => Said(i)
                                      /\ file[i] = "reset" /\ i < Len(file) /\ Whole(i)' => Whole(i)
<1>1. Len(file) \in Nat /\ Len(file') = Len(file) + 1
  BY DEF TypeOK
<1>2. \A i \in 1 .. Len(file) : file'[i] = file[i]
  BY DEF TypeOK
<1>3. ASSUME NEW i \in 1 .. Len(file) PROVE Said(i)' => Said(i)
  BY <1>1, <1>2 DEF Said
<1>4. ASSUME NEW i \in 1 .. Len(file), i < Len(file), Whole(i)' PROVE Whole(i)
  BY <1>1, <1>2, <1>4 DEF Whole
<1> QED
  BY <1>1, <1>2, <1>3, <1>4

(***************************************************************************)
(* The chunks of a read: each holds entries of the file, of one            *)
(* conversation, and every entry that was read is in one.                  *)
(***************************************************************************)
LEMMA SegmentsCorrect ==
  ASSUME TypeOK, NEW off \in Offsets, NEW line \in Nat
  PROVE  /\ Segments(off, line, Len(file)) \subseteq Chunk
         /\ \A c \in Segments(off, line, Len(file)) : OneConversation(c)
         /\ \A i \in off + 1 .. Len(file) :
              Said(i) => \E c \in Segments(off, line, Len(file)) : i \in c.at
<1> DEFINE n == Len(file)
           parsed == Parsed(off, n)
           said == {i \in parsed : file[i] = "append"}
           at(i) == {j \in said : SameSegment(i, j, parsed)}
<1>1. n \in Nat /\ off \in 0 .. n /\ parsed \subseteq off + 1 .. n
  BY DEF TypeOK, Offsets, Parsed
<1>2. Segments(off, line, n) = {ChunkOf(at(i), off, line) : i \in said}
  BY DEF Segments
<1>3. \A i \in said : at(i) \in SUBSET (1 .. n)
  BY <1>1
<1>4. \A i \in said : i \in at(i)
  <2>1. ASSUME NEW i \in said PROVE Before(i, i, parsed) = {}
    BY <1>1 DEF Before
  <2> QED
    BY <2>1 DEF SameSegment
<1>5. \A i \in said : ChunkOf(at(i), off, line) \in Chunk
  <2> HIDE DEF at, said, parsed
  <2> QED
    BY <1>1, <1>3, <1>4, ChunkOfType
<1>6. \A i \in said : ChunkOf(at(i), off, line).at = at(i)
  BY DEF ChunkOf
<1>7. ASSUME NEW i \in said, NEW j \in at(i), NEW k \in at(i), NEW r \in j .. k,
             file[r] = "reset", Whole(r)
      PROVE  FALSE
  <2>1. r \in parsed
    BY <1>1, <1>7 DEF Parsed, Whole, Newline
  <2>2. i \in off + 1 .. n /\ j \in off + 1 .. n /\ k \in off + 1 .. n /\ file[i] = "append"
    BY <1>1
  <2>3. r # i
    BY <2>2, <1>7
  <2>4. Before(i, k, parsed) = {} /\ Before(j, i, parsed) = {}
    BY DEF SameSegment
  <2>5. (i <= r /\ r <= k) \/ (j <= r /\ r <= i)
    BY <2>2, <2>3
  <2>6. r \in Before(i, k, parsed) \/ r \in Before(j, i, parsed)
    BY <1>7, <2>1, <2>5 DEF Before
  <2> QED
    BY <2>4, <2>6
<1>8. ASSUME NEW c \in Segments(off, line, n) PROVE OneConversation(c)
  <2>1. PICK i \in said : c = ChunkOf(at(i), off, line)
    BY <1>2
  <2>2. c.at = at(i)
    BY <2>1, <1>6
  <2>3. \A j \in c.at : file[j] = "append"
    BY <2>2
  <2>4. \A j, k \in c.at : \A r \in j .. k : ~(file[r] = "reset" /\ Whole(r))
    BY <2>2, <1>7
  <2> QED
    BY <2>3, <2>4 DEF OneConversation
<1>9. ASSUME NEW i \in off + 1 .. n, Said(i)
      PROVE  \E c \in Segments(off, line, n) : i \in c.at
  <2>1. i \in said
    BY <1>1, <1>9 DEF Parsed, Said, Newline
  <2>2. ChunkOf(at(i), off, line) \in Segments(off, line, n)
    BY <2>1, <1>2
  <2>3. i \in ChunkOf(at(i), off, line).at
    BY <2>1, <1>4, <1>6
  <2> QED
    BY <2>2, <2>3
<1> QED
  BY <1>2, <1>5, <1>8, <1>9
-----------------------------------------------------------------------------
(***************************************************************************)
(* The types hold initially and are preserved by every step.               *)
(***************************************************************************)
Passing == [pc : {"idle", "cursor", "read", "flush"}, off : Offsets, line : Nat,
            end : Offsets, endLine : Nat, todo : SUBSET Chunk]
Dreaming == [on : BOOLEAN, upTo : Offsets, todo : SUBSET (1 .. Len(file))]

LEMMA StartsPassing ==
  ASSUME TypeOK
  PROVE  NoPass \in Passing /\ NewPass \in Passing
<1>1. 0 \in Offsets
  BY DEF TypeOK, Offsets
<1> QED
  BY <1>1 DEF NoPass, NewPass, Passing

LEMMA TypeOKInit == Init => TypeOK
<1> SUFFICES ASSUME Init PROVE TypeOK
  OBVIOUS
<1>1. file = <<>> /\ 0 \in Offsets
  BY DEF Init, Offsets
<1>2. NoPass \in Passing /\ NewPass \in Passing
  BY <1>1 DEF NoPass, NewPass, Passing
<1>3. pass \in [Ingesters -> Passing]
  BY <1>2 DEF Init
<1>4. cursor \in [off : Offsets, line : Nat]
  BY <1>1 DEF Init
<1>5. <<entries, passes, faults>> \in Bounds
  BY TranscriptAssumption DEF Init
<1>6. file \in Seq(Kinds \cup {Newline})
  BY <1>1
<1>7. /\ dream \in Dreaming
      /\ dreamt \subseteq 1 .. Len(file)
      /\ unseen \subseteq 1 .. Len(file)
  BY <1>1 DEF Init, NoDream, Dreaming
<1> QED
  BY <1>3, <1>4, <1>5, <1>6, <1>7 DEF Init, TypeOK, Passing, Dreaming

\* What is written makes the file longer, and what held of it holds on.
LEMMA WriteKeepsType ==
  ASSUME TypeOK, NEW x \in Kinds \cup {Newline}, file' = Append(file, x),
         UNCHANGED <<chunks, cursor, pass, dreamVars>>
  PROVE  /\ file' \in Seq(Kinds \cup {Newline})
         /\ chunks' \subseteq Chunk'
         /\ cursor' \in [off : Offsets', line : Nat]
         /\ pass' \in [Ingesters -> Passing']
         /\ dream' \in Dreaming'
         /\ dreamt' \subseteq 1 .. Len(file')
         /\ unseen' \subseteq 1 .. Len(file')
<1>1. Len(file) \in Nat /\ Len(file') = Len(file) + 1
  BY AppendKeeps
<1>2. Offsets \subseteq Offsets'
  BY <1>1 DEF Offsets
<1>3. Chunk \subseteq Chunk'
  BY <1>1 DEF Chunk
<1>4. Passing \subseteq Passing'
  BY <1>2, <1>3 DEF Passing
<1>5. pass \in [Ingesters -> Passing] /\ dream \in Dreaming
  BY DEF TypeOK, Passing, Dreaming
<1>6. 1 .. Len(file) \subseteq 1 .. Len(file')
  BY <1>1
<1>7. Dreaming \subseteq Dreaming'
  BY <1>2, <1>6 DEF Dreaming
<1>8. /\ dream' \in Dreaming'
      /\ dreamt' \subseteq 1 .. Len(file')
      /\ unseen' \subseteq 1 .. Len(file')
  BY <1>5, <1>6, <1>7 DEF TypeOK, dreamVars
<1> QED
  BY <1>2, <1>3, <1>4, <1>5, <1>8 DEF TypeOK

LEMMA TypeOKStep == TypeOK /\ [Next]_vars => TypeOK'
<1> SUFFICES ASSUME TypeOK, [Next]_vars PROVE TypeOK'
  OBVIOUS
<1>1. pass \in [Ingesters -> Passing]
  BY DEF TypeOK, Passing
<1>2. ASSUME file' = file PROVE Offsets' = Offsets /\ Chunk' = Chunk /\ Passing' = Passing
  BY <1>2 DEF Offsets, Chunk, Passing
<1>3. ASSUME NEW w \in Writers, WriteLine(w) PROVE TypeOK'
  <2>1. PICK k \in Kinds : file' = Append(file, k)
    BY <1>3 DEF WriteLine
  <2>2. /\ file' \in Seq(Kinds \cup {Newline})
        /\ chunks' \subseteq Chunk'
        /\ cursor' \in [off : Offsets', line : Nat]
        /\ pass' \in [Ingesters -> Passing']
        /\ dream' \in Dreaming'
        /\ dreamt' \subseteq 1 .. Len(file')
        /\ unseen' \subseteq 1 .. Len(file')
    BY <1>3, <2>1, WriteKeepsType DEF WriteLine
  <2> QED
    BY <1>3, <2>2 DEF WriteLine, TypeOK, Passing, Dreaming
<1>4. ASSUME NEW w \in Writers, WriteNewline(w) PROVE TypeOK'
  <2>1. /\ file' \in Seq(Kinds \cup {Newline})
        /\ chunks' \subseteq Chunk'
        /\ cursor' \in [off : Offsets', line : Nat]
        /\ pass' \in [Ingesters -> Passing']
        /\ dream' \in Dreaming'
        /\ dreamt' \subseteq 1 .. Len(file')
        /\ unseen' \subseteq 1 .. Len(file')
    BY <1>4, WriteKeepsType DEF WriteNewline
  <2> QED
    BY <1>4, <2>1 DEF WriteNewline, TypeOK, Passing, Dreaming
<1>5. ASSUME NEW p \in Ingesters, ReadCursor(p) PROVE TypeOK'
  <2>1. pass' \in [Ingesters -> Passing]
    <3>1. cursor.off \in Offsets /\ cursor.line \in Nat
      BY DEF TypeOK
    <3>2. pass' = [pass EXCEPT ![p] = [pass[p] EXCEPT !.pc = "read", !.off = cursor.off,
                                                      !.line = cursor.line]]
      BY <1>1, <1>5 DEF ReadCursor
    <3>3. [pass[p] EXCEPT !.pc = "read", !.off = cursor.off, !.line = cursor.line] \in Passing
      BY <1>1, <3>1 DEF Passing
    <3> QED
      BY <1>1, <3>2, <3>3
  <2> QED
    BY <1>5, <1>2, <2>1 DEF ReadCursor, TypeOK, Passing, dreamVars
<1>6. ASSUME NEW p \in Ingesters, ReadFile(p) PROVE TypeOK'
  <2> DEFINE off == pass[p].off  line == pass[p].line  todo == Segments(off, line, Len(file))
             endLine == line + LinesRead(off, Len(file))
  <2>1. off \in Offsets /\ line \in Nat /\ Len(file) \in Nat
    BY <1>1 DEF Passing, TypeOK
  <2>2. todo \subseteq Chunk
    BY <2>1, SegmentsCorrect
  <2>3. Newlines(off, Len(file)) \in Nat
    <3>1. off \in Int /\ Len(file) \in Int
      BY <2>1 DEF Offsets
    <3> HIDE DEF off
    <3> QED
      BY <3>1, NewlinesType
  <2>4. endLine \in Nat
    BY <2>1, <2>3 DEF LinesRead
  <2>5. EndOffset \in Offsets
    BY <2>1 DEF EndOffset, Offsets
  <2>6. pass' = [pass EXCEPT ![p] = [pass[p] EXCEPT !.pc = "flush", !.end = EndOffset,
                                                    !.endLine = endLine, !.todo = todo]]
    BY <1>6 DEF ReadFile
  <2>7. pass' \in [Ingesters -> Passing]
    <3> HIDE DEF todo, endLine
    <3> QED
      BY <1>1, <2>2, <2>4, <2>5, <2>6 DEF Passing
  <2> QED
    BY <1>6, <1>2, <2>7 DEF ReadFile, TypeOK, Passing, dreamVars
<1>7. ASSUME NEW p \in Ingesters, Flush(p) PROVE TypeOK'
  <2>1. PICK c \in pass[p].todo : /\ chunks' = chunks \cup {c}
                                  /\ pass' = [pass EXCEPT ![p].todo = @ \ {c}]
    BY <1>7 DEF Flush
  <2>2. c \in Chunk /\ pass' \in [Ingesters -> Passing]
    BY <1>1, <2>1 DEF Passing
  <2> QED
    BY <1>7, <1>2, <2>1, <2>2 DEF Flush, TypeOK, Passing, dreamVars
<1>8. ASSUME NEW p \in Ingesters, Save(p) PROVE TypeOK'
  <2>1. pass' \in [Ingesters -> Passing]
    BY <1>1, <1>8, StartsPassing DEF Save
  <2>2. cursor' \in [off : Offsets, line : Nat]
    BY <1>1, <1>8 DEF Save, TypeOK, Passing
  <2> QED
    BY <1>8, <1>2, <2>1, <2>2 DEF Save, TypeOK, Passing, Waiting, dreamVars
<1>9. ASSUME NEW p \in Ingesters, StartPass(p), file' = file
      PROVE  pass' \in [Ingesters -> Passing'] /\ disturbed' \in BOOLEAN
  BY <1>1, <1>2, <1>9, StartsPassing DEF StartPass, TypeOK
<1>10. ASSUME NEW p \in Ingesters, ToolStarts(p) PROVE TypeOK'
  <2>1. pass' \in [Ingesters -> Passing'] /\ disturbed' \in BOOLEAN
    BY <1>9, <1>10 DEF ToolStarts
  <2> QED
    BY <1>10, <1>2, <2>1 DEF ToolStarts, TypeOK, Passing, dreamVars
<1>11. CASE TakeEvents
  BY <1>11, <1>2 DEF TakeEvents, TypeOK, Passing, dreamVars
<1>12. CASE Expire
  <2>1. pass' \in [Ingesters -> Passing'] /\ disturbed' \in BOOLEAN
    BY <1>9, <1>12 DEF Expire, Ingesters
  <2> QED
    BY <1>12, <1>2, <2>1 DEF Expire, TypeOK, Passing, dreamVars
<1>13. CASE Crash
  <2>1. pass' \in [Ingesters -> Passing]
    BY <1>13, StartsPassing DEF Crash
  <2>2. dream' \in Dreaming
    BY <1>13 DEF Crash, NoDream, Dreaming, TypeOK, Offsets
  <2> QED
    BY <1>13, <1>2, <2>1, <2>2 DEF Crash, TypeOK, Passing, Dreaming
<1>14. CASE Restart
  <2>1. pass' \in [Ingesters -> Passing]
    BY <1>1, <1>14, StartsPassing DEF Restart
  <2> QED
    BY <1>14, <1>2, <2>1 DEF Restart, TypeOK, Passing, dreamVars
<1>15. CASE DreamStarts
  <2>1. Flattened \subseteq 1 .. Len(file) /\ Len(file) \in Offsets
    BY DEF Flattened, Parsed, TypeOK, Offsets
  <2> QED
    BY <1>15, <1>2, <2>1 DEF DreamStarts, TypeOK, Passing
<1>16. CASE Consolidate
  <2>1. PICK b \in Batches(dream.todo) : /\ dreamt' = dreamt \cup b
                                          /\ dream' = [dream EXCEPT !.todo = @ \ b]
    BY <1>16 DEF Consolidate
  <2>2. b \subseteq 1 .. Len(file)
    BY <2>1 DEF Batches, TypeOK
  <2>3. dream' \in Dreaming /\ dreamt' \subseteq 1 .. Len(file)
    BY <2>1, <2>2 DEF TypeOK, Dreaming
  <2> QED
    BY <1>16, <1>2, <2>3 DEF Consolidate, TypeOK, Passing, Dreaming
<1>17. CASE DreamFails
  <2>1. dream' \in Dreaming
    BY <1>17 DEF DreamFails, NoDream, Dreaming, TypeOK, Offsets
  <2> QED
    BY <1>17, <1>2, <2>1 DEF DreamFails, TypeOK, Passing, Dreaming
<1>18. CASE ReplaceChunks
  <2>1. dream' \in Dreaming
    BY <1>18 DEF ReplaceChunks, NoDream, Dreaming, TypeOK, Offsets
  <2>2. unseen' \subseteq 1 .. Len(file)
    <3>1. \A c \in chunks : c.at \subseteq 1 .. Len(file)
      BY DEF TypeOK, Chunk
    <3>2. unseen \subseteq 1 .. Len(file)
      BY DEF TypeOK
    <3>3. unseen' = unseen \cup {i \in UNION {c.at : c \in chunks} : i > dream.upTo}
      BY <1>18 DEF ReplaceChunks
    <3>4. UNION {c.at : c \in chunks} \subseteq 1 .. Len(file)
      BY <3>1
    <3> QED
      BY <3>2, <3>3, <3>4
  <2>3. chunks' \subseteq Chunk
    BY <1>18 DEF ReplaceChunks
  <2> QED
    BY <1>18, <1>2, <2>1, <2>2, <2>3 DEF ReplaceChunks, TypeOK, Passing, Dreaming
<1>19. ASSUME NEW p \in Ingesters, PassFails(p) PROVE TypeOK'
  <2>1. pass' \in [Ingesters -> Passing]
    BY <1>1, <1>19, StartsPassing DEF PassFails
  <2> QED
    BY <1>19, <1>2, <2>1 DEF PassFails, TypeOK, Passing, dreamVars
<1>20. CASE UNCHANGED vars
  BY <1>20, <1>2 DEF vars, dreamVars, TypeOK, Passing
<1> QED
  BY <1>3, <1>4, <1>5, <1>6, <1>7, <1>8, <1>10, <1>11, <1>12, <1>13, <1>14, <1>15,
     <1>16, <1>17, <1>18, <1>19, <1>20
  DEF Next, PassStep, Dream

\* Every variable keeps its type, and no offset leaves the file.
THEOREM TypeCorrect == Spec => []TypeOK
  BY TypeOKInit, TypeOKStep, PTL DEF Spec
-----------------------------------------------------------------------------
(***************************************************************************)
(* The inductive invariant: it holds initially, a write cannot disturb it, *)
(* nor can a pass that starts or ends for another reason than its last     *)
(* step; the steps of a pass are taken one by one.                         *)
(***************************************************************************)
LEMMA StartsEmpty ==
  ASSUME NEW q \in {NoPass, NewPass}
  PROVE  q.off = 0 /\ q.end = 0 /\ q.todo = {}
  BY DEF NoPass, NewPass

LEMMA InvInit == Init => Inv
<1> SUFFICES ASSUME Init PROVE Inv
  OBVIOUS
<1>1. cursor.off = 0 /\ chunks = {}
  BY DEF Init
<1>2. \A p \in Ingesters : pass[p].off = 0 /\ pass[p].end = 0 /\ pass[p].todo = {}
  BY StartsEmpty DEF Init
<1>3. ~dream.on
  BY DEF Init, NoDream
<1> QED
  BY <1>1, <1>2, <1>3 DEF Inv, CursorBacked, PassesBacked, ChunksKept, DreamBacked

LEMMA WriteStep ==
  ASSUME TypeOK, Inv, NEW x, file' = Append(file, x),
         UNCHANGED <<chunks, cursor, pass, dreamVars>>
  PROVE  Inv'
<1> USE DEF Inv
<1>1. /\ Len(file) \in Nat
      /\ \A i \in 1 .. Len(file) : /\ file'[i] = file[i]
                                   /\ Said(i)' => Said(i)
                                   /\ file[i] = "reset" /\ i < Len(file) /\ Whole(i)' => Whole(i)
  BY AppendKeeps
<1>2. \A i : Indexed(i)' <=> Indexed(i)
  BY DEF Indexed, Stored, dreamVars
<1>3. cursor.off \in 0 .. Len(file)
  BY DEF TypeOK, Offsets
<1>4. CursorBacked'
  BY <1>1, <1>2, <1>3 DEF CursorBacked
<1>5. \A p \in Ingesters : pass[p].off \in 0 .. Len(file) /\ pass[p].end \in 0 .. Len(file)
  BY DEF TypeOK, Offsets
<1>6. PassesBacked'
  BY <1>1, <1>2, <1>5 DEF PassesBacked
<1>7. ASSUME NEW c \in Chunk, OneConversation(c) PROVE OneConversation(c)'
  <2>1. c.at \subseteq 1 .. Len(file)
    BY DEF Chunk
  <2>2. \A i \in c.at : file[i] = "append" /\ file'[i] = "append"
    BY <1>1, <1>7, <2>1 DEF OneConversation
  <2>3. ASSUME NEW i \in c.at, NEW j \in c.at, NEW r \in i .. j,
               file'[r] = "reset", Whole(r)'
        PROVE  FALSE
    <3>1. r # j
      BY <2>2, <2>3
    <3>2. r \in 1 .. Len(file) /\ r < Len(file)
      BY <1>1, <2>1, <3>1
    <3>3. file[r] = "reset" /\ Whole(r)
      BY <1>1, <2>3, <3>2
    <3> QED
      BY <1>7, <2>3, <3>3 DEF OneConversation
  <2> QED
    BY <2>2, <2>3 DEF OneConversation
<1>8. ChunksKept'
  <2>1. chunks \subseteq Chunk /\ \A p \in Ingesters : pass[p].todo \subseteq Chunk
    BY DEF TypeOK
  <2> QED
    BY <1>7, <2>1 DEF ChunksKept
<1>9. DreamBacked'
  <2>1. dream.upTo \in 0 .. Len(file)
    BY DEF TypeOK, Offsets
  <2> QED
    BY <1>1, <2>1 DEF DreamBacked, dreamVars
<1> QED
  BY <1>4, <1>6, <1>8, <1>9

\* While the file and the chunks stay, so does all that is said of them.
LEMMA SameFile ==
  ASSUME file' = file
  PROVE  /\ \A i : Said(i)' <=> Said(i)
         /\ \A c : OneConversation(c)' <=> OneConversation(c)
<1>1. \A i : Whole(i)' <=> Whole(i)
  BY DEF Whole
<1> QED
  BY <1>1 DEF Said, OneConversation

LEMMA QuietStep ==
  ASSUME Inv, UNCHANGED <<file, chunks, cursor, dreamt, unseen>>,
         dream' = dream \/ dream' = NoDream,
         \A q \in Ingesters : pass'[q] = pass[q] \/ pass'[q] \in {NoPass, NewPass}
  PROVE  Inv'
<1> USE DEF Inv
<1>1. \A i : Indexed(i)' <=> Indexed(i)
  BY DEF Indexed, Stored
<1>2. /\ \A i : Said(i)' <=> Said(i)
      /\ \A c : OneConversation(c)' <=> OneConversation(c)
  BY SameFile
<1>3. CursorBacked'
  BY <1>1, <1>2 DEF CursorBacked
<1>4. ASSUME NEW q \in Ingesters
      PROVE  /\ \A i \in 1 .. pass'[q].off : Said(i)' => Indexed(i)'
             /\ \A i \in 1 .. pass'[q].end :
                  Said(i)' => Indexed(i)' \/ \E c \in pass'[q].todo : i \in c.at
             /\ \A c \in pass'[q].todo : OneConversation(c)'
  <2>1. CASE pass'[q] = pass[q]
    BY <1>1, <1>2, <2>1 DEF PassesBacked, ChunksKept
  <2>2. CASE pass'[q] \in {NoPass, NewPass}
    BY <2>2, StartsEmpty
  <2> QED
    BY <1>4, <2>1, <2>2
<1>5. PassesBacked'
  BY <1>4 DEF PassesBacked
<1>6. ChunksKept'
  BY <1>2, <1>4 DEF ChunksKept
<1>7. DreamBacked'
  BY <1>2 DEF DreamBacked, NoDream
<1> QED
  BY <1>3, <1>5, <1>6, <1>7

LEMMA ReadCursorStep ==
  ASSUME TypeOK, Inv, NEW p \in Ingesters, ReadCursor(p)
  PROVE  Inv'
<1> USE DEF Inv
<1>1. UNCHANGED <<file, chunks, cursor, dreamVars>>
  BY DEF ReadCursor
<1>2. /\ \A i : Said(i)' <=> Said(i)
      /\ \A c : OneConversation(c)' <=> OneConversation(c)
      /\ \A i : Indexed(i)' <=> Indexed(i)
  BY <1>1, SameFile DEF Indexed, Stored, dreamVars
<1>3. \A q \in Ingesters : /\ pass'[q].off = IF q = p THEN cursor.off ELSE pass[q].off
                           /\ pass'[q].end = pass[q].end
                           /\ pass'[q].todo = pass[q].todo
  BY DEF ReadCursor, TypeOK
<1>4. CursorBacked'
  BY <1>1, <1>2 DEF CursorBacked
<1>5. PassesBacked'
  BY <1>2, <1>3 DEF PassesBacked, CursorBacked
<1>6. ChunksKept'
  BY <1>1, <1>2, <1>3 DEF ChunksKept
<1>7. DreamBacked'
  BY <1>1, <1>2 DEF DreamBacked, dreamVars
<1> QED
  BY <1>4, <1>5, <1>6, <1>7

LEMMA ReadFileStep ==
  ASSUME TypeOK, Inv, NEW p \in Ingesters, ReadFile(p)
  PROVE  Inv'
<1> USE DEF Inv
<1> DEFINE off == pass[p].off  new == Segments(off, pass[p].line, Len(file))
<1>1. UNCHANGED <<file, chunks, cursor, dreamVars>>
  BY DEF ReadFile
<1>2. /\ \A i : Said(i)' <=> Said(i)
      /\ \A c : OneConversation(c)' <=> OneConversation(c)
      /\ \A i : Indexed(i)' <=> Indexed(i)
  BY <1>1, SameFile DEF Indexed, Stored, dreamVars
<1>3. \A q \in Ingesters : /\ pass'[q].off = pass[q].off
                           /\ pass'[q].end = IF q = p THEN Len(file) ELSE pass[q].end
                           /\ pass'[q].todo = IF q = p THEN new ELSE pass[q].todo
  BY DEF ReadFile, EndOffset, TypeOK
<1>4. CursorBacked'
  BY <1>1, <1>2 DEF CursorBacked
<1>5. /\ \A c \in new : OneConversation(c)
      /\ \A i \in off + 1 .. Len(file) : Said(i) => \E c \in new : i \in c.at
  <2>1. off \in Offsets /\ pass[p].line \in Nat
    BY DEF TypeOK
  <2> QED
    BY <2>1, SegmentsCorrect
<1>6. off \in 0 .. Len(file) /\ Len(file) \in Nat
  BY DEF TypeOK, Offsets
<1>7. \A i \in 1 .. Len(file) : Said(i) => Indexed(i) \/ \E c \in new : i \in c.at
  <2>1. \A i \in 1 .. off : Said(i) => Indexed(i)
    BY DEF PassesBacked
  <2>2. \A i \in 1 .. Len(file) : i \in 1 .. off \/ i \in off + 1 .. Len(file)
    BY <1>6
  <2> QED
    BY <1>5, <2>1, <2>2
<1>8. PassesBacked'
  <2> HIDE DEF new
  <2> QED
    BY <1>2, <1>3, <1>7 DEF PassesBacked
<1>9. ChunksKept'
  <2> HIDE DEF new
  <2> QED
    BY <1>1, <1>2, <1>3, <1>5 DEF ChunksKept
<1>10. DreamBacked'
  BY <1>1, <1>2 DEF DreamBacked, dreamVars
<1> QED
  BY <1>4, <1>8, <1>9, <1>10

LEMMA FlushStep ==
  ASSUME TypeOK, Inv, NEW p \in Ingesters, Flush(p)
  PROVE  Inv'
<1> USE DEF Inv
<1>1. UNCHANGED <<file, cursor, dreamVars>>
  BY DEF Flush
<1>2. PICK c \in pass[p].todo : /\ chunks' = chunks \cup {c}
                                /\ pass' = [pass EXCEPT ![p].todo = @ \ {c}]
  BY DEF Flush
<1>3. /\ \A i : Said(i)' <=> Said(i)
      /\ \A d : OneConversation(d)' <=> OneConversation(d)
  BY <1>1, SameFile
<1>4. \A i : (Indexed(i) => Indexed(i)') /\ (i \in c.at => Indexed(i)')
  BY <1>1, <1>2 DEF Indexed, Stored, dreamVars
<1>5. \A q \in Ingesters : /\ pass'[q].off = pass[q].off
                           /\ pass'[q].end = pass[q].end
                           /\ pass'[q].todo = IF q = p THEN pass[q].todo \ {c} ELSE pass[q].todo
  BY <1>2 DEF TypeOK
<1>6. CursorBacked'
  BY <1>1, <1>3, <1>4 DEF CursorBacked
<1>7. ASSUME NEW q \in Ingesters
      PROVE  /\ \A i \in 1 .. pass'[q].off : Said(i)' => Indexed(i)'
             /\ \A i \in 1 .. pass'[q].end :
                  Said(i)' => Indexed(i)' \/ \E d \in pass'[q].todo : i \in d.at
  BY <1>3, <1>4, <1>5 DEF PassesBacked
<1>8. PassesBacked'
  BY <1>7 DEF PassesBacked
<1>9. ChunksKept'
  BY <1>2, <1>3, <1>5 DEF ChunksKept
<1>10. DreamBacked'
  BY <1>1, <1>3 DEF DreamBacked, dreamVars
<1> QED
  BY <1>6, <1>8, <1>9, <1>10

LEMMA SaveStep ==
  ASSUME TypeOK, Inv, NEW p \in Ingesters, Save(p)
  PROVE  Inv'
<1> USE DEF Inv
<1>1. UNCHANGED <<file, chunks, dreamVars>> /\ pass[p].todo = {}
  BY DEF Save
<1>2. /\ \A i : Said(i)' <=> Said(i)
      /\ \A c : OneConversation(c)' <=> OneConversation(c)
      /\ \A i : Indexed(i)' <=> Indexed(i)
  BY <1>1, SameFile DEF Indexed, Stored, dreamVars
<1>3. \A i \in 1 .. pass[p].end : Said(i) => Indexed(i)
  BY <1>1 DEF PassesBacked
<1>4. cursor'.off = pass[p].end \/ cursor' = cursor
  BY DEF Save
<1>5. CursorBacked'
  BY <1>2, <1>3, <1>4 DEF CursorBacked
<1>6. \A q \in Ingesters : pass'[q] = pass[q] \/ pass'[q] \in {NoPass, NewPass}
  BY DEF Save, TypeOK
<1>7. ASSUME NEW q \in Ingesters
      PROVE  /\ \A i \in 1 .. pass'[q].off : Said(i)' => Indexed(i)'
             /\ \A i \in 1 .. pass'[q].end :
                  Said(i)' => Indexed(i)' \/ \E c \in pass'[q].todo : i \in c.at
             /\ \A c \in pass'[q].todo : OneConversation(c)'
  <2>1. CASE pass'[q] = pass[q]
    BY <1>2, <2>1 DEF PassesBacked, ChunksKept
  <2>2. CASE pass'[q] \in {NoPass, NewPass}
    BY <2>2, StartsEmpty
  <2> QED
    BY <1>6, <2>1, <2>2
<1>8. PassesBacked'
  BY <1>7 DEF PassesBacked
<1>9. ChunksKept'
  BY <1>1, <1>2, <1>7 DEF ChunksKept
<1>10. DreamBacked'
  BY <1>1, <1>2 DEF DreamBacked, dreamVars
<1> QED
  BY <1>5, <1>8, <1>9, <1>10

\* Reading the file and sending a batch: nothing leaves the index.
LEMMA DreamStep ==
  ASSUME TypeOK, Inv, DreamStarts \/ Consolidate
  PROVE  Inv'
<1> USE DEF Inv
<1>1. UNCHANGED <<file, chunks, cursor, pass, unseen>>
  BY DEF DreamStarts, Consolidate
<1>2. /\ \A i : Said(i)' <=> Said(i)
      /\ \A c : OneConversation(c)' <=> OneConversation(c)
  BY <1>1, SameFile
<1>3. dreamt \subseteq dreamt'
  BY DEF DreamStarts, Consolidate
<1>4. \A i : Indexed(i) => Indexed(i)'
  BY <1>1, <1>3 DEF Indexed, Stored
<1>5. CursorBacked'
  BY <1>1, <1>2, <1>4 DEF CursorBacked
<1>6. PassesBacked'
  BY <1>1, <1>2, <1>4 DEF PassesBacked
<1>7. ChunksKept'
  BY <1>1, <1>2 DEF ChunksKept
<1>8. DreamBacked'
  <2>1. CASE DreamStarts
    <3>1. Len(file) \in Nat
      BY DEF TypeOK
    <3>2. \A i \in 1 .. Len(file) : Said(i) => i \in Flattened
      BY <3>1 DEF Said, Flattened, Parsed, Newline
    <3>3. dream'.upTo = Len(file) /\ dream'.todo = Flattened
      BY <2>1 DEF DreamStarts
    <3> QED
      BY <1>2, <3>2, <3>3 DEF DreamBacked
  <2>2. CASE Consolidate
    <3>1. PICK b \in Batches(dream.todo) : /\ dreamt' = dreamt \cup b
                                            /\ dream' = [dream EXCEPT !.todo = @ \ b]
      BY <2>2 DEF Consolidate
    <3>2. dream'.on = dream.on /\ dream'.upTo = dream.upTo /\ dream'.todo = dream.todo \ b
      BY <3>1 DEF TypeOK
    <3> QED
      BY <1>2, <3>1, <3>2 DEF DreamBacked
  <2> QED
    BY <2>1, <2>2
<1> QED
  BY <1>5, <1>6, <1>7, <1>8

\* What was in a chunk has been answered for, or is younger than the pass.
LEMMA ReplaceStep ==
  ASSUME TypeOK, Inv, ReplaceChunks
  PROVE  Inv'
<1> USE DEF Inv
<1>1. UNCHANGED <<file, cursor, pass, dreamt>> /\ chunks' = {} /\ dream' = NoDream
  BY DEF ReplaceChunks
<1>2. /\ \A i : Said(i)' <=> Said(i)
      /\ \A c : OneConversation(c)' <=> OneConversation(c)
  BY <1>1, SameFile
<1>3. ASSUME NEW i \in 1 .. Len(file), Said(i), Indexed(i) PROVE Indexed(i)'
  <2>1. unseen \subseteq unseen'
    BY DEF ReplaceChunks
  <2>2. CASE i \in dreamt \/ i \in unseen
    BY <1>1, <2>1, <2>2 DEF Indexed
  <2>3. CASE Stored(i) /\ i > dream.upTo
    BY <2>3 DEF ReplaceChunks, Stored, Indexed
  <2>4. CASE Stored(i) /\ ~(i > dream.upTo)
    <3>1. dream.upTo \in Nat
      BY DEF TypeOK, Offsets
    <3>2. i \in 1 .. dream.upTo
      BY <2>4, <3>1
    <3>3. dream.on /\ dream.todo = {}
      BY DEF ReplaceChunks
    <3>4. i \in dreamt
      BY <1>3, <3>2, <3>3 DEF DreamBacked
    <3> QED
      BY <1>1, <3>4 DEF Indexed
  <2> QED
    BY <1>3, <2>2, <2>3, <2>4 DEF Indexed
<1>4. CursorBacked'
  <2>1. cursor.off \in 0 .. Len(file) /\ Len(file) \in Nat
    BY DEF TypeOK, Offsets
  <2> QED
    BY <1>1, <1>2, <1>3, <2>1 DEF CursorBacked
<1>5. PassesBacked'
  <2>1. Len(file) \in Nat /\ \A p \in Ingesters : pass[p].off \in 0 .. Len(file) /\ pass[p].end \in 0 .. Len(file)
    BY DEF TypeOK, Offsets
  <2> QED
    BY <1>1, <1>2, <1>3, <2>1 DEF PassesBacked
<1>6. ChunksKept'
  BY <1>1, <1>2 DEF ChunksKept
<1>7. DreamBacked'
  BY <1>1 DEF DreamBacked, NoDream
<1> QED
  BY <1>4, <1>5, <1>6, <1>7

LEMMA InvStep == TypeOK /\ Inv /\ [Next]_vars => Inv'
<1> SUFFICES ASSUME TypeOK, Inv, [Next]_vars PROVE Inv'
  OBVIOUS
<1>1. CASE \E w \in Writers : WriteLine(w) \/ WriteNewline(w)
  BY <1>1, WriteStep DEF WriteLine, WriteNewline
<1>2. CASE \E p \in Ingesters : PassStep(p)
  BY <1>2, ReadCursorStep, ReadFileStep, FlushStep, SaveStep DEF PassStep
<1>3. ASSUME NEW p \in Ingesters, StartPass(p)
      PROVE  \A q \in Ingesters : pass'[q] = pass[q] \/ pass'[q] \in {NoPass, NewPass}
  BY <1>3 DEF StartPass, TypeOK
<1>4. CASE \E p \in Ingesters : ToolStarts(p)
  BY <1>4, <1>3, QuietStep DEF ToolStarts, dreamVars
<1>5. CASE Expire
  BY <1>5, <1>3, QuietStep DEF Expire, Ingesters, dreamVars
<1>6. CASE TakeEvents
  BY <1>6, QuietStep DEF TakeEvents, dreamVars
<1>7. CASE Crash
  BY <1>7, QuietStep DEF Crash
<1>8. CASE Restart
  <2>1. \A q \in Ingesters : pass'[q] = pass[q] \/ pass'[q] \in {NoPass, NewPass}
    BY <1>8 DEF Restart, TypeOK
  <2> QED
    BY <1>8, <2>1, QuietStep DEF Restart, dreamVars
<1>9. CASE DreamFails
  BY <1>9, QuietStep DEF DreamFails
<1>10. CASE Dream
  BY <1>9, <1>10, DreamStep, ReplaceStep DEF Dream
<1>11. CASE \E p \in Ingesters : PassFails(p)
  <2>1. \A q \in Ingesters : pass'[q] = pass[q] \/ pass'[q] \in {NoPass, NewPass}
    BY <1>11 DEF PassFails, TypeOK
  <2> QED
    BY <1>11, <2>1, QuietStep DEF PassFails, dreamVars
<1>12. CASE UNCHANGED vars
  BY <1>12, QuietStep DEF vars, dreamVars
<1> QED
  BY <1>1, <1>2, <1>4, <1>5, <1>6, <1>7, <1>8, <1>10, <1>11, <1>12 DEF Next

LEMMA Invariance == Spec => [](TypeOK /\ Inv)
  BY TypeOKInit, TypeOKStep, InvInit, InvStep, PTL DEF Spec

(***************************************************************************)
(* No entry is ever skipped, however passes overlap or are cut short: the  *)
(* cursor runs ahead of no chunk.                                          *)
(***************************************************************************)
THEOREM NothingIsSkipped == Spec => []NothingSkipped
<1>1. TypeOK /\ Inv => NothingSkipped
  <2> SUFFICES ASSUME TypeOK, Inv, NEW i \in 1 .. cursor.off, file[i] = "append", Whole(i)
               PROVE  Indexed(i)
    BY DEF NothingSkipped
  <2>1. Said(i)
    BY DEF Said, Whole
  <2> QED
    BY <2>1 DEF Inv, CursorBacked
<1> QED
  BY Invariance, <1>1, PTL

(***************************************************************************)
(* No chunk ever mixes two conversations.                                  *)
(***************************************************************************)
THEOREM ConversationsAreKeptApart == Spec => []ChunksKeepToSegments
<1>1. TypeOK /\ Inv => ChunksKeepToSegments
  BY DEF Inv, ChunksKept, OneConversation, ChunksKeepToSegments
<1> QED
  BY Invariance, <1>1, PTL
-----------------------------------------------------------------------------
(***************************************************************************)
(* While passes neither overlap nor are cut short, there is one at a time  *)
(* and it works from where the cursor is; what is in a chunk is behind the *)
(* cursor, or the pass is about to move it there; and what the pass has    *)
(* still to store shares nothing with what is stored.                      *)
(***************************************************************************)
Stopped == ~running => \A p \in Ingesters : ~Active(p)

OnePass == \A p, q \in Ingesters : Active(p) /\ Active(q) => p = q

Flushing(p) == pass[p].pc = "flush"

FromCursor ==
  \A p \in Ingesters : /\ pass[p].pc \in {"read", "flush"} => pass[p].off = cursor.off
                       /\ Flushing(p) => cursor.off <= pass[p].end

Behind ==
  \A c \in chunks : \A i \in c.at :
    i <= cursor.off \/ \E p \in Ingesters : Flushing(p) /\ i <= pass[p].end

Disjoint(S) == \A c, d \in S : c # d => c.at \cap d.at = {}

Apart ==
  /\ Disjoint(chunks)
  /\ \A p \in Ingesters : Flushing(p) => Disjoint(chunks \cup pass[p].todo)
                                         /\ \A c \in pass[p].todo : \A i \in c.at : i <= pass[p].end

Undisturbed == Stopped /\ (~disturbed => OnePass /\ FromCursor /\ Behind /\ Apart)

\* Being between the same resets is transitive.
LEMMA SegmentsMeet ==
  ASSUME NEW parsed \in SUBSET Int, NEW i \in Int, NEW j \in Int, NEW k \in Int,
         SameSegment(i, k, parsed), SameSegment(k, j, parsed)
  PROVE  SameSegment(i, j, parsed) /\ SameSegment(k, i, parsed)
<1>1. ASSUME NEW a \in Int, NEW b \in Int, NEW r \in Before(a, b, parsed)
      PROVE  r \in Before(a, k, parsed) \/ r \in Before(k, b, parsed)
  <2>1. r \in Int /\ r \in parsed /\ a <= r /\ r <= b /\ file[r] = "reset"
    BY DEF Before
  <2>2. r <= k \/ k <= r
    BY <2>1
  <2> QED
    BY <2>1, <2>2 DEF Before
<1>2. \A r \in Before(i, j, parsed) \cup Before(j, i, parsed) : FALSE
  BY <1>1 DEF SameSegment
<1> QED
  BY <1>2 DEF SameSegment

\* The chunks of a read lie behind the offset and share nothing.
LEMMA SegmentsApart ==
  ASSUME TypeOK, NEW off \in Offsets, NEW line \in Nat
  PROVE  /\ Disjoint(Segments(off, line, Len(file)))
         /\ \A c \in Segments(off, line, Len(file)) : c.at \subseteq off + 1 .. Len(file)
<1> DEFINE n == Len(file)
           parsed == Parsed(off, n)
           said == {i \in parsed : file[i] = "append"}
           at(i) == {j \in said : SameSegment(i, j, parsed)}
<1>1. off \in Int /\ n \in Int /\ parsed \subseteq off + 1 .. n /\ parsed \in SUBSET Int
  BY DEF TypeOK, Offsets, Parsed
<1>2. Segments(off, line, n) = {ChunkOf(at(i), off, line) : i \in said}
  BY DEF Segments
<1>3. \A i \in said : ChunkOf(at(i), off, line).at = at(i)
  BY DEF ChunkOf
<1>4. ASSUME NEW i \in said, NEW j \in said, NEW k \in at(i) \cap at(j) PROVE at(i) \subseteq at(j)
  <2> SUFFICES ASSUME NEW m \in at(i) PROVE SameSegment(j, m, parsed)
    OBVIOUS
  <2>1. i \in Int /\ j \in Int /\ k \in Int /\ m \in Int
    BY <1>1
  <2>2. SameSegment(i, k, parsed) /\ SameSegment(j, k, parsed) /\ SameSegment(i, m, parsed)
    OBVIOUS
  <2>3. SameSegment(k, i, parsed)
    BY <2>2 DEF SameSegment
  <2> HIDE DEF parsed, said, at
  <2>4. SameSegment(k, m, parsed)
    BY <1>1, <2>1, <2>2, <2>3, SegmentsMeet
  <2> QED
    BY <1>1, <2>1, <2>2, <2>4, SegmentsMeet
<1>5. ASSUME NEW c \in Segments(off, line, n), NEW d \in Segments(off, line, n),
             c.at \cap d.at # {}
      PROVE  c = d
  <2>1. PICK i \in said : c = ChunkOf(at(i), off, line)
    BY <1>2
  <2>2. PICK j \in said : d = ChunkOf(at(j), off, line)
    BY <1>2
  <2>3. PICK k : k \in at(i) \cap at(j)
    BY <1>3, <1>5, <2>1, <2>2
  <2>4. at(i) = at(j)
    BY <1>4, <2>3
  <2> QED
    BY <2>1, <2>2, <2>4
<1>6. ASSUME NEW c \in Segments(off, line, n) PROVE c.at \subseteq off + 1 .. n
  <2>1. PICK i \in said : c = ChunkOf(at(i), off, line)
    BY <1>2
  <2> QED
    BY <1>1, <1>3, <2>1
<1> QED
  BY <1>5, <1>6 DEF Disjoint

LEMMA UndisturbedInit == Init => Undisturbed
<1> SUFFICES ASSUME Init PROVE Undisturbed
  OBVIOUS
<1>1. \A p \in Ingesters : p # Watcher => ~Active(p)
  BY DEF Init, Active, NoPass
<1>2. \A p \in Ingesters : pass[p].pc \in {"idle", "cursor"}
  BY DEF Init, NoPass, NewPass
<1>3. OnePass
  BY <1>1 DEF OnePass
<1> QED
  BY <1>2, <1>3 DEF Init, Undisturbed, Stopped, FromCursor, Behind, Apart, Disjoint, Flushing

\* A pass begins, and no other runs, or all end.
LEMMA BeginsAlone ==
  ASSUME TypeOK, Undisturbed, UNCHANGED <<cursor, chunks>>,
         disturbed' = (disturbed \/ \E q \in Ingesters : Active(q)),
         \A q \in Ingesters : pass'[q] = pass[q] \/ pass'[q] = NoPass \/ pass'[q] = NewPass,
         \A q, r \in Ingesters : pass'[q] = NewPass /\ pass'[r] = NewPass => q = r,
         Stopped'
  PROVE  Undisturbed'
<1> SUFFICES ASSUME ~disturbed' PROVE (OnePass /\ FromCursor /\ Behind /\ Apart)'
  BY DEF Undisturbed
<1>1. ~disturbed /\ \A q \in Ingesters : pass[q].pc = "idle"
  BY DEF Active
<1>2. \A q \in Ingesters : pass'[q].pc \in {"idle", "cursor"}
                           /\ (pass'[q].pc # "idle" => pass'[q] = NewPass)
  BY <1>1 DEF NoPass, NewPass
<1>3. OnePass'
  BY <1>2 DEF OnePass, Active
<1>4. FromCursor'
  BY <1>2 DEF FromCursor, Flushing
<1>5. Behind'
  BY <1>1 DEF Undisturbed, Behind, Flushing
<1>6. Apart'
  BY <1>1, <1>2 DEF Undisturbed, Apart, Disjoint, Flushing
<1> QED
  BY <1>3, <1>4, <1>5, <1>6

\* Nothing that the invariant is about changes, but chunks may go.
LEMMA KeepsUndisturbed ==
  ASSUME TypeOK, Undisturbed, UNCHANGED <<cursor, pass, running, disturbed>>, chunks' \subseteq chunks
  PROVE  Undisturbed'
<1>1. Stopped'
  BY DEF Undisturbed, Stopped, Active
<1>2. OnePass => OnePass'
  BY DEF OnePass, Active
<1>3. FromCursor => FromCursor'
  BY DEF FromCursor, Flushing
<1>4. Behind => Behind'
  BY DEF Behind, Flushing
<1>5. Apart => Apart'
  BY DEF Apart, Disjoint, Flushing
<1> QED
  BY <1>1, <1>2, <1>3, <1>4, <1>5 DEF Undisturbed

LEMMA PassKeeps ==
  ASSUME TypeOK, Undisturbed, NEW p \in Ingesters, PassStep(p)
  PROVE  Undisturbed'
<1>1. UNCHANGED <<file, running, disturbed>> /\ pass \in [Ingesters -> Passing]
  BY DEF PassStep, ReadCursor, ReadFile, Flush, Save, TypeOK, Passing
<1>2. Active(p) /\ \A q \in Ingesters \ {p} : pass'[q] = pass[q]
  BY <1>1 DEF PassStep, ReadCursor, ReadFile, Flush, Save, Active
<1>3. running
  BY <1>2 DEF Undisturbed, Stopped
<1> SUFFICES ASSUME ~disturbed PROVE (OnePass /\ FromCursor /\ Behind /\ Apart)'
  BY <1>1, <1>3 DEF Undisturbed, Stopped
<1>4. OnePass /\ FromCursor /\ Behind /\ Apart
  BY DEF Undisturbed
<1>5. \A q \in Ingesters \ {p} : pass[q].pc = "idle" /\ pass'[q].pc = "idle"
  BY <1>2, <1>4 DEF OnePass, Active
<1>6. OnePass'
  BY <1>5 DEF OnePass, Active
<1>7. cursor.off \in 0 .. Len(file) /\ Len(file) \in Nat /\ chunks \subseteq Chunk
  BY DEF TypeOK, Offsets
<1>8. CASE ReadCursor(p)
  <2>1. /\ UNCHANGED <<cursor, chunks>> /\ ~Flushing(p)
        /\ pass'[p].pc = "read" /\ pass'[p].off = cursor.off
    BY <1>1, <1>8 DEF ReadCursor, Flushing
  <2>2. FromCursor'
    BY <1>5, <2>1 DEF FromCursor, Flushing
  <2>3. Behind'
    BY <1>4, <1>5, <2>1 DEF Behind, Flushing
  <2>4. Apart'
    BY <1>4, <1>5, <2>1 DEF Apart, Disjoint, Flushing
  <2> QED
    BY <1>6, <2>2, <2>3, <2>4
<1>9. CASE ReadFile(p)
  <2> DEFINE off == pass[p].off
             new == Segments(off, pass[p].line, Len(file))
  <2>1. /\ UNCHANGED <<cursor, chunks>> /\ ~Flushing(p) /\ off = cursor.off
        /\ pass'[p].pc = "flush" /\ pass'[p].off = off /\ pass'[p].end = Len(file)
        /\ pass'[p].todo = new
    BY <1>1, <1>4, <1>9 DEF ReadFile, EndOffset, Flushing, FromCursor
  <2>2. off \in Offsets /\ pass[p].line \in Nat
    BY <1>1 DEF Passing
  <2>3. Disjoint(new) /\ \A c \in new : c.at \subseteq off + 1 .. Len(file)
    BY <2>2, SegmentsApart
  <2>4. \A c \in chunks : \A i \in c.at : i <= cursor.off
    BY <1>4, <1>5, <2>1 DEF Behind, Flushing
  <2> HIDE DEF new
  <2>5. FromCursor'
    BY <1>5, <1>7, <2>1 DEF FromCursor, Flushing
  <2>6. Behind'
    BY <2>1, <2>4 DEF Behind
  <2>7. ASSUME NEW c \in chunks, NEW d \in new PROVE c.at \cap d.at = {}
    <3> SUFFICES ASSUME NEW i \in c.at, i \in d.at PROVE FALSE
      OBVIOUS
    <3>1. i <= off /\ i \in off + 1 .. Len(file)
      BY <2>1, <2>3, <2>4, <2>7
    <3>2. off \in Int
      BY <2>2 DEF Offsets
    <3> QED
      BY <1>7, <3>1, <3>2
  <2>8. Disjoint(chunks \cup new)
    BY <1>4, <2>3, <2>7 DEF Apart, Disjoint
  <2>9. \A c \in new : \A i \in c.at : i <= Len(file)
    BY <1>7, <2>2, <2>3 DEF Offsets
  <2>10. Apart'
    BY <1>4, <1>5, <2>1, <2>8, <2>9 DEF Apart, Disjoint, Flushing
  <2> QED
    BY <1>6, <2>5, <2>6, <2>10
<1>10. CASE Flush(p)
  <2>1. PICK c \in pass[p].todo : /\ chunks' = chunks \cup {c}
                                  /\ pass' = [pass EXCEPT ![p].todo = @ \ {c}]
    BY <1>10 DEF Flush
  <2>2. /\ UNCHANGED cursor /\ Flushing(p) /\ pass'[p].pc = "flush"
        /\ pass'[p].off = pass[p].off /\ pass'[p].end = pass[p].end
        /\ pass'[p].todo = pass[p].todo \ {c}
    <3>1. pass[p].pc = "flush" /\ UNCHANGED cursor
      BY <1>10 DEF Flush
    <3>2. pass[p] \in Passing /\ pass'[p] = [pass[p] EXCEPT !.todo = pass[p].todo \ {c}]
      BY <1>1, <2>1
    <3> QED
      BY <3>1, <3>2 DEF Passing, Flushing
  <2>3. FromCursor'
    BY <1>4, <1>5, <2>2 DEF FromCursor, Flushing
  <2>4. \A i \in c.at : i <= pass[p].end
    BY <1>4, <2>2 DEF Apart
  <2>5. ASSUME NEW d \in chunks, NEW i \in d.at PROVE i <= cursor.off \/ i <= pass[p].end
    <3>1. i <= cursor.off \/ \E q \in Ingesters : Flushing(q) /\ i <= pass[q].end
      BY <1>4 DEF Behind
    <3>2. \A q \in Ingesters : Flushing(q) => q = p
      BY <1>5 DEF Flushing
    <3> QED
      BY <3>1, <3>2
  <2>6. Behind'
    BY <2>1, <2>2, <2>4, <2>5 DEF Behind, Flushing
  <2>7. chunks' \cup pass'[p].todo = chunks \cup pass[p].todo
    BY <2>1, <2>2
  <2>8. Disjoint(chunks \cup pass[p].todo)
    BY <1>4, <2>2 DEF Apart
  <2>9. Disjoint(chunks')
    BY <2>1, <2>8 DEF Disjoint
  <2>10. Apart'
    <3>1. Disjoint(chunks' \cup pass'[p].todo)
      BY <2>7, <2>8
    <3>2. \A d \in pass'[p].todo : \A i \in d.at : i <= pass'[p].end
      BY <1>4, <2>2 DEF Apart
    <3> QED
      BY <1>5, <2>9, <3>1, <3>2 DEF Apart, Disjoint, Flushing
  <2> QED
    BY <1>6, <2>3, <2>6, <2>10
<1>11. CASE Save(p)
  <2>1. /\ UNCHANGED chunks /\ Flushing(p) /\ pass'[p].pc = "idle"
        /\ pass[p].off = cursor.off /\ cursor.off <= pass[p].end /\ pass[p].end \in Offsets
    BY <1>1, <1>4, <1>11 DEF Save, Flushing, FromCursor, NoPass, Passing
  <2>2. cursor'.off = pass[p].end
    BY <1>7, <1>11, <2>1 DEF Save, Moved, Offsets
  <2>3. \A q \in Ingesters : ~Flushing(q)' /\ pass'[q].pc \notin {"read", "flush"}
    BY <1>5, <2>1 DEF Flushing
  <2>4. FromCursor' /\ Apart'
    BY <1>4, <2>1, <2>3 DEF FromCursor, Apart, Disjoint
  <2>5. ASSUME NEW c \in chunks, NEW i \in c.at PROVE i <= pass[p].end
    <3>1. i <= cursor.off \/ \E q \in Ingesters : Flushing(q) /\ i <= pass[q].end
      BY <1>4 DEF Behind
    <3>2. \A q \in Ingesters : Flushing(q) => q = p
      BY <1>5 DEF Flushing
    <3>3. i \in Int /\ cursor.off \in Int /\ pass[p].end \in Int
      BY <1>7, <2>1, <2>5 DEF Chunk, Offsets
    <3> QED
      BY <2>1, <3>1, <3>2, <3>3
  <2>6. Behind'
    BY <2>1, <2>2, <2>5 DEF Behind
  <2> QED
    BY <1>6, <2>4, <2>6
<1> QED
  BY <1>8, <1>9, <1>10, <1>11 DEF PassStep

LEMMA UndisturbedStep == TypeOK /\ Undisturbed /\ [Next]_vars => Undisturbed'
<1> SUFFICES ASSUME TypeOK, Undisturbed, [Next]_vars PROVE Undisturbed'
  OBVIOUS
<1>1. CASE \E w \in Writers : WriteLine(w) \/ WriteNewline(w)
  BY <1>1, KeepsUndisturbed DEF WriteLine, WriteNewline
<1>2. CASE \E p \in Ingesters : PassStep(p)
  BY <1>2, PassKeeps
<1>3. ASSUME NEW p \in Ingesters, running, ~Active(p), StartPass(p),
             UNCHANGED <<cursor, chunks, running>>
      PROVE  Undisturbed'
  <2>1. pass'[p] = NewPass /\ \A q \in Ingesters \ {p} : pass'[q] = pass[q]
    BY <1>3 DEF StartPass, TypeOK
  <2>2. CASE \E q \in Ingesters : Active(q)
    BY <1>3, <2>2 DEF StartPass, Undisturbed, Stopped
  <2>3. CASE \A q \in Ingesters : ~Active(q)
    <3>1. \A q \in Ingesters : pass'[q] = NewPass => q = p
      BY <2>1, <2>3 DEF Active, NewPass, NoPass
    <3> QED
      BY <1>3, <2>1, <3>1, BeginsAlone DEF StartPass, Stopped
  <2> QED
    BY <2>2, <2>3
<1>4. CASE \E p \in Ingesters : ToolStarts(p)
  BY <1>3, <1>4 DEF ToolStarts
<1>5. CASE Expire
  BY <1>3, <1>5 DEF Expire, Ingesters
<1>6. CASE TakeEvents \/ DreamStarts \/ Consolidate \/ DreamFails \/ ReplaceChunks
  BY <1>6, KeepsUndisturbed DEF TakeEvents, DreamStarts, Consolidate, DreamFails, ReplaceChunks
<1>7. CASE Crash
  <2>1. \A q \in Ingesters : pass'[q] = NoPass
    BY <1>7 DEF Crash
  <2>2. NoPass # NewPass
    BY DEF NoPass, NewPass
  <2>3. Stopped'
    BY <2>1 DEF Stopped, Active, NoPass
  <2> QED
    BY <1>7, <2>1, <2>2, <2>3, BeginsAlone DEF Crash
<1>8. CASE Restart
  <2>1. ~running /\ \A q \in Ingesters : ~Active(q)
    BY <1>8 DEF Restart, Undisturbed, Stopped
  <2>2. pass'[Watcher] = NewPass /\ \A q \in Ingesters \ {Watcher} : pass'[q] = pass[q]
    BY <1>8 DEF Restart, TypeOK, Ingesters
  <2>3. disturbed' = (disturbed \/ \E q \in Ingesters : Active(q))
    BY <1>8, <2>1 DEF Restart, TypeOK
  <2>4. \A q \in Ingesters : pass'[q] = NewPass => q = Watcher
    BY <2>1, <2>2 DEF Active, NewPass, NoPass
  <2>5. Stopped'
    BY <1>8 DEF Restart, Stopped
  <2> QED
    BY <1>8, <2>2, <2>3, <2>4, <2>5, BeginsAlone DEF Restart
<1>9. ASSUME NEW p \in Ingesters, PassFails(p) PROVE Undisturbed'
  <2>1. \A q \in Ingesters : pass'[q] = pass[q] \/ pass'[q] = NoPass
    BY <1>9 DEF PassFails, TypeOK
  <2>2. Stopped'
    BY <1>9, <2>1 DEF PassFails, Undisturbed, Stopped, Active, NoPass
  <2> QED
    BY <1>9, <2>2 DEF PassFails, Undisturbed
<1>10. CASE UNCHANGED vars
  BY <1>10, KeepsUndisturbed DEF vars
<1> QED
  BY <1>1, <1>2, <1>4, <1>5, <1>6, <1>7, <1>8, <1>9, <1>10 DEF Next, Dream

(***************************************************************************)
(* Unless passes overlap or one is cut short, no entry is stored twice:    *)
(* each pass works from where the last one left the cursor.                *)
(* (process_file, whose cursor moves only after its chunks are stored)     *)
(***************************************************************************)
THEOREM NothingIsStoredTwice == Spec => []NothingTwice
<1>1. Undisturbed => NothingTwice
  BY DEF Undisturbed, Apart, Disjoint, NothingTwice
<1> QED
  BY TypeOKInit, TypeOKStep, UndisturbedInit, UndisturbedStep, <1>1, PTL DEF Spec
=============================================================================
