----------------------------- MODULE Transcript -----------------------------
(***************************************************************************)
(* How a conversation transcript reaches the memory index                  *)
(* (clawshake-memory): write.rs appends entries to a JSONL file, and       *)
(* process_file of ingest/transcript.rs reads on from a stored cursor,     *)
(* cuts what it reads into segments at each reset, and stores them as      *)
(* chunks.  The watcher of watch.rs runs it after a change; so do the      *)
(* memory_ingest tool and the command line, each over a connection of its  *)
(* own to the database, with nothing that keeps two passes apart.  The     *)
(* dream pass of ingest/dream.rs replaces the chunks by what a language    *)
(* model makes of the file, which it reads once more.                      *)
(*                                                                         *)
(* One file is modelled.  An entry is one token of it and its newline      *)
(* another: append_entry writes to an unbuffered file, and so the two are  *)
(* separate writes.  A position in the file stands for the entry there.    *)
(* A segment is short enough to be one chunk (longer ones are split), and  *)
(* SQL statements commit one by one.                                       *)
(***************************************************************************)
EXTENDS Integers, Sequences, FiniteSets

CONSTANTS
  Writers,     \* callers of append_entry
  Tools,       \* callers of memory_ingest or `clawshake-memory ingest`
  Watcher,     \* the watcher thread
  Bounds       \* bounds of the model: how many entries may be appended, passes of
               \* tools and dream passes begun, and crashes and failed passes together

ASSUME TranscriptAssumption ==
  /\ Watcher \notin Tools
  /\ Bounds \subseteq Nat \X Nat \X Nat
  /\ <<0, 0, 0>> \in Bounds

VARIABLES
  file,      \* the tokens of the JSONL file
  writer,    \* whether each writer owes a newline
  entries,   \* entries begun (bound)
  chunks,    \* the chunks of this file
  cursor,    \* the row of the cursor table: offset and line number
  pass,      \* where each caller is in process_file
  passes,    \* passes that tools have begun, and dream passes (bound)
  notified,  \* file-system events wait in the watcher's channel
  armed,     \* the watcher's debounce deadline is set
  running,   \* the broker's process runs
  faults,    \* crashes and failed passes so far (bound)
  gaveUp,    \* history: the watcher's latest pass failed
  disturbed, \* history: two passes overlapped, or one was cut short
  dream,     \* the dream pass: whether it runs, how long the file was when it
             \* read it, and the entries it has yet to send to the model
  dreamt,    \* the entries that the model has answered for
  unseen     \* history: entries whose chunks a dream pass deleted and whose lines
             \* were written after it had read the file

watchVars == <<notified, armed>>
dreamVars == <<dream, dreamt, unseen>>
vars == <<file, writer, entries, chunks, cursor, pass, passes, notified, armed, running,
          faults, gaveUp, disturbed, dreamVars>>

Ingesters == Tools \cup {Watcher}

Newline == "newline"
Kinds == {"append", "reset"}

\* A pass that is not running, and one that starts.
NoPass == [pc |-> "idle", off |-> 0, line |-> 0, end |-> 0, endLine |-> 0, todo |-> {}]
NewPass == [NoPass EXCEPT !.pc = "cursor"]

NoDream == [on |-> FALSE, upTo |-> 0, todo |-> {}]

\* The watcher registers its watches, then makes a first pass.
Init ==
  /\ file = <<>>
  /\ writer = [w \in Writers |-> FALSE]
  /\ entries = 0
  /\ chunks = {}
  /\ cursor = [off |-> 0, line |-> 0]
  /\ pass = [p \in Ingesters |-> IF p = Watcher THEN NewPass ELSE NoPass]
  /\ passes = 0
  /\ notified = FALSE
  /\ armed = FALSE
  /\ running = TRUE
  /\ faults = 0
  /\ gaveUp = FALSE
  /\ disturbed = FALSE
  /\ dream = NoDream
  /\ dreamt = {}
  /\ unseen = {}
-----------------------------------------------------------------------------
(* append_entry *)

\* The first of the two writes.
WriteLine(w) ==
  /\ running
  /\ ~writer[w]
  /\ <<entries + 1, passes, faults>> \in Bounds
  /\ entries' = entries + 1
  /\ \E k \in Kinds : file' = Append(file, k)
  /\ writer' = [writer EXCEPT ![w] = TRUE]
  /\ notified' = TRUE
  /\ UNCHANGED <<chunks, cursor, pass, passes, armed, running, faults, gaveUp, disturbed, dreamVars>>

WriteNewline(w) ==
  /\ running
  /\ writer[w]
  /\ file' = Append(file, Newline)
  /\ writer' = [writer EXCEPT ![w] = FALSE]
  /\ notified' = TRUE
  /\ UNCHANGED <<entries, chunks, cursor, pass, passes, armed, running, faults, gaveUp, disturbed, dreamVars>>
-----------------------------------------------------------------------------
(* What process_file makes of the tokens after `off`, up to `end` *)

\* Mutant: a line without its newline is left for later.
BugParsed(off, end) ==
  {i \in off + 1 .. end : /\ file[i] # Newline
                          /\ i = off + 1 \/ file[i - 1] = Newline
                          /\ i < end /\ file[i + 1] = Newline}

\* A line parses if it is one entry: two that share a line are malformed.
Parsed(off, end) ==
  {i \in off + 1 .. end : /\ file[i] # Newline
                          /\ i = off + 1 \/ file[i - 1] = Newline
                          /\ i = end \/ file[i + 1] = Newline}

Newlines(off, end) == Cardinality({i \in off + 1 .. end : file[i] = Newline})

\* Lines that read_line returns; the last one may lack its newline.
LinesRead(off, end) ==
  Newlines(off, end) + IF end > off /\ file[end] # Newline THEN 1 ELSE 0

\* Where reading ends: the offset grows by the bytes that read_line returns.
EndOffset == Len(file)

Before(a, b, parsed) == {i \in parsed : a <= i /\ i <= b /\ file[i] = "reset"}

\* Mutant: segment.clear() is missing.
BugSameSegment(i, j, parsed) == j <= i

\* i and j lie between the same two resets.
SameSegment(i, j, parsed) == Before(i, j, parsed) = {} /\ Before(j, i, parsed) = {}

\* flush_segment's chunk: its entries, and the lines of the first and the last.
ChunkOf(at, off, line) ==
  LET lineOf(i) == line + 1 + Newlines(off, i - 1)
      first == CHOOSE i \in at : \A j \in at : i <= j
      last == CHOOSE i \in at : \A j \in at : j <= i
  IN [at |-> at, first |-> lineOf(first), last |-> lineOf(last)]

Segments(off, line, end) ==
  LET parsed == Parsed(off, end)
      said == {i \in parsed : file[i] = "append"}
  IN {ChunkOf({j \in said : SameSegment(i, j, parsed)}, off, line) : i \in said}
-----------------------------------------------------------------------------
(* process_file *)

Active(p) == pass[p].pc # "idle"

\* get_cursor
ReadCursor(p) ==
  /\ pass[p].pc = "cursor"
  /\ pass' = [pass EXCEPT ![p].pc = "read", ![p].off = cursor.off, ![p].line = cursor.line]
  /\ UNCHANGED <<file, writer, entries, chunks, cursor, passes, notified, armed, running,
                 faults, gaveUp, disturbed, dreamVars>>

\* Reading until read_line returns nothing.
ReadFile(p) ==
  /\ pass[p].pc = "read"
  /\ LET off == pass[p].off
         line == pass[p].line
     IN pass' = [pass EXCEPT ![p] =
          [@ EXCEPT !.pc = "flush", !.end = EndOffset,
                    !.endLine = line + LinesRead(off, Len(file)),
                    !.todo = Segments(off, line, Len(file))]]
  /\ UNCHANGED <<file, writer, entries, chunks, cursor, passes, notified, armed, running,
                 faults, gaveUp, disturbed, dreamVars>>

\* INSERT OR IGNORE of the next segment in the file's order.
Flush(p) ==
  /\ pass[p].pc = "flush"
  /\ \E c \in pass[p].todo :
       /\ \A d \in pass[p].todo : \A i \in c.at : \E j \in d.at : i <= j
       /\ chunks' = chunks \cup {c}
       /\ pass' = [pass EXCEPT ![p].todo = @ \ {c}]
  /\ UNCHANGED <<file, writer, entries, cursor, passes, notified, armed, running, faults, gaveUp,
                 disturbed, dreamVars>>

\* Mutant: the comparison before set_cursor is the wrong way round.
BugMoved(p) == pass[p].end < pass[p].off

\* last_offset > cursor_offset
Moved(p) == pass[p].end > pass[p].off

\* Mutant: the watcher drains its channel after a pass.
BugWaiting(p) == notified /\ p # Watcher

\* The events of a pass wait in the watcher's channel.
Waiting(p) == notified

\* set_cursor, whatever another pass has stored in the meantime.
Save(p) ==
  /\ pass[p].pc = "flush"
  /\ pass[p].todo = {}
  /\ cursor' = IF Moved(p) THEN [off |-> pass[p].end, line |-> pass[p].endLine] ELSE cursor
  /\ pass' = [pass EXCEPT ![p] = NoPass]
  /\ notified' = Waiting(p)
  /\ UNCHANGED <<file, writer, entries, chunks, passes, armed, running, faults, gaveUp, disturbed, dreamVars>>

\* A statement or a read fails (the database is locked, a line is not UTF-8):
\* `?` ends the pass where it is.  The watcher logs it, clears its deadline all
\* the same, and waits for the next event.
PassFails(p) ==
  /\ Active(p)
  /\ <<entries, passes, faults + 1>> \in Bounds
  /\ faults' = faults + 1
  /\ pass' = [pass EXCEPT ![p] = NoPass]
  /\ gaveUp' = (gaveUp \/ p = Watcher)
  /\ disturbed' = TRUE
  /\ UNCHANGED <<file, writer, entries, chunks, cursor, passes, notified, armed, running,
                 dreamVars>>

PassStep(p) == ReadCursor(p) \/ ReadFile(p) \/ Flush(p) \/ Save(p)

StartPass(p) ==
  /\ pass' = [pass EXCEPT ![p] = NewPass]
  /\ disturbed' = (disturbed \/ \E q \in Ingesters : Active(q))

\* memory_ingest
ToolStarts(p) ==
  /\ running
  /\ p \in Tools
  /\ ~Active(p)
  /\ <<entries, passes + 1, faults>> \in Bounds
  /\ passes' = passes + 1
  /\ StartPass(p)
  /\ UNCHANGED <<file, writer, entries, chunks, cursor, notified, armed, running, faults, gaveUp,
                 dreamVars>>
-----------------------------------------------------------------------------
(* event_loop: the watcher takes events only between its passes *)

\* The first event sets the deadline; later ones do not move it.
TakeEvents ==
  /\ running
  /\ ~Active(Watcher)
  /\ notified
  /\ notified' = FALSE
  /\ armed' = TRUE
  /\ UNCHANGED <<file, writer, entries, chunks, cursor, pass, passes, running, faults, gaveUp, disturbed, dreamVars>>

\* recv_timeout runs out.
Expire ==
  /\ running
  /\ ~Active(Watcher)
  /\ armed
  /\ armed' = FALSE
  /\ gaveUp' = FALSE
  /\ StartPass(Watcher)
  /\ UNCHANGED <<file, writer, entries, chunks, cursor, passes, notified, running, faults, dreamVars>>
-----------------------------------------------------------------------------
(* dream_pass_with_store, for a program that links the library *)

\* flatten_file: the entries of the whole file, without the cursor.
Flattened == {i \in Parsed(0, Len(file)) : file[i] = "append"}

\* get_sessions_pending_dream finds the file by its chunks.  What flattens to
\* nothing is passed over.
DreamStarts ==
  /\ running
  /\ ~dream.on
  /\ <<entries, passes + 1, faults>> \in Bounds
  /\ chunks # {}
  /\ Flattened # {}
  /\ passes' = passes + 1
  /\ dream' = [on |-> TRUE, upTo |-> Len(file), todo |-> Flattened]
  /\ UNCHANGED <<file, writer, entries, chunks, cursor, pass, notified, armed, running,
                 faults, gaveUp, disturbed, dreamt, unseen>>

\* batch_text: as many of the next lines as fit, and one at least.  A batch
\* repeats the end of the last one.
Batches(todo) ==
  {b \in SUBSET todo : b # {} /\ \A i \in b : \A j \in todo \ b : i < j}

\* The model's reply, which is blank or becomes chunks under dream/.
Consolidate ==
  /\ dream.on
  /\ \E b \in Batches(dream.todo) :
       /\ dreamt' = dreamt \cup b
       /\ dream' = [dream EXCEPT !.todo = @ \ b]
  /\ UNCHANGED <<file, writer, entries, chunks, cursor, pass, passes, notified, armed, running,
                 faults, gaveUp, disturbed, unseen>>

\* An error of the model, the embedder or the database ends the pass.
DreamFails ==
  /\ dream.on
  /\ dream' = NoDream
  /\ UNCHANGED <<file, writer, entries, chunks, cursor, pass, passes, notified, armed, running,
                 faults, gaveUp, disturbed, dreamt, unseen>>

\* delete_chunks_for_path, also of chunks stored since the file was read.
ReplaceChunks ==
  /\ dream.on
  /\ dream.todo = {}
  /\ chunks' = {}
  /\ unseen' = unseen \cup {i \in UNION {c.at : c \in chunks} : i > dream.upTo}
  /\ dream' = NoDream
  /\ UNCHANGED <<file, writer, entries, cursor, pass, passes, notified, armed, running,
                 faults, gaveUp, disturbed, dreamt>>

Dream == DreamStarts \/ Consolidate \/ DreamFails \/ ReplaceChunks
-----------------------------------------------------------------------------
\* A crash loses all but the file and the database.
Crash ==
  /\ running
  /\ <<entries, passes, faults + 1>> \in Bounds
  /\ faults' = faults + 1
  /\ running' = FALSE
  /\ gaveUp' = FALSE
  /\ writer' = [w \in Writers |-> FALSE]
  /\ disturbed' = (disturbed \/ \E q \in Ingesters : Active(q))
  /\ pass' = [p \in Ingesters |-> NoPass]
  /\ notified' = FALSE
  /\ armed' = FALSE
  /\ dream' = NoDream
  /\ UNCHANGED <<file, entries, chunks, cursor, passes, dreamt, unseen>>

Restart ==
  /\ ~running
  /\ running' = TRUE
  /\ pass' = [pass EXCEPT ![Watcher] = NewPass]
  /\ UNCHANGED <<file, writer, entries, chunks, cursor, passes, notified, armed, faults, gaveUp, disturbed, dreamVars>>

Next ==
  \/ \E w \in Writers : WriteLine(w) \/ WriteNewline(w)
  \/ \E p \in Ingesters : PassStep(p) \/ PassFails(p) \/ ToolStarts(p)
  \/ TakeEvents \/ Expire \/ Dream \/ Crash \/ Restart

Spec == Init /\ [][Next]_vars

\* The watcher's thread runs, its clock advances, and the broker is started
\* again.  Nothing is assumed of writers, tools and dream passes.
Fairness ==
  WF_vars(PassStep(Watcher)) /\ WF_vars(TakeEvents) /\ WF_vars(Expire) /\ WF_vars(Restart)

FairSpec == Spec /\ Fairness
-----------------------------------------------------------------------------
Offsets == 0 .. Len(file)
Chunk == [at : SUBSET (1 .. Len(file)), first : Nat, last : Nat]

(* Every variable keeps its type, and offsets lie in the file. *)
TypeOK ==
  /\ file \in Seq(Kinds \cup {Newline})
  /\ writer \in [Writers -> BOOLEAN]
  /\ <<entries, passes, faults>> \in Bounds
  /\ chunks \subseteq Chunk
  /\ cursor \in [off : Offsets, line : Nat]
  /\ pass \in [Ingesters -> [pc : {"idle", "cursor", "read", "flush"}, off : Offsets,
                             line : Nat, end : Offsets, endLine : Nat, todo : SUBSET Chunk]]
  /\ {notified, armed, running, gaveUp, disturbed} \subseteq BOOLEAN
  /\ dream \in [on : BOOLEAN, upTo : Offsets, todo : SUBSET (1 .. Len(file))]
  /\ dreamt \subseteq 1 .. Len(file)
  /\ unseen \subseteq 1 .. Len(file)

\* The entry at i has a line of its own.
Whole(i) ==
  /\ i \in 1 .. Len(file) - 1
  /\ file[i] # Newline
  /\ i = 1 \/ file[i - 1] = Newline
  /\ file[i + 1] = Newline

Stored(i) == \E c \in chunks : i \in c.at

\* In a chunk, or replaced by what the model made of it, or by nothing.
Indexed(i) == Stored(i) \/ i \in dreamt \/ i \in unseen

(* Everything before the cursor that was said on a line of its own is in a     *)
(* chunk, however passes overlap, whatever fails in between, and wherever    *)
(* in a line a pass stopped reading: the cursor runs ahead of no chunk, also   *)
(* when a slow pass moves it back.  A dream pass deletes only what the model   *)
(* has answered for, wherever it fails, and what was written since it began.   *)
NothingSkipped ==
  \A i \in 1 .. cursor.off : file[i] = "append" /\ Whole(i) => Indexed(i)

(* No chunk reaches across a reset that has a line of its own: recall never    *)
(* mixes two conversations.                                                    *)
ChunksKeepToSegments ==
  \A c \in chunks : \A i, j \in c.at : \A r \in i .. j : ~(file[r] = "reset" /\ Whole(r))

(* Unless passes have overlapped or one was cut short, no entry is in two      *)
(* chunks: what is recalled is not said twice.                                 *)
NothingTwice ==
  ~disturbed => \A c, d \in chunks : c # d => c.at \cap d.at = {}

(* Again and again, everything that was said on a line of its own is in a      *)
(* chunk, or was replaced, also what was written while the watcher was busy    *)
(* with a pass, or just before the broker went down; unless the watcher's last *)
(* pass has failed and no event has come since, for which alone it would try   *)
(* again.                                                                      *)
IngestCatchesUp ==
  []<>(\/ gaveUp /\ ~notified /\ ~armed
       \/ \A i \in 1 .. Len(file) : file[i] = "append" /\ Whole(i) => Indexed(i))

=============================================================================
