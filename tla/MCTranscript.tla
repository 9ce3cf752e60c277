---------------------------- MODULE MCTranscript ----------------------------
(***************************************************************************)
(* Transcript on a small instance: two writers, the watcher and one tool;  *)
(* Procedural on two directories.                                          *)
(***************************************************************************)
EXTENDS Transcript, Procedural

\* Three entries, one pass of the tool or one dream pass, one crash or failed pass; not all at once.
MCBounds == {b \in (0 .. 3) \X (0 .. 1) \X (0 .. 1) : b[1] + b[2] + b[3] <= 4}

\* Two or three directories of two folders.
Directories == [{"f", "g"} -> {"n", "m", NoFile, Malformed}]
Disks == [1 .. 2 -> Directories] \cup {<<d, d, e>> : d, e \in Directories}

\* Precedence of directories, whatever folders hold and however they are listed.
ASSUME PrecedenceIsKept ==
  \A dirs \in Disks, prompt \in {"authored", "blank"} : FirstDirectoryWins(prompt, dirs)

\* A prompt that is read once is read again.
ASSUME PromptIsStable == \A prompt \in Readable \cup Unreadable : LoadsAgree(prompt)

\* A load writes over no text, except over one that is no UTF-8.
ASSUME OnlyUndecodableIsLost ==
  \A prompt \in Readable \cup Unreadable : KeepsFile(prompt) <=> prompt # "undecodable"
=============================================================================
