----------------------------- MODULE Procedural -----------------------------
(***************************************************************************)
(* What an agent is told at its start: its prompt and the catalogue of its *)
(* skills (clawshake-memory/src/procedural.rs, src/skills.rs).             *)
(*                                                                         *)
(* prompt.md is the kind of thing that is in it.  A directory of skills is *)
(* a function from its folders to what is in them: the name of a skill,    *)
(* NoFile when there is no SKILL.md, or Malformed when it cannot be read   *)
(* or has no frontmatter with a name and a description.                    *)
(***************************************************************************)
EXTENDS Naturals, SequencesExt, FiniteSetsExt

NoFile == "no file"
Malformed == "malformed"

\* What prompt.md may hold: a text, or none that could be read.
Readable == {"default", "authored"}
Unreadable == {"absent", "blank", "undecodable"}

\* read_md: what it returns, and what the file holds then.  That the default
\* could not be written is ignored.
ReadMd(prompt) ==
  IF prompt \in Readable
  THEN {[system |-> prompt, file |-> prompt]}
  ELSE {[system |-> "default", file |-> left] : left \in {"default", "blank", prompt}}

\* parse_skill_md: whether it gives a skill.
Parses(file) == file \notin {NoFile, Malformed}

\* The folders of the directories, one directory after the other, each in one of
\* the orders in which read_dir may list it.
Listings(dirs) ==
  LET orders == [d \in DOMAIN dirs |-> SetToSeqs(DOMAIN dirs[d])]
      listed == {choice \in [DOMAIN dirs -> UNION Range(orders)] :
                   \A d \in DOMAIN dirs : choice[d] \in orders[d]}
      entry(d, folder) == [name |-> dirs[d][folder], location |-> <<d, folder>>]
  IN {FlattenSeq([d \in DOMAIN dirs |->
        [n \in DOMAIN choice[d] |-> entry(d, choice[d][n])]]) : choice \in listed}

\* A skill whose name is taken is shadowed.
Admit(skills, entry) ==
  IF Parses(entry.name) /\ \A n \in DOMAIN skills : skills[n].name # entry.name
  THEN Append(skills, entry)
  ELSE skills

\* discover: the lists it may return.
Discover(dirs) == {FoldLeft(Admit, <<>>, listing) : listing \in Listings(dirs)}

\* load and render: what the agent may be told.  Headings are left out.
Rendered(prompt, dirs) ==
  {<<read.system>> \o skills : read \in ReadMd(prompt), skills \in Discover(dirs)}
-----------------------------------------------------------------------------
(* What it is meant to be told *)

(* "Earlier directories win on name collision" (skills.rs:64): each name that   *)
(* some directory has is told once, from the first one that has it, in whatever *)
(* order the folders are listed.                                                *)
FirstDirectoryWins(prompt, dirs) ==
  \A told \in Rendered(prompt, dirs) :
    LET skills == Tail(told)
        has(d, name) == name \in Range(dirs[d])
    IN \A name \in {x \in UNION {Range(dirs[d]) : d \in DOMAIN dirs} : Parses(x)} :
         \E n \in DOMAIN skills :
           /\ \A m \in DOMAIN skills : skills[m].name = name <=> m = n
           /\ \A d \in DOMAIN dirs : has(d, name) => skills[n].location[1] <= d

(* Loading again, when nobody has touched the file, tells an agent the same     *)
(* prompt: a seed that failed or was cut short is made up for.                  *)
LoadsAgree(prompt) ==
  \A first \in ReadMd(prompt) : \A second \in ReadMd(first.file) :
    second.system = first.system

(* "If the file is absent or empty, seeds it" (procedural.rs:103): what the     *)
(* owner wrote stays.  It does not when it is no UTF-8: the code seeds whatever *)
(* it could not read.                                                           *)
KeepsFile(prompt) ==
  prompt \in {"absent", "blank"} \/ \A read \in ReadMd(prompt) : read.file = prompt
=============================================================================
