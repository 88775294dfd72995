---------------------------- MODULE OwnerLookup ----------------------------
(***************************************************************************)
(* get_owner_by_domain / get_owner_by_file of                              *)
(* server/test-script/unit_test_evaluation_tool.py: the owner of a ranked *)
(* test method or class.  A glob finds the source file(s) by path         *)
(* convention; in the one file found, `grep -n "<declaration>" | awk`     *)
(* prints the number of every matching line, the script deletes the      *)
(* newlines and int()s the rest, asks `git blame -p -L n,n` for that line *)
(* and keeps the last space-separated word of the porcelain author line;  *)
(* three legacy user names are mapped to display names.                   *)
(*                                                                         *)
(* The repository is the input: the number of files the glob finds, the   *)
(* file's length, the lines grep matches and the author git reports.      *)
(***************************************************************************)
EXTENDS Integers, Sequences, SequencesExt, FiniteSets

CONSTANTS
  MaxFiles,       \* most files the glob may find
  MaxLines,       \* longest source file
  MaxMatches,     \* most lines the declaration grep may match
  Authors,        \* author names, each a sequence of space-separated words
  NameMapper,     \* name_mapper: legacy user name -> display name
  Tracked,        \* whether git blames the file: FALSE for an untracked
                  \* file or a checkout that is not a git work tree
  LookupFailed,   \* '获取失败'
  NameCollision,  \* '类名冲突'
  None

ASSUME MaxFiles \in Nat /\ MaxLines \in Nat \ {0} /\ MaxMatches \in Nat
ASSUME \A a \in Authors : a \in Seq(STRING) /\ a # <<>>
ASSUME Tracked \subseteq BOOLEAN

VARIABLES
  pc,       \* "glob", "grep", "blame", "done"
  nfiles,   \* len(dir_find)
  fileLen,  \* lines of the file found
  decl,     \* lines of that file the declaration grep matches
  row,      \* row_number passed to git blame, None before
  blamed,   \* author name git blame reports, None if it reported none
  owner     \* value returned (a name, as its words), None before

vars == <<pc, nfiles, fileLen, decl, row, blamed, owner>>

Init ==
  /\ pc = "glob" /\ nfiles = 0 /\ fileLen = 0 /\ decl = {}
  /\ row = None /\ blamed = None /\ owner = None

\* Decimal digits of n > 0.
RECURSIVE NumDigits(_)
NumDigits(n) == IF n < 10 THEN 1 ELSE 1 + NumDigits(n \div 10)

\* int(out.replace("\n", "")) for the awk output "l1\nl2\n...": the line
\* numbers in increasing order, written one after the other.
GrepRow(lines) ==
  FoldLeft(LAMBDA acc, l : acc * (10 ^ NumDigits(l)) + l, 0,
           SetToSortSeq(lines, <))

\* A name as it is displayed: a legacy user name becomes its display name.
Display(name) ==
  IF Len(name) = 1 /\ name[1] \in DOMAIN NameMapper
  THEN <<NameMapper[name[1]]>> ELSE name

\* owner = readlines()[1].split(" ")[-1], then name_mapper.
MappedOwner(name) == Display(<<Last(name)>>)

-----------------------------------------------------------------------------

\* get_owner_by_domain: the glob; no file, or more than one, is a sentinel.
get_owner_by_domain ==
  /\ pc = "glob"
  /\ \E n \in 0..MaxFiles :
       /\ nfiles' = n
       /\ CASE n = 0 -> owner' = LookupFailed /\ pc' = "done"
            [] n > 1 -> owner' = NameCollision /\ pc' = "done"
            [] OTHER -> pc' = "grep" /\ UNCHANGED owner
  /\ UNCHANGED <<fileLen, decl, row, blamed>>

\* get_owner_by_file, the grep: int("") raises when nothing matched.
QueryRow ==
  /\ pc = "grep"
  /\ \E len \in 1..MaxLines :
       \E d \in {s \in SUBSET (1..len) : Cardinality(s) <= MaxMatches} :
         /\ fileLen' = len /\ decl' = d
         /\ IF d = {} THEN owner' = LookupFailed /\ pc' = "done" /\ UNCHANGED row
                      ELSE row' = GrepRow(d) /\ pc' = "blame" /\ UNCHANGED owner
  /\ UNCHANGED <<nfiles, blamed>>

\* git blame -p -L row,row: it prints nothing past the end of the file or
\* for a file it does not track, and readlines()[1] raises IndexError.
QueryOwner ==
  /\ pc = "blame"
  /\ \E tracked \in Tracked :
       IF row > fileLen \/ ~tracked
       THEN owner' = LookupFailed /\ UNCHANGED blamed
       ELSE \E a \in Authors : blamed' = a /\ owner' = MappedOwner(a)
  /\ pc' = "done"
  /\ UNCHANGED <<nfiles, fileLen, decl, row>>

Next == get_owner_by_domain \/ QueryRow \/ QueryOwner

Spec == Init /\ [][Next]_vars

-----------------------------------------------------------------------------
(* Properties. *)

\* The function's docstring: the owner is the "git owner's name" of the
\* declaration.  So when git blames a line, it is a line holding the
\* declaration grep searched for, and the owner reported is that author's
\* whole name, displayed through name_mapper.
OwnerIsDeclarationAuthor ==
  (pc = "done" /\ blamed # None) => row \in decl /\ owner = Display(blamed)
=============================================================================
