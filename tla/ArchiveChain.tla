---------------------------- MODULE ArchiveChain ----------------------------
(***************************************************************************)
(* The verifier a parent runs over the archive files saved from the weekly *)
(* emails (verify_chain of core/backup.py, tools/verify_backup_chain.py).  *)
(*                                                                         *)
(* A file is a record: its digest sha, its backup date, the digest prev of *)
(* its predecessor, and its history, the status of every earlier backup    *)
(* record (by digest) when the file was built.  The tool reads the files   *)
(* in the order of their names, which is the order of their dates.         *)
(***************************************************************************)
EXTENDS Integers, FiniteSets

CONSTANT None

Genesis(files)       == {f \in files : f.prev = None}
Successors(files, f) == {g \in files : g.prev = f.sha}

(* What the embedded histories say of a digest: the latest file that       *)
(* mentions it has the last word.                                          *)
Corroborated(files, sha) ==
  LET mentions == {f \in files : sha \in DOMAIN f.history}
      latest   == CHOOSE f \in mentions : \A g \in mentions : g.date <= f.date
  IN  IF mentions = {} THEN None ELSE latest.history[sha]

Dead(files, f) == Corroborated(files, f.sha) \notin {None, "submitted"}

(* The file the walk goes to from f, as a set with at most one element: an *)
(* only successor, or the one successor no later history declares dead.    *)
Onward(files, f) ==
  LET next  == Successors(files, f)
      alive == {g \in next : ~Dead(files, g)}
  IN  IF Cardinality(next) = 1 THEN next
      ELSE IF Cardinality(alive) = 1 THEN alive ELSE {}

UnexplainedFork(files, f) == Successors(files, f) # {} /\ Onward(files, f) = {}

Chain(files) ==
  LET reached[n \in 0..Cardinality(files)] ==
        IF n = 0 THEN Genesis(files)
        ELSE reached[n - 1] \cup UNION {Onward(files, f) : f \in reached[n - 1]}
  IN  reached[Cardinality(files)]

(* Wrong: files the walk never met are not looked at. *)
NothingLeftOver(files) == TRUE

NoUnexplainedFile(files) ==
  \A f \in files : f \in Chain(files) \/ Dead(files, f)

Verifies(files) ==
  /\ Cardinality(Genesis(files)) = 1
  /\ \A f \in Chain(files) : ~UnexplainedFork(files, f)
  /\ NoUnexplainedFile(files)
=============================================================================
