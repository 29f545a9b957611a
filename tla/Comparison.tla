----------------------------- MODULE Comparison -----------------------------
(***************************************************************************)
(* Another process compares the tree of the run (compare.py) while the     *)
(* runner may be writing it: _load digests the tree, reads result.json and *)
(* digests the tree again.  A digest is taken file by file, of the files   *)
(* that were there when it began, here in any order; here it is what was   *)
(* read.  The other side of the comparison is loaded the same way and is   *)
(* taken as given.                                                         *)
(***************************************************************************)
EXTENDS Runner

CONSTANTS
  Digested,       \* bound: the files that a digest looks at, the result among
                  \* them; one it leaves out only makes it miss changes
  MaxComparisons  \* bound

ASSUME ComparisonAssumption ==
  "result" \in Digested /\ Digested \subseteq Files /\ MaxComparisons \in Nat

VARIABLES
  cpc,          \* where _load is
  comparisons,  \* number of comparisons started
  listed,       \* the files a digest has still to read
  digest,       \* what it has read
  before,       \* the digest before the read, or Absent
  data,         \* what was read from result.json
  prior         \* ghost: the runs that had ended when it began

loadVars == <<cpc, comparisons, listed, digest, before, data, prior>>
allVars == <<vars, loadVars>>

Listed == {f \in Digested : tree[f] # Absent}
Nothing == [f \in {} |-> Absent]

InitAll ==
  /\ Init
  /\ cpc = "idle" /\ comparisons = 0 /\ listed = {} /\ digest = Nothing
  /\ before = Absent /\ data = Absent /\ prior = 0

Begin(phase) == cpc' = phase /\ listed' = Listed /\ digest' = Nothing

LoadStarts ==
  /\ cpc = "idle" /\ comparisons < MaxComparisons /\ comparisons' = comparisons + 1
  /\ Begin("before") /\ before' = Absent /\ data' = Absent
  /\ prior' = IF rpc \in {"idle", "done"} THEN run ELSE run - 1
  /\ UNCHANGED vars

DigestsFile ==
  /\ cpc \in {"before", "after"} /\ listed # {}
  /\ \E f \in listed :
       /\ digest' = [x \in DOMAIN digest \union {f} |->
                       IF x = f THEN tree[f] ELSE digest[x]]
       /\ listed' = listed \ {f}
  /\ UNCHANGED <<vars, cpc, comparisons, before, data, prior>>

\* A result that does not exist or does not parse raises.
Reads ==
  /\ cpc = "before" /\ listed = {}
  /\ before' = digest /\ data' = tree["result"]
  /\ cpc' = IF tree["result"] \in {Absent, Partial} THEN "raised" ELSE "read"
  /\ UNCHANGED <<vars, comparisons, listed, digest, prior>>

DigestsAgain ==
  /\ cpc = "read" /\ Begin("after")
  /\ UNCHANGED <<vars, comparisons, before, data, prior>>

NoSecondLook == TRUE                   \* mutant: the digests are not compared
Unchanged == before = digest

LoadEnds ==
  /\ cpc = "after" /\ listed = {}
  /\ cpc' = IF Unchanged THEN "compared" ELSE "mutated"
  /\ UNCHANGED <<vars, comparisons, listed, digest, before, data, prior>>

\* The caller takes the outcome.
LoadReturns ==
  /\ cpc \in {"compared", "mutated", "raised"} /\ cpc' = "idle"
  /\ listed' = {} /\ digest' = Nothing /\ before' = Absent /\ data' = Absent
  /\ prior' = 0
  /\ UNCHANGED <<vars, comparisons>>

Load == LoadReturns \/ LoadStarts \/ DigestsFile \/ Reads \/ DigestsAgain \/ LoadEnds

NextAll == Load \/ (Next /\ UNCHANGED loadVars)

SpecAll == InitAll /\ [][NextAll]_allVars

-----------------------------------------------------------------------------
\* However a repetition of the run rewrites the tree meanwhile, what is compared
\* is the result whose digest is reported, and never a file that is being
\* written (compare.py:11-28, 101-104).  Two repetitions during one comparison
\* can undo each other's change between the digests; they are excepted.
ComparesWhatItDigests ==
  cpc = "compared" /\ run <= prior + 1 =>
    "result" \in DOMAIN before /\ data = before["result"] /\ data # Partial

=============================================================================
