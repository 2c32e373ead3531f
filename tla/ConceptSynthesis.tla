-------------------------- MODULE ConceptSynthesis --------------------------
(***************************************************************************)
(* The synthesis of one canonical-name group and the synthesize_concept    *)
(* jobs that write it.  A job takes a session-level advisory lock through  *)
(* its process's pool, lists the slices of all concepts of the group,      *)
(* compares them with the synthesis, calls the LLM outside of any          *)
(* transaction, replaces the row, and releases the lock through the pool   *)
(* again.  PostgreSQL grants the lock to the session that has it once      *)
(* more and counts; which connection the pool hands out is its own affair. *)
(* A refinement that has settled on the group's name takes the same lock.  *)
(*                                                                         *)
(* The text of a slice is its edition: 1 when it is opened, 2 when it has  *)
(* been rewritten since.                                                   *)
(***************************************************************************)
EXTENDS Naturals, Sequences, FiniteSets

CONSTANTS
    Procs,       \* the processes that run workers
    Folders,     \* their synthesize_concept workers
    Refiners,    \* their refine_concepts workers
    Conns,       \* the connections of their pools
    Home,        \* the process of each worker and connection
    NoConn,
    GroupConcepts,    \* the concepts of the group, one per context
    MaxSlices,   \* bound on the slices of the group
    MaxDepth,    \* bound on how many times a session takes the lock
    MaxFaults    \* bound on failing calls, crashes and closed connections

Workers == Folders \cup Refiners

ASSUME HomeAssumption == Home \in [Workers \cup Conns -> Procs]
ASSUME NoConnAssumption == NoConn \notin Conns
ASSUME FoldersAssumption == IsFiniteSet(Workers)
ASSUME BoundsAssumption == {MaxSlices, MaxDepth, MaxFaults} \subseteq Nat

VARIABLES
    slices,      \* the rows of concept_summaries: concept, complete, edition
    folded,      \* the edition of each slice in the synthesis, 0 for none
    folds,       \* the jobs that wait
    holder,      \* the connection that has the lock, or NoConn,
    depth,       \* and how many times
    work,        \* what each worker is at, and the editions it has listed
    dropped,     \* whether a job has found the lock held, or was discarded
    overlapped,  \* whether two folds have been under way at a time
    closed,      \* whether a connection was closed that had the lock
    mishaps      \* how much of MaxFaults is used

vars == <<slices, folded, folds, holder, depth, work, dropped, overlapped,
          closed, mishaps>>

Numbers == 1..MaxSlices
Rows == DOMAIN slices
CompleteRows == {n \in Rows : slices[n].complete}
RowsOf(k) == {n \in Rows : slices[n].of = k}
Covered == {n \in Numbers : folded[n] > 0}

Nothing == [n \in Numbers |-> 0]
Idle == [pc |-> "idle", seen |-> Nothing]

Mishap == mishaps < MaxFaults /\ mishaps' = mishaps + 1
Smooth == mishaps' = mishaps

(* A worker that believes it has the lock.                                 *)
Holding(w) == work[w].pc \in {"listing", "call", "release", "refining"}
Folding(w) == w \in Folders /\ Holding(w)

-----------------------------------------------------------------------------
(* summarize_concepts writes a slice of concept k: it rewrites the open    *)
(* slice or completes it, or adds a slice, which stays open only as the    *)
(* first of its concept.  A pass that has completed one asks for a         *)
(* synthesis.                                                              *)
AddSlice(k, complete) ==
    /\ Len(slices) < MaxSlices
    /\ RowsOf(k) \subseteq CompleteRows
    /\ complete \/ RowsOf(k) = {}
    /\ slices' = Append(slices,
                        [of |-> k, complete |-> complete, edition |-> 1])

RewriteSlice(n, complete) ==
    /\ ~slices[n].complete
    /\ slices' = [slices EXCEPT ![n].edition = 2, ![n].complete = complete]

WriteSlice(complete) ==
    /\ \/ \E k \in GroupConcepts : AddSlice(k, complete)
       \/ \E n \in Rows : RewriteSlice(n, complete)
    /\ folds' = IF complete THEN folds + 1 ELSE folds
    /\ UNCHANGED <<folded, holder, depth, work, dropped, overlapped, closed,
                   mishaps>>

-----------------------------------------------------------------------------
(* The lock                                                                *)

(* mutant: the lock belongs to nobody.                                     *)
LockAlwaysFree(c) == TRUE
(* pg_try_advisory_lock on connection c.                                   *)
LockFree(c) == holder \in {NoConn, c}

Lock(c) == depth < MaxDepth /\ holder' = c /\ depth' = depth + 1

(* mutant: the release counts, whoever has the lock.                       *)
UnlockAny(c) == /\ depth' = depth - 1
                /\ holder' = IF depth = 1 THEN NoConn ELSE holder
(* pg_advisory_unlock on connection c: a warning when c has it not.        *)
Unlock(c) ==
    IF holder = c
      THEN /\ depth' = depth - 1
           /\ holder' = IF depth = 1 THEN NoConn ELSE holder
      ELSE UNCHANGED <<holder, depth>>

Take(w, c) ==
    /\ w \in Folders /\ work[w].pc = "idle" /\ folds > 0
    /\ LockFree(c) /\ Lock(c)
    /\ folds' = folds - 1
    /\ work' = [work EXCEPT ![w].pc = "listing"]
    /\ overlapped' = (overlapped \/ \E v \in Workers : Folding(v))
    /\ UNCHANGED <<slices, folded, dropped, closed, mishaps>>

(* The job ends as done, without an error that would have it retried.      *)
Refused(w, c) ==
    /\ w \in Folders /\ work[w].pc = "idle" /\ folds > 0
    /\ \/ ~LockFree(c) /\ Smooth
       \/ Mishap
    /\ folds' = folds - 1
    /\ dropped' = TRUE
    /\ UNCHANGED <<slices, folded, holder, depth, work, overlapped, closed>>

(* refineOneCandidate, its candidate's canonical name being the group's.   *)
TakeToRefine(w, c) ==
    /\ w \in Refiners /\ work[w].pc = "idle"
    /\ LockFree(c) /\ Lock(c)
    /\ work' = [work EXCEPT ![w].pc = "refining"]
    /\ UNCHANGED <<slices, folded, folds, dropped, overlapped, closed,
                   mishaps>>

(* The deferred release, of a fold or a refinement.                        *)
Release(w, c) ==
    /\ work[w].pc \in {"release", "refining"}
    /\ Unlock(c)
    /\ work' = [work EXCEPT ![w] = Idle]
    /\ UNCHANGED <<slices, folded, folds, dropped, overlapped, closed,
                   mishaps>>

(* The pool closes a connection that is idle or old, whatever it has.      *)
Close(c) ==
    /\ holder = c
    /\ Mishap
    /\ holder' = NoConn /\ depth' = 0 /\ closed' = TRUE
    /\ UNCHANGED <<slices, folded, folds, work, dropped, overlapped>>

-----------------------------------------------------------------------------
(* The fold                                                                *)

(* mutant: only the slices that the synthesis has not are listed.          *)
ListedNew == [n \in Numbers |-> IF n \in Rows \ Covered
                                  THEN slices[n].edition ELSE 0]
(* ListSummariesByCanonicalNameGroup: open slices too.                     *)
Listed == [n \in Numbers |-> IF n \in Rows THEN slices[n].edition ELSE 0]

(* mutant: a synthesis that covers any of the slices covers them all.      *)
CoversSome == Covered \cap Rows # {}
CoversAll == Rows \subseteq Covered

(* The group's concepts and its synthesis are read along with the slices:  *)
(* both change by other folds only.                                        *)
List(w) ==
    /\ work[w].pc = "listing"
    /\ work' = [work EXCEPT
         ![w].pc = IF Rows = {} \/ (Covered # {} /\ CoversAll)
                     THEN "release" ELSE "call",
         ![w].seen = Listed]
    /\ UNCHANGED <<slices, folded, folds, holder, depth, dropped, overlapped,
                   closed, mishaps>>

(* The LLM answers, and UpsertSynthesis replaces the row.                  *)
Write(w) ==
    /\ work[w].pc = "call"
    /\ folded' = work[w].seen
    /\ work' = [work EXCEPT ![w].pc = "release"]
    /\ UNCHANGED <<slices, folds, holder, depth, dropped, overlapped, closed,
                   mishaps>>

(* Of n jobs that have not ended well, River runs some again and discards  *)
(* those that had their last attempt.                                      *)
Retried(n) ==
    \E again \in 0..n : /\ folds' = folds + again
                        /\ dropped' = (dropped \/ again < n)

(* A read, the call or the write fails.                                    *)
Fails(w) ==
    /\ work[w].pc \in {"listing", "call"}
    /\ Mishap
    /\ Retried(1)
    /\ work' = [work EXCEPT ![w].pc = "release"]
    /\ UNCHANGED <<slices, folded, holder, depth, overlapped, closed>>

(* The sessions of the process end with it; its jobs are rescued.          *)
Crash(p) ==
    LET gone == {w \in Workers : Home[w] = p /\ work[w].pc # "idle"}
    IN  /\ Mishap
        /\ gone # {}
        /\ work' = [w \in Workers |-> IF w \in gone THEN Idle ELSE work[w]]
        /\ Retried(Cardinality({w \in gone : w \in Folders}))
        /\ IF holder # NoConn /\ Home[holder] = p
             THEN holder' = NoConn /\ depth' = 0
             ELSE UNCHANGED <<holder, depth>>
        /\ UNCHANGED <<slices, folded, overlapped, closed>>

-----------------------------------------------------------------------------
Init ==
    /\ slices = <<>>
    /\ folded = Nothing /\ folds = 0
    /\ holder = NoConn /\ depth = 0
    /\ work = [w \in Workers |-> Idle]
    /\ dropped = FALSE /\ overlapped = FALSE /\ closed = FALSE /\ mishaps = 0

OwnConns(w) == {c \in Conns : Home[c] = Home[w]}

Fold(w) == List(w) \/ Write(w) \/ Fails(w)

Next ==
    \/ \E complete \in BOOLEAN : WriteSlice(complete)
    \/ \E w \in Workers : \/ Fold(w)
                          \/ \E c \in OwnConns(w) :
                                \/ Take(w, c) \/ Refused(w, c)
                                \/ TakeToRefine(w, c) \/ Release(w, c)
    \/ \E c \in Conns : Close(c)
    \/ \E p \in Procs : Crash(p)

Spec == Init /\ [][Next]_vars

-----------------------------------------------------------------------------
(* Properties                                                              *)

SliceRow == [of : GroupConcepts, complete : BOOLEAN, edition : 1..2]
Work == [pc : {"idle", "listing", "call", "release", "refining"},
         seen : [Numbers -> 0..2]]

TypeOK ==
    /\ slices \in Seq(SliceRow) /\ Len(slices) <= MaxSlices
    /\ folded \in [Numbers -> 0..2] /\ folds \in Nat
    /\ holder \in Conns \cup {NoConn} /\ depth \in 0..MaxDepth
    /\ (holder = NoConn) = (depth = 0)
    /\ work \in [Workers -> Work]
    /\ {dropped, overlapped, closed} \subseteq BOOLEAN
    /\ mishaps \in 0..MaxFaults

(* The lock keeps the processes apart, though it is not always taken and   *)
(* released on one connection: as long as no connection that has it is     *)
(* closed, those who believe they have it are of one process.              *)
FoldsOfOneProcess ==
    ~closed => \A v, w \in Workers :
                    Holding(v) /\ Holding(w) => Home[v] = Home[w]

(* A synthesis covers whatever the one that it replaces has covered: the   *)
(* row is replaced, not added to, and every fold lists the whole group.    *)
(* Of two folds at a time the one that has listed less may be the last.    *)
NothingUnfolded ==
    [][overlapped \/ Covered \subseteq Covered']_vars

Settled == folds = 0 /\ \A w \in Folders : work[w].pc = "idle"

(* When every job has been served, one at a time, and none was refused the *)
(* lock or discarded, the synthesis covers every complete slice: a job     *)
(* that is satisfied by the synthesis it finds leaves nothing out.         *)
EverySliceFolded ==
    Settled /\ ~dropped /\ ~overlapped => CompleteRows \subseteq Covered

(* The synthesis is regenerated whenever a concept of the group gets a new *)
(* or updated slice (0028_concept_syntheses.up.sql): when all is done, and *)
(* no job was dropped, it has the text of every complete slice.            *)
SynthesisFresh ==
    Settled /\ ~dropped /\ ~overlapped =>
        \A n \in CompleteRows : folded[n] = slices[n].edition
=============================================================================
